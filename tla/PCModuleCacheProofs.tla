------------------------- MODULE PCModuleCacheProofs -------------------------
(***************************************************************************)
(* Proofs about PCModuleCache, for any processes, modules, imports, caches *)
(* and crashes: its variables keep their types; a module that a running    *)
(* process builds is locked by that process; what an instance keeps was    *)
(* built from current headers; processes never wait for each other in a    *)
(* circle if modules do not import each other in one.  If nothing in the   *)
(* cache is stale or broken at the start, an import that fails is an       *)
(* error, and nothing with errors is ever cached; if builds do not crash   *)
(* either, what has failed once is not built again, and the imports of     *)
(* good modules succeed.                                                   *)
(***************************************************************************)
EXTENDS PCModuleCacheProperties, SequenceLemmas, FiniteSetTheorems, TLAPS

(* An instance that is busy with an import has one left to handle, and the  *)
(* main program never gets to the end of a nested build.                    *)
Busy == {"compile", "wait", "compiled", "read", "outofdate"}

GoodInstances ==
  {f \in Instances : /\ f.pc \in Busy => f.todo # << >>
                     /\ f.pc = "unlock" => f.pcm # Main}

(* The stack of a process: the main program at the bottom, above it nested  *)
(* builds.                                                                  *)
StackOK(s) == s # << >> /\ \A k \in 1 .. Len(s) : s[k].pcm = Main <=> k = 1

(* What the instances of a process build is locked by the process.          *)
Locked(p) == \A k \in 2 .. Len(stack[p]) : lock[stack[p][k].pcm] = p

(* The module build stack has no module twice, so that the end of one build *)
(* does not unlock the module of another.                                   *)
NoRepeats(p) ==
  \A j, k \in 2 .. Len(stack[p]) : stack[p][j].pcm = stack[p][k].pcm => j = k

IInv ==
  /\ TypeOK
  /\ stack \in [Procs -> Seq(GoodInstances)]
  /\ \A p \in Procs : StackOK(stack[p])
  /\ \A p \in Procs : alive[p] => Locked(p) /\ NoRepeats(p)

-----------------------------------------------------------------------------
(* The innermost instance.                                                  *)
LEMMA TopFacts ==
  ASSUME IInv, NEW p \in Procs
  PROVE  /\ Top(p) \in GoodInstances
         /\ Top(p) \in Instances
         /\ Len(stack[p]) \in Nat \ {0}
         /\ Top(p) = stack[p][Len(stack[p])]
         /\ Top(p).pcm \in PCModules \cup {Main}
         /\ Top(p).todo \in Seq(PCModules)
<1>1. stack[p] \in Seq(GoodInstances) /\ stack[p] # << >>
  BY DEF IInv, StackOK
<1>2. /\ Top(p) \in GoodInstances
      /\ Len(stack[p]) \in Nat \ {0}
      /\ Top(p) = stack[p][Len(stack[p])]
  BY <1>1, LastFront DEF Top
<1>3. Top(p) \in Instances
  BY <1>2 DEF GoodInstances
<1> QED BY <1>2, <1>3 DEF Instances

(* What it imports, when it has something left to import.                   *)
LEMMA ImportedFacts ==
  ASSUME IInv, NEW p \in Procs, Top(p).todo # << >>
  PROVE  /\ Imported(p) \in PCModules
         /\ Tail(Top(p).todo) \in Seq(PCModules)
<1>1. Top(p).todo \in Seq(PCModules)
  BY TopFacts
<1> QED BY <1>1 DEF Imported

(* Replacing the innermost instance by one of the same module.              *)
LEMMA SetTopFacts ==
  ASSUME IInv, NEW p \in Procs, NEW f \in GoodInstances, f.pcm = Top(p).pcm,
         SetTop(p, f)
  PROVE  /\ stack' \in [Procs -> Seq(GoodInstances)]
         /\ \A q \in Procs : /\ Len(stack'[q]) = Len(stack[q])
                             /\ stack'[q] # << >>
                             /\ \A k \in 1 .. Len(stack[q]) :
                                  stack'[q][k].pcm = stack[q][k].pcm
<1>1. PICK s : s = stack[p]
  OBVIOUS
<1>2. PICK r : r = Append(Front(s), f)
  OBVIOUS
<1>3. s \in Seq(GoodInstances) /\ s # << >> /\ stack \in [Procs -> Seq(GoodInstances)]
  BY <1>1 DEF IInv, StackOK
<1>4. stack' = [stack EXCEPT ![p] = r]
  BY <1>1, <1>2 DEF SetTop
<1>5. /\ Len(s) \in Nat \ {0}
      /\ Last(s) = s[Len(s)]
      /\ Front(s) \in Seq(GoodInstances)
      /\ Len(Front(s)) = Len(s) - 1
      /\ \A i \in 1..Len(s) - 1 : Front(s)[i] = s[i]
  BY <1>3, LastFront
<1>6. /\ r \in Seq(GoodInstances)
      /\ r # << >>
      /\ Len(r) = Len(Front(s)) + 1
      /\ \A i \in 1..Len(Front(s)) : r[i] = Front(s)[i]
      /\ r[Len(Front(s)) + 1] = f
  BY <1>2, <1>5, AppendLast
<1>7. Len(r) = Len(s) /\ r[Len(s)] = f /\ \A i \in 1..Len(s) - 1 : r[i] = s[i]
  BY <1>5, <1>6
<1>8. \A k \in 1 .. Len(s) : r[k].pcm = s[k].pcm
  <2>1. f.pcm = s[Len(s)].pcm
    BY <1>1, <1>5 DEF Top
  <2>2. TAKE k \in 1 .. Len(s)
  <2>3. k = Len(s) \/ k \in 1 .. Len(s) - 1
    BY <1>5
  <2> QED BY <1>7, <2>1, <2>3
<1>9. stack' \in [Procs -> Seq(GoodInstances)]
  BY <1>3, <1>4, <1>6
<1>10. \A q \in Procs : stack'[q] = IF q = p THEN r ELSE stack[q]
  BY <1>3, <1>4
<1>11. \A q \in Procs : stack[q] # << >>
  BY DEF IInv, StackOK
<1> QED BY <1>1, <1>6, <1>7, <1>8, <1>9, <1>10, <1>11

(* Good instances are instances, of which the stacks are made.              *)
LEMMA StackType ==
  ASSUME NEW st \in [Procs -> Seq(GoodInstances)],
         \A q \in Procs : st[q] # << >>
  PROVE  st \in [Procs -> Seq(Instances) \ {<< >>}]
<1>1. GoodInstances \subseteq Instances
  BY DEF GoodInstances
<1>2. Seq(GoodInstances) \subseteq Seq(Instances)
  BY <1>1
<1> QED BY <1>2

(* A step of p that replaces its innermost instance and takes no lock       *)
(* keeps the invariant, if it keeps the types of the other variables.       *)
LEMMA SetTopStep ==
  ASSUME IInv, NEW p \in Procs, NEW f \in GoodInstances, f.pcm = Top(p).pcm,
         SetTop(p, f), UNCHANGED <<program, broken, lock>>,
         file' \in [PCModules -> Content \cup {Absent}],
         allocated' \in [Procs -> BOOLEAN], failed' \in [Procs -> SUBSET PCModules],
         alive' \in [Procs -> BOOLEAN], failedBuilds' \in [Procs -> SUBSET PCModules],
         \A q \in Procs : alive'[q] => alive[q]
  PROVE  IInv'
<1>1. /\ stack' \in [Procs -> Seq(GoodInstances)]
      /\ \A q \in Procs : /\ Len(stack'[q]) = Len(stack[q])
                          /\ stack'[q] # << >>
                          /\ \A k \in 1 .. Len(stack[q]) :
                               stack'[q][k].pcm = stack[q][k].pcm
  BY SetTopFacts
<1>2. \A q \in Procs : Len(stack[q]) \in Nat
  BY TopFacts
<1>3. TypeOK'
  <2>1. stack' \in [Procs -> Seq(Instances) \ {<< >>}]
    BY <1>1, StackType
  <2> QED BY <2>1 DEF IInv, TypeOK
<1>4. \A q \in Procs : StackOK(stack'[q])
  <2>1. TAKE q \in Procs
  <2>2. \A k \in 1 .. Len(stack[q]) : stack[q][k].pcm = Main <=> k = 1
    BY DEF IInv, StackOK
  <2>3. /\ Len(stack'[q]) = Len(stack[q]) /\ stack'[q] # << >>
        /\ \A k \in 1 .. Len(stack[q]) : stack'[q][k].pcm = stack[q][k].pcm
    BY <1>1
  <2> QED BY <2>2, <2>3 DEF StackOK
<1>5. \A q \in Procs : alive'[q] => Locked(q)' /\ NoRepeats(q)'
  <2>1. TAKE q \in Procs
  <2>2. HAVE alive'[q]
  <2>3. Locked(q) /\ NoRepeats(q)
    BY <2>2 DEF IInv
  <2>4. \A k \in 2 .. Len(stack[q]) : stack'[q][k].pcm = stack[q][k].pcm
    BY <1>1, <1>2
  <2>5. Len(stack'[q]) = Len(stack[q])
    BY <1>1
  <2> QED BY <2>3, <2>4, <2>5 DEF Locked, NoRepeats
<1> QED BY <1>1, <1>3, <1>4, <1>5 DEF IInv

-----------------------------------------------------------------------------
(* What the operations on an instance preserve.                             *)
LEMMA StatFacts ==
  ASSUME NEW f \in Instances, NEW m \in PCModules
  PROVE  Stat(f, m) \in {"found", "missing"}
<1>1. f.fileMgr[m] \in {"unseen", "found", "missing"}
  BY DEF Instances
<1> QED BY <1>1 DEF Stat

(* A field of an instance may change, module, imports and pc apart.         *)
Keeps(f, g) == g \in Instances /\ g.pcm = f.pcm /\ g.pc = f.pc /\ g.todo = f.todo

LEMMA LookedFacts ==
  ASSUME NEW f \in Instances, NEW m \in PCModules
  PROVE  Keeps(f, Looked(f, m))
<1>1. PICK s \in {"found", "missing"} : s = Stat(f, m)
  BY StatFacts
<1>2. PICK fm : fm = [f.fileMgr EXCEPT ![m] = s]
  OBVIOUS
<1>3. fm \in [PCModules -> {"unseen", "found", "missing"}]
  BY <1>2 DEF Instances
<1>4. PICK g : g = [f EXCEPT !.fileMgr = fm]
  OBVIOUS
<1>5. Keeps(f, g)
  BY <1>3, <1>4 DEF Instances, Keeps
<1>6. Looked(f, m) = g
  BY <1>1, <1>2, <1>4 DEF Looked
<1> QED BY <1>5, <1>6

LEMMA KnownFacts ==
  ASSUME NEW f \in Instances, NEW m \in PCModules,
         NEW s \in {"unknown", "module", "null"}
  PROVE  Keeps(f, [f EXCEPT !.known[m] = s])
  BY DEF Instances, Keeps

LEMMA FailingFacts ==
  ASSUME NEW f \in Instances
  PROVE  Keeps(f, Failing(f))
  BY DEF Instances, Keeps, Failing

LEMMA RolledBackFacts ==
  ASSUME NEW f \in Instances
  PROVE  Keeps(f, RolledBack(f))
<1>1. PICK l : l = [i \in PCModules |-> IF i \in f.fresh THEN Absent ELSE f.loaded[i]]
  OBVIOUS
<1>2. l \in [PCModules -> Content \cup {Absent}]
  BY <1>1 DEF Instances
<1>3. RolledBack(f) = [f EXCEPT !.loaded = l]
  BY <1>1 DEF RolledBack
<1> QED BY <1>2, <1>3 DEF Instances, Keeps

LEMMA AnsweredFacts ==
  ASSUME NEW f \in Instances, f.todo # << >>
  PROVE  Answered(f) \in GoodInstances /\ Answered(f).pcm = f.pcm
<1>1. PICK t : t = Tail(f.todo)
  OBVIOUS
<1>2. t \in Seq(PCModules)
  BY <1>1 DEF Instances
<1>3. Answered(f) = [f EXCEPT !.todo = t, !.pc = "run", !.reading = << >>,
                              !.fresh = {}, !.retry = FALSE]
  BY <1>1 DEF Answered
<1>4. PICK g : g = [f EXCEPT !.todo = t, !.pc = "run", !.retry = FALSE]
  OBVIOUS
<1>5. g \in Instances /\ g.pc = "run" /\ g.pcm = f.pcm
  BY <1>2, <1>4 DEF Instances
<1>6. PICK r : r = << >> /\ r \in Seq(Pending)
  <2>1. << >> \in Seq(Pending)
    OBVIOUS
  <2> QED BY <2>1
<1>7. PICK h : h = [g EXCEPT !.reading = r, !.fresh = {}]
  OBVIOUS
<1>8. h \in Instances /\ h.pc = "run" /\ h.pcm = f.pcm
  BY <1>5, <1>6, <1>7 DEF Instances
<1>9. Answered(f) = h
  BY <1>3, <1>4, <1>6, <1>7
<1> QED BY <1>8, <1>9 DEF GoodInstances, Busy

LEMMA StartReadASTFacts ==
  ASSUME NEW f \in Instances, NEW m \in PCModules, f.todo # << >>
  PROVE  StartReadAST(f, m) \in GoodInstances /\ StartReadAST(f, m).pcm = f.pcm
<1>1. PICK r : r = << [op |-> "open", pcm |-> m] >>
  OBVIOUS
<1>2. r \in Seq(Pending)
  BY <1>1 DEF Pending
<1>3. StartReadAST(f, m) = [f EXCEPT !.pc = "read", !.reading = r, !.fresh = {}]
  BY <1>1 DEF StartReadAST
<1>4. /\ StartReadAST(f, m) \in Instances /\ StartReadAST(f, m).todo = f.todo
      /\ StartReadAST(f, m).pc = "read" /\ StartReadAST(f, m).pcm = f.pcm
  BY <1>2, <1>3 DEF Instances
<1> QED BY <1>4 DEF GoodInstances, Busy

(* The instance goes to another step of the same import.                    *)
LEMMA GotoFacts ==
  ASSUME NEW f \in Instances, f.todo # << >>, NEW c \in Busy
  PROVE  /\ [f EXCEPT !.pc = c] \in GoodInstances
         /\ [f EXCEPT !.pc = c].pcm = f.pcm
  BY DEF Instances, GoodInstances, Busy

-----------------------------------------------------------------------------
(* Steps that change nothing but the innermost instance.                    *)
LEMMA QuietStep ==
  ASSUME IInv, NEW p \in Procs, NEW f \in GoodInstances, f.pcm = Top(p).pcm,
         SetTop(p, f),
         UNCHANGED <<program, broken, file, lock, allocated, failed, alive, failedBuilds>>
  PROVE  IInv'
<1>1. /\ file' \in [PCModules -> Content \cup {Absent}]
      /\ allocated' \in [Procs -> BOOLEAN] /\ failed' \in [Procs -> SUBSET PCModules]
      /\ alive' \in [Procs -> BOOLEAN] /\ failedBuilds' \in [Procs -> SUBSET PCModules]
  BY DEF IInv, TypeOK
<1>2. UNCHANGED <<program, broken, lock>> /\ \A q \in Procs : alive'[q] => alive[q]
  OBVIOUS
<1> QED BY <1>1, <1>2, SetTopStep

(* An instance that is busy with an import.                                 *)
LEMMA BusyFacts ==
  ASSUME IInv, NEW p \in Procs, Top(p).pc \in Busy
  PROVE  /\ Top(p).todo # << >>
         /\ Imported(p) \in PCModules
<1>1. Top(p).todo # << >>
  BY TopFacts DEF GoodInstances
<1> QED BY <1>1, ImportedFacts

LEMMA ImportKnownStep == ASSUME IInv, NEW p \in Procs, ImportKnown(p) PROVE IInv'
<1>1. PICK f : f = Top(p)
  OBVIOUS
<1>2. PICK m : m = Imported(p)
  OBVIOUS
<1>3. f \in Instances /\ f.todo # << >> /\ m \in PCModules
  BY <1>1, <1>2, TopFacts, ImportedFacts DEF ImportKnown, Importing
<1>4. PICK k : k = IF f.known[m] = "unknown" THEN "module" ELSE f.known[m]
  OBVIOUS
<1>5. k \in {"unknown", "module", "null"}
  BY <1>3, <1>4 DEF Instances
<1>6. PICK g : g = [f EXCEPT !.known[m] = k]
  OBVIOUS
<1>7. Keeps(f, g)
  BY <1>3, <1>5, <1>6, KnownFacts
<1>8. [f EXCEPT !.known[m] = IF @ = "unknown" THEN "module" ELSE @] = g
  BY <1>4, <1>6
<1>9. SetTop(p, Answered(g))
  BY <1>1, <1>2, <1>8 DEF ImportKnown
<1>10. g \in Instances /\ g.todo # << >> /\ g.pcm = Top(p).pcm
  BY <1>1, <1>3, <1>7 DEF Keeps
<1>11. Answered(g) \in GoodInstances /\ Answered(g).pcm = Top(p).pcm
  BY <1>10, AnsweredFacts
<1> QED BY <1>9, <1>11, QuietStep DEF ImportKnown

(* loadPCModule finds the file, at once or after compilePCModule.           *)
LEMMA StartStep ==
  ASSUME IInv, NEW p \in Procs, Top(p).todo # << >>,
         SetTop(p, StartReadAST(Looked(Top(p), Imported(p)), Imported(p))),
         UNCHANGED <<program, broken, file, lock, allocated, failed, alive, failedBuilds>>
  PROVE  IInv'
<1>1. Top(p) \in Instances /\ Imported(p) \in PCModules
  BY TopFacts, ImportedFacts
<1>2. PICK g : g = Looked(Top(p), Imported(p))
  OBVIOUS
<1>3. g \in Instances /\ g.todo # << >> /\ g.pcm = Top(p).pcm
  BY <1>1, <1>2, LookedFacts DEF Keeps
<1>4. /\ StartReadAST(g, Imported(p)) \in GoodInstances
      /\ StartReadAST(g, Imported(p)).pcm = Top(p).pcm
  BY <1>1, <1>3, StartReadASTFacts
<1> QED BY <1>2, <1>4, QuietStep

LEMMA FailStep ==
  ASSUME IInv, NEW p \in Procs, Top(p).todo # << >>,
         SetTop(p, Answered(Failing(Top(p)))),
         UNCHANGED <<program, broken, file, lock, allocated, failed, alive, failedBuilds>>
  PROVE  IInv'
<1>1. PICK g : g = Failing(Top(p))
  OBVIOUS
<1>2. g \in Instances /\ g.todo # << >> /\ g.pcm = Top(p).pcm
  BY <1>1, TopFacts, FailingFacts DEF Keeps
<1>3. Answered(g) \in GoodInstances /\ Answered(g).pcm = Top(p).pcm
  BY <1>2, AnsweredFacts
<1> QED BY <1>1, <1>3, QuietStep

LEMMA GotoStep ==
  ASSUME IInv, NEW p \in Procs, Top(p).todo # << >>, NEW c \in Busy,
         SetTop(p, [Top(p) EXCEPT !.pc = c]),
         UNCHANGED <<program, broken, file, lock, allocated, failed, alive, failedBuilds>>
  PROVE  IInv'
<1>1. PICK g : g = [Top(p) EXCEPT !.pc = c]
  OBVIOUS
<1>2. g \in GoodInstances /\ g.pcm = Top(p).pcm
  BY <1>1, TopFacts, GotoFacts
<1> QED BY <1>1, <1>2, QuietStep

(* loadPCModule and compilePCModule.                                        *)
LEMMA LoadStep ==
  ASSUME IInv, NEW p \in Procs,
         \/ ImportCached(p) \/ CompiledFound(p) \/ ImportCycle(p)
         \/ ImportFailedBefore(p) \/ ImportMissing(p) \/ LockError(p)
         \/ LockShared(p) \/ WaitForUnlock(p)
  PROVE  IInv'
<1>1. ASSUME NotKnown(p) PROVE Top(p).todo # << >>
  BY <1>1 DEF NotKnown, Importing
<1>2. ASSUME NEW c \in Busy, At(p, c) PROVE Top(p).todo # << >>
  BY <1>2, BusyFacts DEF At
<1>3. {"compile", "wait", "compiled"} \subseteq Busy
  BY DEF Busy
<1>4. CASE ImportCached(p)
  BY <1>1, <1>4, StartStep DEF ImportCached
<1>5. CASE CompiledFound(p)
  BY <1>2, <1>3, <1>5, StartStep DEF CompiledFound
<1>6. CASE ImportCycle(p)
  BY <1>1, <1>6, FailStep DEF ImportCycle
<1>7. CASE ImportFailedBefore(p)
  BY <1>1, <1>7, FailStep DEF ImportFailedBefore
<1>8. CASE ImportMissing(p)
  BY <1>1, <1>3, <1>8, GotoStep DEF ImportMissing
<1>9. CASE LockError(p)
  BY <1>2, <1>3, <1>9, GotoStep DEF LockError
<1>10. CASE LockShared(p)
  BY <1>2, <1>3, <1>10, GotoStep DEF LockShared
<1>11. CASE WaitForUnlock(p)
  BY <1>2, <1>3, <1>11, GotoStep DEF WaitForUnlock
<1> QED BY <1>4, <1>5, <1>6, <1>7, <1>8, <1>9, <1>10, <1>11

-----------------------------------------------------------------------------
(* ASTReader::ReadAST.                                                      *)
LEMMA ReadingFacts ==
  ASSUME IInv, NEW p \in Procs, NEW op, Reading(p, op)
  PROVE  /\ Top(p).pc = "read"
         /\ Top(p).todo # << >>
         /\ Imported(p) \in PCModules
         /\ Top(p).reading \in Seq(Pending)
         /\ NextFile(p) \in Pending
         /\ Tail(Top(p).reading) \in Seq(Pending)
<1>1. Top(p).pc = "read" /\ Top(p).reading # << >>
  BY DEF Reading, At
<1>2. Top(p).reading \in Seq(Pending)
  BY TopFacts DEF Instances
<1>3. Top(p).todo # << >> /\ Imported(p) \in PCModules
  BY <1>1, BusyFacts DEF Busy
<1> QED BY <1>1, <1>2, <1>3 DEF NextFile

LEMMA SkipFileStep ==
  ASSUME IInv, NEW p \in Procs, AlreadyLoaded(p) \/ Validate(p)
  PROVE  IInv'
<1>1. PICK t : t = Tail(Top(p).reading)
  OBVIOUS
<1>2. Top(p).pc = "read" /\ Top(p).todo # << >> /\ t \in Seq(Pending)
  BY <1>1, ReadingFacts DEF AlreadyLoaded, Validate
<1>3. PICK g : g = [Top(p) EXCEPT !.reading = t]
  OBVIOUS
<1>4. SetTop(p, g)
  BY <1>1, <1>3 DEF AlreadyLoaded, Validate
<1>5. PICK f : f = Top(p)
  OBVIOUS
<1>6. f \in Instances
  BY <1>5, TopFacts
<1>7. g = [f EXCEPT !.reading = t]
  BY <1>3, <1>5
<1>8. g \in Instances /\ g.pcm = f.pcm /\ g.pc = f.pc /\ g.todo = f.todo
  BY <1>2, <1>6, <1>7 DEF Instances
<1>9. g \in GoodInstances /\ g.pcm = Top(p).pcm
  BY <1>2, <1>5, <1>8 DEF GoodInstances, Busy
<1> QED BY <1>4, <1>9, QuietStep DEF AlreadyLoaded, Validate

LEMMA OpenFileStep == ASSUME IInv, NEW p \in Procs, OpenFile(p) PROVE IInv'
<1>1. PICK f : f = Top(p)
  OBVIOUS
<1>2. PICK m : m = NextFile(p).pcm
  OBVIOUS
<1>3. PICK rest : rest = Tail(Top(p).reading)
  OBVIOUS
<1>4. /\ f \in Instances /\ f.pc = "read" /\ f.todo # << >>
      /\ m \in PCModules /\ rest \in Seq(Pending) /\ f.reading = Top(p).reading
  BY <1>1, <1>2, <1>3, TopFacts, ReadingFacts DEF OpenFile, Pending
<1>5. PICK c : c = file[m]
  OBVIOUS
<1>6. c \in Content
  <2>1. file[m] # Absent
    BY <1>1, <1>2 DEF OpenFile, Readable
  <2> QED BY <1>4, <1>5, <2>1 DEF IInv, TypeOK
<1>7. PICK opens : opens = [k \in 1 .. Len(c.imports) |->
                              [op |-> "open", pcm |-> c.imports[k]]]
  OBVIOUS
<1>8. opens \in Seq(Pending)
  <2>1. c.imports \in Seq(PCModules)
    BY <1>6 DEF Content
  <2>2. Len(c.imports) \in Nat /\ \A k \in 1 .. Len(c.imports) : c.imports[k] \in PCModules
    BY <2>1
  <2>3. \A k \in 1 .. Len(c.imports) : [op |-> "open", pcm |-> c.imports[k]] \in Pending
    BY <2>2 DEF Pending
  <2> QED BY <1>7, <2>2, <2>3
<1>9. PICK check : check = << [op |-> "validate", pcm |-> m] >>
  OBVIOUS
<1>10. check \in Seq(Pending)
  <2>1. [op |-> "validate", pcm |-> m] \in Pending
    BY <1>4 DEF Pending
  <2> QED BY <1>9, <2>1
<1>11. PICK r : r = opens \o check \o rest
  OBVIOUS
<1>12. r \in Seq(Pending)
  BY <1>4, <1>8, <1>10, <1>11, ConcatProperties
<1>13. PICK g : g = Looked(f, m)
  OBVIOUS
<1>14. Keeps(f, g) /\ g.reading = f.reading /\ g.loaded = f.loaded /\ g.fresh = f.fresh
  <2>1. Keeps(f, g)
    BY <1>4, <1>13, LookedFacts
  <2> QED BY <1>4, <1>13, <2>1 DEF Looked, Instances
<1>15. PICK h : h = [g EXCEPT !.loaded[m] = c, !.fresh = @ \cup {m}, !.reading = r]
  OBVIOUS
<1>16. h \in Instances /\ h.pcm = f.pcm /\ h.pc = "read" /\ h.todo # << >>
  BY <1>4, <1>6, <1>12, <1>14, <1>15 DEF Instances, Keeps
<1>17. SetTop(p, h)
  BY <1>1, <1>2, <1>3, <1>4, <1>5, <1>7, <1>9, <1>11, <1>13, <1>14, <1>15 DEF OpenFile
<1>18. h \in GoodInstances
  BY <1>16 DEF GoodInstances, Busy
<1> QED BY <1>1, <1>16, <1>17, <1>18, QuietStep DEF OpenFile

LEMMA ReadDoneStep == ASSUME IInv, NEW p \in Procs, ReadDone(p) PROVE IInv'
<1>1. PICK f : f = Top(p)
  OBVIOUS
<1>2. PICK m : m = Imported(p)
  OBVIOUS
<1>3. f \in Instances /\ f.todo # << >> /\ m \in PCModules
  BY <1>1, <1>2, TopFacts, BusyFacts DEF ReadDone, At, Busy
<1>4. PICK d : d = Append(f.direct, m)
  OBVIOUS
<1>5. d \in Seq(PCModules)
  BY <1>3, <1>4 DEF Instances
<1>6. PICK g : g = [f EXCEPT !.known[m] = "module"]
  OBVIOUS
<1>7. Keeps(f, g)
  BY <1>3, <1>6, KnownFacts
<1>8. PICK h : h = [g EXCEPT !.direct = d]
  OBVIOUS
<1>9. h \in Instances /\ h.todo # << >> /\ h.pcm = f.pcm
  BY <1>3, <1>5, <1>7, <1>8 DEF Instances, Keeps
<1>10. SetTop(p, Answered(h))
  <2>1. h = [f EXCEPT !.known[m] = "module", !.direct = Append(@, m)]
    BY <1>4, <1>6, <1>8
  <2> QED BY <1>1, <1>2, <2>1 DEF ReadDone
<1>11. Answered(h) \in GoodInstances /\ Answered(h).pcm = Top(p).pcm
  BY <1>1, <1>9, AnsweredFacts
<1> QED BY <1>10, <1>11, QuietStep DEF ReadDone

-----------------------------------------------------------------------------
(* Imports that fail.                                                       *)
LEMMA NullFacts ==
  ASSUME NEW f \in Instances, f.todo # << >>
  PROVE  /\ [f EXCEPT !.pc = "nulldereference"] \in GoodInstances
         /\ [f EXCEPT !.pc = "nulldereference"].pcm = f.pcm
  BY DEF Instances, GoodInstances, Busy

LEMMA AddFailedStep ==
  ASSUME IInv, NEW p \in Procs, Top(p).todo # << >>,
         NEW f \in GoodInstances, f.pcm = Top(p).pcm, AddFailed(p, f),
         UNCHANGED <<program, broken, file, lock, allocated, failedBuilds>>
  PROVE  IInv'
<1>1. /\ file' \in [PCModules -> Content \cup {Absent}]
      /\ allocated' \in [Procs -> BOOLEAN]
      /\ failedBuilds' \in [Procs -> SUBSET PCModules]
      /\ failed \in [Procs -> SUBSET PCModules] /\ alive \in [Procs -> BOOLEAN]
  BY DEF IInv, TypeOK
<1>2. Top(p) \in Instances /\ Imported(p) \in PCModules
  BY TopFacts, ImportedFacts
<1>3. CASE allocated[p]
  <2>1. SetTop(p, f) /\ UNCHANGED alive
        /\ failed' = [failed EXCEPT ![p] = @ \cup {Imported(p)}]
    BY <1>3 DEF AddFailed
  <2>2. failed' \in [Procs -> SUBSET PCModules]
    BY <1>1, <1>2, <2>1
  <2>3. alive' \in [Procs -> BOOLEAN] /\ \A q \in Procs : alive'[q] => alive[q]
    BY <1>1, <2>1
  <2> QED BY <1>1, <2>1, <2>2, <2>3, SetTopStep
<1>4. CASE ~allocated[p]
  <2>1. PICK g : g = [Top(p) EXCEPT !.pc = "nulldereference"]
    OBVIOUS
  <2>2. SetTop(p, g) /\ UNCHANGED failed /\ alive' = [alive EXCEPT ![p] = FALSE]
    BY <1>4, <2>1 DEF AddFailed
  <2>3. g \in GoodInstances /\ g.pcm = Top(p).pcm
    BY <1>2, <2>1, NullFacts
  <2>4. failed' \in [Procs -> SUBSET PCModules]
    BY <1>1, <2>2
  <2>5. alive' \in [Procs -> BOOLEAN] /\ \A q \in Procs : alive'[q] => alive[q]
    BY <1>1, <2>2
  <2> QED BY <1>1, <2>2, <2>3, <2>4, <2>5, SetTopStep
<1> QED BY <1>3, <1>4

LEMMA CompiledMissingStep ==
  ASSUME IInv, NEW p \in Procs, CompiledMissing(p) PROVE IInv'
<1>1. Top(p) \in Instances /\ Top(p).todo # << >> /\ Imported(p) \in PCModules
  BY TopFacts, BusyFacts DEF CompiledMissing, At, Busy
<1>2. PICK f : f = Looked(Top(p), Imported(p))
  OBVIOUS
<1>3. f \in Instances /\ f.todo # << >> /\ f.pcm = Top(p).pcm
  BY <1>1, <1>2, LookedFacts DEF Keeps
<1>4. PICK g : g = [f EXCEPT !.known[Imported(p)] = "null"]
  OBVIOUS
<1>5. g \in Instances /\ g.todo # << >> /\ g.pcm = Top(p).pcm
  BY <1>1, <1>3, <1>4, KnownFacts DEF Keeps
<1>6. /\ Failing(f) \in Instances /\ Failing(f).todo # << >>
      /\ Failing(f).pcm = Top(p).pcm
  BY <1>3, FailingFacts DEF Keeps
<1>7. PICK h : h = Answered(IF f.retry THEN g ELSE Failing(f))
  OBVIOUS
<1>8. h \in GoodInstances /\ h.pcm = Top(p).pcm
  BY <1>5, <1>6, <1>7, AnsweredFacts
<1>9. AddFailed(p, h)
  BY <1>2, <1>4, <1>7 DEF CompiledMissing
<1> QED BY <1>1, <1>8, <1>9, AddFailedStep DEF CompiledMissing

LEMMA ReadFailsStep ==
  ASSUME IInv, NEW p \in Procs, Top(p).todo # << >>,
         NEW f \in Instances, f.todo = Top(p).todo, f.pcm = Top(p).pcm, ReadFails(p, f),
         UNCHANGED <<program, broken, file, lock, allocated, failedBuilds>>
  PROVE  IInv'
<1>1. Imported(p) \in PCModules
  BY ImportedFacts
<1>2. PICK b : b = RolledBack(f)
  OBVIOUS
<1>3. b \in Instances /\ b.todo # << >> /\ b.pcm = Top(p).pcm
  BY <1>2, RolledBackFacts DEF Keeps
<1>4. PICK k : k = [b EXCEPT !.known[Imported(p)] = "null"]
  OBVIOUS
<1>5. k \in Instances /\ k.todo # << >> /\ k.pcm = Top(p).pcm
  BY <1>1, <1>3, <1>4, KnownFacts DEF Keeps
<1>6. /\ Failing(k) \in Instances /\ Failing(k).todo # << >>
      /\ Failing(k).pcm = Top(p).pcm
  BY <1>5, FailingFacts DEF Keeps
<1>7. PICK g : g = Answered(Failing(k))
  OBVIOUS
<1>8. g \in GoodInstances /\ g.pcm = Top(p).pcm
  BY <1>6, <1>7, AnsweredFacts
<1>9. CASE f.retry
  <2>1. AddFailed(p, g)
    BY <1>2, <1>4, <1>7, <1>9 DEF ReadFails
  <2> QED BY <1>8, <2>1, AddFailedStep
<1>10. CASE ~f.retry
  <2>1. SetTop(p, g) /\ UNCHANGED <<failed, alive>>
    BY <1>2, <1>4, <1>7, <1>10 DEF ReadFails
  <2> QED BY <1>8, <2>1, QuietStep
<1> QED BY <1>9, <1>10

LEMMA OpenFailsStep == ASSUME IInv, NEW p \in Procs, OpenFails(p) PROVE IInv'
<1>1. PICK m : m = NextFile(p).pcm
  OBVIOUS
<1>2. Top(p) \in Instances /\ Top(p).todo # << >> /\ m \in PCModules
  BY <1>1, TopFacts, ReadingFacts DEF OpenFails, Pending
<1>3. PICK f : f = Looked(Top(p), m)
  OBVIOUS
<1>4. f \in Instances /\ f.todo = Top(p).todo /\ f.pcm = Top(p).pcm
  BY <1>2, <1>3, LookedFacts DEF Keeps
<1>5. ReadFails(p, f)
  BY <1>1, <1>3 DEF OpenFails
<1> QED BY <1>2, <1>4, <1>5, ReadFailsStep DEF OpenFails

LEMMA OutOfDateStep == ASSUME IInv, NEW p \in Procs, OutOfDate(p) PROVE IInv'
<1>1. Top(p) \in Instances /\ Top(p).todo # << >>
  BY TopFacts, ReadingFacts DEF OutOfDate
<1>2. CASE Top(p).retry
  <2>1. ReadFails(p, Top(p))
    BY <1>2 DEF OutOfDate
  <2> QED BY <1>1, <2>1, ReadFailsStep DEF OutOfDate
<1>3. CASE ~Top(p).retry
  <2>1. PICK b : b = RolledBack(Top(p))
    OBVIOUS
  <2>2. b \in Instances /\ b.todo # << >> /\ b.pcm = Top(p).pcm
    BY <1>1, <2>1, RolledBackFacts DEF Keeps
  <2>3. PICK g : g = [b EXCEPT !.pc = "outofdate"]
    OBVIOUS
  <2>4. g \in GoodInstances /\ g.pcm = Top(p).pcm
    BY <2>2, <2>3, GotoFacts DEF Busy
  <2>5. SetTop(p, g) /\ UNCHANGED <<failed, alive>>
    BY <1>3, <2>1, <2>3 DEF OutOfDate
  <2> QED BY <2>4, <2>5, QuietStep DEF OutOfDate
<1> QED BY <1>2, <1>3

LEMMA RemoveFileStep == ASSUME IInv, NEW p \in Procs, RemoveFile(p) PROVE IInv'
<1>1. PICK m : m = Imported(p)
  OBVIOUS
<1>2. Top(p) \in Instances /\ Top(p).todo # << >> /\ m \in PCModules
  BY <1>1, TopFacts, BusyFacts DEF RemoveFile, At, Busy
<1>3. PICK fm : fm = [Top(p).fileMgr EXCEPT ![m] = "unseen"]
  OBVIOUS
<1>4. fm \in [PCModules -> {"unseen", "found", "missing"}]
  BY <1>2, <1>3 DEF Instances
<1>5. PICK f : f = [Top(p) EXCEPT !.fileMgr = fm]
  OBVIOUS
<1>6. f \in Instances /\ f.todo # << >> /\ f.pcm = Top(p).pcm
  BY <1>2, <1>4, <1>5 DEF Instances
<1>7. f = [Top(p) EXCEPT !.fileMgr[m] = "unseen"]
  BY <1>3, <1>5
<1>8. /\ Failing(f) \in Instances /\ Failing(f).todo # << >>
      /\ Failing(f).pcm = Top(p).pcm
  BY <1>6, FailingFacts DEF Keeps
<1>9. PICK e : e = << >> /\ e \in Seq(Pending)
  <2>1. << >> \in Seq(Pending)
    OBVIOUS
  <2> QED BY <2>1
<1>10. PICK g : g = [f EXCEPT !.pc = "compile", !.retry = TRUE, !.reading = e, !.fresh = {}]
  OBVIOUS
<1>11. g \in Instances /\ g.pcm = Top(p).pcm /\ g.pc = "compile" /\ g.todo # << >>
  BY <1>6, <1>9, <1>10 DEF Instances
<1>12. g \in GoodInstances
  BY <1>11 DEF GoodInstances, Busy
<1>13. PICK h : h = IF HasAlreadyFailed(p, m) THEN Answered(Failing(f)) ELSE g
  OBVIOUS
<1>14. h \in GoodInstances /\ h.pcm = Top(p).pcm
  BY <1>8, <1>11, <1>12, <1>13, AnsweredFacts
<1>15. SetTop(p, h)
  BY <1>1, <1>7, <1>9, <1>10, <1>13 DEF RemoveFile
<1>16. file' \in [PCModules -> Content \cup {Absent}]
  BY <1>1, <1>2 DEF RemoveFile, IInv, TypeOK
<1>17. /\ allocated' \in [Procs -> BOOLEAN] /\ failed' \in [Procs -> SUBSET PCModules]
       /\ alive' \in [Procs -> BOOLEAN] /\ failedBuilds' \in [Procs -> SUBSET PCModules]
  BY DEF RemoveFile, IInv, TypeOK
<1> QED BY <1>14, <1>15, <1>16, <1>17, SetTopStep DEF RemoveFile

-----------------------------------------------------------------------------
(* Nested builds.                                                           *)
LEMMA BuiltFacts ==
  ASSUME NEW f \in Instances
  PROVE  Built(f) \in Content
<1>1. \A i \in PCModules : f.loaded[i] # Absent => f.loaded[i].stale \subseteq PCModules
  BY DEF Instances, Content
<1>2. UNION {f.loaded[i].stale : i \in {j \in PCModules : f.loaded[j] # Absent}}
        \subseteq PCModules
  BY <1>1
<1>3. f.direct \in Seq(PCModules)
  BY DEF Instances
<1> QED BY <1>2, <1>3 DEF Built, Content

LEMMA UnlockPc ==
  ASSUME NEW f \in Instances, f.pcm # Main
  PROVE  /\ [f EXCEPT !.pc = "unlock"] \in GoodInstances
         /\ [f EXCEPT !.pc = "unlock"].pcm = f.pcm
  BY DEF Instances, GoodInstances, Busy

LEMMA EndSourceFileStep ==
  ASSUME IInv, NEW p \in Procs, EndSourceFile(p) PROVE IInv'
<1>1. PICK f : f = Top(p)
  OBVIOUS
<1>2. f \in Instances /\ f.pcm # Main /\ f.pcm \in PCModules
  BY <1>1, TopFacts DEF EndSourceFile
<1>3. PICK g : g = [f EXCEPT !.pc = "unlock"]
  OBVIOUS
<1>4. g \in GoodInstances /\ g.pcm = Top(p).pcm
  BY <1>1, <1>2, <1>3, UnlockPc
<1>5. SetTop(p, g)
  BY <1>1, <1>3 DEF EndSourceFile
<1>6. file' \in [PCModules -> Content \cup {Absent}]
  <2>1. PICK c \in Content : c = Built(f)
    BY <1>2, BuiltFacts
  <2>2. file' = file \/ file' = [file EXCEPT ![f.pcm] = c]
    BY <1>1, <2>1 DEF EndSourceFile
  <2>3. file \in [PCModules -> Content \cup {Absent}]
    BY DEF IInv, TypeOK
  <2> QED BY <1>2, <2>2, <2>3
<1>7. failedBuilds' \in [Procs -> SUBSET PCModules]
  <2>1. failedBuilds \in [Procs -> SUBSET PCModules]
    BY DEF IInv, TypeOK
  <2>2. \/ failedBuilds' = [failedBuilds EXCEPT ![p] = @ \cup {f.pcm}]
        \/ failedBuilds' = [failedBuilds EXCEPT ![p] = @]
    BY <1>1 DEF EndSourceFile
  <2> QED BY <1>2, <2>1, <2>2
<1>8. /\ allocated' \in [Procs -> BOOLEAN] /\ failed' \in [Procs -> SUBSET PCModules]
      /\ alive' \in [Procs -> BOOLEAN] /\ \A q \in Procs : alive'[q] => alive[q]
      /\ UNCHANGED <<program, broken, lock>>
  BY DEF EndSourceFile, IInv, TypeOK
<1> QED BY <1>4, <1>5, <1>6, <1>7, <1>8, SetTopStep

LEMMA BuildCrashesStep ==
  ASSUME IInv, NEW p \in Procs, BuildCrashes(p) PROVE IInv'
<1>1. Top(p) \in Instances /\ Top(p).pcm # Main /\ Top(p).pcm \in PCModules
  BY TopFacts DEF BuildCrashes
<1>2. PICK g : g = [Top(p) EXCEPT !.pc = "unlock"]
  OBVIOUS
<1>3. g \in GoodInstances /\ g.pcm = Top(p).pcm
  BY <1>1, <1>2, UnlockPc
<1>4. SetTop(p, g)
  BY <1>2 DEF BuildCrashes
<1>5. failedBuilds' \in [Procs -> SUBSET PCModules]
  BY <1>1 DEF BuildCrashes, IInv, TypeOK
<1>6. /\ file' \in [PCModules -> Content \cup {Absent}]
      /\ allocated' \in [Procs -> BOOLEAN] /\ failed' \in [Procs -> SUBSET PCModules]
      /\ alive' \in [Procs -> BOOLEAN] /\ \A q \in Procs : alive'[q] => alive[q]
      /\ UNCHANGED <<program, broken, lock>>
  BY DEF BuildCrashes, IInv, TypeOK
<1> QED BY <1>3, <1>4, <1>5, <1>6, SetTopStep

LEMMA NewInstanceFacts ==
  ASSUME NEW m \in PCModules \cup {Main}, NEW imports \in Seq(PCModules)
  PROVE  NewInstance(m, imports) \in GoodInstances /\ NewInstance(m, imports).pcm = m
<1>1. PICK known : known = [i \in PCModules |-> "unknown"]
  OBVIOUS
<1>2. PICK loaded : loaded = [i \in PCModules |-> Absent]
  OBVIOUS
<1>3. PICK fileMgr : fileMgr = [i \in PCModules |-> "unseen"]
  OBVIOUS
<1>4. PICK none : none = << >> /\ none \in Seq(PCModules) /\ none \in Seq(Pending)
  <2>1. << >> \in Seq(PCModules) /\ << >> \in Seq(Pending)
    OBVIOUS
  <2> QED BY <2>1
<1>5. PICK f : f = [pcm |-> m, todo |-> imports, known |-> known, loaded |-> loaded,
                    direct |-> none, fileMgr |-> fileMgr, errors |-> FALSE,
                    pc |-> "run", reading |-> none, fresh |-> {}, retry |-> FALSE]
  OBVIOUS
<1>6. f \in Instances /\ f.pc = "run" /\ f.pcm = m
  BY <1>1, <1>2, <1>3, <1>4, <1>5 DEF Instances
<1>7. NewInstance(m, imports) = f
  BY <1>1, <1>2, <1>3, <1>4, <1>5 DEF NewInstance
<1> QED BY <1>6, <1>7 DEF GoodInstances, Busy

(* A lock that is free is not held for a build of any running process; the  *)
(* build of its new owner goes on top of the owner's stack.                 *)
LEMMA LockOwnedStep == ASSUME IInv, NEW p \in Procs, LockOwned(p) PROVE IInv'
<1>1. PICK m : m = Imported(p)
  OBVIOUS
<1>2. PICK s : s = stack[p]
  OBVIOUS
<1>3. PICK g : g = [Top(p) EXCEPT !.pc = "compiled"]
  OBVIOUS
<1>4. PICK new : new = NewInstance(m, Imports[m])
  OBVIOUS
<1>5. Top(p) \in Instances /\ Top(p).todo # << >> /\ m \in PCModules /\ alive[p]
  BY <1>1, TopFacts, BusyFacts DEF LockOwned, At, Busy
<1>6. g \in GoodInstances /\ g.pcm = Top(p).pcm
  BY <1>3, <1>5, GotoFacts DEF Busy
<1>7. new \in GoodInstances /\ new.pcm = m
  BY <1>4, <1>5, NewInstanceFacts, ModulesAssumption
<1>8. PICK r : r = Append(Append(Front(s), g), new)
  OBVIOUS
<1>9. stack \in [Procs -> Seq(GoodInstances)] /\ s \in Seq(GoodInstances) /\ s # << >>
  BY <1>2 DEF IInv, StackOK
<1>10. /\ r \in Seq(GoodInstances) /\ r # << >>
       /\ Len(s) \in Nat \ {0} /\ Len(r) = Len(s) + 1 /\ r[Len(s) + 1].pcm = m
       /\ \A k \in 1 .. Len(s) : r[k].pcm = s[k].pcm
  <2>1. /\ Len(s) \in Nat \ {0} /\ Last(s) = s[Len(s)]
        /\ Front(s) \in Seq(GoodInstances) /\ Len(Front(s)) = Len(s) - 1
        /\ \A i \in 1..Len(s) - 1 : Front(s)[i] = s[i]
    BY <1>9, LastFront
  <2>2. PICK t : t = Append(Front(s), g)
    OBVIOUS
  <2>3. /\ t \in Seq(GoodInstances) /\ Len(t) = Len(s) /\ t[Len(s)] = g
        /\ \A i \in 1..Len(s) - 1 : t[i] = s[i]
    <3>1. /\ t \in Seq(GoodInstances)
          /\ Len(t) = Len(Front(s)) + 1
          /\ \A i \in 1..Len(Front(s)) : t[i] = Front(s)[i]
          /\ t[Len(Front(s)) + 1] = g
      BY <1>6, <2>1, <2>2, AppendLast
    <3> QED BY <2>1, <3>1
  <2>4. /\ r \in Seq(GoodInstances) /\ r # << >> /\ Len(r) = Len(t) + 1
        /\ \A i \in 1..Len(t) : r[i] = t[i]
        /\ r[Len(t) + 1] = new
    BY <1>7, <1>8, <2>2, <2>3, AppendLast
  <2>5. g.pcm = s[Len(s)].pcm
    BY <1>2, <1>6, <2>1 DEF Top
  <2>6. \A k \in 1 .. Len(s) : r[k].pcm = s[k].pcm
    <3>1. TAKE k \in 1 .. Len(s)
    <3>2. k = Len(s) \/ k \in 1 .. Len(s) - 1
      BY <2>1
    <3> QED BY <2>1, <2>3, <2>4, <2>5, <3>2
  <2> QED BY <1>7, <2>1, <2>3, <2>4, <2>6
<1>11. stack' = [stack EXCEPT ![p] = r]
  BY <1>1, <1>2, <1>3, <1>4, <1>8 DEF LockOwned
<1>12. /\ stack' \in [Procs -> Seq(GoodInstances)]
       /\ \A q \in Procs : stack'[q] = IF q = p THEN r ELSE stack[q]
  BY <1>9, <1>10, <1>11
<1>13. lock' = [lock EXCEPT ![m] = p] /\ lock \in [PCModules -> Procs \cup {NoProc}]
       /\ allocated' = [allocated EXCEPT ![p] = TRUE]
       /\ UNCHANGED <<program, broken, file, failed, alive, failedBuilds>>
  BY <1>1 DEF LockOwned, IInv, TypeOK
<1>14. \A q \in Procs : alive[q] => lock[m] # q
  BY <1>1 DEF LockOwned, LockFree
<1>15. TypeOK'
  <2>1. \A q \in Procs : stack'[q] # << >>
    BY <1>10, <1>12 DEF IInv, StackOK
  <2>2. stack' \in [Procs -> Seq(Instances) \ {<< >>}]
    BY <1>12, <2>1, StackType
  <2>3. lock' \in [PCModules -> Procs \cup {NoProc}] /\ allocated' \in [Procs -> BOOLEAN]
    BY <1>13 DEF IInv, TypeOK
  <2> QED BY <1>13, <2>2, <2>3 DEF IInv, TypeOK
<1>16. \A q \in Procs : StackOK(stack'[q])
  <2>1. TAKE q \in Procs
  <2>2. CASE q = p
    <3>1. \A k \in 1 .. Len(s) : s[k].pcm = Main <=> k = 1
      BY <1>2 DEF IInv, StackOK
    <3>2. m # Main
      BY <1>5, ModulesAssumption
    <3>3. \A k \in 1 .. Len(r) : r[k].pcm = Main <=> k = 1
      <4>1. TAKE k \in 1 .. Len(r)
      <4>2. k = Len(s) + 1 \/ k \in 1 .. Len(s)
        BY <1>10
      <4> QED BY <1>10, <3>1, <3>2, <4>2
    <3> QED BY <1>10, <1>12, <2>2, <3>3 DEF StackOK
  <2>3. CASE q # p
    BY <1>12, <2>3 DEF IInv
  <2> QED BY <2>2, <2>3
<1>17. \A q \in Procs : alive[q] =>
         \A k \in 2 .. Len(stack[q]) :
           /\ stack[q][k].pcm \in PCModules /\ stack[q][k].pcm # m
           /\ lock'[stack[q][k].pcm] = q
  <2>1. TAKE q \in Procs
  <2>2. HAVE alive[q]
  <2>3. TAKE k \in 2 .. Len(stack[q])
  <2>4. stack[q] \in Seq(GoodInstances) /\ k \in 1 .. Len(stack[q]) /\ k # 1
    BY <1>9
  <2>5. stack[q][k] \in GoodInstances
    BY <2>4
  <2>6. stack[q][k].pcm # Main
    BY <2>4 DEF IInv, StackOK
  <2>7. stack[q][k].pcm \in PCModules
    BY <2>5, <2>6 DEF GoodInstances, Instances
  <2>8. lock[stack[q][k].pcm] = q
    BY <2>2 DEF IInv, Locked
  <2>9. stack[q][k].pcm # m
    BY <1>14, <2>2, <2>8
  <2> QED BY <1>13, <2>7, <2>8, <2>9
<1>18. \A q \in Procs : alive'[q] => Locked(q)' /\ NoRepeats(q)'
  <2>1. TAKE q \in Procs
  <2>2. HAVE alive'[q]
  <2>3. alive[q] /\ NoRepeats(q)
    BY <1>13, <2>2 DEF IInv
  <2>4. CASE q # p
    <3>1. stack'[q] = stack[q]
      BY <1>12, <2>4
    <3> QED BY <1>17, <2>3, <3>1 DEF Locked, NoRepeats
  <2>5. CASE q = p
    <3>1. stack'[q] = r
      BY <1>12, <2>5
    <3>2. \A k \in 2 .. Len(r) : k = Len(s) + 1 \/ k \in 2 .. Len(s)
      BY <1>10
    <3>3. \A k \in 2 .. Len(s) : r[k].pcm = s[k].pcm /\ r[k].pcm # m /\ lock'[r[k].pcm] = p
      BY <1>2, <1>5, <1>10, <1>17
    <3>4. lock'[m] = p
      BY <1>5, <1>13
    <3>5. \A k \in 2 .. Len(r) : lock'[r[k].pcm] = p
      BY <1>10, <3>2, <3>3, <3>4
    <3>6. \A j, k \in 2 .. Len(r) : r[j].pcm = r[k].pcm => j = k
      <4>1. TAKE j, k \in 2 .. Len(r)
      <4>2. HAVE r[j].pcm = r[k].pcm
      <4>3. CASE j = Len(s) + 1 /\ k = Len(s) + 1
        BY <4>3
      <4>4. CASE j \in 2 .. Len(s) /\ k \in 2 .. Len(s)
        BY <1>2, <2>3, <2>5, <3>3, <4>2, <4>4 DEF NoRepeats
      <4>5. CASE j = Len(s) + 1 /\ k \in 2 .. Len(s)
        BY <1>10, <3>3, <4>2, <4>5
      <4>6. CASE k = Len(s) + 1 /\ j \in 2 .. Len(s)
        BY <1>10, <3>3, <4>2, <4>6
      <4> QED BY <3>2, <4>3, <4>4, <4>5, <4>6
    <3> QED BY <2>5, <3>1, <3>5, <3>6 DEF Locked, NoRepeats
  <2> QED BY <2>4, <2>5
<1> QED BY <1>12, <1>15, <1>16, <1>18 DEF IInv

(* The end of a build unlocks its own module only, and leaves its importer. *)
LEMMA UnlockStep == ASSUME IInv, NEW p \in Procs, Unlock(p) PROVE IInv'
<1>1. PICK s : s = stack[p]
  OBVIOUS
<1>2. PICK r : r = Front(s)
  OBVIOUS
<1>3. PICK n : n = Len(s)
  OBVIOUS
<1>4. PICK m : m = Top(p).pcm
  OBVIOUS
<1>5. stack \in [Procs -> Seq(GoodInstances)] /\ s \in Seq(GoodInstances) /\ s # << >>
      /\ \A k \in 1 .. n : s[k].pcm = Main <=> k = 1
  BY <1>1, <1>3 DEF IInv, StackOK
<1>6. /\ n \in Nat \ {0} /\ Top(p) = s[n] /\ r \in Seq(GoodInstances) /\ Len(r) = n - 1
      /\ \A k \in 1 .. n - 1 : r[k] = s[k]
  BY <1>1, <1>2, <1>3, <1>5, LastFront DEF Top
<1>7. alive[p] /\ m # Main /\ m = s[n].pcm
  BY <1>4, <1>6, TopFacts DEF Unlock, At, GoodInstances
<1>8. n \in 2 .. n
  BY <1>5, <1>6, <1>7
<1>9. m \in PCModules
  BY <1>4, <1>7, TopFacts
<1>10. lock[m] = p
  BY <1>1, <1>3, <1>7, <1>8 DEF IInv, Locked
<1>11. /\ lock' = [lock EXCEPT ![m] = NoProc] /\ stack' = [stack EXCEPT ![p] = r]
       /\ lock \in [PCModules -> Procs \cup {NoProc}]
       /\ UNCHANGED <<program, broken, file, allocated, failed, alive, failedBuilds>>
  BY <1>1, <1>2, <1>4 DEF Unlock, IInv, TypeOK
<1>12. /\ stack' \in [Procs -> Seq(GoodInstances)]
       /\ \A q \in Procs : stack'[q] = IF q = p THEN r ELSE stack[q]
  BY <1>5, <1>6, <1>11
<1>13. r # << >>
  BY <1>6, <1>8
<1>14. TypeOK'
  <2>1. \A q \in Procs : stack'[q] # << >>
    BY <1>12, <1>13 DEF IInv, StackOK
  <2>2. stack' \in [Procs -> Seq(Instances) \ {<< >>}]
    BY <1>12, <2>1, StackType
  <2>3. lock' \in [PCModules -> Procs \cup {NoProc}]
    BY <1>11
  <2> QED BY <1>11, <2>2, <2>3 DEF IInv, TypeOK
<1>15. \A q \in Procs : StackOK(stack'[q])
  <2>1. StackOK(r)
    BY <1>5, <1>6, <1>13 DEF StackOK
  <2> QED BY <1>12, <2>1 DEF IInv
<1>16. \A q \in Procs : alive'[q] => Locked(q)' /\ NoRepeats(q)'
  <2>1. TAKE q \in Procs
  <2>2. HAVE alive'[q]
  <2>3. Locked(q) /\ NoRepeats(q)
    BY <1>11, <2>2 DEF IInv
  <2>4. CASE q # p
    <3>1. stack'[q] = stack[q]
      BY <1>12, <2>4
    <3>2. \A k \in 2 .. Len(stack[q]) : lock'[stack[q][k].pcm] = q
      <4>1. TAKE k \in 2 .. Len(stack[q])
      <4>2. lock[stack[q][k].pcm] = q
        BY <2>3 DEF Locked
      <4>3. stack[q][k].pcm # m
        BY <1>10, <2>4, <4>2
      <4> QED BY <1>11, <4>2, <4>3
    <3> QED BY <2>3, <3>1, <3>2 DEF Locked, NoRepeats
  <2>5. CASE q = p
    <3>1. stack'[q] = r /\ stack[q] = s
      BY <1>1, <1>12, <2>5
    <3>2. \A k \in 2 .. Len(r) : k \in 2 .. n /\ k # n /\ r[k] = s[k]
      BY <1>6
    <3>3. \A k \in 2 .. Len(r) : lock'[r[k].pcm] = p
      <4>1. TAKE k \in 2 .. Len(r)
      <4>2. lock[s[k].pcm] = p
        BY <1>3, <2>3, <2>5, <3>1, <3>2 DEF Locked
      <4>3. s[k].pcm # m
        BY <1>3, <1>7, <1>8, <2>3, <3>1, <3>2 DEF NoRepeats
      <4> QED BY <1>11, <3>2, <4>2, <4>3
    <3>4. \A j, k \in 2 .. Len(r) : r[j].pcm = r[k].pcm => j = k
      BY <1>3, <2>3, <3>1, <3>2 DEF NoRepeats
    <3> QED BY <2>5, <3>1, <3>3, <3>4 DEF Locked, NoRepeats
  <2> QED BY <2>4, <2>5
<1> QED BY <1>12, <1>14, <1>15, <1>16 DEF IInv

LEMMA DieStep == ASSUME IInv, NEW p \in Procs, Die(p) PROVE IInv'
<1>1. alive' \in [Procs -> BOOLEAN] /\ \A q \in Procs : alive'[q] => alive[q]
  BY DEF Die, IInv, TypeOK
<1>2. UNCHANGED <<program, broken, file, lock, stack, allocated, failed, failedBuilds>>
  BY DEF Die
<1>3. TypeOK'
  BY <1>1, <1>2 DEF IInv, TypeOK
<1>4. \A q \in Procs : alive'[q] => Locked(q)' /\ NoRepeats(q)'
  BY <1>1, <1>2 DEF IInv, Locked, NoRepeats
<1> QED BY <1>2, <1>3, <1>4 DEF IInv

-----------------------------------------------------------------------------
LEMMA IInvInit == Init => IInv
<1> SUFFICES ASSUME Init PROVE IInv
  OBVIOUS
<1>1. program \in [Procs -> Seq(PCModules)] /\ Main \in PCModules \cup {Main}
  BY ModulesAssumption DEF Init
<1>2. \A p \in Procs : /\ stack[p] \in Seq(GoodInstances) /\ stack[p] # << >>
                       /\ Len(stack[p]) = 1 /\ stack[p][1].pcm = Main
  <2>1. TAKE p \in Procs
  <2>2. PICK f : f = NewInstance(Main, program[p])
    OBVIOUS
  <2>3. f \in GoodInstances /\ f.pcm = Main
    BY <1>1, <2>2, NewInstanceFacts
  <2>4. stack[p] = << f >>
    BY <2>2 DEF Init
  <2> QED BY <2>3, <2>4
<1>3. stack \in [Procs -> Seq(GoodInstances)]
  BY <1>2 DEF Init
<1>4. TypeOK
  <2>1. stack \in [Procs -> Seq(Instances) \ {<< >>}]
    BY <1>2, <1>3, StackType
  <2>2. broken \subseteq PCModules /\ file \in [PCModules -> Content \cup {Absent}]
    BY ModulesAssumption DEF Init
  <2>3. lock \in [PCModules -> Procs \cup {NoProc}]
    BY DEF Init
  <2>4. /\ allocated \in [Procs -> BOOLEAN] /\ failed \in [Procs -> SUBSET PCModules]
        /\ alive \in [Procs -> BOOLEAN] /\ failedBuilds \in [Procs -> SUBSET PCModules]
    BY DEF Init
  <2> QED BY <1>1, <2>1, <2>2, <2>3, <2>4 DEF TypeOK
<1>5. \A p \in Procs : StackOK(stack[p]) /\ Locked(p) /\ NoRepeats(p)
  BY <1>2 DEF StackOK, Locked, NoRepeats
<1> QED BY <1>3, <1>4, <1>5 DEF IInv

LEMMA StepPreserves == ASSUME IInv, NEW p \in Procs, Step(p) PROVE IInv'
<1>1. CASE ImportKnown(p)
  BY <1>1, ImportKnownStep
<1>2. CASE \/ ImportCached(p) \/ CompiledFound(p) \/ ImportCycle(p)
           \/ ImportFailedBefore(p) \/ ImportMissing(p) \/ LockError(p)
           \/ LockShared(p) \/ WaitForUnlock(p)
  BY <1>2, LoadStep
<1>3. CASE LockOwned(p)
  BY <1>3, LockOwnedStep
<1>4. CASE EndSourceFile(p)
  BY <1>4, EndSourceFileStep
<1>5. CASE Unlock(p)
  BY <1>5, UnlockStep
<1>6. CASE CompiledMissing(p)
  BY <1>6, CompiledMissingStep
<1>7. CASE AlreadyLoaded(p) \/ Validate(p)
  BY <1>7, SkipFileStep
<1>8. CASE OpenFile(p)
  BY <1>8, OpenFileStep
<1>9. CASE OpenFails(p)
  BY <1>9, OpenFailsStep
<1>10. CASE OutOfDate(p)
  BY <1>10, OutOfDateStep
<1>11. CASE RemoveFile(p)
  BY <1>11, RemoveFileStep
<1>12. CASE ReadDone(p)
  BY <1>12, ReadDoneStep
<1> QED BY <1>1, <1>2, <1>3, <1>4, <1>5, <1>6, <1>7, <1>8, <1>9, <1>10, <1>11, <1>12
        DEF Step

LEMMA StutterPreserves == ASSUME IInv, UNCHANGED vars PROVE IInv'
<1>1. UNCHANGED <<program, broken, file, lock, stack, allocated, failed, alive, failedBuilds>>
  BY DEF vars
<1>2. TypeOK'
  BY <1>1 DEF IInv, TypeOK
<1>3. \A q \in Procs : alive'[q] => Locked(q)' /\ NoRepeats(q)'
  BY <1>1 DEF IInv, Locked, NoRepeats
<1> QED BY <1>1, <1>2, <1>3 DEF IInv

LEMMA IInvNext == IInv /\ [Next]_vars => IInv'
<1> SUFFICES ASSUME IInv, [Next]_vars PROVE IInv'
  OBVIOUS
<1>1. ASSUME NEW p \in Procs, Step(p) PROVE IInv'
  BY <1>1, StepPreserves
<1>2. ASSUME NEW p \in Procs, BuildCrashes(p) PROVE IInv'
  BY <1>2, BuildCrashesStep
<1>3. ASSUME NEW p \in Procs, Die(p) PROVE IInv'
  BY <1>3, DieStep
<1>4. CASE UNCHANGED vars
  BY <1>4, StutterPreserves
<1> QED BY <1>1, <1>2, <1>3, <1>4 DEF Next

THEOREM Invariance == Spec => []IInv
<1>1. Init => IInv
  BY IInvInit
<1>2. IInv /\ [Next]_vars => IInv'
  BY IInvNext
<1> QED BY <1>1, <1>2, PTL DEF Spec

(* Every variable of the cache and of the processes that share it keeps its *)
(* type, whatever imports what, fails, crashes or is out of date.           *)
THEOREM TypeCorrect == Spec => []TypeOK
BY Invariance, PTL DEF IInv

(* Each module that a running process builds is locked by that process, so  *)
(* that no two processes build one module at a time, also when the locks of *)
(* dead processes are taken over (CompilerInstance.cpp:773-787).            *)
THEOREM BuildersCorrect == Spec => []OneBuilderPerModule
<1>1. IInv => OneBuilderPerModule
  BY DEF IInv, Locked, OneBuilderPerModule
<1> QED BY <1>1, Invariance, PTL

-----------------------------------------------------------------------------
(* Where the instances of a stack are after a step                          *)

(* The innermost instance of p becomes g.                                   *)
LEMMA TopPlace ==
  ASSUME IInv, NEW p \in Procs, NEW g, SetTop(p, g)
  PROVE  /\ \A q \in Procs : q # p => stack'[q] = stack[q]
         /\ Len(stack'[p]) = Len(stack[p]) /\ stack'[p][Len(stack[p])] = g
         /\ \A k \in 1 .. Len(stack[p]) - 1 : stack'[p][k] = stack[p][k]
         /\ Top(p)' = g
<1>1. PICK s : s = stack[p] /\ s \in Seq(GoodInstances) /\ s # << >>
  BY DEF IInv, StackOK
<1>2. PICK S : S = GoodInstances \cup {g}
  OBVIOUS
<1>3. s \in Seq(S) /\ g \in S
  <2>1. Len(s) \in Nat /\ s \in [1 .. Len(s) -> S]
    BY <1>1, <1>2
  <2> QED BY <1>2, <2>1
<1>4. PICK r : r = Append(Front(s), g)
  OBVIOUS
<1>5. IsReplaced(S, r, s, g)
  BY <1>1, <1>3, <1>4, ElementReplaced
<1>6. /\ Len(r) = Len(s) /\ r[Len(s)] = g /\ Last(r) = g
      /\ \A k \in 1 .. Len(s) - 1 : r[k] = s[k]
  BY <1>5 DEF IsReplaced
<1>7. stack' = [stack EXCEPT ![p] = r]
  BY <1>1, <1>4 DEF SetTop
<1>8. \A q \in Procs : stack'[q] = IF q = p THEN r ELSE stack[q]
  BY <1>7 DEF IInv
<1> QED BY <1>1, <1>6, <1>8 DEF Top

(* A build of m goes on top of the instance f that imports it, of which     *)
(* only the pc changes.                                                     *)
IsNested(p, n, m, f, g, new) ==
  /\ n = Len(stack[p]) /\ m = Imported(p) /\ f = Top(p) /\ f = stack[p][n]
  /\ g = [f EXCEPT !.pc = "compiled"]
  /\ new = NewInstance(m, Imports[m])
  /\ Len(stack'[p]) = n + 1
  /\ \A k \in 1 .. n - 1 : stack'[p][k] = stack[p][k]
  /\ stack'[p][n] = g /\ stack'[p][n + 1] = new /\ Top(p)' = new
  /\ \A q \in Procs : q # p => stack'[q] = stack[q]

LEMMA LockOwnedPlace ==
  ASSUME IInv, NEW p \in Procs, LockOwned(p)
  PROVE  \E n \in Nat \ {0}, m \in PCModules, f \in Instances, g \in Instances,
            new \in Instances : IsNested(p, n, m, f, g, new)
<1>1. PICK f \in Instances : f = Top(p) /\ f.pc = "compile"
  BY TopFacts DEF LockOwned, At
<1>2. PICK m \in PCModules : m = Imported(p)
  BY BusyFacts DEF LockOwned, At, Busy
<1>3. PICK s : s = stack[p] /\ s \in Seq(GoodInstances) /\ s # << >>
  BY DEF IInv, StackOK
<1>4. PICK g \in GoodInstances : g = [f EXCEPT !.pc = "compiled"]
  <2>1. f.todo # << >>
    BY <1>1, BusyFacts DEF Busy
  <2> QED BY <2>1, GotoFacts DEF Busy
<1>5. PICK new \in GoodInstances : new = NewInstance(m, Imports[m])
  BY NewInstanceFacts, ModulesAssumption
<1>6. PICK t \in Seq(GoodInstances) :
        /\ t = Append(Front(s), g) /\ Len(s) \in Nat \ {0} /\ Len(t) = Len(s)
        /\ t[Len(s)] = g /\ \A i \in 1 .. Len(s) - 1 : t[i] = s[i]
  <2>1. PICK u : u = Append(Front(s), g)
    OBVIOUS
  <2>2. IsReplaced(GoodInstances, u, s, g)
    BY <1>3, <1>4, <2>1, ElementReplaced
  <2>3. \A i \in 1 .. Len(s) - 1 : i \in 1 .. Len(s) /\ i # Len(s)
    BY <2>2 DEF IsReplaced
  <2> QED BY <2>1, <2>2, <2>3 DEF IsReplaced
<1>7. PICK r \in Seq(GoodInstances) :
        /\ r = Append(t, new) /\ Len(r) = Len(t) + 1 /\ r[Len(t) + 1] = new
        /\ Last(r) = new /\ \A i \in 1 .. Len(t) : r[i] = t[i]
  <2>1. IsPushed(GoodInstances, Append(t, new), t, new)
    BY <1>5, <1>6, ElementPushed
  <2> QED BY <2>1 DEF IsPushed
<1>8. PICK n \in Nat \ {0} : n = Len(s)
  BY <1>6
<1>9. /\ Len(r) = n + 1 /\ r[n + 1] = new /\ r[n] = g
      /\ \A i \in 1 .. n - 1 : r[i] = s[i]
  <2>1. n \in 1 .. Len(t) /\ \A i \in 1 .. n - 1 : i \in 1 .. Len(t)
    BY <1>6, <1>8
  <2> QED BY <1>6, <1>7, <1>8, <2>1
<1>10. \A q \in Procs : stack'[q] = IF q = p THEN r ELSE stack[q]
  <2>1. stack' = [stack EXCEPT ![p] = r]
    BY <1>1, <1>2, <1>3, <1>4, <1>5, <1>6, <1>7 DEF LockOwned
  <2> QED BY <2>1 DEF IInv
<1>11. Top(p)' = new
  BY <1>7, <1>10 DEF Top
<1>12. new \in Instances /\ g \in Instances
  BY <1>4, <1>5 DEF GoodInstances
<1>13. f = stack[p][n]
  BY <1>1, <1>3, <1>8, TopFacts
<1>14. IsNested(p, n, m, f, g, new)
  BY <1>1, <1>2, <1>3, <1>4, <1>5, <1>8, <1>9, <1>10, <1>11, <1>13 DEF IsNested
<1> QED BY <1>12, <1>14, Zenon

(* The end of a build leaves the instance that started it on top.           *)
LEMMA UnlockPlace ==
  ASSUME IInv, NEW p \in Procs, Unlock(p)
  PROVE  \E n \in Nat \ {0} :
           /\ Len(stack[p]) = n + 1 /\ Len(stack'[p]) = n
           /\ \A q \in Procs : q # p => stack'[q] = stack[q]
           /\ \A k \in 1 .. n : stack'[p][k] = stack[p][k]
           /\ Top(p) = stack[p][n + 1] /\ Top(p)' = stack[p][n]
<1>1. PICK s : s = stack[p] /\ s \in Seq(GoodInstances) /\ s # << >>
  BY DEF IInv, StackOK
<1>2. /\ Len(s) \in Nat \ {0} /\ Front(s) \in Seq(GoodInstances)
      /\ Len(Front(s)) = Len(s) - 1 /\ Top(p) = s[Len(s)]
      /\ \A j \in 1 .. Len(s) - 1 : Front(s)[j] = s[j]
  BY <1>1, LastFront DEF Top
<1>3. Len(s) # 1
  <2>1. Top(p).pcm # Main
    BY TopFacts DEF Unlock, At, GoodInstances
  <2>2. s[1].pcm = Main
    <3>1. 1 \in 1 .. Len(s)
      BY <1>2
    <3> QED BY <1>1, <3>1 DEF IInv, StackOK
  <2> QED BY <1>2, <2>1, <2>2
<1>4. PICK n \in Nat \ {0} : Len(s) = n + 1
  <2>1. Len(s) - 1 \in Nat \ {0} /\ Len(s) = (Len(s) - 1) + 1
    BY <1>2, <1>3
  <2> QED BY <2>1
<1>5. PICK r \in Seq(GoodInstances) : r = Front(s)
  BY <1>2
<1>6. Len(r) = n /\ r # << >> /\ \A j \in 1 .. n : r[j] = s[j]
  BY <1>2, <1>4, <1>5
<1>7. \A q \in Procs : stack'[q] = IF q = p THEN r ELSE stack[q]
  BY <1>1, <1>5 DEF Unlock, IInv, TypeOK
<1>8. Top(p)' = s[n]
  <2>1. Last(r) = r[Len(r)]
    BY <1>6, LastFront
  <2>2. n \in 1 .. n
    OBVIOUS
  <2> QED BY <1>6, <1>7, <2>1, <2>2 DEF Top
<1> QED BY <1>1, <1>2, <1>4, <1>6, <1>7, <1>8

-----------------------------------------------------------------------------
(* What an instance knows of its imports                                    *)

ToOpen(m) == [op |-> "open", pcm |-> m]
ToValidate(m) == [op |-> "validate", pcm |-> m]

(* The modules of an instance are loaded and no longer subject to a roll-   *)
(* back; all else that is loaded is current.                                *)
LoadedOK(f) ==
  \A i \in PCModules :
    /\ f.loaded[i] # Absent /\ i \notin f.fresh => i \notin f.loaded[i].stale
    /\ f.known[i] = "module" /\ i # f.pcm => f.loaded[i] # Absent /\ i \notin f.fresh

(* While ReadAST runs, what it has opened is current or still to be         *)
(* validated, and the module itself is loaded or still to be opened.        *)
ReadingOK(f) ==
  /\ \A i \in f.fresh : f.loaded[i] # Absent
  /\ \A i \in f.fresh : i \notin f.loaded[i].stale \/ ToValidate(i) \in Range(f.reading)
  /\ f.loaded[Head(f.todo)] # Absent \/ ToOpen(Head(f.todo)) \in Range(f.reading)
  /\ \A i \in PCModules : ToValidate(i) \in Range(f.reading) => f.loaded[i] # Absent

CurrentOK(f) ==
  /\ LoadedOK(f)
  /\ f.pc = "read" => ReadingOK(f)
  /\ f.pc = "outofdate" => \A i \in f.fresh : f.loaded[i] = Absent
  /\ f.pc \in {"run", "compile", "wait", "compiled"} => f.fresh = {}

CurrentInv ==
  \A p \in Procs : \A k \in 1 .. Len(stack[p]) : CurrentOK(stack[p][k])

-----------------------------------------------------------------------------
(* The stack of instances                                                   *)

LEMMA TopIsCurrent ==
  ASSUME IInv, CurrentInv, NEW p \in Procs
  PROVE  CurrentOK(Top(p))
<1>1. Top(p) = stack[p][Len(stack[p])] /\ Len(stack[p]) \in Nat \ {0}
  BY TopFacts
<1>2. Len(stack[p]) \in 1 .. Len(stack[p])
  BY <1>1
<1> QED BY <1>1, <1>2 DEF CurrentInv

(* The innermost instance of p becomes g; all others stay.                  *)
LEMMA TopReplaced ==
  ASSUME IInv, NEW p \in Procs, NEW g, SetTop(p, g)
  PROVE  \A q \in Procs : \A k \in 1 .. Len(stack'[q]) :
           \/ q = p /\ stack'[q][k] = g
           \/ k \in 1 .. Len(stack[q]) /\ stack'[q][k] = stack[q][k]
<1>1. PICK n \in Nat \ {0} : n = Len(stack[p])
  BY TopFacts
<1>2. \A k \in 1 .. n : k = n \/ k \in 1 .. n - 1
  OBVIOUS
<1> QED BY <1>1, <1>2, TopPlace

LEMMA CurrentTop ==
  ASSUME IInv, CurrentInv, NEW p \in Procs, NEW g, SetTop(p, g), CurrentOK(g)
  PROVE  CurrentInv'
  BY TopReplaced DEF CurrentInv

-----------------------------------------------------------------------------
(* What the operations on an instance leave                                 *)

LEMMA AnsweredFields ==
  ASSUME NEW f \in Instances, NEW g, g = Answered(f)
  PROVE  /\ g.pcm = f.pcm /\ g.pc = "run" /\ g.known = f.known /\ g.loaded = f.loaded
         /\ g.fresh = {} /\ g.errors = f.errors /\ g.todo = Tail(f.todo) /\ g.retry = FALSE
         /\ g.direct = f.direct
  BY DEF Answered, Instances

LEMMA LookedFields ==
  ASSUME NEW f \in Instances, NEW m \in PCModules, NEW g, g = Looked(f, m)
  PROVE  /\ g.pcm = f.pcm /\ g.pc = f.pc /\ g.known = f.known /\ g.loaded = f.loaded
         /\ g.fresh = f.fresh /\ g.errors = f.errors /\ g.todo = f.todo /\ g.retry = f.retry
         /\ g.direct = f.direct /\ g.reading = f.reading
  BY DEF Looked, Instances

LEMMA FailingFields ==
  ASSUME NEW f \in Instances, NEW g, g = Failing(f)
  PROVE  /\ g.pcm = f.pcm /\ g.pc = f.pc /\ g.known = f.known /\ g.loaded = f.loaded
         /\ g.fresh = f.fresh /\ g.errors = TRUE /\ g.todo = f.todo /\ g.retry = f.retry
         /\ g.direct = f.direct /\ g.reading = f.reading
  BY DEF Failing, Instances

LEMMA RolledBackFields ==
  ASSUME NEW f \in Instances, NEW g, g = RolledBack(f)
  PROVE  /\ g.pcm = f.pcm /\ g.pc = f.pc /\ g.known = f.known
         /\ g.fresh = f.fresh /\ g.errors = f.errors /\ g.todo = f.todo /\ g.retry = f.retry
         /\ g.direct = f.direct /\ g.reading = f.reading
         /\ \A i \in PCModules : g.loaded[i] = IF i \in f.fresh THEN Absent ELSE f.loaded[i]
  BY DEF RolledBack, Instances

LEMMA StartReadASTFields ==
  ASSUME NEW f \in Instances, NEW m \in PCModules, NEW g, g = StartReadAST(f, m)
  PROVE  /\ g.pcm = f.pcm /\ g.pc = "read" /\ g.known = f.known /\ g.loaded = f.loaded
         /\ g.fresh = {} /\ g.errors = f.errors /\ g.todo = f.todo /\ g.retry = f.retry
         /\ g.direct = f.direct /\ g.reading = << ToOpen(m) >>
  BY DEF StartReadAST, Instances, ToOpen

LEMMA GotoFields ==
  ASSUME NEW f \in Instances, NEW c, NEW g, g = [f EXCEPT !.pc = c]
  PROVE  /\ g.pcm = f.pcm /\ g.pc = c /\ g.known = f.known /\ g.loaded = f.loaded
         /\ g.fresh = f.fresh /\ g.errors = f.errors /\ g.todo = f.todo /\ g.retry = f.retry
         /\ g.direct = f.direct /\ g.reading = f.reading
  BY DEF Instances

LEMMA SkippedFields ==
  ASSUME NEW f \in Instances, NEW g, g = [f EXCEPT !.reading = Tail(@)]
  PROVE  /\ g.pcm = f.pcm /\ g.pc = f.pc /\ g.known = f.known /\ g.loaded = f.loaded
         /\ g.fresh = f.fresh /\ g.errors = f.errors /\ g.todo = f.todo /\ g.retry = f.retry
         /\ g.direct = f.direct /\ g.reading = Tail(f.reading)
  BY DEF Instances

-----------------------------------------------------------------------------
(* The steps keep what is loaded current                                    *)

LEMMA StaysCurrent ==
  ASSUME NEW f, NEW g, CurrentOK(f), f.fresh = {}, g.fresh = {}, g.pc # "read",
         g.pcm = f.pcm, g.loaded = f.loaded,
         \A i \in PCModules : g.known[i] = "module" => f.known[i] = "module" \/ i = f.pcm
  PROVE  CurrentOK(g)
  BY DEF CurrentOK, LoadedOK

LEMMA RangeOfOne ==
  ASSUME NEW e
  PROVE  Range(<< e >>) = {e}
  BY DEF Range

LEMMA ImportedIsHead ==
  ASSUME NEW p
  PROVE  Imported(p) = Head(Top(p).todo)
  BY DEF Imported

(* Before ReadAST begins nothing is subject to a roll-back.                 *)
LEMMA AnsweredStep ==
  ASSUME IInv, CurrentInv, NEW p \in Procs,
         ImportKnown(p) \/ ImportCycle(p) \/ ImportFailedBefore(p)
  PROVE  CurrentInv'
<1>1. PICK f \in Instances : f = Top(p) /\ CurrentOK(f) /\ f.pc = "run" /\ f.todo # << >>
  BY TopFacts, TopIsCurrent
     DEF ImportKnown, ImportCycle, ImportFailedBefore, NotKnown, Importing, At
<1>2. f.fresh = {}
  BY <1>1 DEF CurrentOK
<1>3. CASE ImportKnown(p)
  <2>1. PICK m \in PCModules : m = Imported(p)
    BY <1>1, ImportedFacts
  <2>2. PICK k : k = IF f.known[m] = "unknown" THEN "module" ELSE f.known[m]
    OBVIOUS
  <2>3. PICK h : h = [f EXCEPT !.known[m] = k]
    OBVIOUS
  <2>4. SetTop(p, Answered(h)) /\ (f.known[m] # "unknown" \/ m = f.pcm)
    <3>1. h = [f EXCEPT !.known[m] = IF @ = "unknown" THEN "module" ELSE @]
      BY <2>2, <2>3
    <3> QED BY <1>1, <1>3, <2>1, <3>1 DEF ImportKnown
  <2>5. k \in {"unknown", "module", "null"}
    BY <2>2 DEF Instances
  <2>6. h \in Instances
    BY <2>3, <2>5, KnownFacts DEF Keeps
  <2>7. PICK g : g = Answered(h)
    OBVIOUS
  <2>8. /\ g.pcm = f.pcm /\ g.pc = "run" /\ g.fresh = {} /\ g.loaded = f.loaded
        /\ g.known[m] = k /\ \A i \in PCModules : i # m => g.known[i] = f.known[i]
    <3>1. /\ h.pcm = f.pcm /\ h.loaded = f.loaded /\ h.known[m] = k
          /\ \A i \in PCModules : i # m => h.known[i] = f.known[i]
      BY <1>1, <2>1, <2>3 DEF Instances
    <3>2. /\ g.pcm = h.pcm /\ g.pc = "run" /\ g.fresh = {} /\ g.loaded = h.loaded
          /\ g.known = h.known
      BY <2>6, <2>7, AnsweredFields
    <3> QED BY <3>1, <3>2
  <2>9. \A i \in PCModules : g.known[i] = "module" => f.known[i] = "module" \/ i = f.pcm
    BY <2>2, <2>4, <2>8
  <2>10. CurrentOK(g)
    BY <1>1, <1>2, <2>8, <2>9, StaysCurrent
  <2> QED BY <2>4, <2>7, <2>10, CurrentTop
<1>4. CASE ImportCycle(p) \/ ImportFailedBefore(p)
  <2>1. PICK h : h = Failing(f)
    OBVIOUS
  <2>2. PICK g : g = Answered(h)
    OBVIOUS
  <2>3. SetTop(p, g)
    BY <1>1, <1>4, <2>1, <2>2 DEF ImportCycle, ImportFailedBefore
  <2>4. h \in Instances
    BY <2>1, FailingFacts DEF Keeps
  <2>5. /\ g.pcm = f.pcm /\ g.pc = "run" /\ g.fresh = {} /\ g.loaded = f.loaded
        /\ g.known = f.known
    <3>1. h.pcm = f.pcm /\ h.loaded = f.loaded /\ h.known = f.known
      BY <1>1, <2>1, FailingFields
    <3>2. /\ g.pcm = h.pcm /\ g.pc = "run" /\ g.fresh = {} /\ g.loaded = h.loaded
          /\ g.known = h.known
      BY <2>2, <2>4, AnsweredFields
    <3> QED BY <3>1, <3>2
  <2>6. CurrentOK(g)
    BY <1>1, <1>2, <2>5, StaysCurrent
  <2> QED BY <2>3, <2>6, CurrentTop
<1> QED BY <1>3, <1>4

LEMMA WaitingStep ==
  ASSUME IInv, CurrentInv, NEW p \in Procs,
         ImportMissing(p) \/ LockError(p) \/ LockShared(p) \/ WaitForUnlock(p)
  PROVE  CurrentInv'
<1>1. PICK f \in Instances : f = Top(p) /\ CurrentOK(f) /\ f.pc \in {"run", "compile", "wait"}
  BY TopFacts, TopIsCurrent
     DEF ImportMissing, LockError, LockShared, WaitForUnlock, NotKnown, Importing, At
<1>2. PICK c \in {"compile", "wait", "compiled"} : SetTop(p, [f EXCEPT !.pc = c])
  BY <1>1 DEF ImportMissing, LockError, LockShared, WaitForUnlock
<1>3. PICK g : g = [f EXCEPT !.pc = c]
  OBVIOUS
<1>4. /\ g.pcm = f.pcm /\ g.pc = c /\ g.known = f.known /\ g.loaded = f.loaded
      /\ g.fresh = f.fresh
  BY <1>3, GotoFields
<1>5. f.fresh = {}
  BY <1>1 DEF CurrentOK
<1>6. CurrentOK(g)
  BY <1>1, <1>4, <1>5, StaysCurrent
<1> QED BY <1>2, <1>3, <1>6, CurrentTop

LEMMA ReadStartsStep ==
  ASSUME IInv, CurrentInv, NEW p \in Procs, ImportCached(p) \/ CompiledFound(p)
  PROVE  CurrentInv'
<1>1. PICK f \in Instances : f = Top(p) /\ CurrentOK(f) /\ f.pc \in {"run", "compiled"}
  BY TopFacts, TopIsCurrent DEF ImportCached, CompiledFound, NotKnown, Importing, At
<1>2. Imported(p) \in PCModules
  BY BusyFacts, ImportedFacts DEF ImportCached, CompiledFound, NotKnown, Importing, At, Busy
<1>3. PICK m \in PCModules : m = Imported(p) /\ m = Head(f.todo)
  BY <1>1, <1>2, ImportedIsHead
<1>4. PICK h : h = Looked(f, m)
  OBVIOUS
<1>5. PICK g : g = StartReadAST(h, m)
  OBVIOUS
<1>6. SetTop(p, g)
  BY <1>1, <1>3, <1>4, <1>5 DEF ImportCached, CompiledFound
<1>7. h \in Instances
  BY <1>4, LookedFacts DEF Keeps
<1>8. /\ g.pcm = f.pcm /\ g.pc = "read" /\ g.known = f.known /\ g.loaded = f.loaded
      /\ g.fresh = {} /\ g.todo = f.todo /\ g.reading = << ToOpen(m) >>
  BY <1>4, <1>5, <1>7, LookedFields, StartReadASTFields
<1>9. f.fresh = {} /\ LoadedOK(f)
  BY <1>1 DEF CurrentOK
<1>10. LoadedOK(g)
  BY <1>8, <1>9 DEF LoadedOK
<1>11. ReadingOK(g)
  <2>1. Range(g.reading) = {ToOpen(m)} /\ Head(g.todo) = m
    BY <1>3, <1>8, RangeOfOne
  <2>2. \A i : ToValidate(i) # ToOpen(m)
    BY DEF ToValidate, ToOpen
  <2> QED BY <1>8, <2>1, <2>2 DEF ReadingOK
<1>12. CurrentOK(g)
  BY <1>8, <1>10, <1>11 DEF CurrentOK
<1> QED BY <1>6, <1>12, CurrentTop

(* A step that leaves loaded, known and fresh alone and ends the import.    *)
LEMMA StillLoaded ==
  ASSUME NEW f, NEW g, LoadedOK(f), g.pcm = f.pcm, g.loaded = f.loaded, g.known = f.known,
         g.fresh = f.fresh, g.pc \in {"unlock", "nulldereference"}
  PROVE  CurrentOK(g)
BY DEF CurrentOK, LoadedOK

LEMMA AddFailedCurrent ==
  ASSUME IInv, CurrentInv, NEW p \in Procs, NEW g, CurrentOK(g), AddFailed(p, g)
  PROVE  CurrentInv'
<1>1. CASE SetTop(p, g)
  BY <1>1, CurrentTop
<1>2. CASE SetTop(p, [Top(p) EXCEPT !.pc = "nulldereference"])
  <2>1. PICK f \in Instances : f = Top(p) /\ CurrentOK(f)
    BY TopFacts, TopIsCurrent
  <2>2. PICK h : h = [f EXCEPT !.pc = "nulldereference"]
    OBVIOUS
  <2>3. /\ h.pcm = f.pcm /\ h.pc = "nulldereference" /\ h.known = f.known
        /\ h.loaded = f.loaded /\ h.fresh = f.fresh
    BY <2>1, <2>2, GotoFields
  <2>4. CurrentOK(h)
    BY <2>1, <2>3, StillLoaded DEF CurrentOK
  <2> QED BY <1>2, <2>1, <2>2, <2>4, CurrentTop
<1> QED BY <1>1, <1>2 DEF AddFailed

LEMMA CompiledMissingCurrent ==
  ASSUME IInv, CurrentInv, NEW p \in Procs, CompiledMissing(p)
  PROVE  CurrentInv'
<1>1. PICK f \in Instances : f = Top(p) /\ CurrentOK(f) /\ f.pc = "compiled"
  BY TopFacts, TopIsCurrent DEF CompiledMissing, At
<1>2. PICK m \in PCModules : m = Imported(p)
  BY BusyFacts DEF CompiledMissing, At, Busy
<1>3. PICK h : h = Looked(f, m)
  OBVIOUS
<1>4. h \in Instances
  BY <1>3, LookedFacts DEF Keeps
<1>5. PICK r : r = IF h.retry THEN [h EXCEPT !.known[m] = "null"] ELSE Failing(h)
  OBVIOUS
<1>6. PICK g : g = Answered(r)
  OBVIOUS
<1>7. AddFailed(p, g)
  BY <1>1, <1>2, <1>3, <1>5, <1>6 DEF CompiledMissing
<1>8. h.pcm = f.pcm /\ h.known = f.known /\ h.loaded = f.loaded
  BY <1>1, <1>3, LookedFields
<1>9. /\ r \in Instances /\ r.pcm = h.pcm /\ r.loaded = h.loaded
      /\ \A i \in PCModules : r.known[i] = "module" => h.known[i] = "module"
  <2>1. CASE h.retry
    <3>1. r = [h EXCEPT !.known[m] = "null"]
      BY <1>5, <2>1
    <3>2. r \in Instances
      BY <1>4, <3>1, KnownFacts DEF Keeps
    <3>3. /\ r.pcm = h.pcm /\ r.loaded = h.loaded /\ r.known[m] = "null"
          /\ \A i \in PCModules : i # m => r.known[i] = h.known[i]
      BY <1>4, <3>1 DEF Instances
    <3> QED BY <3>2, <3>3
  <2>2. CASE ~h.retry
    <3>1. r = Failing(h)
      BY <1>5, <2>2
    <3>2. r \in Instances
      BY <1>4, <3>1, FailingFacts DEF Keeps
    <3>3. r.pcm = h.pcm /\ r.loaded = h.loaded /\ r.known = h.known
      BY <1>4, <3>1, FailingFields
    <3> QED BY <3>2, <3>3
  <2> QED BY <2>1, <2>2
<1>10. /\ g.pcm = r.pcm /\ g.pc = "run" /\ g.fresh = {} /\ g.loaded = r.loaded
       /\ g.known = r.known
  <2>1. r \in Instances
    BY <1>9
  <2> QED BY <1>6, <2>1, AnsweredFields
<1>11. f.fresh = {}
  BY <1>1 DEF CurrentOK
<1>12. CurrentOK(g)
  BY <1>1, <1>8, <1>9, <1>10, <1>11, StaysCurrent
<1> QED BY <1>7, <1>12, AddFailedCurrent

(* What a failed ReadAST had opened is removed, all else was current.       *)
LEMMA ReadFailsCurrent ==
  ASSUME IInv, CurrentInv, NEW p \in Procs, Imported(p) \in PCModules,
         NEW f \in Instances, LoadedOK(f), ReadFails(p, f)
  PROVE  CurrentInv'
<1>1. PICK m \in PCModules : m = Imported(p)
  OBVIOUS
<1>2. PICK r : r = RolledBack(f)
  OBVIOUS
<1>3. r \in Instances
  BY <1>2, RolledBackFacts DEF Keeps
<1>4. PICK k : k = [r EXCEPT !.known[m] = "null"]
  OBVIOUS
<1>5. k \in Instances
  BY <1>3, <1>4, KnownFacts DEF Keeps
<1>6. PICK h : h = Failing(k)
  OBVIOUS
<1>7. h \in Instances
  BY <1>5, <1>6, FailingFacts DEF Keeps
<1>8. PICK g : g = Answered(h)
  OBVIOUS
<1>9. SetTop(p, g) \/ AddFailed(p, g)
  BY <1>1, <1>2, <1>4, <1>6, <1>8 DEF ReadFails
<1>10. /\ r.pcm = f.pcm /\ r.known = f.known
       /\ \A i \in PCModules : r.loaded[i] = IF i \in f.fresh THEN Absent ELSE f.loaded[i]
  BY <1>2, RolledBackFields
<1>11. /\ k.pcm = r.pcm /\ k.loaded = r.loaded /\ k.known[m] = "null"
       /\ \A i \in PCModules : i # m => k.known[i] = r.known[i]
  BY <1>3, <1>4 DEF Instances
<1>12. h.pcm = k.pcm /\ h.loaded = k.loaded /\ h.known = k.known
  BY <1>5, <1>6, FailingFields
<1>13. /\ g.pcm = h.pcm /\ g.pc = "run" /\ g.fresh = {} /\ g.loaded = h.loaded
       /\ g.known = h.known
  BY <1>7, <1>8, AnsweredFields
<1>14. CurrentOK(g)
  <2>1. /\ g.pcm = f.pcm
        /\ \A i \in PCModules : /\ g.known[i] = "module" => f.known[i] = "module"
                                /\ g.loaded[i] = IF i \in f.fresh THEN Absent
                                                                  ELSE f.loaded[i]
    BY <1>10, <1>11, <1>12, <1>13
  <2>2. LoadedOK(g)
    BY <1>13, <2>1 DEF LoadedOK
  <2> QED BY <1>13, <2>2 DEF CurrentOK
<1> QED BY <1>9, <1>14, AddFailedCurrent, CurrentTop

-----------------------------------------------------------------------------
(* ReadAST                                                                  *)

LEMMA RangeTail ==
  ASSUME NEW S, NEW s \in Seq(S), s # << >>
  PROVE  Range(s) = {Head(s)} \cup Range(Tail(s))
<1>1. PICK t : t = Tail(s)
  OBVIOUS
<1>2. /\ Len(s) \in Nat \ {0} /\ DOMAIN s = 1 .. Len(s) /\ Head(s) = s[1]
      /\ t \in Seq(S) /\ Len(t) = Len(s) - 1 /\ DOMAIN t = 1 .. Len(t)
      /\ \A k \in 1 .. Len(t) : t[k] = s[k + 1]
  BY <1>1
<1>3. ASSUME NEW k \in 1 .. Len(s) PROVE s[k] = Head(s) \/ \E j \in DOMAIN t : t[j] = s[k]
  <2>1. k = 1 \/ (k - 1 \in 1 .. Len(t) /\ t[k - 1] = s[k])
    BY <1>2
  <2> QED BY <1>2, <2>1
<1>4. \A k \in 1 .. Len(t) : k + 1 \in DOMAIN s
  BY <1>2
<1>5. \A e \in Range(s) : e \in {Head(s)} \cup Range(t)
  BY <1>2, <1>3 DEF Range
<1>6. \A e \in {Head(s)} \cup Range(t) : e \in Range(s)
  <2>1. 1 \in DOMAIN s
    BY <1>2
  <2> QED BY <1>2, <1>4, <2>1 DEF Range
<1> QED BY <1>1, <1>5, <1>6

LEMMA RangeConcat ==
  ASSUME NEW s \in Seq(Pending), NEW t \in Seq(Pending)
  PROVE  Range(s \o t) = Range(s) \cup Range(t)
<1>1. PICK r : r = s \o t
  OBVIOUS
<1>2. /\ Len(s) \in Nat /\ Len(t) \in Nat /\ Len(r) = Len(s) + Len(t)
      /\ DOMAIN s = 1 .. Len(s) /\ DOMAIN t = 1 .. Len(t) /\ DOMAIN r = 1 .. Len(r)
      /\ \A k \in 1 .. Len(r) : r[k] = IF k <= Len(s) THEN s[k] ELSE t[k - Len(s)]
  BY <1>1
<1>3. \A k \in 1 .. Len(s) : k \in 1 .. Len(r) /\ r[k] = s[k]
  BY <1>2
<1>4. ASSUME NEW k \in 1 .. Len(t) PROVE k + Len(s) \in 1 .. Len(r) /\ r[k + Len(s)] = t[k]
  <2>1. k + Len(s) \in 1 .. Len(r) /\ ~(k + Len(s) <= Len(s)) /\ k + Len(s) - Len(s) = k
    BY <1>2
  <2> QED BY <1>2, <2>1
<1>5. ASSUME NEW k \in 1 .. Len(r)
      PROVE (k \in 1 .. Len(s) /\ r[k] = s[k])
            \/ (k - Len(s) \in 1 .. Len(t) /\ r[k] = t[k - Len(s)])
  BY <1>2
<1>6. \A e \in Range(r) : e \in Range(s) \cup Range(t)
  BY <1>2, <1>5 DEF Range
<1>7. \A e \in Range(s) : e \in Range(r)
  BY <1>2, <1>3 DEF Range
<1>8. \A e \in Range(t) : e \in Range(r)
  <2>1. TAKE e \in Range(t)
  <2>2. PICK k \in 1 .. Len(t) : e = t[k]
    BY <1>2 DEF Range
  <2>3. k + Len(s) \in DOMAIN r /\ r[k + Len(s)] = e
    BY <1>2, <1>4, <2>2
  <2> QED BY <2>3 DEF Range
<1> QED BY <1>1, <1>6, <1>7, <1>8

(* The instance that reads, what is next and what is left after it.         *)
LEMMA ReaderFacts ==
  ASSUME IInv, CurrentInv, NEW p \in Procs, NEW op, Reading(p, op)
  PROVE  \E f \in Instances : \E e \in Pending :
           /\ f = Top(p) /\ f.pc = "read" /\ LoadedOK(f) /\ ReadingOK(f)
           /\ e = NextFile(p) /\ e.op = op /\ e.pcm \in PCModules
           /\ Tail(f.reading) \in Seq(Pending)
           /\ Range(f.reading) = {e} \cup Range(Tail(f.reading))
           /\ Imported(p) \in PCModules
<1>1. PICK f \in Instances : f = Top(p) /\ CurrentOK(f) /\ f.pc = "read"
  BY TopFacts, TopIsCurrent, ReadingFacts
<1>2. PICK e \in Pending : e = NextFile(p)
  BY ReadingFacts
<1>3. e.op = op /\ f.reading # << >> /\ e = Head(f.reading)
  BY <1>1, <1>2 DEF Reading, NextFile
<1>4. f.reading \in Seq(Pending) /\ Tail(f.reading) \in Seq(Pending) /\ Imported(p) \in PCModules
  BY <1>1, ReadingFacts
<1>5. Range(f.reading) = {e} \cup Range(Tail(f.reading))
  BY <1>3, <1>4, RangeTail
<1> QED BY <1>1, <1>2, <1>3, <1>4, <1>5 DEF CurrentOK, Pending

LEMMA SkipFileCurrent ==
  ASSUME IInv, CurrentInv, NEW p \in Procs, AlreadyLoaded(p) \/ Validate(p)
  PROVE  CurrentInv'
<1>1. PICK op \in {"open", "validate"} :
        Reading(p, op) /\ (op = "open" <=> AlreadyLoaded(p)) /\ (op = "validate" => Validate(p))
  BY DEF AlreadyLoaded, Validate, Reading
<1>2. PICK f \in Instances, e \in Pending :
        /\ f = Top(p) /\ f.pc = "read" /\ LoadedOK(f) /\ ReadingOK(f)
        /\ e = NextFile(p) /\ e.op = op /\ e.pcm \in PCModules
        /\ Range(f.reading) = {e} \cup Range(Tail(f.reading))
  BY <1>1, ReaderFacts
<1>3. PICK g : g = [f EXCEPT !.reading = Tail(@)]
  OBVIOUS
<1>4. SetTop(p, g)
  BY <1>2, <1>3 DEF AlreadyLoaded, Validate
<1>5. /\ g.pcm = f.pcm /\ g.pc = f.pc /\ g.known = f.known /\ g.loaded = f.loaded
      /\ g.fresh = f.fresh /\ g.todo = f.todo /\ g.reading = Tail(f.reading)
  BY <1>3, SkippedFields
<1>6. LoadedOK(g)
  BY <1>2, <1>5 DEF LoadedOK
<1>7. \A x : x \in Range(f.reading) <=> x = e \/ x \in Range(g.reading)
  BY <1>2, <1>5
<1>8. ReadingOK(g)
  <2>1. CASE op = "open"
    <3>1. f.loaded[e.pcm] # Absent
      BY <1>1, <1>2, <2>1 DEF AlreadyLoaded
    <3>2. \A i : ToValidate(i) # e /\ (ToOpen(i) = e => i = e.pcm)
      BY <1>2, <2>1 DEF ToValidate, ToOpen
    <3> QED BY <1>2, <1>5, <1>7, <3>1, <3>2 DEF ReadingOK
  <2>2. CASE op = "validate"
    <3>1. e.pcm \notin f.loaded[e.pcm].stale
      BY <1>1, <1>2, <2>2 DEF Validate, UpToDate
    <3>2. \A i : ToOpen(i) # e /\ (ToValidate(i) = e => i = e.pcm)
      BY <1>2, <2>2 DEF ToValidate, ToOpen
    <3> QED BY <1>2, <1>5, <1>7, <3>1, <3>2 DEF ReadingOK
  <2> QED BY <2>1, <2>2
<1>9. CurrentOK(g)
  BY <1>2, <1>5, <1>6, <1>8 DEF CurrentOK
<1> QED BY <1>4, <1>9, CurrentTop

LEMMA OpenFailsCurrent ==
  ASSUME IInv, CurrentInv, NEW p \in Procs, OpenFails(p)
  PROVE  CurrentInv'
<1>1. PICK f \in Instances, e \in Pending :
        /\ f = Top(p) /\ LoadedOK(f) /\ e = NextFile(p) /\ e.pcm \in PCModules
        /\ Imported(p) \in PCModules
  BY ReaderFacts DEF OpenFails
<1>2. PICK m \in PCModules : m = e.pcm
  BY <1>1
<1>3. PICK h : h = Looked(f, m)
  OBVIOUS
<1>4. h \in Instances
  BY <1>3, LookedFacts DEF Keeps
<1>5. ReadFails(p, h)
  BY <1>1, <1>2, <1>3 DEF OpenFails
<1>6. h.pcm = f.pcm /\ h.known = f.known /\ h.loaded = f.loaded /\ h.fresh = f.fresh
  BY <1>3, LookedFields
<1>7. LoadedOK(h)
  BY <1>1, <1>6 DEF LoadedOK
<1> QED BY <1>1, <1>4, <1>5, <1>7, ReadFailsCurrent

LEMMA OutOfDateCurrent ==
  ASSUME IInv, CurrentInv, NEW p \in Procs, OutOfDate(p)
  PROVE  CurrentInv'
<1>1. PICK f \in Instances :
        f = Top(p) /\ LoadedOK(f) /\ Imported(p) \in PCModules
  BY ReaderFacts DEF OutOfDate
<1>2. CASE f.retry
  BY <1>1, <1>2, ReadFailsCurrent DEF OutOfDate
<1>3. CASE ~f.retry
  <2>1. PICK r : r = RolledBack(f)
    OBVIOUS
  <2>2. r \in Instances
    BY <2>1, RolledBackFacts DEF Keeps
  <2>3. PICK g : g = [r EXCEPT !.pc = "outofdate"]
    OBVIOUS
  <2>4. SetTop(p, g)
    BY <1>1, <1>3, <2>1, <2>3 DEF OutOfDate
  <2>5. /\ r.pcm = f.pcm /\ r.known = f.known /\ r.fresh = f.fresh
        /\ \A i \in PCModules : r.loaded[i] = IF i \in f.fresh THEN Absent ELSE f.loaded[i]
    BY <2>1, RolledBackFields
  <2>6. /\ g.pcm = r.pcm /\ g.pc = "outofdate" /\ g.known = r.known /\ g.fresh = r.fresh
        /\ g.loaded = r.loaded
    BY <2>2, <2>3, GotoFields
  <2>7. f.fresh \subseteq PCModules
    BY DEF Instances
  <2>8. CurrentOK(g)
    BY <1>1, <2>5, <2>6, <2>7 DEF CurrentOK, LoadedOK
  <2> QED BY <2>4, <2>8, CurrentTop
<1> QED BY <1>2, <1>3

LEMMA OpenFileCurrent ==
  ASSUME IInv, CurrentInv, NEW p \in Procs, OpenFile(p)
  PROVE  CurrentInv'
<1>1. PICK f \in Instances, e \in Pending :
        /\ f = Top(p) /\ f.pc = "read" /\ LoadedOK(f) /\ ReadingOK(f)
        /\ e = NextFile(p) /\ e.op = "open" /\ e.pcm \in PCModules
        /\ Tail(f.reading) \in Seq(Pending)
        /\ Range(f.reading) = {e} \cup Range(Tail(f.reading))
  BY ReaderFacts DEF OpenFile
<1>2. PICK m \in PCModules : m = e.pcm
  BY <1>1
<1>3. PICK c \in Content : c = file[m] /\ c # Absent
  <2>1. file[m] # Absent
    BY <1>1, <1>2 DEF OpenFile, Readable
  <2> QED BY <2>1 DEF IInv, TypeOK
<1>4. PICK h \in Instances : h = Looked(f, m)
  BY LookedFacts DEF Keeps
<1>5. PICK opens : opens = [k \in 1 .. Len(c.imports) |->
                              [op |-> "open", pcm |-> c.imports[k]]]
  OBVIOUS
<1>6. opens \in Seq(Pending) /\ \A x \in Range(opens) : x.op = "open"
  <2>1. c.imports \in Seq(PCModules)
    BY DEF Content
  <2>2. Len(c.imports) \in Nat /\ \A k \in 1 .. Len(c.imports) : c.imports[k] \in PCModules
    BY <2>1
  <2>3. \A k \in 1 .. Len(c.imports) : [op |-> "open", pcm |-> c.imports[k]] \in Pending
    BY <2>2 DEF Pending
  <2> QED BY <1>5, <2>2, <2>3 DEF Range
<1>7. PICK rest \in Seq(Pending) : rest = Tail(f.reading)
  BY <1>1
<1>8. PICK v \in Seq(Pending) : v = << ToValidate(m) >> /\ Range(v) = {ToValidate(m)}
  <2>1. << ToValidate(m) >> \in Seq(Pending)
    BY DEF ToValidate, Pending
  <2> QED BY <2>1, RangeOfOne
<1>9. PICK r : r = opens \o v \o rest
  OBVIOUS
<1>10. Range(r) = Range(opens) \cup {ToValidate(m)} \cup Range(rest)
  <2>1. opens \in Seq(Pending)
    BY <1>6
  <2>2. PICK q : q = opens \o v /\ q \in Seq(Pending)
    <3>1. opens \o v \in Seq(Pending)
      BY <2>1
    <3> QED BY <3>1
  <2>3. Range(q) = Range(opens) \cup Range(v)
    BY <2>1, <2>2, RangeConcat
  <2>4. r = q \o rest
    BY <1>9, <2>2
  <2>5. Range(r) = Range(q) \cup Range(rest)
    BY <2>2, <2>4, RangeConcat
  <2> QED BY <1>8, <2>3, <2>5
<1>11. PICK g : g = [h EXCEPT !.loaded[m] = c, !.fresh = @ \cup {m}, !.reading = r]
  OBVIOUS
<1>12. /\ h.pcm = f.pcm /\ h.pc = f.pc /\ h.known = f.known /\ h.loaded = f.loaded
       /\ h.fresh = f.fresh /\ h.todo = f.todo /\ h.reading = f.reading
  BY <1>4, LookedFields
<1>13. SetTop(p, g) /\ f.loaded[m] = Absent
  <2>1. [h EXCEPT !.loaded[m] = file[m], !.fresh = @ \cup {m},
                  !.reading = [k \in 1 .. Len(file[m].imports) |->
                                 [op |-> "open", pcm |-> file[m].imports[k]]]
                              \o << [op |-> "validate", pcm |-> m] >> \o Tail(@)] = g
    BY <1>3, <1>5, <1>7, <1>8, <1>9, <1>11, <1>12 DEF ToValidate
  <2> QED BY <1>1, <1>2, <1>4, <2>1 DEF OpenFile
<1>14. /\ g.pcm = f.pcm /\ g.pc = "read" /\ g.known = f.known /\ g.todo = f.todo
       /\ g.reading = r /\ g.fresh = f.fresh \cup {m} /\ g.loaded[m] = c
       /\ \A i \in PCModules : i # m => g.loaded[i] = f.loaded[i]
  <2>1. /\ g.pcm = h.pcm /\ g.pc = h.pc /\ g.known = h.known /\ g.todo = h.todo
        /\ g.reading = r /\ g.fresh = h.fresh \cup {m} /\ g.loaded[m] = c
        /\ \A i \in PCModules : i # m => g.loaded[i] = h.loaded[i]
    BY <1>11 DEF Instances
  <2> QED BY <1>1, <1>12, <2>1
<1>15. LoadedOK(g)
  BY <1>1, <1>13, <1>14 DEF LoadedOK
<1>16. f.fresh \subseteq PCModules
  BY DEF Instances
<1>17. \A x : x \in Range(f.reading) <=> x = e \/ x \in Range(rest)
  BY <1>1, <1>7
<1>18. \A i : /\ ToValidate(i) # e /\ (ToOpen(i) = e => i = m)
              /\ ToValidate(i) \notin Range(opens) /\ ToOpen(i) # ToValidate(m)
              /\ ToValidate(i) = ToValidate(m) => i = m
  BY <1>1, <1>2, <1>6 DEF ToValidate, ToOpen
<1>19. \A i : ToValidate(i) \in Range(r) <=> i = m \/ ToValidate(i) \in Range(rest)
  BY <1>10, <1>18
<1>20. ReadingOK(g)
  <2>1. \A i \in g.fresh : g.loaded[i] # Absent
    BY <1>1, <1>3, <1>14, <1>16 DEF ReadingOK
  <2>2. \A i \in g.fresh : i \notin g.loaded[i].stale \/ ToValidate(i) \in Range(g.reading)
    <3>1. TAKE i \in g.fresh
    <3>2. CASE i = m
      BY <1>14, <1>19, <3>2
    <3>3. CASE i # m
      <4>1. i \in f.fresh /\ g.loaded[i] = f.loaded[i]
        BY <1>14, <1>16, <3>1, <3>3
      <4>2. i \notin f.loaded[i].stale \/ ToValidate(i) \in Range(f.reading)
        BY <1>1, <4>1 DEF ReadingOK
      <4> QED BY <1>14, <1>17, <1>18, <1>19, <4>1, <4>2
    <3> QED BY <3>2, <3>3
  <2>3. g.loaded[Head(g.todo)] # Absent \/ ToOpen(Head(g.todo)) \in Range(g.reading)
    <3>1. PICK i : i = Head(f.todo)
      OBVIOUS
    <3>2. f.loaded[i] # Absent \/ ToOpen(i) \in Range(f.reading)
      BY <1>1, <3>1 DEF ReadingOK
    <3>3. i \in PCModules
      BY <1>1, <3>1, ReaderFacts, ImportedIsHead DEF OpenFile
    <3>4. CASE i = m
      BY <1>3, <1>14, <3>1, <3>4
    <3>5. CASE i # m
      <4>1. ToOpen(i) \in Range(f.reading) => ToOpen(i) \in Range(r)
        BY <1>10, <1>17, <1>18, <3>5
      <4> QED BY <1>14, <3>1, <3>2, <3>3, <3>5, <4>1
    <3> QED BY <3>4, <3>5
  <2>4. \A i \in PCModules : ToValidate(i) \in Range(g.reading) => g.loaded[i] # Absent
    <3>1. TAKE i \in PCModules
    <3>2. HAVE ToValidate(i) \in Range(g.reading)
    <3>3. CASE i = m
      BY <1>3, <1>14, <3>3
    <3>4. CASE i # m
      <4>1. ToValidate(i) \in Range(f.reading)
        BY <1>14, <1>17, <1>19, <3>2, <3>4
      <4> QED BY <1>1, <1>14, <3>4, <4>1 DEF ReadingOK
    <3> QED BY <3>3, <3>4
  <2> QED BY <2>1, <2>2, <2>3, <2>4 DEF ReadingOK
<1>21. CurrentOK(g)
  BY <1>14, <1>15, <1>20 DEF CurrentOK
<1> QED BY <1>13, <1>21, CurrentTop

LEMMA RemoveFileCurrent ==
  ASSUME IInv, CurrentInv, NEW p \in Procs, RemoveFile(p)
  PROVE  CurrentInv'
<1>1. PICK f \in Instances :
        f = Top(p) /\ LoadedOK(f) /\ \A i \in f.fresh : f.loaded[i] = Absent
  BY TopFacts, TopIsCurrent DEF RemoveFile, At, CurrentOK
<1>2. PICK m \in PCModules : m = Imported(p)
  BY BusyFacts DEF RemoveFile, At, Busy
<1>3. PICK h : h = [f EXCEPT !.fileMgr[m] = "unseen"]
  OBVIOUS
<1>4. /\ h \in Instances /\ h.pcm = f.pcm /\ h.known = f.known /\ h.loaded = f.loaded
  BY <1>3 DEF Instances
<1>5. ASSUME NEW g, g.pcm = h.pcm, g.known = h.known, g.loaded = h.loaded, g.fresh = {},
             g.pc \in {"run", "compile"}
      PROVE CurrentOK(g)
  BY <1>1, <1>4, <1>5 DEF CurrentOK, LoadedOK
<1>6. CASE HasAlreadyFailed(p, m)
  <2>1. PICK k : k = Failing(h)
    OBVIOUS
  <2>2. k \in Instances
    BY <1>4, <2>1, FailingFacts DEF Keeps
  <2>3. PICK g : g = Answered(k)
    OBVIOUS
  <2>4. k.pcm = h.pcm /\ k.known = h.known /\ k.loaded = h.loaded
    BY <1>4, <2>1, FailingFields
  <2>5. g.pcm = k.pcm /\ g.known = k.known /\ g.loaded = k.loaded /\ g.fresh = {} /\ g.pc = "run"
    BY <2>2, <2>3, AnsweredFields
  <2>6. CurrentOK(g)
    BY <1>5, <2>4, <2>5
  <2>7. SetTop(p, g)
    BY <1>1, <1>2, <1>3, <1>6, <2>1, <2>3 DEF RemoveFile
  <2> QED BY <2>6, <2>7, CurrentTop
<1>7. CASE ~HasAlreadyFailed(p, m)
  <2>1. PICK g : g = [h EXCEPT !.pc = "compile", !.retry = TRUE, !.reading = << >>, !.fresh = {}]
    OBVIOUS
  <2>2. /\ g.pcm = h.pcm /\ g.known = h.known /\ g.loaded = h.loaded /\ g.fresh = {}
        /\ g.pc = "compile"
    BY <1>4, <2>1 DEF Instances
  <2>3. CurrentOK(g)
    BY <1>5, <2>2
  <2>4. SetTop(p, g)
    BY <1>1, <1>2, <1>3, <1>7, <2>1 DEF RemoveFile
  <2> QED BY <2>3, <2>4, CurrentTop
<1> QED BY <1>6, <1>7

LEMMA ReadDoneCurrent ==
  ASSUME IInv, CurrentInv, NEW p \in Procs, ReadDone(p)
  PROVE  CurrentInv'
<1>1. PICK f \in Instances :
        f = Top(p) /\ f.pc = "read" /\ f.reading = << >> /\ LoadedOK(f) /\ ReadingOK(f)
  BY TopFacts, TopIsCurrent DEF ReadDone, At, CurrentOK
<1>2. PICK m \in PCModules : m = Imported(p) /\ m = Head(f.todo)
  BY <1>1, BusyFacts, ImportedIsHead DEF Busy
<1>3. \A x : x \notin Range(f.reading)
  BY <1>1 DEF Range
<1>4. /\ f.loaded[m] # Absent
      /\ \A i \in f.fresh : i \notin f.loaded[i].stale
  BY <1>1, <1>2, <1>3 DEF ReadingOK
<1>5. PICK d : d = Append(f.direct, m) /\ d \in Seq(PCModules)
  <2>1. f.direct \in Seq(PCModules)
    BY DEF Instances
  <2>2. Append(f.direct, m) \in Seq(PCModules)
    BY <2>1
  <2> QED BY <2>2
<1>6. PICK h : h = [f EXCEPT !.known[m] = "module", !.direct = d]
  OBVIOUS
<1>7. /\ h \in Instances /\ h.pcm = f.pcm /\ h.loaded = f.loaded
      /\ h.known[m] = "module" /\ \A i \in PCModules : i # m => h.known[i] = f.known[i]
  <2>1. PICK known : known = [f.known EXCEPT ![m] = "module"]
    OBVIOUS
  <2>2. /\ known \in [PCModules -> {"unknown", "module", "null"}] /\ known[m] = "module"
        /\ \A i \in PCModules : i # m => known[i] = f.known[i]
    BY <2>1 DEF Instances
  <2>3. h = [f EXCEPT !.known = known, !.direct = d]
    BY <1>6, <2>1
  <2>4. h \in Instances /\ h.pcm = f.pcm /\ h.loaded = f.loaded /\ h.known = known
    BY <1>5, <2>2, <2>3 DEF Instances
  <2> QED BY <2>2, <2>4
<1>8. PICK g : g = Answered(h)
  OBVIOUS
<1>9. SetTop(p, g)
  <2>1. h = [f EXCEPT !.known[m] = "module", !.direct = Append(@, m)]
    BY <1>5, <1>6
  <2> QED BY <1>1, <1>2, <1>8, <2>1 DEF ReadDone
<1>10. g.pcm = h.pcm /\ g.pc = "run" /\ g.known = h.known /\ g.loaded = h.loaded /\ g.fresh = {}
  <2>1. h \in Instances
    BY <1>7
  <2> QED BY <1>8, <2>1, AnsweredFields
<1>11. CurrentOK(g)
  BY <1>1, <1>4, <1>7, <1>10 DEF CurrentOK, LoadedOK
<1> QED BY <1>9, <1>11, CurrentTop

-----------------------------------------------------------------------------
(* Nested builds                                                            *)

LEMMA EndCurrent ==
  ASSUME IInv, CurrentInv, NEW p \in Procs, EndSourceFile(p) \/ BuildCrashes(p)
  PROVE  CurrentInv'
<1>1. PICK f \in Instances : f = Top(p) /\ LoadedOK(f)
  BY TopFacts, TopIsCurrent DEF CurrentOK
<1>2. PICK g : g = [f EXCEPT !.pc = "unlock"]
  OBVIOUS
<1>3. SetTop(p, g)
  BY <1>1, <1>2 DEF EndSourceFile, BuildCrashes
<1>4. /\ g.pcm = f.pcm /\ g.pc = "unlock" /\ g.known = f.known /\ g.loaded = f.loaded
      /\ g.fresh = f.fresh
  BY <1>2, GotoFields
<1>5. CurrentOK(g)
  BY <1>1, <1>4, StillLoaded
<1> QED BY <1>3, <1>5, CurrentTop

(* A new instance has loaded nothing.                                       *)
LEMMA NewIsCurrent ==
  ASSUME NEW m, NEW imports
  PROVE  CurrentOK(NewInstance(m, imports))
BY DEF CurrentOK, LoadedOK, NewInstance

(* A build is pushed on an instance that will go on when it is over.        *)
LEMMA LockOwnedStack ==
  ASSUME IInv, NEW p \in Procs, LockOwned(p), NEW q \in Procs, NEW k \in 1 .. Len(stack'[q])
  PROVE  \/ q = p /\ stack'[q][k] = NewInstance(Imported(p), Imports[Imported(p)])
         \/ q = p /\ stack'[q][k] = [Top(p) EXCEPT !.pc = "compiled"]
         \/ k \in 1 .. Len(stack[q]) /\ stack'[q][k] = stack[q][k]
<1>1. PICK n \in Nat \ {0}, m \in PCModules, f \in Instances, g \in Instances,
           new \in Instances : IsNested(p, n, m, f, g, new)
  BY LockOwnedPlace
<1>2. \A j \in 1 .. n + 1 : j = n + 1 \/ j = n \/ j \in 1 .. n - 1
  OBVIOUS
<1>3. CASE q = p
  BY <1>1, <1>2, <1>3 DEF IsNested
<1>4. CASE q # p
  BY <1>1, <1>4 DEF IsNested
<1> QED BY <1>3, <1>4

(* The end of a build removes its instance.                                 *)
LEMMA UnlockStack ==
  ASSUME IInv, NEW p \in Procs, Unlock(p), NEW q \in Procs, NEW k \in 1 .. Len(stack'[q])
  PROVE  k \in 1 .. Len(stack[q]) /\ stack'[q][k] = stack[q][k]
<1>1. PICK n \in Nat \ {0} :
        /\ Len(stack[p]) = n + 1 /\ Len(stack'[p]) = n
        /\ \A r \in Procs : r # p => stack'[r] = stack[r]
        /\ \A j \in 1 .. n : stack'[p][j] = stack[p][j]
  BY UnlockPlace
<1>2. \A j \in 1 .. n : j \in 1 .. n + 1
  OBVIOUS
<1>3. CASE q = p
  BY <1>1, <1>2, <1>3
<1>4. CASE q # p
  BY <1>1, <1>4
<1> QED BY <1>3, <1>4

LEMMA LockOwnedCurrent ==
  ASSUME IInv, CurrentInv, NEW p \in Procs, LockOwned(p)
  PROVE  CurrentInv'
<1>1. PICK f \in Instances : f = Top(p) /\ CurrentOK(f) /\ f.pc = "compile"
  BY TopFacts, TopIsCurrent DEF LockOwned, At
<1>2. PICK g : g = [f EXCEPT !.pc = "compiled"]
  OBVIOUS
<1>3. CurrentOK(g)
  <2>1. /\ g.pcm = f.pcm /\ g.pc = "compiled" /\ g.known = f.known /\ g.loaded = f.loaded
        /\ g.fresh = f.fresh
    BY <1>2, GotoFields
  <2>2. f.fresh = {}
    BY <1>1 DEF CurrentOK
  <2> QED BY <1>1, <2>1, <2>2, StaysCurrent
<1>4. PICK new : new = NewInstance(Imported(p), Imports[Imported(p)]) /\ CurrentOK(new)
  BY NewIsCurrent
<1>5. ASSUME NEW q \in Procs, NEW k \in 1 .. Len(stack'[q]) PROVE CurrentOK(stack'[q][k])
  <2>1. \/ stack'[q][k] = new
        \/ stack'[q][k] = g
        \/ k \in 1 .. Len(stack[q]) /\ stack'[q][k] = stack[q][k]
    BY <1>1, <1>2, <1>4, LockOwnedStack
  <2> QED BY <1>3, <1>4, <2>1 DEF CurrentInv
<1> QED BY <1>5 DEF CurrentInv

LEMMA UnlockCurrent ==
  ASSUME IInv, CurrentInv, NEW p \in Procs, Unlock(p)
  PROVE  CurrentInv'
BY UnlockStack DEF CurrentInv

-----------------------------------------------------------------------------
LEMMA CurrentInit == Init => CurrentInv
<1> SUFFICES ASSUME Init, NEW p \in Procs, NEW k \in 1 .. Len(stack[p])
             PROVE  CurrentOK(stack[p][k])
  BY DEF CurrentInv
<1>1. PICK f : f = NewInstance(Main, program[p])
  OBVIOUS
<1>2. stack[p] = << f >> /\ CurrentOK(f)
  BY <1>1, NewIsCurrent DEF Init
<1>3. k = 1
  BY <1>2
<1> QED BY <1>2, <1>3

LEMMA CurrentStep ==
  ASSUME IInv, CurrentInv, NEW p \in Procs, Step(p)
  PROVE  CurrentInv'
<1>1. CASE ImportKnown(p) \/ ImportCycle(p) \/ ImportFailedBefore(p)
  BY <1>1, AnsweredStep
<1>2. CASE ImportMissing(p) \/ LockError(p) \/ LockShared(p) \/ WaitForUnlock(p)
  BY <1>2, WaitingStep
<1>3. CASE ImportCached(p) \/ CompiledFound(p)
  BY <1>3, ReadStartsStep
<1>4. CASE LockOwned(p)
  BY <1>4, LockOwnedCurrent
<1>5. CASE EndSourceFile(p)
  BY <1>5, EndCurrent
<1>6. CASE Unlock(p)
  BY <1>6, UnlockCurrent
<1>7. CASE CompiledMissing(p)
  BY <1>7, CompiledMissingCurrent
<1>8. CASE AlreadyLoaded(p) \/ Validate(p)
  BY <1>8, SkipFileCurrent
<1>9. CASE OpenFile(p)
  BY <1>9, OpenFileCurrent
<1>10. CASE OpenFails(p)
  BY <1>10, OpenFailsCurrent
<1>11. CASE OutOfDate(p)
  BY <1>11, OutOfDateCurrent
<1>12. CASE RemoveFile(p)
  BY <1>12, RemoveFileCurrent
<1>13. CASE ReadDone(p)
  BY <1>13, ReadDoneCurrent
<1> QED BY <1>1, <1>2, <1>3, <1>4, <1>5, <1>6, <1>7, <1>8, <1>9, <1>10, <1>11, <1>12, <1>13
        DEF Step

LEMMA CurrentNext == IInv /\ CurrentInv /\ [Next]_vars => CurrentInv'
<1> SUFFICES ASSUME IInv, CurrentInv, [Next]_vars PROVE CurrentInv'
  OBVIOUS
<1>1. ASSUME NEW p \in Procs, Step(p) PROVE CurrentInv'
  BY <1>1, CurrentStep
<1>2. ASSUME NEW p \in Procs, BuildCrashes(p) PROVE CurrentInv'
  BY <1>2, EndCurrent
<1>3. CASE UNCHANGED stack
  BY <1>3 DEF CurrentInv
<1>4. (\E p \in Procs : Die(p)) \/ UNCHANGED vars => UNCHANGED stack
  BY DEF Die, vars
<1> QED BY <1>1, <1>2, <1>3, <1>4 DEF Next

(* Whatever was in the cache, and whoever dies, crashes or removes a file   *)
(* at whatever moment: what an instance keeps was built from the current    *)
(* headers of its module, and no import succeeds without a file (the OutOf- *)
(* Date answer of ReadAST and the roll-back, CompilerInstance.cpp:1090-1123).*)
THEOREM ImportsCurrent == Spec => []ImportedFilesAreCurrent
<1>1. CurrentInv => ImportedFilesAreCurrent
  BY DEF CurrentInv, CurrentOK, LoadedOK, ImportedFilesAreCurrent, InstancesOf
<1>2. Init => CurrentInv
  BY CurrentInit
<1>3. IInv /\ CurrentInv /\ [Next]_vars => CurrentInv'
  BY CurrentNext
<1> QED BY <1>1, <1>2, <1>3, Invariance, PTL DEF Spec

-----------------------------------------------------------------------------
(* Errors of imports                                                        *)

(* Neither the headers of m nor those it needs are among those with errors. *)
GoodModule(b, m) == Closure(m) \cap b = {}

(* What is in the cache was built from the current headers, without errors. *)
SoundCache ==
  \A m \in PCModules : file[m] # Absent => file[m].stale = {} /\ GoodModule(broken, m)

(* All that an instance imports, in a process whose main program imports w. *)
Wanted(w, f) == IF f.pcm = Main THEN w ELSE Imports[f.pcm]

(* An instance with a sound cache never rebuilds anything; what it has left *)
(* to import is the end of all it imports, a, and what lies behind it is    *)
(* good or an error.                                                        *)
LoadedSound(b, f) ==
  \A i \in PCModules : f.loaded[i] # Absent => f.loaded[i].stale = {} /\ GoodModule(b, i)

NullsAreErrors(f) == \A i \in PCModules : f.known[i] = "null" => f.errors

RestOf(a, f) ==
  /\ Len(f.todo) <= Len(a)
  /\ \A k \in 1 .. Len(f.todo) : f.todo[k] = a[Len(a) - Len(f.todo) + k]

HandledOK(a, f) ==
  \A k \in 1 .. Len(a) - Len(f.todo) : f.known[a[k]] = "module" \/ f.errors

SoundOK(b, w, f) ==
  /\ ~f.retry /\ f.pc # "outofdate"
  /\ LoadedSound(b, f) /\ NullsAreErrors(f)
  /\ RestOf(Wanted(w, f), f) /\ HandledOK(Wanted(w, f), f)

SoundInv ==
  /\ SoundCache
  /\ \A p \in Procs : \A k \in 1 .. Len(stack[p]) : SoundOK(broken, program[p], stack[p][k])

LEMMA WantedFacts ==
  ASSUME IInv, NEW p \in Procs, NEW f \in Instances
  PROVE  Wanted(program[p], f) \in Seq(PCModules)
<1>1. f.pcm \in PCModules \cup {Main}
  BY DEF Instances
<1> QED BY <1>1, ModulesAssumption DEF Wanted, IInv, TypeOK

LEMMA TopIsSound ==
  ASSUME IInv, SoundInv, NEW p \in Procs
  PROVE  SoundOK(broken, program[p], Top(p))
<1>1. Top(p) = stack[p][Len(stack[p])] /\ Len(stack[p]) \in Nat \ {0}
  BY TopFacts
<1>2. Len(stack[p]) \in 1 .. Len(stack[p])
  BY <1>1
<1> QED BY <1>1, <1>2 DEF SoundInv

LEMMA SoundTop ==
  ASSUME IInv, SoundInv, NEW p \in Procs, NEW g, SetTop(p, g), SoundOK(broken, program[p], g),
         UNCHANGED <<program, broken>>, SoundCache'
  PROVE  SoundInv'
<1>1. ASSUME NEW q \in Procs, NEW k \in 1 .. Len(stack'[q])
      PROVE  SoundOK(broken', program'[q], stack'[q][k])
  <2>1. \/ q = p /\ stack'[q][k] = g
        \/ k \in 1 .. Len(stack[q]) /\ stack'[q][k] = stack[q][k]
    BY TopReplaced
  <2> QED BY <2>1 DEF SoundInv
<1> QED BY <1>1 DEF SoundInv

(* The import in hand stays in hand.                                        *)
LEMMA StaysSound ==
  ASSUME NEW b, NEW w, NEW f, NEW g, SoundOK(b, w, f), g.pcm = f.pcm, g.todo = f.todo,
         g.known = f.known, g.errors = f.errors, g.loaded = f.loaded, g.retry = f.retry,
         g.pc # "outofdate"
  PROVE  SoundOK(b, w, g)
<1>1. Wanted(w, g) = Wanted(w, f)
  BY DEF Wanted
<1>2. LoadedSound(b, g)
  BY DEF SoundOK, LoadedSound
<1>3. NullsAreErrors(g)
  BY DEF SoundOK, NullsAreErrors
<1>4. RestOf(Wanted(w, g), g) /\ HandledOK(Wanted(w, g), g)
  BY <1>1 DEF SoundOK, RestOf, HandledOK
<1> QED BY <1>2, <1>3, <1>4 DEF SoundOK

(* The import in hand has been handled: it was good, or is an error.        *)
LEMMA AnsweredSound ==
  ASSUME IInv, NEW p \in Procs, NEW f \in Instances, NEW g, NEW m \in PCModules,
         SoundOK(broken, program[p], f), f.todo # << >>, m = Head(f.todo), g.pcm = f.pcm,
         g.todo = Tail(f.todo), g.pc = "run", g.retry = FALSE,
         \A i \in PCModules : g.loaded[i] = f.loaded[i] \/ g.loaded[i] = Absent,
         \A i \in PCModules : f.known[i] = "module" => g.known[i] = "module" \/ g.errors,
         \A i \in PCModules : g.known[i] = "null" => g.errors,
         g.known[m] = "module" \/ g.errors, f.errors => g.errors
  PROVE  SoundOK(broken, program[p], g)
<1>1. PICK t \in Seq(PCModules) : t = f.todo
  BY DEF Instances
<1>2. PICK u : u = g.todo
  OBVIOUS
<1>3. PICK a \in Seq(PCModules) : a = Wanted(program[p], f) /\ a = Wanted(program[p], g)
  BY WantedFacts DEF Wanted
<1>4. m = t[1] /\ \A k \in 1 .. Len(u) : u[k] = t[k + 1]
  BY <1>1, <1>2
<1>5. Len(t) \in Nat \ {0} /\ Len(u) = Len(t) - 1 /\ Len(a) \in Nat
  BY <1>1, <1>2
<1>6. Len(t) <= Len(a) /\ \A k \in 1 .. Len(t) : t[k] = a[Len(a) - Len(t) + k]
  BY <1>1, <1>3 DEF SoundOK, RestOf
<1>7. RestOf(a, g)
  <2>1. Len(t) <= Len(a)
    BY <1>6
  <2>2. Len(u) <= Len(a)
    BY <1>5, <2>1
  <2>3. ASSUME NEW k \in 1 .. Len(u) PROVE u[k] = a[Len(a) - Len(u) + k]
    <3>1. k + 1 \in 1 .. Len(t) /\ Len(a) - Len(t) + (k + 1) = Len(a) - Len(u) + k
      BY <1>5
    <3> QED BY <1>4, <1>6, <3>1
  <2> QED BY <1>2, <2>2, <2>3 DEF RestOf
<1>8. HandledOK(a, g)
  <2>1. ASSUME NEW k \in 1 .. Len(a) - Len(u)
        PROVE  g.known[a[k]] = "module" \/ g.errors
    <3>1. CASE k = Len(a) - Len(t) + 1
      <4>1. 1 \in 1 .. Len(t)
        BY <1>5
      <4>2. a[k] = m
        BY <1>4, <1>6, <3>1, <4>1
      <4> QED BY <4>2
    <3>2. CASE k # Len(a) - Len(t) + 1
      <4>1. k \in 1 .. Len(a) - Len(t)
        BY <1>5, <3>2
      <4>2. f.known[a[k]] = "module" \/ f.errors
        BY <1>1, <1>3, <4>1 DEF SoundOK, HandledOK
      <4>3. k \in 1 .. Len(a)
        BY <1>5, <4>1
      <4>4. a[k] \in PCModules
        BY <1>3, <4>3
      <4> QED BY <4>2, <4>4
    <3> QED BY <3>1, <3>2
  <2> QED BY <1>2, <2>1 DEF HandledOK
<1>9. LoadedSound(broken, g)
  BY DEF SoundOK, LoadedSound
<1>10. NullsAreErrors(g)
  BY DEF NullsAreErrors
<1> QED BY <1>3, <1>7, <1>8, <1>9, <1>10 DEF SoundOK

-----------------------------------------------------------------------------
(* The steps of an import                                                   *)

LEMMA SoundCacheStays == ASSUME SoundInv, UNCHANGED <<broken, file>> PROVE SoundCache'
BY DEF SoundInv, SoundCache

LEMMA AnsweredSoundStep ==
  ASSUME IInv, SoundInv, NEW p \in Procs,
         ImportKnown(p) \/ ImportCycle(p) \/ ImportFailedBefore(p)
  PROVE  SoundInv'
<1>1. PICK f \in Instances : f = Top(p) /\ SoundOK(broken, program[p], f) /\ f.todo # << >>
  BY TopFacts, TopIsSound DEF ImportKnown, ImportCycle, ImportFailedBefore, NotKnown, Importing
<1>2. PICK m \in PCModules : m = Imported(p) /\ m = Head(f.todo)
  BY <1>1, ImportedFacts, ImportedIsHead
<1>3. NullsAreErrors(f)
  BY <1>1 DEF SoundOK
<1>4. UNCHANGED <<program, broken>> /\ SoundCache'
  BY SoundCacheStays DEF ImportKnown, ImportCycle, ImportFailedBefore
<1>5. CASE ImportKnown(p)
  <2>1. PICK k \in {"unknown", "module", "null"} :
          k = IF f.known[m] = "unknown" THEN "module" ELSE f.known[m]
    BY DEF Instances
  <2>2. PICK h : h = [f EXCEPT !.known[m] = k]
    OBVIOUS
  <2>3. /\ h \in Instances /\ h.pcm = f.pcm /\ h.loaded = f.loaded /\ h.known[m] = k
        /\ h.todo = f.todo /\ h.errors = f.errors
        /\ \A i \in PCModules : i # m => h.known[i] = f.known[i]
    BY <2>1, <2>2 DEF Instances
  <2>4. PICK g : g = Answered(h)
    OBVIOUS
  <2>5. SetTop(p, g)
    <3>1. h = [f EXCEPT !.known[m] = IF @ = "unknown" THEN "module" ELSE @]
      BY <2>1, <2>2
    <3> QED BY <1>1, <1>2, <1>5, <2>4, <3>1 DEF ImportKnown
  <2>6. /\ g.pcm = h.pcm /\ g.pc = "run" /\ g.known = h.known /\ g.loaded = h.loaded
        /\ g.errors = h.errors /\ g.todo = Tail(h.todo) /\ g.retry = FALSE
    <3>1. h \in Instances
      BY <2>3
    <3> QED BY <2>4, <3>1, AnsweredFields
  <2>7. f.known[m] \in {"unknown", "module", "null"}
    BY DEF Instances
  <2>8. /\ \A i \in PCModules : f.known[i] = "module" => g.known[i] = "module" \/ g.errors
        /\ \A i \in PCModules : g.known[i] = "null" => g.errors
        /\ g.known[m] = "module" \/ g.errors
    BY <1>3, <2>1, <2>3, <2>6, <2>7 DEF NullsAreErrors
  <2>9. SoundOK(broken, program[p], g)
    BY <1>1, <1>2, <2>3, <2>6, <2>8, AnsweredSound
  <2> QED BY <1>4, <2>5, <2>9, SoundTop
<1>6. CASE ImportCycle(p) \/ ImportFailedBefore(p)
  <2>1. PICK h : h = Failing(f)
    OBVIOUS
  <2>2. h \in Instances
    BY <2>1, FailingFacts DEF Keeps
  <2>3. PICK g : g = Answered(h)
    OBVIOUS
  <2>4. SetTop(p, g)
    BY <1>1, <1>6, <2>1, <2>3 DEF ImportCycle, ImportFailedBefore
  <2>5. /\ h.pcm = f.pcm /\ h.loaded = f.loaded /\ h.known = f.known /\ h.errors = TRUE
        /\ h.todo = f.todo
    BY <2>1, FailingFields
  <2>6. /\ g.pcm = h.pcm /\ g.pc = "run" /\ g.known = h.known /\ g.loaded = h.loaded
        /\ g.errors = h.errors /\ g.todo = Tail(h.todo) /\ g.retry = FALSE
    BY <2>2, <2>3, AnsweredFields
  <2>7. SoundOK(broken, program[p], g)
    BY <1>1, <1>2, <2>5, <2>6, AnsweredSound
  <2> QED BY <1>4, <2>4, <2>7, SoundTop
<1> QED BY <1>5, <1>6

LEMMA WaitingSound ==
  ASSUME IInv, SoundInv, NEW p \in Procs,
         ImportMissing(p) \/ LockError(p) \/ LockShared(p) \/ WaitForUnlock(p)
         \/ BuildCrashes(p)
  PROVE  SoundInv'
<1>1. PICK f \in Instances : f = Top(p) /\ SoundOK(broken, program[p], f)
  BY TopFacts, TopIsSound
<1>2. PICK c \in {"compile", "wait", "compiled", "unlock"} : SetTop(p, [f EXCEPT !.pc = c])
  BY <1>1 DEF ImportMissing, LockError, LockShared, WaitForUnlock, BuildCrashes
<1>3. PICK g : g = [f EXCEPT !.pc = c]
  OBVIOUS
<1>4. /\ g.pcm = f.pcm /\ g.pc = c /\ g.known = f.known /\ g.loaded = f.loaded
      /\ g.errors = f.errors /\ g.todo = f.todo /\ g.retry = f.retry
  BY <1>3, GotoFields
<1>5. SoundOK(broken, program[p], g)
  BY <1>1, <1>4, StaysSound
<1>6. UNCHANGED <<program, broken>> /\ SoundCache'
  BY SoundCacheStays DEF ImportMissing, LockError, LockShared, WaitForUnlock, BuildCrashes
<1> QED BY <1>2, <1>3, <1>5, <1>6, SoundTop

LEMMA ReadStartsSound ==
  ASSUME IInv, SoundInv, NEW p \in Procs, ImportCached(p) \/ CompiledFound(p)
  PROVE  SoundInv'
<1>1. PICK f \in Instances : f = Top(p) /\ SoundOK(broken, program[p], f)
  BY TopFacts, TopIsSound
<1>2. PICK m \in PCModules : m = Imported(p)
  BY BusyFacts, ImportedFacts DEF ImportCached, CompiledFound, NotKnown, Importing, At, Busy
<1>3. PICK h : h = Looked(f, m)
  OBVIOUS
<1>4. h \in Instances
  BY <1>3, LookedFacts DEF Keeps
<1>5. PICK g : g = StartReadAST(h, m)
  OBVIOUS
<1>6. SetTop(p, g)
  BY <1>1, <1>2, <1>3, <1>5 DEF ImportCached, CompiledFound
<1>7. /\ h.pcm = f.pcm /\ h.known = f.known /\ h.loaded = f.loaded /\ h.errors = f.errors
      /\ h.todo = f.todo /\ h.retry = f.retry
  BY <1>3, LookedFields
<1>8. /\ g.pcm = h.pcm /\ g.pc = "read" /\ g.known = h.known /\ g.loaded = h.loaded
      /\ g.errors = h.errors /\ g.todo = h.todo /\ g.retry = h.retry
  BY <1>4, <1>5, StartReadASTFields
<1>9. SoundOK(broken, program[p], g)
  BY <1>1, <1>7, <1>8, StaysSound
<1>10. UNCHANGED <<program, broken>> /\ SoundCache'
  BY SoundCacheStays DEF ImportCached, CompiledFound
<1> QED BY <1>6, <1>9, <1>10, SoundTop

(* The first attempt reports what it does not find.                         *)
LEMMA CompiledMissingSound ==
  ASSUME IInv, SoundInv, NEW p \in Procs, CompiledMissing(p)
  PROVE  SoundInv'
<1>1. PICK f \in Instances : f = Top(p) /\ SoundOK(broken, program[p], f) /\ f.todo # << >>
  BY TopFacts, TopIsSound, BusyFacts DEF CompiledMissing, At, Busy
<1>2. PICK m \in PCModules : m = Imported(p) /\ m = Head(f.todo)
  BY <1>1, ImportedFacts, ImportedIsHead
<1>3. PICK h : h = Looked(f, m)
  OBVIOUS
<1>4. h \in Instances
  BY <1>3, LookedFacts DEF Keeps
<1>5. /\ h.pcm = f.pcm /\ h.known = f.known /\ h.loaded = f.loaded /\ h.errors = f.errors
      /\ h.todo = f.todo /\ h.retry = f.retry
  BY <1>3, LookedFields
<1>6. PICK k : k = Failing(h)
  OBVIOUS
<1>7. k \in Instances
  BY <1>4, <1>6, FailingFacts DEF Keeps
<1>8. /\ k.pcm = h.pcm /\ k.known = h.known /\ k.loaded = h.loaded /\ k.errors = TRUE
      /\ k.todo = h.todo
  BY <1>4, <1>6, FailingFields
<1>9. PICK g : g = Answered(k)
  OBVIOUS
<1>10. /\ g.pcm = k.pcm /\ g.pc = "run" /\ g.known = k.known /\ g.loaded = k.loaded
       /\ g.errors = k.errors /\ g.todo = Tail(k.todo) /\ g.retry = FALSE
  BY <1>7, <1>9, AnsweredFields
<1>11. SoundOK(broken, program[p], g)
  BY <1>1, <1>2, <1>5, <1>8, <1>10, AnsweredSound
<1>12. PICK n : n = [f EXCEPT !.pc = "nulldereference"]
  OBVIOUS
<1>13. /\ n.pcm = f.pcm /\ n.pc = "nulldereference" /\ n.known = f.known
       /\ n.loaded = f.loaded /\ n.errors = f.errors /\ n.todo = f.todo /\ n.retry = f.retry
  BY <1>12, GotoFields
<1>14. SoundOK(broken, program[p], n)
  BY <1>1, <1>13, StaysSound
<1>15. SetTop(p, g) \/ SetTop(p, n)
  <2>1. ~h.retry
    BY <1>1, <1>5 DEF SoundOK
  <2>2. AddFailed(p, g)
    BY <1>1, <1>2, <1>3, <1>6, <1>9, <2>1 DEF CompiledMissing
  <2> QED BY <1>1, <1>12, <2>2 DEF AddFailed
<1>16. UNCHANGED <<program, broken>> /\ SoundCache'
  BY SoundCacheStays DEF CompiledMissing
<1> QED BY <1>11, <1>14, <1>15, <1>16, SoundTop

-----------------------------------------------------------------------------
(* ReadAST, in an instance that has not rebuilt anything                    *)

LEMMA ReadFailsSound ==
  ASSUME IInv, SoundInv, NEW p \in Procs, Imported(p) \in PCModules,
         NEW f \in Instances, SoundOK(broken, program[p], f), f.todo # << >>,
         f.todo = Top(p).todo, ReadFails(p, f), UNCHANGED <<program, broken, file>>
  PROVE  SoundInv'
<1>1. PICK m \in PCModules : m = Imported(p) /\ m = Head(f.todo)
  BY ImportedIsHead
<1>2. PICK r : r = RolledBack(f)
  OBVIOUS
<1>3. r \in Instances
  BY <1>2, RolledBackFacts DEF Keeps
<1>4. PICK k : k = [r EXCEPT !.known[m] = "null"]
  OBVIOUS
<1>5. k \in Instances
  BY <1>3, <1>4, KnownFacts DEF Keeps
<1>6. PICK h : h = Failing(k)
  OBVIOUS
<1>7. h \in Instances
  BY <1>5, <1>6, FailingFacts DEF Keeps
<1>8. PICK g : g = Answered(h)
  OBVIOUS
<1>9. SetTop(p, g)
  <2>1. ~f.retry
    BY DEF SoundOK
  <2> QED BY <1>1, <1>2, <1>4, <1>6, <1>8, <2>1 DEF ReadFails
<1>10. /\ r.pcm = f.pcm /\ r.todo = f.todo
       /\ \A i \in PCModules : r.loaded[i] = IF i \in f.fresh THEN Absent ELSE f.loaded[i]
  BY <1>2, RolledBackFields
<1>11. k.pcm = r.pcm /\ k.todo = r.todo /\ k.loaded = r.loaded
  BY <1>3, <1>4 DEF Instances
<1>12. h.pcm = k.pcm /\ h.todo = k.todo /\ h.loaded = k.loaded /\ h.errors = TRUE
  BY <1>5, <1>6, FailingFields
<1>13. /\ g.pcm = h.pcm /\ g.pc = "run" /\ g.todo = Tail(h.todo) /\ g.loaded = h.loaded
       /\ g.errors = h.errors /\ g.retry = FALSE
  BY <1>7, <1>8, AnsweredFields
<1>14. \A i \in PCModules : g.loaded[i] = f.loaded[i] \/ g.loaded[i] = Absent
  BY <1>10, <1>11, <1>12, <1>13
<1>15. g.pcm = f.pcm /\ g.todo = Tail(f.todo) /\ g.errors = TRUE
  BY <1>10, <1>11, <1>12, <1>13
<1>16. SoundOK(broken, program[p], g)
  BY <1>1, <1>13, <1>14, <1>15, AnsweredSound
<1> QED BY <1>9, <1>16, SoundTop, SoundCacheStays

LEMMA SkipFileSound ==
  ASSUME IInv, SoundInv, NEW p \in Procs, AlreadyLoaded(p) \/ Validate(p)
  PROVE  SoundInv'
<1>1. PICK f \in Instances : f = Top(p) /\ SoundOK(broken, program[p], f) /\ f.pc = "read"
  BY TopFacts, TopIsSound DEF AlreadyLoaded, Validate, Reading, At
<1>2. PICK g : g = [f EXCEPT !.reading = Tail(@)]
  OBVIOUS
<1>3. SetTop(p, g)
  BY <1>1, <1>2 DEF AlreadyLoaded, Validate
<1>4. /\ g.pcm = f.pcm /\ g.pc = f.pc /\ g.known = f.known /\ g.loaded = f.loaded
      /\ g.errors = f.errors /\ g.todo = f.todo /\ g.retry = f.retry
  BY <1>2, SkippedFields
<1>5. SoundOK(broken, program[p], g)
  BY <1>1, <1>4, StaysSound
<1>6. UNCHANGED <<program, broken>> /\ SoundCache'
  BY SoundCacheStays DEF AlreadyLoaded, Validate
<1> QED BY <1>3, <1>5, <1>6, SoundTop

(* What is opened comes from the cache.                                     *)
LEMMA OpenFileSound ==
  ASSUME IInv, SoundInv, NEW p \in Procs, OpenFile(p)
  PROVE  SoundInv'
<1>1. PICK f \in Instances : f = Top(p) /\ SoundOK(broken, program[p], f) /\ f.pc = "read"
  BY TopFacts, TopIsSound DEF OpenFile, Reading, At
<1>2. PICK m \in PCModules : m = NextFile(p).pcm
  BY ReadingFacts DEF OpenFile, Pending
<1>3. PICK h \in Instances : h = Looked(f, m)
  BY LookedFacts DEF Keeps
<1>4. PICK r : r = [k \in 1 .. Len(file[m].imports) |->
                      [op |-> "open", pcm |-> file[m].imports[k]]]
                   \o << [op |-> "validate", pcm |-> m] >> \o Tail(h.reading)
  OBVIOUS
<1>5. PICK g : g = [h EXCEPT !.loaded[m] = file[m], !.fresh = @ \cup {m}, !.reading = r]
  OBVIOUS
<1>6. SetTop(p, g)
  BY <1>1, <1>2, <1>3, <1>4, <1>5 DEF OpenFile
<1>7. /\ h.pcm = f.pcm /\ h.pc = f.pc /\ h.known = f.known /\ h.loaded = f.loaded
      /\ h.errors = f.errors /\ h.todo = f.todo /\ h.retry = f.retry
  BY <1>3, LookedFields
<1>8. /\ g.pcm = h.pcm /\ g.pc = h.pc /\ g.known = h.known /\ g.errors = h.errors
      /\ g.todo = h.todo /\ g.retry = h.retry /\ g.loaded[m] = file[m]
      /\ \A i \in PCModules : i # m => g.loaded[i] = h.loaded[i]
  BY <1>5 DEF Instances
<1>9. LoadedSound(broken, g)
  BY <1>1, <1>7, <1>8 DEF SoundOK, LoadedSound, SoundInv, SoundCache
<1>10. SoundOK(broken, program[p], g)
  <2>1. Wanted(program[p], g) = Wanted(program[p], f)
    BY <1>7, <1>8 DEF Wanted
  <2>2. NullsAreErrors(g)
    BY <1>1, <1>7, <1>8 DEF SoundOK, NullsAreErrors
  <2>3. RestOf(Wanted(program[p], g), g) /\ HandledOK(Wanted(program[p], g), g)
    <3>1. g.todo = f.todo /\ g.known = f.known /\ g.errors = f.errors
      BY <1>7, <1>8
    <3>2. RestOf(Wanted(program[p], f), f) /\ HandledOK(Wanted(program[p], f), f)
      BY <1>1 DEF SoundOK
    <3> QED BY <2>1, <3>1, <3>2 DEF RestOf, HandledOK
  <2> QED BY <1>1, <1>7, <1>8, <1>9, <2>2, <2>3 DEF SoundOK
<1>11. UNCHANGED <<program, broken>> /\ SoundCache'
  BY SoundCacheStays DEF OpenFile
<1> QED BY <1>6, <1>10, <1>11, SoundTop

LEMMA OpenFailsSound ==
  ASSUME IInv, SoundInv, NEW p \in Procs, OpenFails(p)
  PROVE  SoundInv'
<1>1. PICK f \in Instances :
        f = Top(p) /\ SoundOK(broken, program[p], f) /\ f.pc = "read" /\ f.todo # << >>
  BY TopFacts, TopIsSound, BusyFacts DEF OpenFails, Reading, At, Busy
<1>2. PICK m \in PCModules : m = NextFile(p).pcm
  BY ReadingFacts DEF OpenFails, Pending
<1>3. PICK h : h = Looked(f, m)
  OBVIOUS
<1>4. h \in Instances
  BY <1>3, LookedFacts DEF Keeps
<1>5. ReadFails(p, h) /\ UNCHANGED <<program, broken, file>>
  BY <1>1, <1>2, <1>3 DEF OpenFails
<1>6. /\ h.pcm = f.pcm /\ h.pc = f.pc /\ h.known = f.known /\ h.loaded = f.loaded
      /\ h.errors = f.errors /\ h.todo = f.todo /\ h.retry = f.retry
  BY <1>3, LookedFields
<1>7. SoundOK(broken, program[p], h)
  BY <1>1, <1>6, StaysSound
<1>8. Imported(p) \in PCModules
  BY <1>1, ImportedFacts
<1> QED BY <1>1, <1>4, <1>5, <1>6, <1>7, <1>8, ReadFailsSound

(* Nothing that was loaded is out of date.                                  *)
LEMMA NeverOutOfDate ==
  ASSUME IInv, CurrentInv, SoundInv, NEW p \in Procs
  PROVE  ~OutOfDate(p) /\ ~RemoveFile(p)
<1>1. SUFFICES ASSUME OutOfDate(p) PROVE FALSE
  BY TopIsSound DEF RemoveFile, At, SoundOK
<1>2. PICK f \in Instances, e \in Pending :
        /\ f = Top(p) /\ ReadingOK(f) /\ e = NextFile(p)
        /\ e.op = "validate" /\ e.pcm \in PCModules
        /\ Range(f.reading) = {e} \cup Range(Tail(f.reading))
  BY <1>1, ReaderFacts DEF OutOfDate
<1>3. e = ToValidate(e.pcm)
  BY <1>2 DEF Pending, ToValidate
<1>4. f.loaded[e.pcm] # Absent
  BY <1>2, <1>3 DEF ReadingOK
<1>5. f.loaded[e.pcm].stale = {}
  BY <1>2, <1>4, TopIsSound DEF SoundOK, LoadedSound
<1>6. e.pcm \in f.loaded[e.pcm].stale
  BY <1>1, <1>2 DEF OutOfDate, UpToDate
<1> QED BY <1>5, <1>6

LEMMA ReadDoneSound ==
  ASSUME IInv, SoundInv, NEW p \in Procs, ReadDone(p)
  PROVE  SoundInv'
<1>1. PICK f \in Instances :
        f = Top(p) /\ SoundOK(broken, program[p], f) /\ f.todo # << >>
  BY TopFacts, TopIsSound, BusyFacts DEF ReadDone, At, Busy
<1>2. PICK m \in PCModules : m = Imported(p) /\ m = Head(f.todo)
  BY <1>1, ImportedFacts, ImportedIsHead
<1>3. PICK d : d = Append(f.direct, m) /\ d \in Seq(PCModules)
  <2>1. f.direct \in Seq(PCModules)
    BY DEF Instances
  <2>2. Append(f.direct, m) \in Seq(PCModules)
    BY <2>1
  <2> QED BY <2>2
<1>4. PICK known : known = [f.known EXCEPT ![m] = "module"]
  OBVIOUS
<1>5. /\ known \in [PCModules -> {"unknown", "module", "null"}] /\ known[m] = "module"
      /\ \A i \in PCModules : i # m => known[i] = f.known[i]
  BY <1>4 DEF Instances
<1>6. PICK h : h = [f EXCEPT !.known = known, !.direct = d]
  OBVIOUS
<1>7. /\ h \in Instances /\ h.pcm = f.pcm /\ h.loaded = f.loaded /\ h.known = known
      /\ h.errors = f.errors /\ h.todo = f.todo
  BY <1>3, <1>5, <1>6 DEF Instances
<1>8. PICK g : g = Answered(h)
  OBVIOUS
<1>9. SetTop(p, g)
  <2>1. h = [f EXCEPT !.known[m] = "module", !.direct = Append(@, m)]
    BY <1>3, <1>4, <1>6
  <2> QED BY <1>1, <1>2, <1>8, <2>1 DEF ReadDone
<1>10. /\ g.pcm = h.pcm /\ g.pc = "run" /\ g.known = h.known /\ g.loaded = h.loaded
       /\ g.errors = h.errors /\ g.todo = Tail(h.todo) /\ g.retry = FALSE
  BY <1>7, <1>8, AnsweredFields
<1>11. /\ \A i \in PCModules : f.known[i] = "module" => g.known[i] = "module"
       /\ \A i \in PCModules : g.known[i] = "null" => g.errors
       /\ g.known[m] = "module"
  BY <1>1, <1>5, <1>7, <1>10 DEF SoundOK, NullsAreErrors
<1>12. SoundOK(broken, program[p], g)
  BY <1>1, <1>2, <1>7, <1>10, <1>11, AnsweredSound
<1>13. UNCHANGED <<program, broken>> /\ SoundCache'
  BY SoundCacheStays DEF ReadDone
<1> QED BY <1>9, <1>12, <1>13, SoundTop

-----------------------------------------------------------------------------
(* The end of a build                                                       *)

(* Behind a module are good modules only, if that holds of all it imports.  *)
LEMMA GoodImports ==
  ASSUME NEW m \in PCModules, NEW b, m \notin b,
         \A k \in 1 .. Len(Imports[m]) :
           Imports[m][k] = m \/ GoodModule(b, Imports[m][k])
  PROVE  GoodModule(b, m)
<1>1. PICK S : S = {m} \cup {i \in PCModules : GoodModule(b, i)}
  OBVIOUS
<1>2. \A i \in PCModules : Closure(i) =
        {j \in PCModules : \A T \in SUBSET PCModules : i \in T /\ Closed(T) => j \in T}
  BY DEF Closure, ClosureOf
<1>3. S \in SUBSET PCModules /\ m \in S
  BY <1>1
<1>4. \A i \in S : \A k \in 1 .. Len(Imports[i]) : Imports[i][k] \in PCModules
  <2>1. TAKE i \in S
  <2>2. Imports[i] \in Seq(PCModules)
    BY <1>3, ModulesAssumption
  <2> QED BY <2>2
<1>5. ASSUME NEW i \in S, NEW k \in 1 .. Len(Imports[i]) PROVE Imports[i][k] \in S
  <2>1. PICK j \in PCModules : j = Imports[i][k]
    BY <1>4
  <2>2. CASE i = m
    BY <1>1, <2>1, <2>2
  <2>3. CASE i # m
    <3>1. i \in PCModules /\ GoodModule(b, i)
      BY <1>1, <2>3
    <3>2. \A T \in SUBSET PCModules : i \in T /\ Closed(T) => j \in T
      BY <2>1 DEF Closed
    <3>3. \A x \in Closure(j) : x \in Closure(i)
      BY <1>2, <3>1, <3>2
    <3>4. GoodModule(b, j)
      BY <3>1, <3>3 DEF GoodModule
    <3> QED BY <1>1, <2>1, <3>4
  <2> QED BY <2>2, <2>3
<1>6. Closed(S)
  BY <1>5 DEF Closed
<1>7. Closure(m) \subseteq S
  BY <1>2, <1>3, <1>6
<1>8. \A i \in S : i \notin b
  <2>1. TAKE i \in S
  <2>2. i \in Closure(i)
    BY <1>2, <1>3
  <2> QED BY <1>1, <2>2 DEF GoodModule
<1> QED BY <1>7, <1>8 DEF GoodModule

(* A file that is written in the end is sound: all imports of its instance  *)
(* are behind it, and none was an error.                                    *)
LEMMA EndSourceFileSound ==
  ASSUME IInv, CurrentInv, SoundInv, NEW p \in Procs, EndSourceFile(p)
  PROVE  SoundInv'
<1>1. PICK f \in Instances : f = Top(p) /\ SoundOK(broken, program[p], f) /\ CurrentOK(f)
  BY TopFacts, TopIsSound, TopIsCurrent
<1>2. PICK g : g = [f EXCEPT !.pc = "unlock"]
  OBVIOUS
<1>3. SetTop(p, g) /\ UNCHANGED <<program, broken>> /\ f.todo = << >> /\ f.pcm # Main
  BY <1>1, <1>2 DEF EndSourceFile
<1>4. /\ g.pcm = f.pcm /\ g.pc = "unlock" /\ g.known = f.known /\ g.loaded = f.loaded
      /\ g.errors = f.errors /\ g.todo = f.todo /\ g.retry = f.retry
  BY <1>2, GotoFields
<1>5. SoundOK(broken, program[p], g)
  BY <1>1, <1>4, StaysSound
<1>6. PICK m \in PCModules : m = f.pcm
  BY <1>3 DEF Instances
<1>7. CASE HasErrors(f)
  <2>1. UNCHANGED file
    BY <1>1, <1>7 DEF EndSourceFile
  <2> QED BY <1>3, <1>5, <2>1, SoundTop, SoundCacheStays
<1>8. CASE ~HasErrors(f)
  <2>1. file' = [file EXCEPT ![m] = Built(f)]
    BY <1>1, <1>6, <1>8 DEF EndSourceFile
  <2>2. LoadedSound(broken, f) /\ HandledOK(Imports[m], f) /\ ~f.errors /\ m \notin broken
    BY <1>1, <1>3, <1>6, <1>8 DEF SoundOK, HasErrors, Wanted
  <2>3. Built(f).stale = {}
    <3>1. \A i \in PCModules : f.loaded[i] # Absent => f.loaded[i].stale = {}
      BY <2>2 DEF LoadedSound
    <3> QED BY <3>1 DEF Built
  <2>4. ASSUME NEW k \in 1 .. Len(Imports[m])
        PROVE  Imports[m][k] = m \/ GoodModule(broken, Imports[m][k])
    <3>1. Imports[m] \in Seq(PCModules)
      BY ModulesAssumption
    <3>2. PICK i \in PCModules : i = Imports[m][k]
      BY <3>1
    <3>3. k \in 1 .. Len(Imports[m]) - Len(f.todo)
      BY <1>3, <3>1
    <3>4. f.known[i] = "module"
      BY <2>2, <3>2, <3>3 DEF HandledOK
    <3>5. i = m \/ f.loaded[i] # Absent
      BY <1>1, <1>6, <3>4 DEF CurrentOK, LoadedOK
    <3> QED BY <2>2, <3>2, <3>5 DEF LoadedSound
  <2>5. GoodModule(broken, m)
    BY <2>2, <2>4, GoodImports
  <2>6. \A i \in PCModules : file'[i] = IF i = m THEN Built(f) ELSE file[i]
    BY <2>1 DEF IInv, TypeOK
  <2>7. SoundCache'
    BY <1>3, <2>3, <2>5, <2>6 DEF SoundCache, SoundInv
  <2> QED BY <1>3, <1>5, <2>7, SoundTop
<1> QED BY <1>7, <1>8

LEMMA NewIsSound ==
  ASSUME NEW b, NEW w, NEW m \in PCModules \cup {Main}, NEW imports \in Seq(PCModules),
         imports = IF m = Main THEN w ELSE Imports[m]
  PROVE  SoundOK(b, w, NewInstance(m, imports))
<1>1. PICK f : f = NewInstance(m, imports)
  OBVIOUS
<1>2. /\ f.pcm = m /\ f.todo = imports /\ f.retry = FALSE /\ f.pc = "run"
      /\ \A i \in PCModules : f.loaded[i] = Absent /\ f.known[i] = "unknown"
  BY <1>1 DEF NewInstance
<1>3. Wanted(w, f) = imports
  BY <1>2 DEF Wanted
<1>4. LoadedSound(b, f) /\ NullsAreErrors(f)
  BY <1>2 DEF LoadedSound, NullsAreErrors
<1>5. RestOf(imports, f) /\ HandledOK(imports, f)
  <2>1. f.todo = imports /\ Len(imports) \in Nat
    BY <1>2
  <2> QED BY <2>1 DEF RestOf, HandledOK
<1> QED BY <1>1, <1>2, <1>3, <1>4, <1>5 DEF SoundOK

LEMMA LockOwnedSound ==
  ASSUME IInv, SoundInv, NEW p \in Procs, LockOwned(p)
  PROVE  SoundInv'
<1>1. PICK f \in Instances : f = Top(p) /\ SoundOK(broken, program[p], f)
  BY TopFacts, TopIsSound
<1>2. PICK m \in PCModules : m = Imported(p)
  BY BusyFacts DEF LockOwned, At, Busy
<1>3. PICK g : g = [f EXCEPT !.pc = "compiled"]
  OBVIOUS
<1>4. SoundOK(broken, program[p], g)
  <2>1. /\ g.pcm = f.pcm /\ g.pc = "compiled" /\ g.known = f.known /\ g.loaded = f.loaded
        /\ g.errors = f.errors /\ g.todo = f.todo /\ g.retry = f.retry
    BY <1>3, GotoFields
  <2> QED BY <1>1, <2>1, StaysSound
<1>5. PICK new : new = NewInstance(m, Imports[m]) /\ SoundOK(broken, program[p], new)
  <2>1. m # Main /\ Imports[m] \in Seq(PCModules)
    BY ModulesAssumption
  <2>2. SoundOK(broken, program[p], NewInstance(m, Imports[m]))
    BY <2>1, NewIsSound
  <2> QED BY <2>2
<1>6. UNCHANGED <<program, broken>> /\ SoundCache'
  BY SoundCacheStays DEF LockOwned
<1>7. ASSUME NEW q \in Procs, NEW k \in 1 .. Len(stack'[q])
      PROVE  SoundOK(broken, program[q], stack'[q][k])
  <2>1. \/ q = p /\ stack'[q][k] = new
        \/ q = p /\ stack'[q][k] = g
        \/ k \in 1 .. Len(stack[q]) /\ stack'[q][k] = stack[q][k]
    BY <1>1, <1>2, <1>3, <1>5, LockOwnedStack
  <2> QED BY <1>4, <1>5, <2>1 DEF SoundInv
<1> QED BY <1>6, <1>7 DEF SoundInv

LEMMA UnlockSound ==
  ASSUME IInv, SoundInv, NEW p \in Procs, Unlock(p)
  PROVE  SoundInv'
<1>1. UNCHANGED <<program, broken>> /\ SoundCache'
  BY SoundCacheStays DEF Unlock
<1> QED BY <1>1, UnlockStack DEF SoundInv

-----------------------------------------------------------------------------
LEMMA SoundInit == Init /\ SoundCache => SoundInv
<1> SUFFICES ASSUME Init, SoundCache, NEW p \in Procs, NEW k \in 1 .. Len(stack[p])
             PROVE  SoundOK(broken, program[p], stack[p][k])
  BY DEF SoundInv
<1>1. program[p] \in Seq(PCModules)
  BY ModulesAssumption DEF Init
<1>2. PICK f : f = NewInstance(Main, program[p]) /\ SoundOK(broken, program[p], f)
  <2>1. SoundOK(broken, program[p], NewInstance(Main, program[p]))
    BY <1>1, NewIsSound
  <2> QED BY <2>1
<1>3. stack[p] = << f >>
  BY <1>2 DEF Init
<1>4. k = 1
  BY <1>3
<1> QED BY <1>2, <1>3, <1>4

LEMMA SoundStep ==
  ASSUME IInv, CurrentInv, SoundInv, NEW p \in Procs, Step(p)
  PROVE  SoundInv'
<1>1. CASE ImportKnown(p) \/ ImportCycle(p) \/ ImportFailedBefore(p)
  BY <1>1, AnsweredSoundStep
<1>2. CASE ImportMissing(p) \/ LockError(p) \/ LockShared(p) \/ WaitForUnlock(p)
  BY <1>2, WaitingSound
<1>3. CASE ImportCached(p) \/ CompiledFound(p)
  BY <1>3, ReadStartsSound
<1>4. CASE LockOwned(p)
  BY <1>4, LockOwnedSound
<1>5. CASE EndSourceFile(p)
  BY <1>5, EndSourceFileSound
<1>6. CASE Unlock(p)
  BY <1>6, UnlockSound
<1>7. CASE CompiledMissing(p)
  BY <1>7, CompiledMissingSound
<1>8. CASE AlreadyLoaded(p) \/ Validate(p)
  BY <1>8, SkipFileSound
<1>9. CASE OpenFile(p)
  BY <1>9, OpenFileSound
<1>10. CASE OpenFails(p)
  BY <1>10, OpenFailsSound
<1>11. CASE ReadDone(p)
  BY <1>11, ReadDoneSound
<1> QED BY <1>1, <1>2, <1>3, <1>4, <1>5, <1>6, <1>7, <1>8, <1>9, <1>10, <1>11, NeverOutOfDate
        DEF Step

LEMMA SoundNext == IInv /\ CurrentInv /\ SoundInv /\ [Next]_vars => SoundInv'
<1> SUFFICES ASSUME IInv, CurrentInv, SoundInv, [Next]_vars PROVE SoundInv'
  OBVIOUS
<1>1. ASSUME NEW p \in Procs, Step(p) PROVE SoundInv'
  BY <1>1, SoundStep
<1>2. ASSUME NEW p \in Procs, BuildCrashes(p) PROVE SoundInv'
  BY <1>2, WaitingSound
<1>3. CASE UNCHANGED <<program, broken, file, stack>>
  BY <1>3 DEF SoundInv, SoundCache
<1>4. (\E p \in Procs : Die(p)) \/ UNCHANGED vars
        => UNCHANGED <<program, broken, file, stack>>
  BY DEF Die, vars
<1> QED BY <1>1, <1>2, <1>3, <1>4 DEF Next

LEMMA SoundAlways == Spec /\ SoundCache => []SoundInv
<1>1. Init => CurrentInv
  BY CurrentInit
<1>2. IInv /\ CurrentInv /\ [Next]_vars => CurrentInv'
  BY CurrentNext
<1>3. Init /\ SoundCache => SoundInv
  BY SoundInit
<1>4. IInv /\ CurrentInv /\ SoundInv /\ [Next]_vars => SoundInv'
  BY SoundNext
<1> QED BY <1>1, <1>2, <1>3, <1>4, Invariance, PTL DEF Spec

(* With a cache that starts sound, an empty one for instance, an instance   *)
(* that went past an import it could not load has errors, and will erase    *)
(* its output: whichever of the steps of the import failed, in it or in a   *)
(* build nested in it, and whatever other processes did                     *)
(* (CompilerInstance.cpp:1018-1088, FrontendAction.cpp:426).                *)
THEOREM FailuresAreReported == Spec /\ SoundCache => []FailedImportsAreErrors
<1>1. ASSUME SoundInv, NEW p \in Procs, NEW f \in InstancesOf(p), NEW i \in Handled(p, f),
             f.known[i] # "module"
      PROVE  f.errors
  <2>1. PICK k \in 1 .. Len(stack[p]) : f = stack[p][k]
    BY DEF InstancesOf
  <2>2. HandledOK(Wanted(program[p], f), f)
    BY <1>1, <2>1 DEF SoundInv, SoundOK
  <2>3. PICK a : a = Wanted(program[p], f)
    OBVIOUS
  <2>4. Handled(p, f) = {a[j] : j \in 1 .. Len(a) - Len(f.todo)}
    BY <2>3 DEF Handled, Wanted
  <2> QED BY <1>1, <2>2, <2>3, <2>4 DEF HandledOK
<1>2. SoundInv => FailedImportsAreErrors
  BY <1>1 DEF FailedImportsAreErrors
<1> QED BY <1>2, SoundAlways, PTL

(* From a cache that starts sound no module is ever stored whose headers,   *)
(* or those of a module it needs, however far behind it, have errors.       *)
THEOREM OnlyGoodIsCached == Spec /\ SoundCache => []ErrorsAreNeverCached
<1>1. SoundInv => ErrorsAreNeverCached
  BY DEF SoundInv, SoundCache, GoodModule, ErrorsAreNeverCached
<1> QED BY <1>1, SoundAlways, PTL

-----------------------------------------------------------------------------
(* What the innermost instance has left to import                           *)

(* An instance has only its own imports left, and builds or waits for none  *)
(* but another module.                                                      *)
TodoOK(f) ==
  /\ f.pcm # Main => Range(f.todo) \subseteq Range(Imports[f.pcm])
  /\ f.pc \in Busy => Head(f.todo) # f.pcm

(* Each build was started by the instance below it for the import that it   *)
(* has in hand.                                                             *)
NestedOK(s) ==
  /\ \A k \in 1 .. Len(s) : TodoOK(s[k])
  /\ \A k \in 1 .. Len(s) - 1 :
       s[k].pc = "compiled" /\ Head(s[k].todo) = s[k + 1].pcm

NestedInv == \A p \in Procs : NestedOK(stack[p])

(* A lock that a running process holds is that of a module it builds.       *)
Builds(s, m) == \E k \in 2 .. Len(s) : s[k].pcm = m

HeldInv ==
  \A m \in PCModules : \A p \in Procs : lock[m] = p /\ alive[p] => Builds(stack[p], m)

(* It stays with its import, or goes on to the next one.                    *)
Onward(f, g) ==
  /\ g.pcm = f.pcm
  /\ \/ g.todo = f.todo /\ (g.pc \in Busy => f.pc \in Busy \/ Head(f.todo) # f.pcm)
     \/ f.todo # << >> /\ g.todo = Tail(f.todo) /\ g.pc \notin Busy

Moves(p) == \E g : SetTop(p, g) /\ Onward(Top(p), g)

LEMMA AnsweredMoves ==
  ASSUME NEW p \in Procs, NEW f \in Instances, f.pcm = Top(p).pcm, f.todo = Top(p).todo,
         Top(p).todo # << >>, SetTop(p, Answered(f))
  PROVE  Moves(p)
<1>1. PICK g : g = Answered(f)
  OBVIOUS
<1>2. g.pcm = f.pcm /\ g.pc = "run" /\ g.todo = Tail(f.todo)
  BY <1>1, AnsweredFields
<1>3. Onward(Top(p), g)
  BY <1>2 DEF Onward, Busy
<1> QED BY <1>1, <1>3 DEF Moves

LEMMA GotoMoves ==
  ASSUME IInv, NEW p \in Procs, NEW c, c \in Busy => Top(p).pc \in Busy \/ NotKnown(p),
         SetTop(p, [Top(p) EXCEPT !.pc = c])
  PROVE  Moves(p)
<1>1. PICK f \in Instances : f = Top(p)
  BY TopFacts
<1>2. PICK g : g = [f EXCEPT !.pc = c]
  OBVIOUS
<1>3. g.pcm = f.pcm /\ g.pc = c /\ g.todo = f.todo
  BY <1>2, GotoFields
<1>4. Onward(f, g)
  BY <1>1, <1>3 DEF Onward, NotKnown, Imported
<1> QED BY <1>1, <1>2, <1>4 DEF Moves

LEMMA AddFailedMoves ==
  ASSUME IInv, NEW p \in Procs, NEW f \in Instances, f.pcm = Top(p).pcm,
         f.todo = Top(p).todo, Top(p).todo # << >>, AddFailed(p, Answered(f))
  PROVE  Moves(p)
<1>1. SetTop(p, Answered(f)) \/ SetTop(p, [Top(p) EXCEPT !.pc = "nulldereference"])
  BY DEF AddFailed
<1> QED BY <1>1, AnsweredMoves, GotoMoves DEF Busy

LEMMA ReadFailsMoves ==
  ASSUME IInv, NEW p \in Procs, NEW f \in Instances, f.pcm = Top(p).pcm,
         f.todo = Top(p).todo, Top(p).todo # << >>, ReadFails(p, f)
  PROVE  Moves(p)
<1>1. Imported(p) \in PCModules
  BY ImportedFacts
<1>2. PICK b \in Instances : b = RolledBack(f) /\ Keeps(f, b)
  BY RolledBackFacts DEF Keeps
<1>3. PICK k \in Instances : k = [b EXCEPT !.known[Imported(p)] = "null"] /\ Keeps(b, k)
  BY <1>1, KnownFacts DEF Keeps
<1>4. PICK h \in Instances : h = Failing(k) /\ Keeps(k, h)
  BY FailingFacts DEF Keeps
<1>5. h.pcm = Top(p).pcm /\ h.todo = Top(p).todo
  BY <1>2, <1>3, <1>4 DEF Keeps
<1>6. AddFailed(p, Answered(h)) \/ SetTop(p, Answered(h))
  BY <1>2, <1>3, <1>4 DEF ReadFails
<1> QED BY <1>5, <1>6, AddFailedMoves, AnsweredMoves

LEMMA ImportMoves ==
  ASSUME IInv, NEW p \in Procs,
         \/ ImportKnown(p) \/ ImportCached(p) \/ ImportCycle(p) \/ ImportFailedBefore(p)
         \/ ImportMissing(p)
  PROVE  Moves(p)
<1>1. PICK f \in Instances : f = Top(p) /\ f.todo # << >>
  BY TopFacts
     DEF ImportKnown, ImportCached, ImportCycle, ImportFailedBefore, ImportMissing,
         NotKnown, Importing
<1>2. PICK m \in PCModules : m = Imported(p)
  BY <1>1, ImportedFacts
<1>3. CASE ImportKnown(p)
  <2>1. PICK k \in {"unknown", "module", "null"} :
          k = IF f.known[m] = "unknown" THEN "module" ELSE f.known[m]
    BY DEF Instances
  <2>2. PICK h \in Instances : h = [f EXCEPT !.known[m] = k] /\ Keeps(f, h)
    BY KnownFacts DEF Keeps
  <2>3. h = [f EXCEPT !.known[m] = IF @ = "unknown" THEN "module" ELSE @]
    BY <2>1, <2>2
  <2>4. SetTop(p, Answered(h))
    BY <1>1, <1>2, <1>3, <2>3 DEF ImportKnown
  <2> QED BY <1>1, <2>2, <2>4, AnsweredMoves DEF Keeps
<1>4. CASE ImportCycle(p) \/ ImportFailedBefore(p)
  <2>1. PICK h \in Instances : h = Failing(f) /\ Keeps(f, h)
    BY FailingFacts DEF Keeps
  <2>2. SetTop(p, Answered(h))
    BY <1>1, <1>4, <2>1 DEF ImportCycle, ImportFailedBefore
  <2> QED BY <1>1, <2>1, <2>2, AnsweredMoves DEF Keeps
<1>5. CASE ImportCached(p)
  <2>1. PICK h \in Instances : h = Looked(f, m) /\ Keeps(f, h)
    BY LookedFacts DEF Keeps
  <2>2. PICK g : g = StartReadAST(h, m)
    OBVIOUS
  <2>3. g.pcm = f.pcm /\ g.todo = f.todo
    BY <2>1, <2>2, StartReadASTFields DEF Keeps
  <2>4. SetTop(p, g) /\ Head(f.todo) # f.pcm
    BY <1>1, <1>2, <1>5, <2>1, <2>2 DEF ImportCached, NotKnown, Imported
  <2> QED BY <1>1, <2>3, <2>4 DEF Moves, Onward
<1>6. CASE ImportMissing(p)
  BY <1>6, GotoMoves DEF ImportMissing
<1> QED BY <1>3, <1>4, <1>5, <1>6

LEMMA CompileMoves ==
  ASSUME IInv, NEW p \in Procs,
         \/ LockError(p) \/ LockShared(p) \/ WaitForUnlock(p) \/ CompiledFound(p)
         \/ CompiledMissing(p) \/ EndSourceFile(p) \/ BuildCrashes(p)
  PROVE  Moves(p)
<1>1. PICK f \in Instances : f = Top(p)
  BY TopFacts
<1>2. CASE LockError(p) \/ LockShared(p) \/ WaitForUnlock(p)
  <2>1. f.pc \in Busy
    BY <1>1, <1>2 DEF LockError, LockShared, WaitForUnlock, At, Busy
  <2> QED BY <1>1, <1>2, <2>1, GotoMoves DEF LockError, LockShared, WaitForUnlock
<1>3. CASE EndSourceFile(p) \/ BuildCrashes(p)
  <2>1. SetTop(p, [Top(p) EXCEPT !.pc = "unlock"])
    BY <1>3 DEF EndSourceFile, BuildCrashes
  <2> QED BY <2>1, GotoMoves DEF Busy
<1>4. CASE CompiledFound(p)
  <2>1. PICK m \in PCModules : m = Imported(p) /\ f.pc \in Busy
    BY <1>1, <1>4, BusyFacts DEF CompiledFound, At, Busy
  <2>2. PICK h \in Instances : h = Looked(f, m) /\ Keeps(f, h)
    BY LookedFacts DEF Keeps
  <2>3. PICK g : g = StartReadAST(h, m)
    OBVIOUS
  <2>4. g.pcm = f.pcm /\ g.todo = f.todo
    BY <2>2, <2>3, StartReadASTFields DEF Keeps
  <2>5. SetTop(p, g)
    BY <1>1, <1>4, <2>1, <2>2, <2>3 DEF CompiledFound
  <2> QED BY <1>1, <2>1, <2>4, <2>5 DEF Moves, Onward
<1>5. CASE CompiledMissing(p)
  <2>1. PICK m \in PCModules : m = Imported(p) /\ f.todo # << >>
    BY <1>1, <1>5, BusyFacts DEF CompiledMissing, At, Busy
  <2>2. PICK h \in Instances : h = Looked(f, m) /\ Keeps(f, h)
    BY LookedFacts DEF Keeps
  <2>3. PICK k \in Instances : k = [h EXCEPT !.known[m] = "null"] /\ Keeps(h, k)
    BY KnownFacts DEF Keeps
  <2>4. PICK e \in Instances : e = Failing(h) /\ Keeps(h, e)
    BY FailingFacts DEF Keeps
  <2>5. AddFailed(p, Answered(k)) \/ AddFailed(p, Answered(e))
    BY <1>1, <1>5, <2>1, <2>2, <2>3, <2>4 DEF CompiledMissing
  <2> QED BY <1>1, <2>1, <2>2, <2>3, <2>4, <2>5, AddFailedMoves DEF Keeps
<1> QED BY <1>2, <1>3, <1>4, <1>5

LEMMA ReadMoves ==
  ASSUME IInv, NEW p \in Procs,
         \/ AlreadyLoaded(p) \/ OpenFile(p) \/ OpenFails(p) \/ Validate(p)
         \/ OutOfDate(p) \/ RemoveFile(p) \/ ReadDone(p)
  PROVE  Moves(p)
<1>1. PICK f \in Instances : f = Top(p)
  BY TopFacts
<1>2. f.pc \in Busy
  BY <1>1 DEF AlreadyLoaded, OpenFile, OpenFails, Validate, OutOfDate, RemoveFile, ReadDone,
         Reading, At, Busy
<1>3. PICK m \in PCModules : m = Imported(p) /\ f.todo # << >>
  BY <1>1, <1>2, BusyFacts
<1>4. CASE AlreadyLoaded(p) \/ Validate(p)
  <2>1. PICK g : g = [f EXCEPT !.reading = Tail(@)]
    OBVIOUS
  <2>2. g.pcm = f.pcm /\ g.todo = f.todo
    BY <2>1, SkippedFields
  <2>3. SetTop(p, g)
    BY <1>1, <1>4, <2>1 DEF AlreadyLoaded, Validate
  <2> QED BY <1>1, <1>2, <2>2, <2>3 DEF Moves, Onward
<1>5. CASE OpenFile(p)
  <2>1. PICK n \in PCModules : n = NextFile(p).pcm
    BY <1>5, ReadingFacts DEF OpenFile, Pending
  <2>2. PICK h \in Instances : h = Looked(f, n) /\ Keeps(f, h)
    BY LookedFacts DEF Keeps
  <2>3. PICK r : r = [k \in 1 .. Len(file[n].imports) |->
                        [op |-> "open", pcm |-> file[n].imports[k]]]
                     \o << [op |-> "validate", pcm |-> n] >> \o Tail(h.reading)
    OBVIOUS
  <2>4. PICK g : g = [h EXCEPT !.loaded[n] = file[n], !.fresh = @ \cup {n}, !.reading = r]
    OBVIOUS
  <2>5. SetTop(p, g)
    BY <1>1, <1>5, <2>1, <2>2, <2>3, <2>4 DEF OpenFile
  <2>6. g.pcm = h.pcm /\ g.todo = h.todo
    BY <2>4 DEF Instances
  <2> QED BY <1>1, <1>2, <2>2, <2>5, <2>6 DEF Moves, Onward, Keeps
<1>6. CASE OpenFails(p)
  <2>1. PICK n \in PCModules : n = NextFile(p).pcm
    BY <1>6, ReadingFacts DEF OpenFails, Pending
  <2>2. PICK h \in Instances : h = Looked(f, n) /\ Keeps(f, h)
    BY LookedFacts DEF Keeps
  <2> QED BY <1>1, <1>3, <1>6, <2>1, <2>2, ReadFailsMoves DEF OpenFails, Keeps
<1>7. CASE OutOfDate(p)
  <2>1. PICK h : h = RolledBack(f)
    OBVIOUS
  <2>2. PICK g : g = [h EXCEPT !.pc = "outofdate"]
    OBVIOUS
  <2>3. g.pcm = f.pcm /\ g.todo = f.todo
    BY <2>1, <2>2, RolledBackFacts, GotoFields DEF Keeps
  <2>4. ReadFails(p, f) \/ SetTop(p, g)
    BY <1>1, <1>7, <2>1, <2>2 DEF OutOfDate
  <2>5. CASE ReadFails(p, f)
    BY <1>1, <1>3, <2>5, ReadFailsMoves
  <2>6. CASE SetTop(p, g)
    BY <1>1, <1>2, <2>3, <2>6 DEF Moves, Onward
  <2> QED BY <2>4, <2>5, <2>6
<1>8. CASE RemoveFile(p)
  <2>1. PICK h : h = [f EXCEPT !.fileMgr[m] = "unseen"]
    OBVIOUS
  <2>2. h \in Instances /\ h.pcm = f.pcm /\ h.todo = f.todo
    BY <2>1 DEF Instances
  <2>3. PICK k \in Instances : k = Failing(h) /\ Keeps(h, k)
    BY <2>2, FailingFacts DEF Keeps
  <2>4. PICK g : g = [h EXCEPT !.pc = "compile", !.retry = TRUE,
                               !.reading = << >>, !.fresh = {}]
    OBVIOUS
  <2>5. g.pcm = h.pcm /\ g.todo = h.todo
    BY <2>2, <2>4 DEF Instances
  <2>6. SetTop(p, Answered(k)) \/ SetTop(p, g)
    BY <1>1, <1>3, <1>8, <2>1, <2>3, <2>4 DEF RemoveFile
  <2>7. CASE SetTop(p, Answered(k))
    BY <1>1, <1>3, <2>2, <2>3, <2>7, AnsweredMoves DEF Keeps
  <2>8. CASE SetTop(p, g)
    BY <1>1, <1>2, <2>2, <2>5, <2>8 DEF Moves, Onward
  <2> QED BY <2>6, <2>7, <2>8
<1>9. CASE ReadDone(p)
  <2>1. PICK h : h = [f EXCEPT !.known[m] = "module"]
    OBVIOUS
  <2>2. h \in Instances /\ Keeps(f, h)
    BY <2>1, KnownFacts DEF Keeps
  <2>3. Append(f.direct, m) \in Seq(PCModules)
    <3>1. f.direct \in Seq(PCModules)
      BY DEF Instances
    <3> QED BY <3>1
  <2>4. PICK k : k = [h EXCEPT !.direct = Append(f.direct, m)]
    OBVIOUS
  <2>5. k \in Instances /\ k.pcm = h.pcm /\ k.todo = h.todo
    BY <2>2, <2>3, <2>4 DEF Instances
  <2>6. k = [f EXCEPT !.known[m] = "module", !.direct = Append(@, m)]
    BY <2>1, <2>4 DEF Instances
  <2>7. SetTop(p, Answered(k))
    BY <1>1, <1>3, <1>9, <2>6 DEF ReadDone
  <2> QED BY <1>1, <1>3, <2>2, <2>5, <2>7, AnsweredMoves DEF Keeps
<1> QED BY <1>4, <1>5, <1>6, <1>7, <1>8, <1>9

-----------------------------------------------------------------------------
(* Nested builds and the locks they hold                                    *)

LEMMA TodoGoesOn ==
  ASSUME NEW f \in Instances, NEW g, TodoOK(f), Onward(f, g)
  PROVE  TodoOK(g)
<1>1. CASE g.todo = f.todo /\ (g.pc \in Busy => f.pc \in Busy \/ Head(f.todo) # f.pcm)
  BY <1>1 DEF TodoOK, Onward
<1>2. CASE f.todo # << >> /\ g.todo = Tail(f.todo) /\ g.pc \notin Busy
  <2>1. f.todo \in Seq(PCModules)
    BY DEF Instances
  <2>2. Range(f.todo) = {Head(f.todo)} \cup Range(Tail(f.todo))
    BY <1>2, <2>1, RangeTail
  <2> QED BY <1>2, <2>2 DEF TodoOK, Onward
<1> QED BY <1>1, <1>2 DEF Onward

LEMMA TopTodo ==
  ASSUME IInv, NestedInv, NEW p \in Procs
  PROVE  TodoOK(Top(p))
<1>1. Top(p) = stack[p][Len(stack[p])] /\ Len(stack[p]) \in 1 .. Len(stack[p])
  BY TopFacts
<1> QED BY <1>1 DEF NestedInv, NestedOK

LEMMA MovesNested ==
  ASSUME IInv, NestedInv, NEW p \in Procs, Moves(p)
  PROVE  NestedInv'
<1>1. PICK g : SetTop(p, g) /\ Onward(Top(p), g)
  BY DEF Moves
<1>2. TodoOK(g) /\ g.pcm = Top(p).pcm
  BY <1>1, TodoGoesOn, TopTodo, TopFacts DEF Onward
<1>3. PICK n \in Nat \ {0} : n = Len(stack[p]) /\ Top(p) = stack[p][n]
  BY TopFacts
<1>4. /\ \A q \in Procs : q # p => stack'[q] = stack[q]
      /\ Len(stack'[p]) = n /\ stack'[p][n] = g
      /\ \A k \in 1 .. n - 1 : stack'[p][k] = stack[p][k]
  BY <1>1, <1>3, TopPlace
<1>5. ASSUME NEW k \in 1 .. n PROVE TodoOK(stack'[p][k]) /\ stack'[p][k].pcm = stack[p][k].pcm
  <2>1. k = n \/ k \in 1 .. n - 1
    BY <1>3
  <2> QED BY <1>2, <1>3, <1>4, <2>1 DEF NestedInv, NestedOK
<1>6. ASSUME NEW k \in 1 .. n - 1
      PROVE  /\ stack'[p][k].pc = "compiled"
             /\ Head(stack'[p][k].todo) = stack'[p][k + 1].pcm
  <2>1. k + 1 \in 1 .. n
    BY <1>3
  <2> QED BY <1>3, <1>4, <1>5, <2>1 DEF NestedInv, NestedOK
<1>7. NestedOK(stack'[p])
  BY <1>4, <1>5, <1>6 DEF NestedOK
<1> QED BY <1>4, <1>7 DEF NestedInv

LEMMA LockOwnedNested ==
  ASSUME IInv, NestedInv, NEW p \in Procs, LockOwned(p)
  PROVE  NestedInv'
<1>1. PICK n \in Nat \ {0}, m \in PCModules, f \in Instances, g \in Instances,
           new \in Instances : IsNested(p, n, m, f, g, new)
  BY LockOwnedPlace
<1>2. /\ n = Len(stack[p]) /\ m = Head(f.todo) /\ f = stack[p][n] /\ Len(stack'[p]) = n + 1
      /\ \A k \in 1 .. n - 1 : stack'[p][k] = stack[p][k]
      /\ stack'[p][n] = g /\ stack'[p][n + 1] = new
      /\ \A q \in Procs : q # p => stack'[q] = stack[q]
  BY <1>1 DEF IsNested, Imported
<1>3. g.pc = "compiled" /\ g.pcm = f.pcm /\ g.todo = f.todo /\ f.pc = "compile"
  BY <1>1, GotoFields DEF IsNested, LockOwned, At
<1>4. TodoOK(g)
  <2>1. TodoOK(f)
    BY <1>1, TopTodo DEF IsNested
  <2> QED BY <1>3, <2>1 DEF TodoOK, Busy
<1>5. TodoOK(new) /\ new.pcm = m
  BY <1>1 DEF IsNested, NewInstance, TodoOK, Busy
<1>6. ASSUME NEW k \in 1 .. n + 1 PROVE TodoOK(stack'[p][k])
  <2>1. k = n + 1 \/ k = n \/ k \in 1 .. n - 1
    OBVIOUS
  <2> QED BY <1>2, <1>4, <1>5, <2>1 DEF NestedInv, NestedOK
<1>7. ASSUME NEW k \in 1 .. n
      PROVE  /\ stack'[p][k].pc = "compiled"
             /\ Head(stack'[p][k].todo) = stack'[p][k + 1].pcm
  <2>1. CASE k = n
    BY <1>2, <1>3, <1>5, <2>1
  <2>2. CASE k # n
    <3>1. k \in 1 .. n - 1 /\ k \in 1 .. Len(stack[p]) - 1
      BY <1>2, <2>2
    <3>2. stack[p][k].pc = "compiled" /\ Head(stack[p][k].todo) = stack[p][k + 1].pcm
      BY <3>1 DEF NestedInv, NestedOK
    <3>3. stack'[p][k + 1].pcm = stack[p][k + 1].pcm
      <4>1. k + 1 = n \/ k + 1 \in 1 .. n - 1
        BY <3>1
      <4> QED BY <1>2, <1>3, <4>1
    <3> QED BY <1>2, <3>1, <3>2, <3>3
  <2> QED BY <2>1, <2>2
<1>8. (n + 1) - 1 = n
  OBVIOUS
<1>9. NestedOK(stack'[p])
  BY <1>2, <1>6, <1>7, <1>8 DEF NestedOK
<1> QED BY <1>2, <1>9 DEF NestedInv

LEMMA UnlockNested ==
  ASSUME IInv, NestedInv, NEW p \in Procs, Unlock(p)
  PROVE  NestedInv'
<1>1. PICK n \in Nat \ {0} :
        /\ Len(stack[p]) = n + 1 /\ Len(stack'[p]) = n
        /\ \A q \in Procs : q # p => stack'[q] = stack[q]
        /\ \A k \in 1 .. n : stack'[p][k] = stack[p][k]
  BY UnlockPlace
<1>2. \A k \in 1 .. n : k \in 1 .. Len(stack[p]) /\ k \in 1 .. Len(stack[p]) - 1
  BY <1>1
<1>3. \A k \in 1 .. n - 1 : k + 1 \in 1 .. n /\ k \in 1 .. n
  OBVIOUS
<1>4. NestedOK(stack[p])
  BY DEF NestedInv
<1>5. NestedOK(stack'[p])
  BY <1>1, <1>2, <1>3, <1>4 DEF NestedOK
<1> QED BY <1>1, <1>5 DEF NestedInv

LEMMA NestedInit == Init => NestedInv
<1> SUFFICES ASSUME Init, NEW p \in Procs
             PROVE  /\ \A k \in 1 .. Len(stack[p]) : TodoOK(stack[p][k])
                    /\ Len(stack[p]) = 1
  BY DEF NestedInv, NestedOK
<1>1. PICK f : f = NewInstance(Main, program[p])
  OBVIOUS
<1>2. stack[p] = << f >> /\ TodoOK(f)
  BY <1>1 DEF Init, NewInstance, TodoOK, Busy
<1> QED BY <1>2

(* All steps of p but those that push or remove an instance.                *)
LEMMA StepMoves ==
  ASSUME IInv, NEW p \in Procs, Step(p) \/ BuildCrashes(p), ~LockOwned(p), ~Unlock(p)
  PROVE  Moves(p)
BY ImportMoves, CompileMoves, ReadMoves DEF Step

LEMMA NestedNext == IInv /\ NestedInv /\ [Next]_vars => NestedInv'
<1> SUFFICES ASSUME IInv, NestedInv, [Next]_vars PROVE NestedInv'
  OBVIOUS
<1>1. ASSUME NEW p \in Procs, Step(p) \/ BuildCrashes(p) PROVE NestedInv'
  BY <1>1, StepMoves, MovesNested, LockOwnedNested, UnlockNested
<1>2. CASE UNCHANGED <<program, stack>>
  BY <1>2 DEF NestedInv, NestedOK
<1>3. (\E p \in Procs : Die(p)) \/ UNCHANGED vars => UNCHANGED <<program, stack>>
  BY DEF Die, vars
<1> QED BY <1>1, <1>2, <1>3 DEF Next

(* The locks.                                                               *)
LEMMA MovesHeld ==
  ASSUME IInv, HeldInv, NEW p \in Procs, Moves(p), UNCHANGED lock,
         \A q \in Procs : alive'[q] => alive[q]
  PROVE  HeldInv'
<1>1. PICK g : SetTop(p, g) /\ g.pcm = Top(p).pcm
  BY DEF Moves, Onward
<1>2. PICK n \in Nat \ {0} : n = Len(stack[p]) /\ Top(p) = stack[p][n]
  BY TopFacts
<1>3. /\ \A q \in Procs : q # p => stack'[q] = stack[q]
      /\ Len(stack'[p]) = n /\ stack'[p][n] = g
      /\ \A k \in 1 .. n - 1 : stack'[p][k] = stack[p][k]
  BY <1>1, <1>2, TopPlace
<1>4. ASSUME NEW k \in 2 .. n PROVE stack'[p][k].pcm = stack[p][k].pcm
  <2>1. k = n \/ k \in 1 .. n - 1
    BY <1>2
  <2> QED BY <1>1, <1>2, <1>3, <2>1
<1>5. \A m \in PCModules : Builds(stack[p], m) => Builds(stack'[p], m)
  BY <1>2, <1>3, <1>4 DEF Builds
<1> QED BY <1>3, <1>5 DEF HeldInv

LEMMA LockOwnedHeld ==
  ASSUME IInv, HeldInv, NEW p \in Procs, LockOwned(p)
  PROVE  HeldInv'
<1>1. PICK n \in Nat \ {0}, m \in PCModules, f \in Instances, g \in Instances,
           new \in Instances : IsNested(p, n, m, f, g, new)
  BY LockOwnedPlace
<1>2. /\ n = Len(stack[p]) /\ f = stack[p][n] /\ Len(stack'[p]) = n + 1
      /\ \A k \in 1 .. n - 1 : stack'[p][k] = stack[p][k]
      /\ stack'[p][n] = g /\ stack'[p][n + 1] = new
      /\ \A q \in Procs : q # p => stack'[q] = stack[q]
  BY <1>1 DEF IsNested
<1>3. g.pcm = f.pcm /\ new.pcm = m
  BY <1>1, GotoFields DEF IsNested, NewInstance
<1>4. ASSUME NEW k \in 2 .. n PROVE k \in 2 .. n + 1 /\ stack'[p][k].pcm = stack[p][k].pcm
  <2>1. k = n \/ k \in 1 .. n - 1
    OBVIOUS
  <2>2. stack'[p][k].pcm = stack[p][k].pcm
    BY <1>2, <1>3, <2>1
  <2> QED BY <2>2
<1>5. n + 1 \in 2 .. n + 1
  OBVIOUS
<1>6. /\ \A i \in PCModules : lock'[i] = IF i = m THEN p ELSE lock[i]
      /\ UNCHANGED alive
  BY <1>1 DEF LockOwned, IsNested, IInv, TypeOK
<1>7. Builds(stack'[p], m) /\ \A i \in PCModules : Builds(stack[p], i) => Builds(stack'[p], i)
  BY <1>2, <1>3, <1>4, <1>5 DEF Builds
<1> QED BY <1>2, <1>6, <1>7 DEF HeldInv

LEMMA UnlockHeld ==
  ASSUME IInv, HeldInv, NEW p \in Procs, Unlock(p)
  PROVE  HeldInv'
<1>1. PICK n \in Nat \ {0} :
        /\ Len(stack[p]) = n + 1 /\ Len(stack'[p]) = n /\ Top(p) = stack[p][n + 1]
        /\ \A q \in Procs : q # p => stack'[q] = stack[q]
        /\ \A k \in 1 .. n : stack'[p][k] = stack[p][k]
  BY UnlockPlace
<1>2. /\ \A i \in PCModules : lock'[i] = IF i = Top(p).pcm THEN NoProc ELSE lock[i]
      /\ UNCHANGED alive
  BY DEF Unlock, IInv, TypeOK
<1>3. NoProc \notin Procs
  BY ModulesAssumption
<1>4. ASSUME NEW k \in 2 .. n + 1, stack[p][k].pcm # Top(p).pcm
      PROVE  k \in 2 .. n /\ stack'[p][k] = stack[p][k]
  <2>1. k = n + 1 \/ (k \in 2 .. n /\ k \in 1 .. n)
    OBVIOUS
  <2> QED BY <1>1, <1>4, <2>1
<1>5. \A i \in PCModules : Builds(stack[p], i) /\ i # Top(p).pcm => Builds(stack'[p], i)
  BY <1>1, <1>4 DEF Builds
<1> QED BY <1>1, <1>2, <1>3, <1>5 DEF HeldInv

(* Only these two steps change a lock, and nobody comes to life.            *)
LEMMA LocksStay ==
  ASSUME IInv, NEW p \in Procs, Step(p) \/ BuildCrashes(p)
  PROVE  /\ ~LockOwned(p) /\ ~Unlock(p) => UNCHANGED lock
         /\ \A q \in Procs : alive'[q] => alive[q]
<1>1. ASSUME NEW f, AddFailed(p, f) PROVE \A q \in Procs : alive'[q] => alive[q]
  BY <1>1 DEF AddFailed, IInv, TypeOK
<1>2. ASSUME NEW f, ReadFails(p, f) PROVE \A q \in Procs : alive'[q] => alive[q]
  BY <1>1, <1>2 DEF ReadFails
<1>3. CASE UNCHANGED <<lock, alive>>
  BY <1>3
<1>4. CASE LockOwned(p) \/ Unlock(p)
  BY <1>4 DEF LockOwned, Unlock
<1>5. CASE CompiledMissing(p)
  BY <1>1, <1>5 DEF CompiledMissing
<1>6. CASE OpenFails(p) \/ OutOfDate(p)
  BY <1>2, <1>6 DEF OpenFails, OutOfDate
<1>7. \/ ImportKnown(p) \/ ImportCached(p) \/ ImportCycle(p) \/ ImportFailedBefore(p)
      \/ ImportMissing(p) \/ LockError(p) \/ LockShared(p) \/ WaitForUnlock(p)
      \/ EndSourceFile(p) \/ BuildCrashes(p) \/ CompiledFound(p) \/ AlreadyLoaded(p)
      \/ OpenFile(p) \/ Validate(p) \/ RemoveFile(p) \/ ReadDone(p)
      => UNCHANGED <<lock, alive>>
  BY DEF ImportKnown, ImportCached, ImportCycle, ImportFailedBefore, ImportMissing, LockError,
         LockShared, WaitForUnlock, EndSourceFile, BuildCrashes, CompiledFound,
         AlreadyLoaded, OpenFile, Validate, RemoveFile, ReadDone
<1> QED BY <1>3, <1>4, <1>5, <1>6, <1>7 DEF Step

LEMMA HeldNext == IInv /\ HeldInv /\ [Next]_vars => HeldInv'
<1> SUFFICES ASSUME IInv, HeldInv, [Next]_vars PROVE HeldInv'
  OBVIOUS
<1>1. ASSUME NEW p \in Procs, Step(p) \/ BuildCrashes(p) PROVE HeldInv'
  BY <1>1, LocksStay, StepMoves, MovesHeld, LockOwnedHeld, UnlockHeld
<1>2. ASSUME NEW p \in Procs, Die(p) PROVE HeldInv'
  BY <1>2 DEF Die, HeldInv, IInv, TypeOK
<1>3. CASE UNCHANGED vars
  BY <1>3 DEF HeldInv, vars
<1> QED BY <1>1, <1>2, <1>3 DEF Next

LEMMA NestedAlways == Spec => [](NestedInv /\ HeldInv)
<1>1. Init => NestedInv /\ HeldInv
  BY NestedInit, ModulesAssumption DEF Init, HeldInv
<1>2. IInv /\ (NestedInv /\ HeldInv) /\ [Next]_vars => (NestedInv /\ HeldInv)'
  BY NestedNext, HeldNext
<1> QED BY <1>1, <1>2, Invariance, PTL DEF Spec

-----------------------------------------------------------------------------
(* What a module needs                                                      *)

LEMMA ImportsIn ==
  ASSUME NEW i \in PCModules, NEW k \in 1 .. Len(Imports[i])
  PROVE  Imports[i][k] \in PCModules
<1>1. Imports[i] \in Seq(PCModules)
  BY ModulesAssumption
<1> QED BY <1>1

LEMMA ClosureIn ==
  ASSUME NEW m \in PCModules, NEW i
  PROVE  i \in Closure(m) <=> i \in PCModules /\ \A S \in SUBSET PCModules :
                                                   m \in S /\ Closed(S) => i \in S
BY DEF Closure, ClosureOf

LEMMA ClosureFacts ==
  ASSUME NEW m \in PCModules
  PROVE  m \in Closure(m) /\ Closure(m) \subseteq PCModules /\ Closed(Closure(m))
<1>1. m \in Closure(m) /\ Closure(m) \subseteq PCModules
  BY ClosureIn
<1>2. ASSUME NEW i \in Closure(m), NEW k \in 1 .. Len(Imports[i])
      PROVE  Imports[i][k] \in Closure(m)
  <2>1. Imports[i][k] \in PCModules
    BY <1>1, ImportsIn
  <2>2. \A S \in SUBSET PCModules : m \in S /\ Closed(S) => Imports[i][k] \in S
    BY ClosureIn DEF Closed
  <2> QED BY <2>1, <2>2, ClosureIn
<1> QED BY <1>1, <1>2 DEF Closed

LEMMA ClosureWithin ==
  ASSUME NEW m \in PCModules, NEW i \in Closure(m)
  PROVE  Closure(i) \subseteq Closure(m)
<1>1. i \in PCModules /\ Closure(m) \in SUBSET PCModules /\ Closed(Closure(m))
  BY ClosureFacts
<1>2. \A j \in Closure(i) : j \in Closure(m)
  BY <1>1, ClosureIn
<1> QED BY <1>2

LEMMA ImportsNeeded ==
  ASSUME NEW m \in PCModules, NEW i \in Range(Imports[m])
  PROVE  i \in PCModules /\ i \in Closure(m) /\ Closure(i) \subseteq Closure(m)
<1>1. PICK k \in 1 .. Len(Imports[m]) : i = Imports[m][k]
  BY ModulesAssumption DEF Range
<1>2. i \in PCModules /\ i \in Closure(m)
  BY <1>1, ImportsIn, ClosureFacts DEF Closed
<1> QED BY <1>2, ClosureWithin

(* What a module needs beyond itself is behind an import of another.        *)
LEMMA FirstImport ==
  ASSUME NEW m \in PCModules, NEW i \in Closure(m), i # m
  PROVE  \E k \in 1 .. Len(Imports[m]) : Imports[m][k] # m /\ i \in Closure(Imports[m][k])
<1>1. PICK T : T = {m} \cup {j \in PCModules : \E k \in 1 .. Len(Imports[m]) :
                               Imports[m][k] # m /\ j \in Closure(Imports[m][k])}
  OBVIOUS
<1>2. ASSUME NEW j \in T, NEW l \in 1 .. Len(Imports[j]) PROVE Imports[j][l] \in T
  <2>1. j \in PCModules /\ Imports[j][l] \in PCModules
    BY <1>1, ImportsIn
  <2>2. CASE j = m
    <3>1. Imports[j][l] \in Closure(Imports[j][l])
      BY <2>1, ClosureFacts
    <3> QED BY <1>1, <2>1, <2>2, <3>1
  <2>3. CASE j # m
    <3>1. PICK k \in 1 .. Len(Imports[m]) :
            Imports[m][k] # m /\ j \in Closure(Imports[m][k])
      BY <1>1, <2>3
    <3>2. Imports[m][k] \in PCModules
      BY ImportsIn
    <3>3. Imports[j][l] \in Closure(Imports[m][k])
      BY <3>1, <3>2, ClosureFacts DEF Closed
    <3> QED BY <1>1, <2>1, <3>1, <3>3
  <2> QED BY <2>2, <2>3
<1>3. T \in SUBSET PCModules /\ m \in T /\ Closed(T)
  BY <1>1, <1>2 DEF Closed
<1>4. i \in T
  BY <1>3, ClosureIn
<1> QED BY <1>1, <1>4

(* A module behind one of its imports of another is in a cycle.             *)
LEMMA CyclicFacts ==
  ASSUME NEW m \in PCModules, NEW c \in Range(Imports[m]), c # m, m \in Closure(c)
  PROVE  m \in Cyclic
<1>1. PICK k \in 1 .. Len(Imports[m]) : c = Imports[m][k]
  BY ModulesAssumption DEF Range
<1> QED BY <1>1 DEF Cyclic

(* What an instance imports is needed by all the modules whose builds it is *)
(* nested in.                                                               *)
LEMMA NeededBelow ==
  ASSUME IInv, NestedInv, NEW p \in Procs, NEW j \in 2 .. Len(stack[p]),
         NEW k \in Nat, j + k <= Len(stack[p])
  PROVE  /\ stack[p][j].pcm \in PCModules /\ stack[p][j + k].pcm \in PCModules
         /\ stack[p][j + k].pcm \in Closure(stack[p][j].pcm)
<1>1. PICK s : s = stack[p] /\ s \in Seq(GoodInstances) /\ StackOK(s) /\ NestedOK(s)
  BY DEF IInv, NestedInv
<1>2. ASSUME NEW i \in 2 .. Len(s) PROVE s[i].pcm \in PCModules /\ s[i].todo \in Seq(PCModules)
                                         /\ TodoOK(s[i]) /\ s[i].pcm # Main
                                         /\ (s[i].pc \in Busy => s[i].todo # << >>)
  <2>1. i \in 1 .. Len(s) /\ i # 1
    BY <1>1
  <2>2. s[i] \in GoodInstances /\ s[i].pcm # Main /\ TodoOK(s[i])
    BY <1>1, <2>1 DEF StackOK, NestedOK
  <2> QED BY <2>2 DEF GoodInstances, Instances
<1>3. ASSUME NEW i \in 2 .. Len(s), i + 1 <= Len(s)
      PROVE  s[i + 1].pcm \in Range(Imports[s[i].pcm])
  <2>1. i \in 1 .. Len(s) - 1
    BY <1>1, <1>3
  <2>2. s[i].pc = "compiled" /\ Head(s[i].todo) = s[i + 1].pcm
    BY <1>1, <2>1 DEF NestedOK
  <2>3. s[i].todo \in Seq(PCModules) /\ s[i].todo # << >>
    BY <1>2, <2>2 DEF Busy
  <2>4. Head(s[i].todo) \in Range(s[i].todo)
    BY <2>3, RangeTail
  <2> QED BY <1>2, <2>2, <2>4 DEF TodoOK
<1>4. PICK S : S = {n \in Nat : j + n <= Len(s) => s[j + n].pcm \in Closure(s[j].pcm)}
  OBVIOUS
<1>5. 0 \in S
  <2>1. j + 0 = j
    BY <1>1
  <2>2. s[j].pcm \in Closure(s[j].pcm)
    BY <1>1, <1>2, ClosureFacts
  <2> QED BY <1>4, <2>1, <2>2
<1>6. ASSUME NEW n \in Nat, n \in S PROVE n + 1 \in S
  <2> SUFFICES ASSUME j + (n + 1) <= Len(s) PROVE s[j + (n + 1)].pcm \in Closure(s[j].pcm)
    BY <1>4
  <2>1. PICK i \in 2 .. Len(s) : i = j + n /\ i + 1 = j + (n + 1) /\ i + 1 <= Len(s)
    BY <1>1
  <2>2. s[i].pcm \in Closure(s[j].pcm)
    BY <1>4, <1>6, <2>1
  <2>3. s[i + 1].pcm \in Closure(s[i].pcm)
    BY <1>2, <1>3, <2>1, ImportsNeeded
  <2>4. s[j].pcm \in PCModules
    BY <1>1, <1>2
  <2> QED BY <2>1, <2>2, <2>3, <2>4, ClosureWithin
<1>7. k \in S
  BY <1>5, <1>6, SetInduction
<1>8. j + k \in 2 .. Len(s)
  BY <1>1
<1> QED BY <1>1, <1>2, <1>4, <1>7, <1>8

(* What the innermost instance imports is behind an import of each module   *)
(* whose build it is nested in, of a module other than that one.            *)
LEMMA ImportedBehind ==
  ASSUME IInv, NestedInv, NEW p \in Procs, alive[p], NEW j \in 2 .. Len(stack[p]),
         NEW m \in PCModules, m = stack[p][j].pcm, Top(p).todo # << >>,
         Imported(p) # Top(p).pcm
  PROVE  \E c \in Range(Imports[m]) : c # m /\ c \in PCModules /\ Imported(p) \in Closure(c)
<1>1. PICK s : s = stack[p] /\ s \in Seq(GoodInstances) /\ StackOK(s) /\ NestedOK(s)
  BY DEF IInv, NestedInv
<1>2. PICK n \in 2 .. Len(s) : n = Len(s) /\ Top(p) = s[n] /\ j <= n
  BY <1>1, TopFacts
<1>3. PICK i \in PCModules : i = Imported(p) /\ i = Head(Top(p).todo)
  BY ImportedFacts DEF Imported
<1>4. i \in Range(Imports[Top(p).pcm])
  <2>1. Top(p).pcm # Main /\ TodoOK(Top(p))
    BY <1>1, <1>2 DEF StackOK, NestedOK
  <2>2. i \in Range(Top(p).todo)
    BY <1>3, TopFacts, RangeTail
  <2> QED BY <2>1, <2>2 DEF TodoOK
<1>5. CASE j = n
  BY <1>1, <1>2, <1>3, <1>4, <1>5, ClosureFacts
<1>6. CASE j # n
  <2>1. PICK l \in 2 .. Len(s) : l = j + 1 /\ l <= n
    BY <1>1, <1>2, <1>6
  <2>2. PICK c : c = s[l].pcm
    OBVIOUS
  <2>3. c \in PCModules /\ Top(p).pcm \in Closure(c)
    <3>1. PICK k \in Nat : l + k = n
      <4>1. l \in Nat /\ n \in Nat /\ l <= n
        <5>1. Len(s) \in Nat
          BY <1>1
        <5> QED BY <2>1, <5>1
      <4>2. n - l \in Nat /\ l + (n - l) = n
        BY <4>1
      <4> QED BY <4>2
    <3>2. l \in 2 .. Len(stack[p]) /\ l + k <= Len(stack[p])
      BY <1>1, <1>2, <2>1, <3>1
    <3>3. /\ stack[p][l].pcm \in PCModules
          /\ stack[p][l + k].pcm \in Closure(stack[p][l].pcm)
      BY <3>2, NeededBelow
    <3> QED BY <1>1, <1>2, <2>2, <3>1, <3>3
  <2>4. i \in Closure(c)
    <3>1. Top(p).pcm \in PCModules
      BY <2>3, ClosureFacts
    <3> QED BY <1>4, <2>3, <3>1, ImportsNeeded, ClosureWithin
  <2>5. c # m
    <3>1. NoRepeats(p)
      BY DEF IInv
    <3> QED BY <1>1, <2>1, <2>2, <3>1 DEF NoRepeats
  <2>6. c \in Range(Imports[m])
    <3>1. s[j].pc = "compiled" /\ Head(s[j].todo) = c
      BY <1>1, <1>2, <1>6, <2>1, <2>2 DEF NestedOK
    <3>2. s[j] \in GoodInstances /\ TodoOK(s[j]) /\ m # Main
      BY <1>1, ModulesAssumption DEF NestedOK
    <3>3. s[j].todo \in Seq(PCModules) /\ s[j].todo # << >>
      BY <3>1, <3>2 DEF GoodInstances, Instances, Busy
    <3>4. c \in Range(s[j].todo)
      BY <3>1, <3>3, RangeTail
    <3> QED BY <1>1, <3>2, <3>4 DEF TodoOK
  <2> QED BY <1>3, <2>3, <2>4, <2>5, <2>6
<1> QED BY <1>5, <1>6

-----------------------------------------------------------------------------
(* Who waits for whom                                                       *)

(* A process that waits for one that waits needs what that one waits for,   *)
(* but not the other way round.                                             *)
LEMMA WaitsGoDown ==
  ASSUME IInv, NestedInv, HeldInv, Cyclic = {}, NEW p \in Procs, NEW q \in Procs,
         WaitsFor(p, q), At(q, "wait")
  PROVE  /\ Imported(p) \in PCModules /\ Imported(q) \in PCModules
         /\ Imported(q) \in Closure(Imported(p)) /\ Imported(p) \notin Closure(Imported(q))
<1>1. PICK m \in PCModules : m = Imported(p)
  BY BusyFacts DEF WaitsFor, At, Busy
<1>2. PICK i \in PCModules :
        i = Imported(q) /\ alive[q] /\ Top(q).todo # << >> /\ i # Top(q).pcm
  <2>1. Top(q).pc \in Busy /\ alive[q]
    BY DEF At, Busy
  <2> QED BY <2>1, BusyFacts, TopTodo DEF TodoOK, Imported
<1>3. PICK j \in 2 .. Len(stack[q]) : stack[q][j].pcm = m
  BY <1>1 DEF WaitsFor, HeldInv, Builds
<1>4. PICK c \in Range(Imports[m]) : c # m /\ c \in PCModules /\ i \in Closure(c)
  BY <1>2, <1>3, ImportedBehind
<1>5. i \in Closure(m)
  BY <1>4, ImportsNeeded
<1>6. m \notin Closure(i)
  <2> SUFFICES ASSUME m \in Closure(i) PROVE FALSE
    OBVIOUS
  <2>1. m \in Closure(c)
    BY <1>4, ClosureWithin
  <2> QED BY <1>4, <2>1, CyclicFacts
<1> QED BY <1>1, <1>2, <1>5, <1>6

(* Processes never wait for each other in a circle, if the modules do not   *)
(* import each other in one: whoever waits needs more than the one it waits *)
(* for.  The lock that a process waits for is that of a module on the build *)
(* stack of its owner, and what the owner waits for is imported, directly or*)
(* in a nested build, by that module (CompilerInstance.cpp:774, 868).       *)
THEOREM NoCircularWait ==
  ASSUME Cyclic = {}, IsFiniteSet(Procs)
  PROVE  Spec => []WaitsAreAcyclic
<1>1. ASSUME IInv, NestedInv, HeldInv, NEW S \in SUBSET Procs, S # {},
             \A p \in S : \E q \in S : WaitsFor(p, q)
      PROVE  FALSE
  <2>1. PICK Below : Below = [p \in S |-> {r \in S : Imported(r) \in Closure(Imported(p))}]
    OBVIOUS
  <2>2. ASSUME NEW p \in S, NEW q \in S, WaitsFor(p, q)
        PROVE  Below[q] \subseteq Below[p] /\ p \in Below[p] /\ p \notin Below[q]
    <3>1. At(q, "wait")
      BY <1>1 DEF WaitsFor
    <3>2. /\ Imported(p) \in PCModules /\ Imported(q) \in PCModules
          /\ Imported(q) \in Closure(Imported(p)) /\ Imported(p) \notin Closure(Imported(q))
      BY <1>1, <2>2, <3>1, WaitsGoDown
    <3>3. Closure(Imported(q)) \subseteq Closure(Imported(p)) /\ Imported(p) \in Closure(Imported(p))
      BY <3>2, ClosureWithin, ClosureFacts
    <3> QED BY <2>1, <3>2, <3>3
  <2>3. ASSUME NEW p \in S PROVE IsFiniteSet(Below[p]) /\ Cardinality(Below[p]) \in Nat
    <3>1. Below[p] \in SUBSET Procs
      BY <2>1
    <3>2. IsFiniteSet(Below[p])
      BY <3>1, FS_Subset
    <3> QED BY <3>2, FS_CardinalityType
  <2>4. PICK N : N = {Cardinality(Below[p]) : p \in S}
    OBVIOUS
  <2>5. N \subseteq Nat /\ N # {}
    <3>1. \A p \in S : Cardinality(Below[p]) \in Nat
      BY <2>3
    <3>2. PICK p : p \in S
      BY <1>1
    <3>3. Cardinality(Below[p]) \in N
      BY <2>4, <3>2
    <3>4. \A k \in N : k \in Nat
      BY <2>4, <3>1
    <3> QED BY <3>3, <3>4
  <2>6. PICK n \in N : \A k \in N : n <= k
    BY <2>5, LeastElement
  <2>7. PICK p \in S : n = Cardinality(Below[p])
    BY <2>4
  <2>8. PICK q \in S : WaitsFor(p, q)
    BY <1>1
  <2>9. Below[q] \subseteq Below[p] /\ Below[q] # Below[p]
    BY <2>2, <2>8
  <2>10. /\ Cardinality(Below[q]) <= Cardinality(Below[p])
         /\ Cardinality(Below[q]) # Cardinality(Below[p])
    BY <2>3, <2>9, FS_Subset
  <2>11. Cardinality(Below[q]) \in N
    BY <2>4
  <2>12. PICK a \in Nat, b \in Nat : a = Cardinality(Below[q]) /\ b = Cardinality(Below[p])
    BY <2>3
  <2>13. a <= b /\ a # b /\ b <= a
    BY <2>6, <2>7, <2>10, <2>11, <2>12
  <2> QED BY <2>12, <2>13
<1>2. IInv /\ NestedInv /\ HeldInv => WaitsAreAcyclic
  BY <1>1 DEF WaitsAreAcyclic
<1> QED BY <1>2, NestedAlways, Invariance, PTL

-----------------------------------------------------------------------------
(* What a step makes of the innermost instance, with a sound cache          *)

(* What a file in the cache imports is in the cache.                        *)
CompleteCache ==
  \A m \in PCModules : file[m] # Absent =>
    \A i \in Range(file[m].imports) : file[i] # Absent

(* Nothing that an instance has seen in the cache is gone.                  *)
PresentOK(c, f) ==
  /\ \A i \in PCModules : f.fileMgr[i] = "found" \/ f.loaded[i] # Absent => c[i] # Absent
  /\ \A i \in Range(f.direct) : c[i] # Absent
  /\ f.pc = "read" => /\ c[Head(f.todo)] # Absent
                      /\ \A e \in Range(f.reading) : c[e.pcm] # Absent

PresentInv ==
  /\ CompleteCache
  /\ \A p \in Procs : \A k \in 1 .. Len(stack[p]) : PresentOK(file, stack[p][k])

LEMMA AnsweredMgr ==
  ASSUME NEW f \in Instances, NEW g, g = Answered(f)
  PROVE  g.fileMgr = f.fileMgr /\ g.reading = << >>
  BY DEF Answered, Instances

LEMMA LookedMgr ==
  ASSUME NEW f \in Instances, NEW m \in PCModules, NEW g, g = Looked(f, m)
  PROVE  \A i \in PCModules : g.fileMgr[i] = IF i = m THEN Stat(f, m) ELSE f.fileMgr[i]
  BY DEF Looked, Instances

LEMMA FailingMgr ==
  ASSUME NEW f \in Instances, NEW g, g = Failing(f)
  PROVE  g.fileMgr = f.fileMgr
  BY DEF Failing, Instances

LEMMA RolledBackMgr ==
  ASSUME NEW f \in Instances, NEW g, g = RolledBack(f)
  PROVE  g.fileMgr = f.fileMgr
  BY DEF RolledBack, Instances

LEMMA StartReadASTMgr ==
  ASSUME NEW f \in Instances, NEW m \in PCModules, NEW g, g = StartReadAST(f, m)
  PROVE  g.fileMgr = f.fileMgr
  BY DEF StartReadAST, Instances

LEMMA GotoMgr ==
  ASSUME NEW f \in Instances, NEW c, NEW g, g = [f EXCEPT !.pc = c]
  PROVE  g.fileMgr = f.fileMgr
  BY DEF Instances

LEMMA SkippedMgr ==
  ASSUME NEW f \in Instances, NEW g, g = [f EXCEPT !.reading = Tail(@)]
  PROVE  g.fileMgr = f.fileMgr
  BY DEF Instances

(* f is the innermost instance of p, g what it becomes.                     *)
Becomes(p, f, g) == f = Top(p) /\ f \in Instances /\ SetTop(p, g) /\ g.pcm = f.pcm

(* What it learns of the files.                                             *)
Learns(p, f, g) ==
  \A i \in PCModules :
    /\ \/ g.fileMgr[i] = f.fileMgr[i]
       \/ g.fileMgr[i] = "found" /\ file[i] # Absent
       \/ g.fileMgr[i] = "missing" /\ CompiledMissing(p) /\ i = Imported(p)
    /\ g.loaded[i] # Absent => f.loaded[i] # Absent \/ file[i] # Absent

(* What it reads.                                                           *)
Reads(p, f, g) ==
  /\ \A i \in Range(g.direct) : i \in Range(f.direct) \/ (ReadDone(p) /\ i = Imported(p))
  /\ g.pc = "read" =>
       /\ g.todo = f.todo
       /\ f.pc = "read" \/ file[Imported(p)] # Absent
       /\ \A e \in Range(g.reading) :
            \/ f.pc = "read" /\ e \in Range(f.reading)
            \/ file[e.pcm] # Absent

(* How it goes on: with the same import, or, after an answer, with the next.*)
GoesOn(p, f, g) ==
  \/ g.todo = f.todo /\ g.errors = f.errors /\ g.known = f.known
  \/ /\ f.todo # << >> /\ g.todo = Tail(f.todo) /\ g.pc = "run"
     /\ \A i \in PCModules : \/ g.known[i] = f.known[i]
                             \/ i = Imported(p) /\ g.known[i] = "module"
                             \/ OpenFails(p)
     /\ \/ g.errors = f.errors /\ g.known[Imported(p)] # "unknown"
        \/ ImportCycle(p) \/ ImportFailedBefore(p) \/ CompiledMissing(p) \/ OpenFails(p)

Arrives(p, f, g) ==
  /\ g.pc = "compile" => ImportMissing(p)
  /\ g.pc = "wait" => LockShared(p)
  /\ g.pc = "compiled" => WaitForUnlock(p) \/ LockError(p)
  /\ g.pc = "unlock" => EndSourceFile(p) \/ BuildCrashes(p)

Turn(p, f, g) ==
  Becomes(p, f, g) /\ Learns(p, f, g) /\ Reads(p, f, g) /\ GoesOn(p, f, g) /\ Arrives(p, f, g)

Turns(p) == \E f, g : Turn(p, f, g)

(* What a step that answers an import leaves.                               *)
LEMMA AnswerTurns ==
  ASSUME IInv, NEW p \in Procs, NEW f \in Instances, f = Top(p), f.todo # << >>,
         NEW h \in Instances, SetTop(p, Answered(h)), h.pcm = f.pcm, h.todo = f.todo,
         Learns(p, f, h),
         \A i \in Range(h.direct) : i \in Range(f.direct) \/ (ReadDone(p) /\ i = Imported(p)),
         \A i \in PCModules : \/ h.known[i] = f.known[i]
                              \/ i = Imported(p) /\ h.known[i] = "module"
                              \/ OpenFails(p),
         \/ h.errors = f.errors /\ h.known[Imported(p)] # "unknown"
         \/ ImportCycle(p) \/ ImportFailedBefore(p) \/ CompiledMissing(p) \/ OpenFails(p)
  PROVE  Turns(p)
<1>1. PICK g : g = Answered(h)
  OBVIOUS
<1>2. /\ g.pcm = h.pcm /\ g.pc = "run" /\ g.known = h.known /\ g.loaded = h.loaded
      /\ g.errors = h.errors /\ g.todo = Tail(h.todo) /\ g.direct = h.direct
      /\ g.fileMgr = h.fileMgr
  BY <1>1, AnsweredFields, AnsweredMgr
<1>3. Becomes(p, f, g)
  BY <1>1, <1>2 DEF Becomes
<1>4. Learns(p, f, g)
  BY <1>2 DEF Learns
<1>5. Reads(p, f, g)
  BY <1>2 DEF Reads
<1>6. GoesOn(p, f, g)
  BY <1>2 DEF GoesOn
<1>7. Arrives(p, f, g)
  BY <1>2 DEF Arrives
<1> QED BY <1>3, <1>4, <1>5, <1>6, <1>7 DEF Turn, Turns

(* What a step that stays with its import leaves.                           *)
LEMMA StayTurns ==
  ASSUME IInv, NEW p \in Procs, NEW f \in Instances, f = Top(p), NEW g, SetTop(p, g),
         g.pcm = f.pcm, g.todo = f.todo, g.errors = f.errors, g.known = f.known,
         g.direct = f.direct, Learns(p, f, g), Arrives(p, f, g), g.pc # "read"
  PROVE  Turns(p)
<1>1. Becomes(p, f, g) /\ Reads(p, f, g) /\ GoesOn(p, f, g)
  BY DEF Becomes, Reads, GoesOn
<1> QED BY <1>1 DEF Turn, Turns

LEMMA PcTurns ==
  ASSUME IInv, NEW p \in Procs, NEW f \in Instances, f = Top(p), NEW c, c # "read",
         SetTop(p, [f EXCEPT !.pc = c]),
         c = "compile" => ImportMissing(p), c = "wait" => LockShared(p),
         c = "compiled" => WaitForUnlock(p) \/ LockError(p),
         c = "unlock" => EndSourceFile(p) \/ BuildCrashes(p)
  PROVE  Turns(p)
<1>1. PICK g : g = [f EXCEPT !.pc = c]
  OBVIOUS
<1>2. /\ g.pcm = f.pcm /\ g.pc = c /\ g.known = f.known /\ g.loaded = f.loaded
      /\ g.errors = f.errors /\ g.todo = f.todo /\ g.direct = f.direct
      /\ g.fileMgr = f.fileMgr
  BY <1>1, GotoFields, GotoMgr
<1>3. Learns(p, f, g) /\ Arrives(p, f, g)
  BY <1>2 DEF Learns, Arrives
<1> QED BY <1>1, <1>2, <1>3, StayTurns

LEMMA SameLearns ==
  ASSUME NEW p, NEW f, NEW g, g.fileMgr = f.fileMgr, g.loaded = f.loaded
  PROVE  Learns(p, f, g)
  BY DEF Learns

LEMMA ImportTurns ==
  ASSUME IInv, NEW p \in Procs, ImportKnown(p) \/ ImportCycle(p) \/ ImportFailedBefore(p)
  PROVE  Turns(p)
<1>1. PICK f \in Instances : f = Top(p) /\ f.todo # << >>
  BY TopFacts DEF ImportKnown, ImportCycle, ImportFailedBefore, NotKnown, Importing
<1>2. PICK m \in PCModules : m = Imported(p)
  BY <1>1, ImportedFacts
<1>3. CASE ImportKnown(p)
  <2>1. PICK k \in {"unknown", "module", "null"} :
          k = IF f.known[m] = "unknown" THEN "module" ELSE f.known[m]
    BY DEF Instances
  <2>2. PICK h : h = [f EXCEPT !.known[m] = k]
    OBVIOUS
  <2>3. /\ h \in Instances /\ h.pcm = f.pcm /\ h.loaded = f.loaded /\ h.known[m] = k
        /\ h.todo = f.todo /\ h.errors = f.errors /\ h.direct = f.direct
        /\ h.fileMgr = f.fileMgr
        /\ \A i \in PCModules : i # m => h.known[i] = f.known[i]
    BY <2>1, <2>2 DEF Instances
  <2>4. SetTop(p, Answered(h))
    <3>1. h = [f EXCEPT !.known[m] = IF @ = "unknown" THEN "module" ELSE @]
      BY <2>1, <2>2
    <3> QED BY <1>1, <1>2, <1>3, <3>1 DEF ImportKnown
  <2>5. Learns(p, f, h)
    BY <2>3, SameLearns
  <2> QED BY <1>1, <1>2, <2>1, <2>3, <2>4, <2>5, AnswerTurns
<1>4. CASE ImportCycle(p) \/ ImportFailedBefore(p)
  <2>1. PICK h \in Instances : h = Failing(f)
    BY FailingFacts DEF Keeps
  <2>2. SetTop(p, Answered(h))
    BY <1>1, <1>4, <2>1 DEF ImportCycle, ImportFailedBefore
  <2>3. /\ h.pcm = f.pcm /\ h.loaded = f.loaded /\ h.known = f.known
        /\ h.todo = f.todo /\ h.direct = f.direct /\ h.fileMgr = f.fileMgr
    BY <2>1, FailingFields, FailingMgr
  <2>4. Learns(p, f, h)
    BY <2>3, SameLearns
  <2> QED BY <1>1, <1>4, <2>2, <2>3, <2>4, AnswerTurns
<1> QED BY <1>3, <1>4

LEMMA WaitTurns ==
  ASSUME IInv, NEW p \in Procs,
         \/ ImportMissing(p) \/ LockError(p) \/ LockShared(p) \/ WaitForUnlock(p)
         \/ EndSourceFile(p) \/ BuildCrashes(p)
  PROVE  Turns(p)
<1>1. PICK f \in Instances : f = Top(p)
  BY TopFacts
<1>2. CASE ImportMissing(p)
  BY <1>1, <1>2, PcTurns DEF ImportMissing
<1>3. CASE LockError(p)
  BY <1>1, <1>3, PcTurns DEF LockError
<1>4. CASE LockShared(p)
  BY <1>1, <1>4, PcTurns DEF LockShared
<1>5. CASE WaitForUnlock(p)
  BY <1>1, <1>5, PcTurns DEF WaitForUnlock
<1>6. CASE EndSourceFile(p) \/ BuildCrashes(p)
  <2>1. PICK c : c = "unlock"
    OBVIOUS
  <2>2. SetTop(p, [f EXCEPT !.pc = c])
    BY <1>1, <1>6, <2>1 DEF EndSourceFile, BuildCrashes
  <2> QED BY <1>1, <1>6, <2>1, <2>2, PcTurns
<1> QED BY <1>2, <1>3, <1>4, <1>5, <1>6

(* A file that an instance has found is still there.                        *)
LEMMA TopIsPresent ==
  ASSUME IInv, PresentInv, NEW p \in Procs
  PROVE  PresentOK(file, Top(p))
<1>1. Top(p) = stack[p][Len(stack[p])] /\ Len(stack[p]) \in 1 .. Len(stack[p])
  BY TopFacts
<1> QED BY <1>1 DEF PresentInv

LEMMA FoundIsPresent ==
  ASSUME NEW f, NEW m \in PCModules, PresentOK(file, f), Stat(f, m) = "found"
  PROVE  file[m] # Absent
  BY DEF PresentOK, Stat

LEMMA ReadStartsTurns ==
  ASSUME IInv, PresentInv, NEW p \in Procs, ImportCached(p) \/ CompiledFound(p)
  PROVE  Turns(p)
<1>1. PICK f \in Instances : f = Top(p) /\ PresentOK(file, f)
  BY TopFacts, TopIsPresent
<1>2. PICK m \in PCModules : m = Imported(p)
  BY BusyFacts, ImportedFacts DEF ImportCached, CompiledFound, NotKnown, Importing, At, Busy
<1>3. Stat(f, m) = "found" /\ file[m] # Absent
  BY <1>1, <1>2, FoundIsPresent DEF ImportCached, CompiledFound
<1>4. PICK h \in Instances : h = Looked(f, m)
  BY LookedFacts DEF Keeps
<1>5. PICK g : g = StartReadAST(h, m)
  OBVIOUS
<1>6. SetTop(p, g)
  BY <1>1, <1>2, <1>4, <1>5 DEF ImportCached, CompiledFound
<1>7. /\ h.pcm = f.pcm /\ h.known = f.known /\ h.loaded = f.loaded /\ h.errors = f.errors
      /\ h.todo = f.todo /\ h.direct = f.direct
      /\ \A i \in PCModules : h.fileMgr[i] = IF i = m THEN "found" ELSE f.fileMgr[i]
  BY <1>3, <1>4, LookedFields, LookedMgr
<1>8. /\ g.pcm = h.pcm /\ g.pc = "read" /\ g.known = h.known /\ g.loaded = h.loaded
      /\ g.errors = h.errors /\ g.todo = h.todo /\ g.direct = h.direct
      /\ g.reading = << ToOpen(m) >> /\ g.fileMgr = h.fileMgr
  BY <1>4, <1>5, StartReadASTFields, StartReadASTMgr
<1>9. Becomes(p, f, g)
  BY <1>1, <1>6, <1>7, <1>8 DEF Becomes
<1>10. Learns(p, f, g)
  BY <1>3, <1>7, <1>8 DEF Learns
<1>11. Reads(p, f, g)
  <2>1. \A e \in Range(g.reading) : e.pcm = m
    BY <1>8, RangeOfOne DEF ToOpen
  <2> QED BY <1>2, <1>3, <1>7, <1>8, <2>1 DEF Reads
<1>12. GoesOn(p, f, g) /\ Arrives(p, f, g)
  BY <1>7, <1>8 DEF GoesOn, Arrives
<1> QED BY <1>9, <1>10, <1>11, <1>12 DEF Turn, Turns

LEMMA CompiledMissingTurns ==
  ASSUME IInv, SoundInv, NEW p \in Procs, CompiledMissing(p)
  PROVE  Turns(p)
<1>1. PICK f \in Instances : f = Top(p) /\ SoundOK(broken, program[p], f) /\ f.todo # << >>
  BY TopFacts, TopIsSound, BusyFacts DEF CompiledMissing, At, Busy
<1>2. PICK m \in PCModules : m = Imported(p)
  BY <1>1, ImportedFacts
<1>3. PICK h \in Instances : h = Looked(f, m)
  BY LookedFacts DEF Keeps
<1>4. /\ h.pcm = f.pcm /\ h.known = f.known /\ h.loaded = f.loaded /\ h.errors = f.errors
      /\ h.todo = f.todo /\ h.retry = f.retry /\ h.direct = f.direct
      /\ \A i \in PCModules : h.fileMgr[i] = IF i = m THEN "missing" ELSE f.fileMgr[i]
  <2>1. Stat(f, m) = "missing"
    BY <1>1, <1>2 DEF CompiledMissing
  <2> QED BY <1>3, <2>1, LookedFields, LookedMgr
<1>5. PICK k \in Instances : k = Failing(h)
  BY FailingFacts DEF Keeps
<1>6. /\ k.pcm = h.pcm /\ k.known = h.known /\ k.loaded = h.loaded
      /\ k.todo = h.todo /\ k.direct = h.direct /\ k.fileMgr = h.fileMgr
  BY <1>5, FailingFields, FailingMgr
<1>7. AddFailed(p, Answered(k))
  <2>1. ~h.retry
    BY <1>1, <1>4 DEF SoundOK
  <2> QED BY <1>1, <1>2, <1>3, <1>5, <2>1 DEF CompiledMissing
<1>8. SetTop(p, Answered(k)) \/ SetTop(p, [f EXCEPT !.pc = "nulldereference"])
  BY <1>1, <1>7 DEF AddFailed
<1>9. Learns(p, f, k)
  BY <1>2, <1>4, <1>6 DEF Learns
<1>10. CASE SetTop(p, Answered(k))
  BY <1>1, <1>4, <1>6, <1>9, <1>10, AnswerTurns
<1>11. CASE SetTop(p, [f EXCEPT !.pc = "nulldereference"])
  <2>1. PICK c : c = "nulldereference"
    OBVIOUS
  <2>2. SetTop(p, [f EXCEPT !.pc = c])
    BY <1>11, <2>1
  <2>3. c # "read" /\ c # "compile" /\ c # "wait" /\ c # "compiled" /\ c # "unlock"
    BY <2>1
  <2>4. f = Top(p)
    BY <1>1
  <2> QED BY <2>2, <2>3, <2>4, PcTurns
<1> QED BY <1>8, <1>10, <1>11

LEMMA SkipTurns ==
  ASSUME IInv, NEW p \in Procs, AlreadyLoaded(p) \/ Validate(p)
  PROVE  Turns(p)
<1>1. PICK f \in Instances : f = Top(p) /\ f.pc = "read" /\ f.reading # << >>
  BY TopFacts DEF AlreadyLoaded, Validate, Reading, At
<1>2. PICK g : g = [f EXCEPT !.reading = Tail(@)]
  OBVIOUS
<1>3. SetTop(p, g)
  BY <1>1, <1>2 DEF AlreadyLoaded, Validate
<1>4. /\ g.pcm = f.pcm /\ g.pc = f.pc /\ g.known = f.known /\ g.loaded = f.loaded
      /\ g.errors = f.errors /\ g.todo = f.todo /\ g.direct = f.direct
      /\ g.fileMgr = f.fileMgr /\ g.reading = Tail(f.reading)
  BY <1>2, SkippedFields, SkippedMgr
<1>5. Learns(p, f, g)
  BY <1>4, SameLearns
<1>6. Reads(p, f, g)
  <2>1. f.reading \in Seq(Pending)
    BY DEF Instances
  <2>2. Range(f.reading) = {Head(f.reading)} \cup Range(Tail(f.reading))
    BY <1>1, <2>1, RangeTail
  <2> QED BY <1>1, <1>4, <2>2 DEF Reads
<1>7. Becomes(p, f, g) /\ GoesOn(p, f, g) /\ Arrives(p, f, g)
  BY <1>1, <1>3, <1>4 DEF Becomes, GoesOn, Arrives
<1> QED BY <1>5, <1>6, <1>7 DEF Turn, Turns

LEMMA OpenFileTurns ==
  ASSUME IInv, PresentInv, NEW p \in Procs, OpenFile(p)
  PROVE  Turns(p)
<1>1. PICK f \in Instances : f = Top(p) /\ f.pc = "read" /\ f.reading # << >>
  BY TopFacts DEF OpenFile, Reading, At
<1>2. PICK m \in PCModules : m = NextFile(p).pcm
  BY ReadingFacts DEF OpenFile, Pending
<1>3. Stat(f, m) = "found" /\ file[m] # Absent
  BY <1>1, <1>2 DEF OpenFile, Readable
<1>4. PICK h \in Instances : h = Looked(f, m)
  BY LookedFacts DEF Keeps
<1>5. PICK o : o = [k \in 1 .. Len(file[m].imports) |->
                      [op |-> "open", pcm |-> file[m].imports[k]]]
  OBVIOUS
<1>6. PICK r : r = o \o << [op |-> "validate", pcm |-> m] >> \o Tail(h.reading)
  OBVIOUS
<1>7. PICK g : g = [h EXCEPT !.loaded[m] = file[m], !.fresh = @ \cup {m}, !.reading = r]
  OBVIOUS
<1>8. SetTop(p, g)
  BY <1>1, <1>2, <1>4, <1>5, <1>6, <1>7 DEF OpenFile
<1>9. /\ h.pcm = f.pcm /\ h.pc = f.pc /\ h.known = f.known /\ h.loaded = f.loaded
      /\ h.errors = f.errors /\ h.todo = f.todo /\ h.direct = f.direct
      /\ h.reading = f.reading
      /\ \A i \in PCModules : h.fileMgr[i] = IF i = m THEN "found" ELSE f.fileMgr[i]
  BY <1>3, <1>4, LookedFields, LookedMgr
<1>10. /\ g.pcm = h.pcm /\ g.pc = h.pc /\ g.known = h.known /\ g.errors = h.errors
       /\ g.todo = h.todo /\ g.direct = h.direct /\ g.fileMgr = h.fileMgr
       /\ g.reading = r
       /\ \A i \in PCModules : i # m => g.loaded[i] = h.loaded[i]
  BY <1>7 DEF Instances
<1>11. \A e \in Range(r) : e \in Range(f.reading) \/ file[e.pcm] # Absent
  <2>1. PICK ims \in Seq(PCModules) : ims = file[m].imports
    BY <1>3 DEF IInv, TypeOK, Content
  <2>2. o \in Seq(Pending) /\ \A e \in Range(o) : e.pcm \in Range(ims)
    BY <1>5, <2>1 DEF Pending, Range
  <2>3. \A i \in Range(ims) : file[i] # Absent
    BY <1>3, <2>1 DEF PresentInv, CompleteCache
  <2>4. PICK v \in Seq(Pending) : v = << [op |-> "validate", pcm |-> m] >>
    <3>1. << [op |-> "validate", pcm |-> m] >> \in Seq(Pending)
      BY DEF Pending
    <3> QED BY <3>1
  <2>5. \A e \in Range(v) : e.pcm = m
    BY <2>4, RangeOfOne
  <2>6. f.reading \in Seq(Pending)
    BY DEF Instances
  <2>7. PICK t \in Seq(Pending) : t = Tail(f.reading) /\ Range(t) \subseteq Range(f.reading)
    <3>1. Tail(f.reading) \in Seq(Pending)
      BY <1>1, <2>6
    <3>2. Range(f.reading) = {Head(f.reading)} \cup Range(Tail(f.reading))
      BY <1>1, <2>6, RangeTail
    <3> QED BY <3>1, <3>2
  <2>8. r = o \o v \o t
    BY <1>6, <1>9, <2>4, <2>7
  <2>9. o \o v \in Seq(Pending) /\ Range(o \o v) = Range(o) \cup Range(v)
    BY <2>2, RangeConcat
  <2>10. Range(r) = Range(o) \cup Range(v) \cup Range(t)
    BY <2>8, <2>9, RangeConcat
  <2> QED BY <1>3, <2>2, <2>3, <2>5, <2>7, <2>10
<1>12. Learns(p, f, g)
  BY <1>3, <1>9, <1>10 DEF Learns
<1>13. Reads(p, f, g)
  BY <1>1, <1>9, <1>10, <1>11 DEF Reads
<1>14. Becomes(p, f, g) /\ GoesOn(p, f, g) /\ Arrives(p, f, g)
  BY <1>1, <1>8, <1>9, <1>10 DEF Becomes, GoesOn, Arrives
<1> QED BY <1>12, <1>13, <1>14 DEF Turn, Turns

(* A file that is not readable is one that the file manager remembers as    *)
(* missing.                                                                 *)
LEMMA OpenFailsTurns ==
  ASSUME IInv, SoundInv, PresentInv, NEW p \in Procs, OpenFails(p)
  PROVE  /\ Turns(p)
         /\ NextFile(p).pcm \in PCModules /\ file[NextFile(p).pcm] # Absent
         /\ Top(p).fileMgr[NextFile(p).pcm] = "missing"
         /\ UNCHANGED <<failed, alive>>
<1>1. PICK f \in Instances :
        /\ f = Top(p) /\ SoundOK(broken, program[p], f) /\ PresentOK(file, f)
        /\ f.pc = "read" /\ f.todo # << >> /\ f.reading # << >>
  BY TopFacts, TopIsSound, TopIsPresent, BusyFacts DEF OpenFails, Reading, At, Busy
<1>2. PICK m \in PCModules : m = NextFile(p).pcm
  BY ReadingFacts DEF OpenFails, Pending
<1>3. PICK i \in PCModules : i = Imported(p)
  BY <1>1, ImportedFacts
<1>4. file[m] # Absent
  <2>1. f.reading \in Seq(Pending)
    BY DEF Instances
  <2>2. NextFile(p) \in Range(f.reading)
    BY <1>1, <2>1, RangeTail DEF NextFile
  <2> QED BY <1>1, <1>2, <2>2 DEF PresentOK
<1>5. f.fileMgr[m] = "missing"
  <2>1. f.fileMgr[m] \in {"unseen", "found", "missing"}
    BY DEF Instances
  <2> QED BY <1>1, <1>2, <1>4, <2>1 DEF OpenFails, Readable, Stat
<1>6. PICK h \in Instances : h = Looked(f, m)
  BY LookedFacts DEF Keeps
<1>7. /\ h.pcm = f.pcm /\ h.loaded = f.loaded /\ h.known = f.known
      /\ h.todo = f.todo /\ h.retry = f.retry /\ h.direct = f.direct
      /\ \A j \in PCModules : h.fileMgr[j] = f.fileMgr[j]
  BY <1>5, <1>6, LookedFields, LookedMgr DEF Stat
<1>8. PICK r \in Instances : r = RolledBack(h)
  BY RolledBackFacts DEF Keeps
<1>9. /\ r.pcm = h.pcm /\ r.todo = h.todo /\ r.direct = h.direct /\ r.fileMgr = h.fileMgr
      /\ \A j \in PCModules : r.loaded[j] # Absent => h.loaded[j] # Absent
  BY <1>8, RolledBackFields, RolledBackMgr
<1>10. PICK k : k = [r EXCEPT !.known[i] = "null"]
  OBVIOUS
<1>11. /\ k \in Instances /\ k.pcm = r.pcm /\ k.todo = r.todo /\ k.direct = r.direct
       /\ k.fileMgr = r.fileMgr /\ k.loaded = r.loaded
  BY <1>10 DEF Instances
<1>12. PICK e \in Instances : e = Failing(k)
  BY <1>11, FailingFacts DEF Keeps
<1>13. /\ e.pcm = k.pcm /\ e.todo = k.todo /\ e.direct = k.direct
       /\ e.fileMgr = k.fileMgr /\ e.loaded = k.loaded
  BY <1>11, <1>12, FailingFields, FailingMgr
<1>14. SetTop(p, Answered(e)) /\ UNCHANGED <<failed, alive>>
  <2>1. ~h.retry
    BY <1>1, <1>7 DEF SoundOK
  <2>2. ReadFails(p, h)
    BY <1>1, <1>2, <1>6 DEF OpenFails
  <2> QED BY <1>3, <1>8, <1>10, <1>12, <2>1, <2>2 DEF ReadFails
<1>15. Learns(p, f, e)
  BY <1>7, <1>9, <1>11, <1>13 DEF Learns
<1>16. Turns(p)
  BY <1>1, <1>7, <1>9, <1>11, <1>13, <1>14, <1>15, AnswerTurns
<1> QED BY <1>1, <1>2, <1>4, <1>5, <1>14, <1>16

LEMMA ReadDoneTurns ==
  ASSUME IInv, NEW p \in Procs, ReadDone(p)
  PROVE  Turns(p)
<1>1. PICK f \in Instances : f = Top(p) /\ f.todo # << >>
  BY TopFacts, BusyFacts DEF ReadDone, At, Busy
<1>2. PICK m \in PCModules : m = Imported(p)
  BY <1>1, ImportedFacts
<1>3. PICK ds \in Seq(PCModules) : ds = f.direct
  BY DEF Instances
<1>4. PICK d \in Seq(PCModules) : d = Append(ds, m)
  <2>1. Append(ds, m) \in Seq(PCModules)
    OBVIOUS
  <2> QED BY <2>1
<1>5. \A i \in Range(d) : i \in Range(ds) \/ i = m
  <2>1. /\ DOMAIN d = 1 .. Len(ds) + 1 /\ DOMAIN ds = 1 .. Len(ds)
        /\ d[Len(ds) + 1] = m /\ \A k \in 1 .. Len(ds) : d[k] = ds[k]
    BY <1>4
  <2>2. ASSUME NEW k \in 1 .. Len(ds) + 1 PROVE d[k] = m \/ d[k] \in Range(ds)
    <3>1. k = Len(ds) + 1 \/ k \in 1 .. Len(ds)
      BY <1>3
    <3> QED BY <2>1, <3>1 DEF Range
  <2> QED BY <2>1, <2>2 DEF Range
<1>6. PICK known : known = [f.known EXCEPT ![m] = "module"]
  OBVIOUS
<1>7. /\ known \in [PCModules -> {"unknown", "module", "null"}] /\ known[m] = "module"
      /\ \A i \in PCModules : i # m => known[i] = f.known[i]
  BY <1>6 DEF Instances
<1>8. PICK h : h = [f EXCEPT !.known = known, !.direct = d]
  OBVIOUS
<1>9. /\ h \in Instances /\ h.pcm = f.pcm /\ h.loaded = f.loaded /\ h.known = known
      /\ h.errors = f.errors /\ h.todo = f.todo /\ h.direct = d /\ h.fileMgr = f.fileMgr
  BY <1>7, <1>8 DEF Instances
<1>10. SetTop(p, Answered(h))
  <2>1. h = [f EXCEPT !.known[m] = "module", !.direct = Append(@, m)]
    BY <1>3, <1>4, <1>6, <1>8
  <2> QED BY <1>1, <1>2, <2>1 DEF ReadDone
<1>11. Learns(p, f, h)
  BY <1>9, SameLearns
<1> QED BY <1>1, <1>2, <1>3, <1>5, <1>7, <1>9, <1>10, <1>11, AnswerTurns

LEMMA StepTurns ==
  ASSUME IInv, CurrentInv, SoundInv, PresentInv, NEW p \in Procs, Step(p) \/ BuildCrashes(p),
         ~LockOwned(p), ~Unlock(p)
  PROVE  Turns(p)
<1>1. ~OutOfDate(p) /\ ~RemoveFile(p)
  BY NeverOutOfDate
<1> QED BY <1>1, ImportTurns, WaitTurns, ReadStartsTurns, CompiledMissingTurns, SkipTurns,
           OpenFileTurns, OpenFailsTurns, ReadDoneTurns DEF Step

-----------------------------------------------------------------------------
(* What a step changes beside the innermost instance                        *)

LEMMA OnlyTheseChange ==
  ASSUME IInv, CurrentInv, SoundInv, PresentInv, NEW p \in Procs, Step(p) \/ BuildCrashes(p)
  PROVE  /\ UNCHANGED <<program, broken>>
         /\ ~EndSourceFile(p) => UNCHANGED file
         /\ ~EndSourceFile(p) /\ ~BuildCrashes(p) => UNCHANGED failedBuilds
         /\ ~CompiledMissing(p) => UNCHANGED <<failed, alive>>
         /\ ~LockOwned(p) => UNCHANGED allocated
<1>1. ~OutOfDate(p) /\ ~RemoveFile(p)
  BY NeverOutOfDate
<1>2. OpenFails(p) => UNCHANGED <<failed, alive>>
  BY OpenFailsTurns
<1>3. CASE EndSourceFile(p) \/ BuildCrashes(p) \/ LockOwned(p)
  BY <1>3 DEF EndSourceFile, BuildCrashes, LockOwned
<1>4. CASE CompiledMissing(p) \/ OpenFails(p)
  BY <1>2, <1>4 DEF CompiledMissing, OpenFails
<1>5. \/ ImportKnown(p) \/ ImportCached(p) \/ ImportCycle(p) \/ ImportFailedBefore(p)
      \/ ImportMissing(p) \/ LockError(p) \/ LockShared(p) \/ WaitForUnlock(p)
      \/ Unlock(p) \/ CompiledFound(p) \/ AlreadyLoaded(p)
      \/ OpenFile(p) \/ Validate(p) \/ ReadDone(p)
      => UNCHANGED <<program, broken, file, failedBuilds, failed, alive, allocated>>
  BY DEF ImportKnown, ImportCached, ImportCycle, ImportFailedBefore, ImportMissing, LockError,
         LockShared, WaitForUnlock, Unlock, CompiledFound, AlreadyLoaded, OpenFile, Validate,
         ReadDone
<1> QED BY <1>1, <1>3, <1>4, <1>5 DEF Step

(* No file is lost, and no failure is forgotten.                            *)
LEMMA HistoryGrows ==
  ASSUME IInv, CurrentInv, SoundInv, PresentInv, NEW p \in Procs, Step(p) \/ BuildCrashes(p)
  PROVE  /\ \A i \in PCModules : file[i] # Absent => file'[i] # Absent
         /\ \A q \in Procs : \A m \in PCModules :
              HasAlreadyFailed(q, m) => HasAlreadyFailed(q, m)'
         /\ \A q \in Procs : q # p => UNCHANGED <<failed[q], allocated[q], failedBuilds[q]>>
<1>1. /\ file \in [PCModules -> Content \cup {Absent}]
      /\ failed \in [Procs -> SUBSET PCModules]
      /\ allocated \in [Procs -> BOOLEAN] /\ failedBuilds \in [Procs -> SUBSET PCModules]
  BY DEF IInv, TypeOK
<1>2. \A i \in PCModules : file[i] # Absent => file'[i] # Absent
  <2>1. CASE EndSourceFile(p)
    <3>1. Built(Top(p)) # Absent
      BY TopFacts, BuiltFacts, FlagsAssumption
    <3> QED BY <1>1, <2>1, <3>1 DEF EndSourceFile
  <2> QED BY <2>1, OnlyTheseChange
<1>3. /\ \A q \in Procs : failed[q] \subseteq failed'[q]
      /\ \A q \in Procs : q # p => failed'[q] = failed[q]
  <2>1. CASE CompiledMissing(p)
    <3>1. UNCHANGED failed \/ failed' = [failed EXCEPT ![p] = @ \cup {Imported(p)}]
      BY <2>1 DEF CompiledMissing, AddFailed
    <3> QED BY <1>1, <3>1
  <2>2. CASE ~CompiledMissing(p)
    BY <2>2, OnlyTheseChange
  <2> QED BY <2>1, <2>2
<1>4. /\ \A q \in Procs : allocated[q] => allocated'[q]
      /\ \A q \in Procs : q # p => allocated'[q] = allocated[q]
  <2>1. CASE LockOwned(p)
    BY <1>1, <2>1 DEF LockOwned
  <2>2. CASE ~LockOwned(p)
    BY <2>2, OnlyTheseChange
  <2> QED BY <2>1, <2>2
<1>5. \A q \in Procs : q # p => failedBuilds'[q] = failedBuilds[q]
  <2>1. CASE EndSourceFile(p) \/ BuildCrashes(p)
    BY <1>1, <2>1 DEF EndSourceFile, BuildCrashes
  <2> QED BY <2>1, OnlyTheseChange
<1> QED BY <1>2, <1>3, <1>4, <1>5 DEF HasAlreadyFailed

-----------------------------------------------------------------------------
(* Files stay in the cache                                                  *)

LEMMA PresentLater ==
  ASSUME NEW f \in GoodInstances, NEW c, NEW d, PresentOK(c, f),
         \A i \in PCModules : c[i] # Absent => d[i] # Absent
  PROVE  PresentOK(d, f)
<1>1. f \in Instances /\ (f.pc = "read" => f.todo # << >>)
  BY DEF GoodInstances, Busy
<1>2. /\ f.direct \in Seq(PCModules) /\ f.reading \in Seq(Pending) /\ f.todo \in Seq(PCModules)
  BY <1>1 DEF Instances
<1>3. \A S : \A s \in Seq(S) : Range(s) \subseteq S
  BY DEF Range
<1>5. Range(f.direct) \subseteq PCModules /\ Range(f.reading) \subseteq Pending
  BY <1>2, <1>3
<1>6. \A e \in Pending : e.pcm \in PCModules
  BY DEF Pending
<1>4. f.pc = "read" => Head(f.todo) \in PCModules
  BY <1>1, <1>2
<1> QED BY <1>5, <1>6, <1>4 DEF PresentOK

LEMMA TurnPresent ==
  ASSUME IInv, NEW p \in Procs, NEW f, NEW g, Turn(p, f, g), PresentOK(file, f)
  PROVE  PresentOK(file, g)
<1>1. /\ Becomes(p, f, g) /\ Learns(p, f, g) /\ Reads(p, f, g)
      /\ Imported(p) = Head(f.todo)
  BY DEF Turn, Becomes, Imported
<1>2. \A i \in PCModules : g.fileMgr[i] = "found" \/ g.loaded[i] # Absent => file[i] # Absent
  BY <1>1 DEF Learns, PresentOK
<1>3. \A i \in Range(g.direct) : file[i] # Absent
  <2>1. ReadDone(p) => file[Imported(p)] # Absent
    BY <1>1 DEF ReadDone, At, PresentOK, Becomes
  <2> QED BY <1>1, <2>1 DEF Reads, PresentOK
<1>4. g.pc = "read" => /\ file[Head(g.todo)] # Absent
                       /\ \A e \in Range(g.reading) : file[e.pcm] # Absent
  BY <1>1 DEF Reads, PresentOK
<1> QED BY <1>2, <1>3, <1>4 DEF PresentOK

LEMMA NewPresent ==
  ASSUME NEW m, NEW imports
  PROVE  PresentOK(file, NewInstance(m, imports))
BY DEF PresentOK, NewInstance, Range

LEMMA FramesPresent ==
  ASSUME IInv, CurrentInv, SoundInv, PresentInv, NEW p \in Procs, Step(p) \/ BuildCrashes(p),
         NEW q \in Procs, NEW k \in 1 .. Len(stack'[q])
  PROVE  PresentOK(file, stack'[q][k])
<1>1. CASE LockOwned(p)
  <2>1. PICK f \in Instances : f = Top(p) /\ PresentOK(file, f) /\ f.pc = "compile"
    BY <1>1, TopFacts, TopIsPresent DEF LockOwned, At
  <2>2. PICK g : g = [f EXCEPT !.pc = "compiled"]
    OBVIOUS
  <2>3. PresentOK(file, g)
    <3>1. /\ g.pc = "compiled" /\ g.loaded = f.loaded /\ g.direct = f.direct
          /\ g.fileMgr = f.fileMgr
      BY <2>2, GotoFields, GotoMgr
    <3> QED BY <2>1, <3>1 DEF PresentOK
  <2>4. \/ stack'[q][k] = NewInstance(Imported(p), Imports[Imported(p)])
        \/ stack'[q][k] = g
        \/ k \in 1 .. Len(stack[q]) /\ stack'[q][k] = stack[q][k]
    BY <1>1, <2>1, <2>2, LockOwnedStack
  <2> QED BY <2>3, <2>4, NewPresent DEF PresentInv
<1>2. CASE Unlock(p)
  BY <1>2, UnlockStack DEF PresentInv
<1>3. CASE ~LockOwned(p) /\ ~Unlock(p)
  <2>1. PICK f, g : Turn(p, f, g)
    BY <1>3, StepTurns DEF Turns
  <2>2. SetTop(p, g) /\ PresentOK(file, f)
    BY <2>1, TopIsPresent DEF Turn, Becomes
  <2>3. PresentOK(file, g)
    BY <2>1, <2>2, TurnPresent
  <2> QED BY <2>2, <2>3, TopReplaced DEF PresentInv
<1> QED BY <1>1, <1>2, <1>3

LEMMA StepPresent ==
  ASSUME IInv, CurrentInv, SoundInv, PresentInv, NEW p \in Procs, Step(p) \/ BuildCrashes(p)
  PROVE  PresentInv'
<1>1. IInv'
  BY IInvNext DEF Next
<1>2. \A i \in PCModules : file[i] # Absent => file'[i] # Absent
  BY HistoryGrows
<1>3. ASSUME NEW q \in Procs, NEW k \in 1 .. Len(stack'[q])
      PROVE  PresentOK(file', stack'[q][k])
  <2>1. stack'[q][k] \in GoodInstances
    BY <1>1 DEF IInv
  <2> QED BY <1>2, <2>1, FramesPresent, PresentLater
<1>4. CompleteCache'
  <2>1. CASE EndSourceFile(p)
    <3>1. PICK f \in Instances : f = Top(p) /\ PresentOK(file, f) /\ f.pcm # Main
      BY <2>1, TopFacts, TopIsPresent DEF EndSourceFile
    <3>2. PICK m \in PCModules : m = f.pcm
      BY <3>1 DEF Instances
    <3>3. UNCHANGED file \/ file' = [file EXCEPT ![m] = Built(f)]
      BY <2>1, <3>1, <3>2 DEF EndSourceFile
    <3>4. CASE UNCHANGED file
      BY <3>4 DEF PresentInv, CompleteCache
    <3>5. CASE file' = [file EXCEPT ![m] = Built(f)]
      <4>1. \A i \in PCModules : file'[i] = IF i = m THEN Built(f) ELSE file[i]
        BY <3>5 DEF IInv, TypeOK
      <4>2. ASSUME NEW i \in PCModules, file'[i] # Absent, NEW j \in Range(file'[i].imports)
            PROVE  j \in PCModules /\ file[j] # Absent
        <5>1. CASE i = m
          <6>1. Built(f).imports = f.direct /\ f.direct \in Seq(PCModules)
            BY DEF Built, Instances
          <6> QED BY <3>1, <4>1, <4>2, <5>1, <6>1 DEF PresentOK, Range
        <5>2. CASE i # m
          <6>1. file[i] # Absent /\ j \in Range(file[i].imports)
            BY <4>1, <4>2, <5>2
          <6>2. file[i].imports \in Seq(PCModules)
            BY <6>1 DEF IInv, TypeOK, Content
          <6> QED BY <6>1, <6>2 DEF PresentInv, CompleteCache, Range
        <5> QED BY <5>1, <5>2
      <4> QED BY <1>2, <4>2 DEF CompleteCache
    <3> QED BY <3>3, <3>4, <3>5
  <2>2. CASE ~EndSourceFile(p)
    BY <2>2, OnlyTheseChange DEF PresentInv, CompleteCache
  <2> QED BY <2>1, <2>2
<1> QED BY <1>3, <1>4 DEF PresentInv

LEMMA PresentNext == IInv /\ CurrentInv /\ SoundInv /\ PresentInv /\ [Next]_vars => PresentInv'
<1> SUFFICES ASSUME IInv, CurrentInv, SoundInv, PresentInv, [Next]_vars PROVE PresentInv'
  OBVIOUS
<1>1. ASSUME NEW p \in Procs, Step(p) \/ BuildCrashes(p) PROVE PresentInv'
  BY <1>1, StepPresent
<1>2. CASE UNCHANGED <<file, stack>>
  BY <1>2 DEF PresentInv, CompleteCache
<1>3. (\E p \in Procs : Die(p)) \/ UNCHANGED vars => UNCHANGED <<file, stack>>
  BY DEF Die, vars
<1> QED BY <1>1, <1>2, <1>3 DEF Next

LEMMA PresentInit == Init /\ CompleteCache => PresentInv
<1> SUFFICES ASSUME Init, NEW p \in Procs, NEW k \in 1 .. Len(stack[p])
             PROVE  PresentOK(file, stack[p][k])
  BY DEF PresentInv
<1>1. PICK f : f = NewInstance(Main, program[p]) /\ PresentOK(file, f)
  BY NewPresent
<1>2. stack[p] = << f >> /\ k = 1
  BY <1>1 DEF Init
<1> QED BY <1>1, <1>2

LEMMA PresentAlways == Spec /\ SoundCache /\ CompleteCache => [](CurrentInv /\ SoundInv /\ PresentInv)
<1>1. Init => CurrentInv
  BY CurrentInit
<1>2. IInv /\ CurrentInv /\ [Next]_vars => CurrentInv'
  BY CurrentNext
<1>3. Init /\ CompleteCache => PresentInv
  BY PresentInit
<1>4. IInv /\ CurrentInv /\ SoundInv /\ PresentInv /\ [Next]_vars => PresentInv'
  BY PresentNext
<1> QED BY <1>1, <1>2, <1>3, <1>4, SoundAlways, Invariance, PTL DEF Spec

-----------------------------------------------------------------------------
(* Failures are recorded                                                    *)

(* A module that p has built in vain is known to have failed, or has been   *)
(* stored by another process, or its failure is about to be recorded.       *)
Recorded(p, m) ==
  \/ HasAlreadyFailed(p, m)
  \/ file[m] # Absent
  \/ Top(p).pc = "unlock" /\ Top(p).pcm = m
  \/ Top(p).pc = "compiled" /\ Imported(p) = m

RecordedOK(p) ==
  /\ \A m \in failedBuilds[p] : Recorded(p, m)
  /\ \A k \in 1 .. Len(stack[p]) : \A i \in PCModules :
       stack[p][k].fileMgr[i] = "missing" => HasAlreadyFailed(p, i)
  /\ Top(p).pc = "compile" => Imported(p) \notin failedBuilds[p]

RecordedInv == \A p \in Procs : alive[p] => RecordedOK(p)

LEMMA OthersRecorded ==
  ASSUME IInv, CurrentInv, SoundInv, PresentInv, NEW p \in Procs, Step(p) \/ BuildCrashes(p),
         NEW q \in Procs, q # p, stack'[q] = stack[q], RecordedOK(q)
  PROVE  RecordedOK(q)'
<1>1. /\ \A i \in PCModules : file[i] # Absent => file'[i] # Absent
      /\ \A m \in PCModules : HasAlreadyFailed(q, m) => HasAlreadyFailed(q, m)'
      /\ failedBuilds'[q] = failedBuilds[q]
  BY HistoryGrows
<1>2. Top(q)' = Top(q) /\ Imported(q)' = Imported(q)
  BY DEF Top, Imported
<1>3. failedBuilds[q] \subseteq PCModules
  BY DEF IInv, TypeOK
<1>4. \A m \in failedBuilds'[q] : Recorded(q, m)'
  BY <1>1, <1>2, <1>3 DEF RecordedOK, Recorded
<1>5. \A k \in 1 .. Len(stack'[q]) : \A i \in PCModules :
        stack'[q][k].fileMgr[i] = "missing" => HasAlreadyFailed(q, i)'
  BY <1>1 DEF RecordedOK
<1>6. Top(q)'.pc = "compile" => Imported(q)' \notin failedBuilds'[q]
  BY <1>1, <1>2 DEF RecordedOK
<1> QED BY <1>4, <1>5, <1>6 DEF RecordedOK

(* Only some steps are taken at each point.                                 *)
LEMMA StepsAt ==
  ASSUME NEW p \in Procs, Step(p), ~Unlock(p), ~LockOwned(p)
  PROVE  /\ Top(p).pc # "unlock"
         /\ Top(p).pc = "compiled" => CompiledFound(p) \/ CompiledMissing(p)
         /\ EndSourceFile(p) => Top(p).pc = "run"
BY DEF Step, ImportKnown, ImportCached, ImportCycle, ImportFailedBefore, ImportMissing, LockError,
       LockShared, WaitForUnlock, EndSourceFile, CompiledFound, CompiledMissing,
       AlreadyLoaded, OpenFile, OpenFails, Validate, OutOfDate, RemoveFile, ReadDone, Reading,
       NotKnown, Importing, At

(* A module that is missing is recorded, unless the process ends.           *)
LEMMA MissingRecorded ==
  ASSUME IInv, NEW p \in Procs, CompiledMissing(p), alive'[p],
         NEW m \in PCModules, m = Imported(p)
  PROVE  HasAlreadyFailed(p, m)'
<1>1. ~allocated[p] => ~alive'[p]
  BY DEF CompiledMissing, AddFailed, IInv, TypeOK
<1>2. allocated[p] /\ failed' = [failed EXCEPT ![p] = @ \cup {Imported(p)}] /\ UNCHANGED allocated
  BY <1>1 DEF CompiledMissing, AddFailed
<1> QED BY <1>2 DEF HasAlreadyFailed, IInv, TypeOK

LEMMA TurnRecorded ==
  ASSUME IInv, CurrentInv, SoundInv, PresentInv, NEW p \in Procs, Step(p),
         ~LockOwned(p), ~Unlock(p), RecordedOK(p), alive'[p]
  PROVE  RecordedOK(p)'
<1>1. PICK f, g : Turn(p, f, g)
  BY StepTurns DEF Turns
<1>2. /\ f = Top(p) /\ f \in Instances /\ SetTop(p, g) /\ g.pcm = f.pcm
      /\ Learns(p, f, g) /\ GoesOn(p, f, g) /\ Arrives(p, f, g)
  BY <1>1 DEF Turn, Becomes
<1>3. /\ \A i \in PCModules : file[i] # Absent => file'[i] # Absent
      /\ \A m \in PCModules : HasAlreadyFailed(p, m) => HasAlreadyFailed(p, m)'
  BY HistoryGrows
<1>4. PICK n \in Nat \ {0} : n = Len(stack[p]) /\ Top(p) = stack[p][n]
  BY TopFacts
<1>5. /\ Len(stack'[p]) = n /\ stack'[p][n] = g /\ Top(p)' = g
      /\ \A k \in 1 .. n - 1 : stack'[p][k] = stack[p][k]
  BY <1>2, <1>4, TopPlace
<1>6. \A m \in failedBuilds[p] : m \in PCModules
  BY DEF IInv, TypeOK
<1>7. ASSUME NEW m \in failedBuilds[p]
      PROVE  HasAlreadyFailed(p, m)' \/ file'[m] # Absent
  <2>1. Recorded(p, m)
    BY DEF RecordedOK
  <2>2. CASE f.pc = "compiled" /\ Imported(p) = m
    <3>1. CompiledMissing(p) => HasAlreadyFailed(p, m)'
      BY <1>6, <2>2, MissingRecorded
    <3>2. CompiledFound(p) => file[m] # Absent
      BY <1>2, <1>6, <2>2, TopIsPresent, FoundIsPresent DEF CompiledFound
    <3> QED BY <1>2, <1>3, <1>6, <2>2, <3>1, <3>2, StepsAt
  <2>3. HasAlreadyFailed(p, m) \/ file[m] # Absent \/ (f.pc = "compiled" /\ Imported(p) = m)
    BY <1>2, <2>1, StepsAt DEF Recorded
  <2> QED BY <1>3, <1>6, <2>2, <2>3
<1>8. \A m \in failedBuilds'[p] : Recorded(p, m)'
  <2>1. CASE EndSourceFile(p)
    <3>1. \A m \in failedBuilds'[p] : m \in failedBuilds[p] \/ m = f.pcm
      BY <1>2, <2>1 DEF EndSourceFile, IInv, TypeOK
    <3>2. g.pc = "unlock" /\ g.pcm = f.pcm
      <4>1. SetTop(p, [f EXCEPT !.pc = "unlock"])
        BY <1>2, <2>1 DEF EndSourceFile
      <4>2. Top(p)' = [f EXCEPT !.pc = "unlock"]
        BY <4>1, TopPlace
      <4> QED BY <1>2, <1>5, <4>2, GotoFields
    <3> QED BY <1>5, <1>7, <3>1, <3>2 DEF Recorded
  <2>2. CASE ~EndSourceFile(p)
    <3>1. BuildCrashes(p) \/ UNCHANGED failedBuilds
      BY <2>2, OnlyTheseChange
    <3>2. CASE UNCHANGED failedBuilds
      BY <1>7, <3>2 DEF Recorded
    <3>3. CASE BuildCrashes(p)
      <4>1. \A m \in failedBuilds'[p] : m \in failedBuilds[p] \/ m = f.pcm
        BY <1>2, <3>3 DEF BuildCrashes, IInv, TypeOK
      <4>2. Top(p)'.pc = "unlock" /\ Top(p)'.pcm = f.pcm
        <5>1. SetTop(p, [f EXCEPT !.pc = "unlock"])
          BY <1>2, <3>3 DEF BuildCrashes
        <5>2. Top(p)' = [f EXCEPT !.pc = "unlock"]
          BY <5>1, TopPlace
        <5> QED BY <1>2, <5>2, GotoFields
      <4> QED BY <1>7, <4>1, <4>2 DEF Recorded
    <3> QED BY <3>1, <3>2, <3>3
  <2> QED BY <2>1, <2>2
<1>9. ASSUME NEW k \in 1 .. n, NEW i \in PCModules, stack'[p][k].fileMgr[i] = "missing"
      PROVE  HasAlreadyFailed(p, i)'
  <2>1. stack[p][k].fileMgr[i] = "missing" => HasAlreadyFailed(p, i)
    BY <1>4 DEF RecordedOK
  <2>2. CASE k = n
    <3>1. \/ f.fileMgr[i] = "missing"
          \/ CompiledMissing(p) /\ i = Imported(p)
      BY <1>2, <1>5, <1>9, <2>2 DEF Learns
    <3> QED BY <1>2, <1>3, <1>4, <2>1, <2>2, <3>1, MissingRecorded
  <2>3. CASE k # n
    <3>1. k \in 1 .. n - 1
      BY <2>3
    <3> QED BY <1>3, <1>5, <1>9, <2>1, <3>1
  <2> QED BY <2>2, <2>3
<1>10. ASSUME g.pc = "compile" PROVE Imported(p)' \notin failedBuilds'[p]
  <2>1. ImportMissing(p) /\ f.todo # << >> /\ f.pc = "run"
    BY <1>2, <1>10 DEF Arrives, ImportMissing, NotKnown, Importing, At
  <2>2. g.todo = f.todo
    BY <1>2, <1>10 DEF GoesOn
  <2>3. PICK i \in PCModules : i = Imported(p) /\ i = Imported(p)'
    BY <1>2, <1>5, <2>1, <2>2, ImportedFacts DEF Imported
  <2>4. ~HasAlreadyFailed(p, i) /\ Stat(f, i) = "missing"
    BY <1>2, <2>1, <2>3 DEF ImportMissing
  <2>5. f.fileMgr[i] # "missing"
    <3>1. n \in 1 .. Len(stack[p])
      BY <1>4
    <3> QED BY <1>2, <1>4, <2>4, <3>1 DEF RecordedOK
  <2>6. file[i] = Absent
    BY <2>4, <2>5 DEF Stat
  <2>7. i \notin failedBuilds[p]
    BY <1>2, <2>1, <2>4, <2>6 DEF RecordedOK, Recorded
  <2>8. UNCHANGED failedBuilds
    BY <2>1 DEF ImportMissing
  <2> QED BY <2>3, <2>7, <2>8
<1> QED BY <1>5, <1>8, <1>9, <1>10 DEF RecordedOK

LEMMA LockOwnedRecorded ==
  ASSUME IInv, CurrentInv, SoundInv, PresentInv, NEW p \in Procs, LockOwned(p), RecordedOK(p)
  PROVE  RecordedOK(p)'
<1>1. PICK n \in Nat \ {0}, m \in PCModules, f \in Instances, g \in Instances,
           new \in Instances : IsNested(p, n, m, f, g, new)
  BY LockOwnedPlace
<1>2. /\ n = Len(stack[p]) /\ f = Top(p) /\ f = stack[p][n] /\ Len(stack'[p]) = n + 1
      /\ \A k \in 1 .. n - 1 : stack'[p][k] = stack[p][k]
      /\ stack'[p][n] = g /\ stack'[p][n + 1] = new /\ Top(p)' = new
  BY <1>1 DEF IsNested
<1>3. /\ g.fileMgr = f.fileMgr /\ new.pc = "run"
      /\ \A i \in PCModules : new.fileMgr[i] = "unseen"
  BY <1>1, GotoMgr DEF IsNested, NewInstance
<1>4. /\ \A i \in PCModules : HasAlreadyFailed(p, i) => HasAlreadyFailed(p, i)'
      /\ UNCHANGED <<file, failedBuilds>>
  BY HistoryGrows DEF Step, LockOwned
<1>5. ASSUME NEW i \in failedBuilds[p] PROVE Recorded(p, i)'
  <2>1. f.pc = "compile" /\ i \in PCModules
    BY <1>2 DEF LockOwned, At, IInv, TypeOK
  <2>2. HasAlreadyFailed(p, i) \/ file[i] # Absent
    BY <1>2, <2>1 DEF RecordedOK, Recorded
  <2> QED BY <1>4, <2>1, <2>2 DEF Recorded
<1>6. ASSUME NEW k \in 1 .. n + 1, NEW i \in PCModules, stack'[p][k].fileMgr[i] = "missing"
      PROVE  HasAlreadyFailed(p, i)'
  <2>1. k = n + 1 \/ k = n \/ k \in 1 .. n - 1
    OBVIOUS
  <2>2. k \in 1 .. n /\ stack[p][k].fileMgr[i] = "missing"
    BY <1>2, <1>3, <1>6, <2>1
  <2> QED BY <1>2, <1>4, <2>2 DEF RecordedOK
<1> QED BY <1>2, <1>3, <1>4, <1>5, <1>6 DEF RecordedOK

LEMMA UnlockRecorded ==
  ASSUME IInv, NestedInv, NEW p \in Procs, Unlock(p), RecordedOK(p)
  PROVE  RecordedOK(p)'
<1>1. PICK n \in Nat \ {0} :
        /\ Len(stack[p]) = n + 1 /\ Len(stack'[p]) = n
        /\ \A k \in 1 .. n : stack'[p][k] = stack[p][k]
        /\ Top(p) = stack[p][n + 1] /\ Top(p)' = stack[p][n]
  BY UnlockPlace
<1>2. Top(p)'.pc = "compiled" /\ Imported(p)' = Top(p).pcm
  <2>1. n \in 1 .. Len(stack[p]) - 1
    BY <1>1
  <2> QED BY <1>1, <2>1 DEF NestedInv, NestedOK, Imported
<1>3. UNCHANGED <<file, failed, allocated, failedBuilds>> /\ Top(p).pc = "unlock"
  BY DEF Unlock, At
<1>4. \A m \in failedBuilds'[p] : Recorded(p, m)'
  BY <1>2, <1>3 DEF RecordedOK, Recorded, HasAlreadyFailed
<1>5. \A k \in 1 .. n : k \in 1 .. Len(stack[p])
  BY <1>1
<1> QED BY <1>1, <1>2, <1>3, <1>4, <1>5 DEF RecordedOK, HasAlreadyFailed

LEMMA RecordedInit == Init => RecordedInv
<1> SUFFICES ASSUME Init, NEW p \in Procs PROVE RecordedOK(p)
  BY DEF RecordedInv
<1>1. PICK f : f = NewInstance(Main, program[p])
  OBVIOUS
<1>2. stack[p] = << f >> /\ failedBuilds[p] = {}
  BY <1>1 DEF Init
<1>3. Top(p) = f /\ f.pc = "run" /\ \A i \in PCModules : f.fileMgr[i] = "unseen"
  BY <1>1, <1>2 DEF Top, Last, NewInstance
<1> QED BY <1>2, <1>3 DEF RecordedOK

LEMMA RecordedNext ==
  IInv /\ NestedInv /\ CurrentInv /\ SoundInv /\ PresentInv /\ ~MayCrash /\ RecordedInv
    /\ [Next]_vars => RecordedInv'
<1> SUFFICES ASSUME IInv, NestedInv, CurrentInv, SoundInv, PresentInv, ~MayCrash, RecordedInv,
                    [Next]_vars
             PROVE  RecordedInv'
  OBVIOUS
<1>1. ASSUME NEW p \in Procs, Step(p), NEW q \in Procs, alive'[q] PROVE RecordedOK(q)'
  <2>1. alive[q] /\ RecordedOK(q)
    BY <1>1, LocksStay DEF RecordedInv
  <2>2. CASE q = p
    BY <1>1, <2>1, <2>2, TurnRecorded, LockOwnedRecorded, UnlockRecorded
  <2>3. CASE q # p
    <3>1. stack'[q] = stack[q]
      <4>1. CASE LockOwned(p)
        BY <2>3, <4>1, LockOwnedPlace DEF IsNested
      <4>2. CASE Unlock(p)
        BY <2>3, <4>2, UnlockPlace
      <4>3. CASE ~LockOwned(p) /\ ~Unlock(p)
        <5>1. PICK g : SetTop(p, g)
          BY <1>1, <4>3, StepMoves DEF Moves
        <5> QED BY <2>3, <5>1, TopPlace
      <4> QED BY <4>1, <4>2, <4>3
    <3> QED BY <1>1, <2>1, <2>3, <3>1, OthersRecorded
  <2> QED BY <2>2, <2>3
<1>2. ASSUME NEW p \in Procs PROVE ~BuildCrashes(p)
  BY DEF BuildCrashes
<1>3. CASE UNCHANGED <<file, stack, allocated, failed, failedBuilds>>
           /\ \A q \in Procs : alive'[q] => alive[q]
  BY <1>3 DEF RecordedInv, RecordedOK, Recorded, HasAlreadyFailed, Top, Imported
<1>4. (\E p \in Procs : Die(p)) \/ UNCHANGED vars
        => /\ UNCHANGED <<file, stack, allocated, failed, failedBuilds>>
           /\ \A q \in Procs : alive'[q] => alive[q]
  BY DEF Die, vars, IInv, TypeOK
<1> QED BY <1>1, <1>2, <1>3, <1>4 DEF Next, RecordedInv

LEMMA RecordedAlways ==
  ASSUME ~MayCrash
  PROVE  Spec /\ SoundCache /\ CompleteCache => []RecordedInv
<1>1. Init => RecordedInv
  BY RecordedInit
<1>2. IInv /\ NestedInv /\ CurrentInv /\ SoundInv /\ PresentInv /\ RecordedInv /\ [Next]_vars
        => RecordedInv'
  BY RecordedNext
<1> QED BY <1>1, <1>2, PresentAlways, NestedAlways, Invariance, PTL DEF Spec

(* A process that has built a module in vain never starts to build it again,*)
(* from whichever of its nested instances it is imported: with a cache that *)
(* starts sound and complete, an empty one for instance, and builds that do *)
(* not crash, each failure is recorded in the set that the instances share  *)
(* before anything else is imported, or another process has stored the      *)
(* module meanwhile (PreprocessorOptions.h:137, CompilerInstance.cpp:808).  *)
THEOREM FailuresAreFinal ==
  ASSUME ~MayCrash
  PROVE  Spec /\ SoundCache /\ CompleteCache => FailedModulesAreNotRebuilt
<1>1. ASSUME IInv, RecordedInv, Next, NEW p \in Procs, Len(stack'[p]) > Len(stack[p])
      PROVE  Last(stack'[p]).pcm \notin failedBuilds[p]
  <2>1. Len(stack[p]) \in Nat
    BY TopFacts
  <2>2. PICK q \in Procs : Step(q) \/ BuildCrashes(q) \/ Die(q)
    BY <1>1 DEF Next
  <2>3. ~Die(q)
    BY <1>1, <2>1 DEF Die
  <2>4. ~Unlock(q)
    <3> SUFFICES ASSUME Unlock(q) PROVE FALSE
      OBVIOUS
    <3>1. PICK n \in Nat : /\ Len(stack[q]) = n + 1 /\ Len(stack'[q]) = n
                           /\ \A r \in Procs : r # q => stack'[r] = stack[r]
      BY <1>1, UnlockPlace
    <3> QED BY <1>1, <2>1, <3>1
  <2>5. LockOwned(q)
    <3> SUFFICES ASSUME ~LockOwned(q) PROVE FALSE
      OBVIOUS
    <3>1. PICK g : SetTop(q, g)
      BY <1>1, <2>2, <2>3, <2>4, StepMoves DEF Moves
    <3>2. Len(stack'[p]) = Len(stack[p])
      BY <1>1, <3>1, TopPlace
    <3> QED BY <1>1, <2>1, <3>2
  <2>6. PICK n \in Nat \ {0}, m \in PCModules, f \in Instances, g \in Instances,
             new \in Instances : IsNested(q, n, m, f, g, new)
    BY <1>1, <2>5, LockOwnedPlace
  <2>7. q = p
    BY <1>1, <2>1, <2>6 DEF IsNested
  <2>8. Last(stack'[p]).pcm = Imported(p)
    BY <2>6, <2>7 DEF IsNested, Top, NewInstance
  <2>9. Top(p).pc = "compile" /\ alive[p]
    BY <2>5, <2>7 DEF LockOwned, At
  <2> QED BY <1>1, <2>8, <2>9 DEF RecordedInv, RecordedOK
<1>2. IInv /\ RecordedInv /\ [Next]_vars
        => [\A p \in Procs : Len(stack'[p]) > Len(stack[p])
              => Last(stack'[p]).pcm \notin failedBuilds[p]]_vars
  BY <1>1
<1> QED BY <1>2, RecordedAlways, Invariance, PTL DEF Spec, FailedModulesAreNotRebuilt

-----------------------------------------------------------------------------
(* Nothing behind an import cycle is stored                                 *)

(* Nothing in the cache is behind an import cycle.                          *)
AcyclicCache == \A m \in PCModules : file[m] # Absent => GoodModule(Cyclic, m)

(* Neither errors nor an import cycle are behind m.                         *)
Fine(b, m) == GoodModule(b \cup Cyclic, m)

LEMMA FineFacts ==
  ASSUME NEW m \in PCModules, NEW b, Fine(b, m)
  PROVE  m \notin b /\ m \notin Cyclic /\ \A i \in Range(Imports[m]) : i \in PCModules /\ Fine(b, i)
<1>1. m \in Closure(m)
  BY ClosureFacts
<1>2. \A i \in Range(Imports[m]) : i \in PCModules /\ Closure(i) \subseteq Closure(m)
  BY ImportsNeeded
<1> QED BY <1>1, <1>2 DEF Fine, GoodModule

LEMMA PresentIsFine ==
  ASSUME SoundInv, AcyclicCache, NEW m \in PCModules, file[m] # Absent
  PROVE  Fine(broken, m)
BY DEF SoundInv, SoundCache, AcyclicCache, Fine, GoodModule

LEMMA EndSourceFileAcyclic ==
  ASSUME IInv, CurrentInv, SoundInv, PresentInv, AcyclicCache, NEW p \in Procs, EndSourceFile(p)
  PROVE  AcyclicCache'
<1>1. PICK f \in Instances :
        /\ f = Top(p) /\ SoundOK(broken, program[p], f) /\ CurrentOK(f) /\ PresentOK(file, f)
        /\ f.todo = << >> /\ f.pcm # Main
  BY TopFacts, TopIsSound, TopIsCurrent, TopIsPresent DEF EndSourceFile
<1>2. PICK m \in PCModules : m = f.pcm
  BY <1>1 DEF Instances
<1>3. CASE HasErrors(f)
  BY <1>1, <1>3 DEF EndSourceFile, AcyclicCache
<1>4. CASE ~HasErrors(f)
  <2>1. file' = [file EXCEPT ![m] = Built(f)]
    BY <1>1, <1>2, <1>4 DEF EndSourceFile
  <2>2. ASSUME NEW k \in 1 .. Len(Imports[m])
        PROVE  Imports[m][k] = m \/ GoodModule(Cyclic, Imports[m][k])
    <3>1. PICK i \in PCModules : i = Imports[m][k]
      BY ImportsIn
    <3>2. HandledOK(Imports[m], f) /\ ~f.errors /\ Imports[m] \in Seq(PCModules)
      BY <1>1, <1>2, <1>4, ModulesAssumption DEF SoundOK, HasErrors, Wanted
    <3>3. k \in 1 .. Len(Imports[m]) - Len(f.todo)
      BY <1>1, <3>2
    <3>4. f.known[i] = "module"
      BY <3>1, <3>2, <3>3 DEF HandledOK
    <3>5. i = m \/ f.loaded[i] # Absent
      BY <1>1, <1>2, <3>4 DEF CurrentOK, LoadedOK
    <3> QED BY <1>1, <3>1, <3>5 DEF PresentOK, AcyclicCache
  <2>3. m \notin Cyclic
    <3> SUFFICES ASSUME m \in Cyclic PROVE FALSE
      OBVIOUS
    <3>1. PICK k \in 1 .. Len(Imports[m]) :
            Imports[m][k] # m /\ m \in Closure(Imports[m][k])
      BY DEF Cyclic
    <3>2. GoodModule(Cyclic, Imports[m][k])
      BY <2>2, <3>1
    <3> QED BY <3>1, <3>2 DEF GoodModule
  <2>4. GoodModule(Cyclic, m)
    BY <2>2, <2>3, GoodImports
  <2>5. \A i \in PCModules : file'[i] = IF i = m THEN Built(f) ELSE file[i]
    BY <2>1 DEF IInv, TypeOK
  <2> QED BY <2>4, <2>5 DEF AcyclicCache
<1> QED BY <1>3, <1>4

LEMMA AcyclicNext ==
  IInv /\ CurrentInv /\ SoundInv /\ PresentInv /\ AcyclicCache /\ [Next]_vars => AcyclicCache'
<1> SUFFICES ASSUME IInv, CurrentInv, SoundInv, PresentInv, AcyclicCache, [Next]_vars
             PROVE  AcyclicCache'
  OBVIOUS
<1>1. ASSUME NEW p \in Procs, Step(p) \/ BuildCrashes(p) PROVE AcyclicCache'
  <2>1. CASE UNCHANGED file
    BY <2>1 DEF AcyclicCache
  <2> QED BY <1>1, <2>1, OnlyTheseChange, EndSourceFileAcyclic
<1>2. CASE UNCHANGED file
  BY <1>2 DEF AcyclicCache
<1>3. (\E p \in Procs : Die(p)) \/ UNCHANGED vars => UNCHANGED file
  BY DEF Die, vars
<1> QED BY <1>1, <1>2, <1>3 DEF Next

-----------------------------------------------------------------------------
(* Good imports                                                             *)

(* No import of a good module is an error for an instance.                  *)
FineOK(b, w, f) ==
  /\ \A i \in PCModules : f.known[i] # "null"
  /\ f.pcm # Main /\ Fine(b, f.pcm) => ~f.errors
  /\ \A k \in 1 .. Len(Wanted(w, f)) - Len(f.todo) :
       Fine(b, Wanted(w, f)[k]) => f.known[Wanted(w, f)[k]] = "module"

(* Who thinks that the file of a good module is there, or will be, is right.*)
FineProc(p) ==
  /\ \A m \in failed[p] : ~Fine(broken, m)
  /\ \A k \in 1 .. Len(stack[p]) : FineOK(broken, program[p], stack[p][k])
  /\ Top(p).pc = "unlock" /\ Fine(broken, Top(p).pcm) => file[Top(p).pcm] # Absent
  /\ Top(p).pc = "compiled" /\ Fine(broken, Imported(p)) => file[Imported(p)] # Absent
  /\ Top(p).pc = "wait" /\ Fine(broken, Imported(p))
       => file[Imported(p)] # Absent \/ lock[Imported(p)] \in Procs

AllAlive == \A p \in Procs : alive[p]

FineInv == AllAlive => \A p \in Procs : FineProc(p)

(* All that is known of the states before a step.                           *)
Before ==
  /\ IInv /\ NestedInv /\ CurrentInv /\ SoundInv /\ PresentInv /\ AcyclicCache /\ RecordedInv
  /\ AllAlive /\ FineInv /\ ~MayCrash /\ ~LockMayFail

LEMMA TopIsFine ==
  ASSUME Before, NEW p \in Procs
  PROVE  FineProc(p) /\ RecordedOK(p) /\ alive[p] /\ FineOK(broken, program[p], Top(p))
<1>1. FineProc(p) /\ RecordedOK(p) /\ alive[p]
  BY DEF Before, FineInv, RecordedInv, AllAlive
<1>2. Top(p) = stack[p][Len(stack[p])] /\ Len(stack[p]) \in 1 .. Len(stack[p])
  BY TopFacts DEF Before
<1> QED BY <1>1, <1>2 DEF FineProc

(* Whoever knows a file to be missing knows that its module has failed.     *)
LEMMA MissingHasFailed ==
  ASSUME Before, NEW p \in Procs, NEW m \in PCModules, Top(p).fileMgr[m] = "missing"
  PROVE  ~Fine(broken, m)
<1>1. Top(p) = stack[p][Len(stack[p])] /\ Len(stack[p]) \in 1 .. Len(stack[p])
  BY TopFacts DEF Before
<1>2. HasAlreadyFailed(p, m)
  BY <1>1, TopIsFine DEF RecordedOK
<1> QED BY <1>2, TopIsFine DEF HasAlreadyFailed, FineProc

LEMMA FilesOpen ==
  ASSUME Before, NEW p \in Procs
  PROVE  ~OpenFails(p)
<1> SUFFICES ASSUME OpenFails(p) PROVE FALSE
  OBVIOUS
<1>1. PICK m \in PCModules : file[m] # Absent /\ Top(p).fileMgr[m] = "missing"
  BY OpenFailsTurns DEF Before
<1> QED BY <1>1, MissingHasFailed, PresentIsFine DEF Before

(* An import that fails is not that of a good module.                       *)
LEMMA OnlyBadImportsFail ==
  ASSUME Before, NEW p \in Procs, NEW m \in PCModules, m = Imported(p),
         ImportCycle(p) \/ ImportFailedBefore(p) \/ CompiledMissing(p)
  PROVE  ~Fine(broken, m)
<1>1. CASE ImportCycle(p)
  <2>1. /\ m \in BuildStack(p) /\ Top(p).todo # << >> /\ m # Top(p).pcm
    BY <1>1 DEF ImportCycle, NotKnown, Importing
  <2>2. PICK j \in 1 .. Len(stack[p]) : stack[p][j].pcm = m /\ m # Main
    BY <2>1 DEF BuildStack
  <2>3. j \in 2 .. Len(stack[p])
    BY <2>2, TopFacts DEF Before, IInv, StackOK
  <2>4. PICK c \in Range(Imports[m]) : c # m /\ m \in Closure(c)
    BY <2>1, <2>2, <2>3, ImportedBehind, TopIsFine DEF Before
  <2>5. m \in Cyclic
    BY <2>4, CyclicFacts
  <2> QED BY <2>5, FineFacts
<1>2. CASE ImportFailedBefore(p)
  BY <1>2, TopIsFine DEF ImportFailedBefore, HasAlreadyFailed, FineProc
<1>3. CASE CompiledMissing(p)
  <2>1. Stat(Top(p), m) = "missing" /\ Top(p).pc = "compiled"
    BY <1>3 DEF CompiledMissing, At
  <2>2. Top(p).fileMgr[m] = "missing" \/ file[m] = Absent
    BY <2>1 DEF Stat
  <2> QED BY <2>1, <2>2, MissingHasFailed, TopIsFine DEF FineProc
<1> QED BY <1>1, <1>2, <1>3

(* The innermost instance after a step that neither starts nor ends a build.*)
LEMMA TurnFine ==
  ASSUME Before, NEW p \in Procs, Step(p), NEW f, NEW g, Turn(p, f, g), g \in Instances
  PROVE  FineOK(broken, program[p], g)
<1>1. /\ f = Top(p) /\ f \in Instances /\ g.pcm = f.pcm /\ GoesOn(p, f, g)
      /\ FineOK(broken, program[p], f) /\ SoundOK(broken, program[p], f)
      /\ Imported(p) = Head(f.todo)
  BY TopIsFine, TopIsSound DEF Turn, Becomes, Before, Imported
<1>2. PICK a \in Seq(PCModules) : a = Wanted(program[p], f) /\ a = Wanted(program[p], g)
  BY <1>1, WantedFacts DEF Wanted, Before
<1>3. CASE g.todo = f.todo /\ g.errors = f.errors /\ g.known = f.known
  BY <1>1, <1>2, <1>3 DEF FineOK
<1>4. CASE ~(g.todo = f.todo /\ g.errors = f.errors /\ g.known = f.known)
  <2>1. /\ f.todo # << >> /\ g.todo = Tail(f.todo)
        /\ \A i \in PCModules : \/ g.known[i] = f.known[i]
                                \/ i = Imported(p) /\ g.known[i] = "module"
        /\ \/ g.errors = f.errors /\ g.known[Imported(p)] # "unknown"
           \/ ImportCycle(p) \/ ImportFailedBefore(p) \/ CompiledMissing(p)
    BY <1>1, <1>4, FilesOpen DEF GoesOn
  <2>2. PICK m \in PCModules : m = Imported(p) /\ m = Head(f.todo)
    BY <1>1, <2>1, ImportedFacts DEF Before
  <2>3. \A i \in PCModules : g.known[i] # "null"
    BY <1>1, <2>1 DEF FineOK
  <2>4. Fine(broken, m) => g.errors = f.errors /\ g.known[m] = "module"
    <3>1. g.known[m] \in {"unknown", "module", "null"}
      BY DEF Instances
    <3> QED BY <2>1, <2>2, <2>3, <3>1, OnlyBadImportsFail
  <2>5. ASSUME g.pcm # Main, Fine(broken, g.pcm) PROVE ~g.errors
    <3>1. f.pcm \in PCModules /\ TodoOK(f)
      BY <1>1, <2>5, TopTodo DEF Instances, Before
    <3>2. f.todo \in Seq(PCModules)
      BY <1>1 DEF Instances
    <3>3. m \in Range(Imports[f.pcm])
      BY <1>1, <2>1, <2>2, <2>5, <3>1, <3>2, RangeTail DEF TodoOK
    <3>4. Fine(broken, m)
      BY <1>1, <2>5, <3>1, <3>3, FineFacts
    <3> QED BY <1>1, <2>4, <2>5, <3>4 DEF FineOK
  <2>6. ASSUME NEW k \in 1 .. Len(a) - Len(g.todo), Fine(broken, a[k])
        PROVE  g.known[a[k]] = "module"
    <3>1. PICK t \in Seq(PCModules) : t = f.todo
      BY <1>1 DEF Instances
    <3>2. PICK l \in Nat, n \in Nat :
            l = Len(a) /\ n + 1 = Len(t) /\ Len(g.todo) = n /\ m = t[1]
      <4>1. Len(t) - 1 \in Nat /\ (Len(t) - 1) + 1 = Len(t) /\ Len(Tail(t)) = Len(t) - 1
        BY <2>1, <3>1
      <4> QED BY <2>1, <2>2, <3>1, <4>1
    <3>3. n + 1 <= l /\ m = a[l - (n + 1) + 1]
      <4>1. Len(t) <= Len(a) /\ \A j \in 1 .. Len(t) : t[j] = a[Len(a) - Len(t) + j]
        BY <1>1, <1>2, <3>1 DEF SoundOK, RestOf
      <4>2. 1 \in 1 .. Len(t)
        BY <3>2
      <4> QED BY <3>2, <4>1, <4>2
    <3>4. CASE k = l - n
      <4>1. a[k] = m
        BY <3>2, <3>3, <3>4
      <4> QED BY <2>4, <2>6, <4>1
    <3>5. CASE k # l - n
      <4>1. k \in 1 .. Len(a) - Len(f.todo) /\ k \in 1 .. Len(a)
        BY <3>1, <3>2, <3>5
      <4>2. f.known[a[k]] = "module" /\ a[k] \in PCModules
        BY <1>1, <1>2, <2>6, <4>1 DEF FineOK
      <4> QED BY <2>1, <4>2
    <3> QED BY <3>4, <3>5
  <2> QED BY <1>2, <2>3, <2>5, <2>6 DEF FineOK
<1> QED BY <1>3, <1>4

(* The steps of other processes.                                            *)
LEMMA OthersFine ==
  ASSUME Before, NEW p \in Procs, Step(p), NEW q \in Procs, q # p, stack'[q] = stack[q]
  PROVE  FineProc(q)'
<1>1. /\ \A i \in PCModules : file[i] # Absent => file'[i] # Absent
      /\ failed'[q] = failed[q] /\ UNCHANGED <<program, broken>>
  BY HistoryGrows, OnlyTheseChange DEF Before
<1>2. FineProc(q) /\ FineProc(p)
  BY TopIsFine
<1>3. Top(q)' = Top(q) /\ Imported(q)' = Imported(q)
  BY DEF Top, Imported
<1>4. PICK m : m = Imported(q) /\ m = Imported(q)'
  BY <1>3
<1>5. Top(q).pc \in {"compiled", "wait"} => m \in PCModules
  BY <1>4, BusyFacts DEF Busy, Before
<1>6. Top(q).pc = "unlock" => Top(q).pcm \in PCModules
  BY TopFacts DEF Before, GoodInstances
<1>7. ASSUME Top(q).pc = "wait", Fine(broken, m)
      PROVE  file'[m] # Absent \/ lock'[m] \in Procs
  <2>1. m \in PCModules /\ (file[m] # Absent \/ lock[m] \in Procs)
    BY <1>2, <1>4, <1>5, <1>7 DEF FineProc
  <2>2. CASE Unlock(p)
    <3>1. lock' = [lock EXCEPT ![Top(p).pcm] = NoProc] /\ Top(p).pc = "unlock"
      BY <2>2 DEF Unlock, At
    <3>2. m = Top(p).pcm => file[m] # Absent
      BY <1>2, <1>7, <3>1 DEF FineProc
    <3> QED BY <1>1, <2>1, <3>1, <3>2 DEF Before, IInv, TypeOK
  <2>3. CASE LockOwned(p)
    <3>1. lock' = [lock EXCEPT ![Imported(p)] = p]
      BY <2>3 DEF LockOwned
    <3> QED BY <1>1, <2>1, <3>1 DEF Before, IInv, TypeOK
  <2>4. CASE ~Unlock(p) /\ ~LockOwned(p)
    BY <1>1, <2>1, <2>4, LocksStay DEF Before
  <2> QED BY <2>2, <2>3, <2>4
<1>8. \A k \in 1 .. Len(stack'[q]) : FineOK(broken', program'[q], stack'[q][k])
  BY <1>1, <1>2 DEF FineProc
<1>9. \A i \in failed'[q] : ~Fine(broken', i)
  BY <1>1, <1>2 DEF FineProc
<1>10. /\ Top(q)'.pc = "unlock" /\ Fine(broken', Top(q)'.pcm) => file'[Top(q)'.pcm] # Absent
       /\ Top(q)'.pc = "compiled" /\ Fine(broken', m) => file'[m] # Absent
  BY <1>1, <1>2, <1>3, <1>4, <1>5, <1>6 DEF FineProc
<1> QED BY <1>1, <1>3, <1>4, <1>7, <1>8, <1>9, <1>10 DEF FineProc

(* A step of p itself that neither starts nor ends a build.                 *)
LEMMA OwnFine ==
  ASSUME Before, IInv', NEW p \in Procs, Step(p), ~LockOwned(p), ~Unlock(p)
  PROVE  FineProc(p)'
<1>1. PICK f, g : Turn(p, f, g)
  BY StepTurns DEF Turns, Before
<1>2. /\ f = Top(p) /\ f \in Instances /\ SetTop(p, g) /\ g.pcm = f.pcm
      /\ GoesOn(p, f, g) /\ Arrives(p, f, g)
  BY <1>1 DEF Turn, Becomes
<1>3. PICK n \in Nat \ {0} : n = Len(stack[p]) /\ Top(p) = stack[p][n]
  BY TopFacts DEF Before
<1>4. /\ Len(stack'[p]) = n /\ stack'[p][n] = g /\ Top(p)' = g
      /\ \A k \in 1 .. n - 1 : stack'[p][k] = stack[p][k]
  BY <1>2, <1>3, TopPlace DEF Before
<1>5. g \in Instances
  <2>1. n \in 1 .. n
    OBVIOUS
  <2>2. stack'[p] \in Seq(Instances)
    BY DEF IInv, TypeOK
  <2> QED BY <1>4, <2>1, <2>2
<1>6. FineProc(p) /\ UNCHANGED <<program, broken>> /\ ~BuildCrashes(p)
  BY TopIsFine, OnlyTheseChange DEF Before, BuildCrashes
<1>7. \A i \in PCModules : file[i] # Absent => file'[i] # Absent
  BY HistoryGrows DEF Before
<1>8. ASSUME NEW i \in failed'[p] PROVE ~Fine(broken', i)
  <2>1. CASE CompiledMissing(p)
    <3>1. PICK m \in PCModules : m = Imported(p)
      BY <2>1, BusyFacts DEF CompiledMissing, At, Busy, Before
    <3>2. failed' = failed \/ failed' = [failed EXCEPT ![p] = @ \cup {m}]
      BY <2>1, <3>1 DEF CompiledMissing, AddFailed
    <3>3. i \in failed[p] \/ i = m
      BY <1>8, <3>2 DEF Before, IInv, TypeOK
    <3> QED BY <1>6, <2>1, <3>1, <3>3, OnlyBadImportsFail DEF FineProc
  <2>2. CASE ~CompiledMissing(p)
    BY <1>6, <1>8, <2>2, OnlyTheseChange DEF FineProc, Before
  <2> QED BY <2>1, <2>2
<1>9. ASSUME NEW k \in 1 .. n PROVE FineOK(broken', program'[p], stack'[p][k])
  <2>1. FineOK(broken, program[p], g)
    BY <1>1, <1>5, TurnFine
  <2>2. k = n \/ k \in 1 .. n - 1
    OBVIOUS
  <2>3. FineOK(broken, program[p], stack[p][k])
    BY <1>3, <1>6 DEF FineProc
  <2> QED BY <1>4, <1>6, <2>1, <2>2, <2>3
<1>10. ASSUME g.pc = "unlock", Fine(broken, g.pcm) PROVE file'[g.pcm] # Absent
  <2>1. EndSourceFile(p) /\ f.pcm # Main
    BY <1>2, <1>6, <1>10 DEF Arrives, EndSourceFile
  <2>2. PICK m \in PCModules : m = g.pcm /\ m = f.pcm
    BY <1>2, <2>1 DEF Instances
  <2>3. ~f.errors /\ m \notin broken
    BY <1>2, <1>10, <2>1, <2>2, TopIsFine, FineFacts DEF FineOK
  <2>4. file' = [file EXCEPT ![m] = Built(f)]
    BY <1>2, <2>1, <2>2, <2>3 DEF EndSourceFile, HasErrors
  <2>5. Built(f) # Absent
    BY <1>2, BuiltFacts, FlagsAssumption
  <2> QED BY <2>2, <2>4, <2>5 DEF Before, IInv, TypeOK
<1>11. g.pc \in {"compiled", "wait"} =>
         /\ f.pc \in {"compile", "wait"} /\ UNCHANGED lock
         /\ Imported(p)' = Imported(p) /\ Imported(p) \in PCModules
  <2> SUFFICES ASSUME g.pc \in {"compiled", "wait"}
               PROVE  /\ f.pc \in {"compile", "wait"} /\ UNCHANGED lock
                      /\ Imported(p)' = Imported(p) /\ Imported(p) \in PCModules
    OBVIOUS
  <2>1. g.todo = f.todo
    BY <1>2 DEF GoesOn
  <2>2. f.pc \in {"compile", "wait"}
    BY <1>2 DEF Arrives, LockShared, LockError, WaitForUnlock, At
  <2>3. Imported(p)' = Imported(p)
    BY <1>2, <1>4, <2>1 DEF Imported
  <2>4. Imported(p) \in PCModules
    BY <1>2, <2>2, BusyFacts DEF Before, Busy
  <2>5. UNCHANGED lock
    BY LocksStay DEF Before
  <2> QED BY <2>2, <2>3, <2>4, <2>5
<1>12. ASSUME g.pc = "compiled", Fine(broken, Imported(p)) PROVE file'[Imported(p)] # Absent
  <2>1. PICK m \in PCModules : m = Imported(p)
    BY <1>11, <1>12
  <2>2. At(p, "wait") /\ LockFree(m)
    BY <1>2, <1>12, <2>1 DEF Arrives, WaitForUnlock, LockError, Before
  <2>3. lock[m] \notin Procs
    BY <2>2 DEF LockFree, Before, AllAlive
  <2>4. file[m] # Absent
    BY <1>6, <1>12, <2>1, <2>2, <2>3 DEF FineProc, At
  <2> QED BY <1>7, <2>1, <2>4
<1>13. ASSUME g.pc = "wait" PROVE lock'[Imported(p)] \in Procs
  <2>1. ~LockFree(Imported(p))
    BY <1>2, <1>13 DEF Arrives, LockShared
  <2> QED BY <1>11, <1>13, <2>1 DEF LockFree
<1>14. g.pc \in {"compiled", "wait"} => Imported(p)' = Imported(p)
  BY <1>11
<1> QED BY <1>4, <1>6, <1>8, <1>9, <1>10, <1>12, <1>13, <1>14 DEF FineProc

LEMMA LockOwnedFine ==
  ASSUME Before, NEW p \in Procs, LockOwned(p)
  PROVE  FineProc(p)'
<1>1. PICK n \in Nat \ {0}, m \in PCModules, f \in Instances, g \in Instances,
           new \in Instances : IsNested(p, n, m, f, g, new)
  BY LockOwnedPlace DEF Before
<1>2. /\ n = Len(stack[p]) /\ f = Top(p) /\ f = stack[p][n] /\ Len(stack'[p]) = n + 1
      /\ \A k \in 1 .. n - 1 : stack'[p][k] = stack[p][k]
      /\ stack'[p][n] = g /\ stack'[p][n + 1] = new /\ Top(p)' = new
      /\ g = [f EXCEPT !.pc = "compiled"] /\ new = NewInstance(m, Imports[m])
  BY <1>1 DEF IsNested
<1>3. FineProc(p) /\ UNCHANGED <<program, broken, file, failed>>
  BY TopIsFine DEF LockOwned
<1>4. FineOK(broken, program[p], g)
  <2>1. /\ g.pcm = f.pcm /\ g.known = f.known /\ g.errors = f.errors /\ g.todo = f.todo
    BY <1>2, GotoFields
  <2>2. FineOK(broken, program[p], f)
    BY <1>2, TopIsFine
  <2>3. Wanted(program[p], g) = Wanted(program[p], f)
    BY <2>1 DEF Wanted
  <2> QED BY <2>1, <2>2, <2>3 DEF FineOK
<1>5. FineOK(broken, program[p], new)
  <2>1. /\ new.pcm = m /\ ~new.errors /\ \A i \in PCModules : new.known[i] = "unknown"
        /\ Wanted(program[p], new) = Imports[m] /\ new.todo = Imports[m] /\ new.pc = "run"
    BY <1>2, ModulesAssumption DEF NewInstance, Wanted
  <2>2. 1 .. Len(Imports[m]) - Len(new.todo) = {}
    <3>1. Len(Imports[m]) \in Nat
      BY ModulesAssumption
    <3> QED BY <2>1, <3>1
  <2> QED BY <2>1, <2>2 DEF FineOK
<1>6. new.pc = "run"
  BY <1>2 DEF NewInstance
<1>7. ASSUME NEW k \in 1 .. n + 1 PROVE FineOK(broken', program'[p], stack'[p][k])
  <2>1. k = n + 1 \/ k = n \/ k \in 1 .. n - 1
    OBVIOUS
  <2>2. k \in 1 .. n - 1 => FineOK(broken, program[p], stack[p][k])
    BY <1>2, <1>3 DEF FineProc
  <2> QED BY <1>2, <1>3, <1>4, <1>5, <2>1, <2>2
<1> QED BY <1>2, <1>3, <1>6, <1>7 DEF FineProc

LEMMA UnlockFine ==
  ASSUME Before, NEW p \in Procs, Unlock(p)
  PROVE  FineProc(p)'
<1>1. PICK n \in Nat \ {0} :
        /\ Len(stack[p]) = n + 1 /\ Len(stack'[p]) = n
        /\ \A k \in 1 .. n : stack'[p][k] = stack[p][k]
        /\ Top(p) = stack[p][n + 1] /\ Top(p)' = stack[p][n]
  BY UnlockPlace DEF Before
<1>2. Top(p)'.pc = "compiled" /\ Imported(p)' = Top(p).pcm
  <2>1. n \in 1 .. Len(stack[p]) - 1
    BY <1>1
  <2> QED BY <1>1, <2>1 DEF Before, NestedInv, NestedOK, Imported
<1>3. UNCHANGED <<program, broken, file, failed>> /\ Top(p).pc = "unlock" /\ FineProc(p)
  BY TopIsFine DEF Unlock, At
<1>4. \A k \in 1 .. n : FineOK(broken, program[p], stack[p][k])
  BY <1>1, <1>3 DEF FineProc
<1>5. Fine(broken, Top(p).pcm) => file[Top(p).pcm] # Absent
  BY <1>3 DEF FineProc
<1>6. \A k \in 1 .. n : FineOK(broken', program'[p], stack'[p][k])
  BY <1>1, <1>3, <1>4
<1>7. PICK m : m = Top(p).pcm /\ m = Imported(p)'
  BY <1>2
<1> QED BY <1>1, <1>2, <1>3, <1>5, <1>6, <1>7 DEF FineProc

LEMMA StepFine ==
  ASSUME Before, IInv', NEW p \in Procs, Step(p), NEW q \in Procs
  PROVE  FineProc(q)'
<1>1. CASE q = p
  BY <1>1, OwnFine, LockOwnedFine, UnlockFine
<1>2. CASE q # p
  <2>1. CASE LockOwned(p)
    <3>1. stack'[q] = stack[q]
      BY <1>2, <2>1, LockOwnedPlace DEF IsNested, Before
    <3> QED BY <1>2, <3>1, OthersFine
  <2>2. CASE Unlock(p)
    <3>1. stack'[q] = stack[q]
      BY <1>2, <2>2, UnlockPlace DEF Before
    <3> QED BY <1>2, <3>1, OthersFine
  <2>3. CASE ~LockOwned(p) /\ ~Unlock(p)
    <3>1. PICK g : SetTop(p, g)
      BY <2>3, StepMoves DEF Moves, Before
    <3>2. stack'[q] = stack[q]
      BY <1>2, <3>1, TopPlace DEF Before
    <3> QED BY <1>2, <3>2, OthersFine
  <2> QED BY <2>1, <2>2, <2>3
<1> QED BY <1>1, <1>2

LEMMA FineInit == Init => FineInv
<1> SUFFICES ASSUME Init, NEW p \in Procs PROVE FineProc(p)
  BY DEF FineInv
<1>1. PICK f : f = NewInstance(Main, program[p])
  OBVIOUS
<1>2. stack[p] = << f >> /\ failed[p] = {}
  BY <1>1 DEF Init
<1>3. /\ Top(p) = f /\ f.pc = "run" /\ f.pcm = Main /\ f.todo = program[p]
      /\ \A i \in PCModules : f.known[i] = "unknown"
  BY <1>1, <1>2 DEF Top, Last, NewInstance
<1>4. FineOK(broken, program[p], f)
  <2>1. Wanted(program[p], f) = program[p]
    BY <1>3 DEF Wanted
  <2>2. 1 .. Len(program[p]) - Len(f.todo) = {}
    <3>1. Len(program[p]) \in Nat
      BY ModulesAssumption DEF Init
    <3> QED BY <1>3, <3>1
  <2> QED BY <1>3, <2>1, <2>2 DEF FineOK
<1> QED BY <1>2, <1>3, <1>4 DEF FineProc

LEMMA FineNext ==
  ASSUME ~MayCrash, ~LockMayFail, IInv, NestedInv, CurrentInv, SoundInv, PresentInv,
         AcyclicCache, RecordedInv, FineInv, [Next]_vars
  PROVE  FineInv'
<1> SUFFICES ASSUME AllAlive', NEW q \in Procs PROVE FineProc(q)'
  BY DEF FineInv
<1>1. ASSUME NEW p \in Procs, Step(p) PROVE FineProc(q)'
  <2>1. IInv'
    BY IInvNext
  <2>2. AllAlive
    BY <1>1, LocksStay DEF AllAlive
  <2>3. Before
    BY <2>2 DEF Before
  <2> QED BY <1>1, <2>1, <2>3, StepFine
<1>2. ASSUME NEW p \in Procs PROVE ~BuildCrashes(p) /\ ~Die(p)
  BY DEF BuildCrashes, Die, IInv, TypeOK, AllAlive
<1>3. CASE UNCHANGED vars
  <2>1. AllAlive
    BY <1>3 DEF AllAlive, vars
  <2>2. FineProc(q)
    BY <2>1 DEF FineInv
  <2>3. UNCHANGED <<program, broken, file, lock, stack, failed>>
    BY <1>3 DEF vars
  <2>4. Top(q)' = Top(q) /\ Imported(q)' = Imported(q)
    BY <2>3 DEF Top, Imported
  <2> QED BY <2>2, <2>3, <2>4 DEF FineProc
<1> QED BY <1>1, <1>2, <1>3 DEF Next

(* Every import of a good module succeeds, whatever the other processes are *)
(* building, from a sound and complete cache and if no build crashes and the*)
(* lock files can be created.  As long as all processes are alive, whoever  *)
(* waits for a good module finds its file when the lock is free, since its  *)
(* build found no import that fails, and nobody takes it for missing later: *)
(* the file manager and the set of failures that the instances share        *)
(* remember only bad modules (CompilerInstance.cpp:774, 808, 1058-1064).    *)
THEOREM GoodImportsAreMade ==
  ASSUME ~MayCrash, ~LockMayFail
  PROVE  Spec /\ SoundCache /\ CompleteCache /\ AcyclicCache => []GoodImportsSucceed
<1>1. ASSUME FineInv, AllAlive, NEW p \in Procs, NEW f \in InstancesOf(p),
             NEW i \in Handled(p, f), Closure(i) \cap (broken \cup Cyclic) = {}
      PROVE  f.known[i] = "module"
  <2>1. PICK k \in 1 .. Len(stack[p]) : f = stack[p][k]
    BY DEF InstancesOf
  <2>2. FineOK(broken, program[p], f)
    BY <1>1, <2>1 DEF FineInv, FineProc
  <2>3. PICK a : a = Wanted(program[p], f)
    OBVIOUS
  <2>4. Handled(p, f) = {a[j] : j \in 1 .. Len(a) - Len(f.todo)}
    BY <2>3 DEF Handled, Wanted
  <2>5. Fine(broken, i)
    BY <1>1 DEF Fine, GoodModule
  <2> QED BY <1>1, <2>2, <2>3, <2>4, <2>5 DEF FineOK
<1>2. FineInv => GoodImportsSucceed
  BY <1>1 DEF GoodImportsSucceed, AllAlive
<1>3. Init => FineInv
  BY FineInit
<1>4. IInv /\ CurrentInv /\ SoundInv /\ PresentInv /\ AcyclicCache /\ [Next]_vars => AcyclicCache'
  BY AcyclicNext
<1>5. IInv /\ NestedInv /\ CurrentInv /\ SoundInv /\ PresentInv /\ AcyclicCache /\ RecordedInv
        /\ FineInv /\ [Next]_vars => FineInv'
  BY FineNext
<1> QED BY <1>2, <1>3, <1>4, <1>5, RecordedAlways, PresentAlways, NestedAlways, Invariance, PTL
        DEF Spec
=============================================================================
