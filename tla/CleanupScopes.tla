----------------------------- MODULE CleanupScopes -----------------------------
(***************************************************************************)
(* How jumps run cleanups: the stack of cleanup scopes of a function and   *)
(* the branch fixups of gotos to labels not seen yet                       *)
(* (lib/CodeGen/CGCleanup.cpp, CGStmt.cpp, CodeGenSubprogram.h).           *)
(*                                                                         *)
(* The code of a cleanup is emitted once, when its scope is popped; every  *)
(* jump out of the scope is routed through it and on by a switch over the  *)
(* index of its destination, which the jump stores first.  A function is   *)
(* generated one statement at a time.  Exceptional edges and activation    *)
(* flags are left out: a cleanup is active as long as it is on the stack.  *)
(***************************************************************************)
EXTENDS Integers, Sequences, FiniteSets, SequencesExt

CONSTANTS
  Labels,
  CleanupKinds,    \* for each cleanup of the function, what it may be
  FixupDepths,     \* 2^13: EHCleanupScope has 13 bits for a fixup depth
  MaxScopes, MaxJumps, MaxStatements   \* bounds on the function

(* A cleanup for normal edges, one whose code ends in another block than it *)
(* begins, and one for exceptional edges only.                              *)
Kinds == {"normal", "split", "eh"}

ASSUME BoundsAssumption ==
  /\ CleanupKinds \in Seq(SUBSET Kinds)
  /\ FixupDepths \in Nat \ {0}
  /\ MaxScopes \in Nat /\ MaxJumps \in Nat /\ MaxStatements \in Nat

VARIABLES
  scopes,      \* EHStack, the innermost cleanup last
  fixups,      \* BranchFixups
  ir,          \* the blocks of the function and the insertion point
  labelMap,    \* LabelMap
  nextIndex,   \* NextCleanupDestIndex
  returnBlock, \* ReturnBlock
  frames,      \* the open RunCleanupsScopes, the function's first
  closing,     \* the innermost of them is popping its cleanups
  counts       \* the statements so far

vars == <<scopes, fixups, ir, labelMap, nextIndex, returnBlock, frames, closing, counts>>

(* Blocks are numbered; 0 is no block, or the unreachable block as a target.*)
(* "jump" and "at" mark where a jump to a destination starts and where the  *)
(* destination is, with the cleanups that are live there.                   *)
Instruction == [op : {"store", "run", "jump", "at"}, n : Nat, live : SUBSET Nat]

Case == [index : Nat, block : Nat]

Terminator ==
  [kind  : {"none", "br", "cond", "switch", "erased"},
   to    : Nat,                                  \* for a switch, its default
   cases : Seq(Case)]

JumpDest == [block : Nat, depth : Nat, index : Nat, valid : BOOLEAN]

(* Depths count the scopes from the outermost, as stable_iterators do.      *)
Scope ==
  [id         : Nat,
   kind       : Kinds,
   block      : Nat,            \* NormalBlock
   fixupDepth : Nat,
   branches   : SUBSET Nat,     \* Branches
   afters     : Seq(Case)]  \* BranchAfters

Fixup ==
  [dest : Nat, index : Nat,
   branch     : Nat,            \* the block that InitialBranch is in
   optimistic : Nat]            \* OptimisticBranchBlock

Frame == [depth : Nat, loop : BOOLEAN, header : JumpDest, exit : JumpDest]

Label == [dest : JumpDest, stacks : SUBSET Seq(Nat)]

TypeOK ==
  /\ scopes \in Seq(Scope)
  /\ fixups \in Seq(Fixup)
  /\ ir \in [blocks : Seq([code : Seq(Instruction), term : Terminator]), insert : Nat]
  /\ labelMap \in [Labels -> Label]
  /\ nextIndex \in Nat
  /\ returnBlock \in JumpDest
  /\ frames \in Seq(Frame)
  /\ closing \in BOOLEAN
  /\ counts \in [cleanups : Nat, scopes : Nat, jumps : Nat, statements : Nat]

-----------------------------------------------------------------------------
(* The function's blocks                                                    *)

NoTerm == [kind |-> "none", to |-> 0, cases |-> << >>]
Br(b) == [kind |-> "br", to |-> b, cases |-> << >>]
CondBr(b, c) == [kind |-> "cond", to |-> b, cases |-> <<[index |-> 0, block |-> c]>>]
Switch(default, cases) == [kind |-> "switch", to |-> default, cases |-> cases]

NewBlock == [code |-> << >>, term |-> NoTerm]
Erased == [code |-> << >>, term |-> [NoTerm EXCEPT !.kind = "erased"]]

CreateBlock(f) == [f EXCEPT !.blocks = Append(@, NewBlock)]
NextBlock(f) == Len(f.blocks) + 1

Terminated(f, b) == f.blocks[b].term.kind # "none"
SetTerm(f, b, term) == [f EXCEPT !.blocks[b].term = term]
SetInsertPoint(f, b) == [f EXCEPT !.insert = b]
EmitInstr(f, instr) == [f EXCEPT !.blocks[f.insert].code = Append(@, instr)]

Store(index) == [op |-> "store", n |-> index, live |-> {}]
Run(scope) == [op |-> "run", n |-> scope.id, live |-> {}]
JumpMark(index, live) == [op |-> "jump", n |-> index, live |-> live]
AtMark(index, live) == [op |-> "at", n |-> index, live |-> live]

(* The terminators that refer to b, and how often they do.                  *)
Users(f, b) ==
  {i \in DOMAIN f.blocks :
     /\ f.blocks[i].term.kind \in {"br", "cond", "switch"}
     /\ f.blocks[i].term.to = b \/ \E k \in DOMAIN f.blocks[i].term.cases :
                                      f.blocks[i].term.cases[k].block = b}

HasOneUse(f, b) ==
  \E i \in DOMAIN f.blocks :
    /\ Users(f, b) = {i}
    /\ LET term == f.blocks[i].term
           uses == {k \in DOMAIN term.cases : term.cases[k].block = b}
       IN IF term.to = b THEN uses = {} ELSE \A j, k \in uses : j = k

Retargeted(term, b, c) ==
  [term EXCEPT !.to = IF @ = b THEN c ELSE @,
               !.cases = [k \in DOMAIN @ |-> IF @[k].block = b THEN [@[k] EXCEPT !.block = c] ELSE @[k]]]

ReplaceAllUses(f, b, c) ==
  [f EXCEPT !.blocks = [i \in DOMAIN f.blocks |->
     IF i \in Users(f, b) THEN [f.blocks[i] EXCEPT !.term = Retargeted(@, b, c)]
     ELSE f.blocks[i]]]

EmitBranch(f, b) ==
  SetInsertPoint(IF f.insert = 0 \/ Terminated(f, f.insert) THEN f ELSE SetTerm(f, f.insert, Br(b)), 0)

EmitBlock(f, b) == SetInsertPoint(EmitBranch(f, b), b)

-----------------------------------------------------------------------------
(* EHScopeStack                                                             *)

Largest(S) == CHOOSE n \in S : \A k \in S : k <= n

Normals(stack) == {i \in DOMAIN stack : stack[i].kind # "eh"}

(* InnermostNormalCleanup, 0 for stable_end().  Below the top this is its   *)
(* getEnclosingNormalCleanup().                                             *)
InnermostNormal(stack) == Largest(Normals(stack) \cup {0})

PopNullFixups(stack, queue) ==
  SubSeq(queue, 1, Largest({stack[InnermostNormal(stack)].fixupDepth}
                             \cup {k \in DOMAIN queue : queue[k].dest # 0}))

(* BranchFixups after popCleanup has left the given scopes.  Behind the     *)
(* outermost normal cleanup ResolveAllBranchFixups has cleared them.        *)
(* Mutant: they are not cleared.                                            *)
FixupsAfterPop_Kept(stack, queue) ==
  IF queue = << >> \/ InnermostNormal(stack) = 0 THEN queue ELSE PopNullFixups(stack, queue)

FixupsAfterPop(stack, queue) ==
  IF queue = << >> \/ InnermostNormal(stack) = 0 THEN << >> ELSE PopNullFixups(stack, queue)

(* The cleanups that a jump from here to outside of the function runs.      *)
Live(stack) == {stack[i].id : i \in Normals(stack)}

Stack == [i \in DOMAIN scopes |-> scopes[i].id]

-----------------------------------------------------------------------------
(* Branch fixups                                                            *)

(* The branches of the fixups above depth that still point directly to      *)
(* their destination are led into the cleanup.                              *)
LeadIn(f, queue, depth, entry) ==
  LET direct == {k \in (depth + 1) .. Len(queue) : queue[k].dest # 0 /\ queue[k].optimistic = 0}
  IN [f EXCEPT !.blocks = [i \in DOMAIN f.blocks |->
        IF \E k \in direct : queue[k].branch = i
          THEN LET k == CHOOSE j \in direct : queue[j].branch = i
               IN [code |-> Append(f.blocks[i].code, Store(queue[k].index)), term |-> Br(entry)]
          ELSE f.blocks[i]]]

(* The cases of ResolveAllBranchFixups.                                     *)
FixupCases(queue) ==
  SetToSeq({[index |-> queue[k].index, block |-> queue[k].dest] :
              k \in {j \in DOMAIN queue : queue[j].dest # 0}})

(* TransitionToCleanupSwitch and addCase.                                   *)
WithCase(term, index, block) ==
  CASE term.kind = "br"     -> Switch(term.to, <<[index |-> index, block |-> block]>>)
    [] term.kind = "switch" -> [term EXCEPT !.cases = Append(@, [index |-> index, block |-> block])]
    [] OTHER                -> [term EXCEPT !.kind = "erased"]

(* ResolveBranchFixups: the destination has been reached in this scope.     *)
Resolved(queue, block) ==
  IF \E k \in DOMAIN queue : queue[k].dest = block
    THEN PopNullFixups(scopes,
           [k \in DOMAIN queue |-> IF queue[k].dest = block THEN [queue[k] EXCEPT !.dest = 0]
                                   ELSE queue[k]])
    ELSE queue

ResolvedIn(f, queue, dest) ==
  LET optimistic == {queue[k].optimistic : k \in {j \in DOMAIN queue : queue[j].dest = dest.block}}
  IN [f EXCEPT !.blocks = [i \in DOMAIN f.blocks |->
        IF i \in optimistic
          THEN [f.blocks[i] EXCEPT !.term = WithCase(@, dest.index, dest.block)]
          ELSE f.blocks[i]]]

-----------------------------------------------------------------------------
(* Statements                                                               *)

Generating == frames # << >> /\ ~closing
HaveInsertPoint == ir.insert # 0

Count(what) == [counts EXCEPT !.statements = counts.statements + 1, ![what] = counts[what] + 1]
May(what, max) == Generating /\ counts[what] < max /\ counts.statements < MaxStatements

(* A declaration whose object has to be cleaned up: EmitAutoVarCleanups,    *)
(* pushCleanup.                                                             *)
PushCleanup(kind) ==
  /\ May("cleanups", Len(CleanupKinds)) /\ HaveInsertPoint
  /\ kind \in CleanupKinds[counts.cleanups + 1]
  /\ counts' = Count("cleanups")
  /\ scopes' = Append(scopes, [id |-> counts.cleanups + 1, kind |-> kind, block |-> 0,
                               fixupDepth |-> Len(fixups) % FixupDepths,
                               branches |-> {}, afters |-> << >>])
  /\ UNCHANGED <<fixups, ir, labelMap, nextIndex, returnBlock, frames, closing>>

(* getJumpDestInCurrentScope.                                               *)
DestHere(block, index) ==
  [block |-> block, depth |-> InnermostNormal(scopes), index |-> index, valid |-> TRUE]

NoDest == [block |-> 0, depth |-> 0, index |-> 0, valid |-> FALSE]

(* RunCleanupsScope.                                                        *)
OpenScope ==
  /\ May("scopes", MaxScopes)
  /\ counts' = Count("scopes")
  /\ frames' = Append(frames, [depth |-> Len(scopes), loop |-> FALSE, header |-> NoDest,
                               exit |-> NoDest])
  /\ UNCHANGED <<scopes, fixups, ir, labelMap, nextIndex, returnBlock, closing>>

(* EmitWhileStmt up to its body.                                            *)
OpenLoop ==
  /\ May("scopes", MaxScopes) /\ HaveInsertPoint
  /\ counts' = Count("scopes")
  /\ LET header == NextBlock(ir)
         exit == header + 1
         body == header + 2
         condition == EmitInstr(EmitBlock(CreateBlock(CreateBlock(CreateBlock(ir))), header),
                                AtMark(nextIndex, Live(scopes)))
     IN /\ ir' = EmitBlock(SetTerm(condition, header, CondBr(body, exit)), body)
        /\ frames' = Append(frames, [depth |-> Len(scopes), loop |-> TRUE,
                                     header |-> DestHere(header, nextIndex),
                                     exit |-> DestHere(exit, nextIndex + 1)])
  /\ nextIndex' = nextIndex + 2
  /\ UNCHANGED <<scopes, fixups, labelMap, returnBlock, closing>>

(* The condition of an if around a jump.                                    *)
IfThen(f, conditional) ==
  IF ~conditional THEN f
    ELSE LET then == NextBlock(f)
         IN SetInsertPoint(SetTerm(CreateBlock(CreateBlock(f)), f.insert, CondBr(then, then + 1)), then)

(* Whether a jump to dest needs no cleanups: isObviouslyBranchWithoutCleanups.*)
IsDirect(dest) ==
  \/ InnermostNormal(scopes) = 0
  \/ dest.valid /\ InnermostNormal(scopes) <= dest.depth

(* The normal cleanups that a jump to dest leaves; the last one gets a      *)
(* branch-after, the others a branch-through, until one has it already.     *)
Left(dest) == {i \in Normals(scopes) : i > dest.depth}

Outermost(S) == CHOOSE n \in S : \A k \in S : n <= k

(* Mutant: only the innermost cleanup is told.                              *)
IsTold_Innermost(i, dest) == i = InnermostNormal(scopes)

IsTold(i, dest) ==
  /\ i \in Left(dest)
  /\ \A j \in Left(dest) : j > i => dest.block \notin scopes[j].branches

Told(i, dest) ==
  LET s == scopes[i]
  IN IF dest.block \in s.branches THEN s
     ELSE [s EXCEPT !.branches = @ \cup {dest.block},
                    !.afters = IF i = Outermost(Left(dest))
                                 THEN Append(@, [index |-> dest.index, block |-> dest.block]) ELSE @]

(* CreateNormalEntry, for the cleanup at depth i of the given stack.        *)
EntryOf(f, stack, i) == IF stack[i].block # 0 THEN stack[i].block ELSE NextBlock(f)
WithEntry(f, stack, i) == IF stack[i].block # 0 THEN f ELSE CreateBlock(f)
Entered(f, stack, i) == [stack EXCEPT ![i].block = EntryOf(f, stack, i)]

(* EmitBranchThroughCleanup, with an insertion point in f.                  *)
BranchThroughCleanup(f, dest) ==
  LET top == InnermostNormal(scopes)
      marked == EmitInstr(f, JumpMark(dest.index, Live(scopes)))
      threads == ~IsDirect(dest) /\ dest.valid
      told == [i \in DOMAIN scopes |-> IF IsTold(i, dest) THEN Told(i, dest) ELSE scopes[i]]
  IN /\ ir' = LET branched ==
                    IF threads
                      THEN SetTerm(WithEntry(EmitInstr(marked, Store(dest.index)), scopes, top),
                                   f.insert, Br(EntryOf(f, scopes, top)))
                      ELSE SetTerm(marked, f.insert, Br(dest.block))
              IN SetInsertPoint(branched, IF f.insert = ir.insert THEN 0 ELSE f.insert + 1)
     /\ scopes' = IF threads THEN Entered(f, told, top) ELSE scopes
     /\ fixups' = IF ~IsDirect(dest) /\ ~dest.valid
                    THEN Append(fixups, [dest |-> dest.block, index |-> dest.index,
                                         branch |-> f.insert, optimistic |-> 0])
                    ELSE fixups

MayJump(conditional) == May("jumps", MaxJumps) /\ (conditional => HaveInsertPoint)

(* break, continue and return.                                              *)
JumpTo(dest, conditional) ==
  /\ MayJump(conditional) /\ HaveInsertPoint
  /\ counts' = Count("jumps")
  /\ BranchThroughCleanup(IfThen(ir, conditional), dest)
  /\ UNCHANGED <<labelMap, nextIndex, returnBlock, frames, closing>>

Loops == {i \in DOMAIN frames : frames[i].loop}

Break(conditional) ==
  Loops # {} /\ JumpTo(frames[Largest(Loops)].exit, conditional)

Continue(conditional) ==
  Loops # {} /\ JumpTo(frames[Largest(Loops)].header, conditional)

Return(conditional) == JumpTo(returnBlock, conditional)

(* Sema: no jump goes into the scope of an object with a cleanup.           *)
(* JumpDiagnostics.cpp makes it an error (a warning in Microsoft mode), so  *)
(* a label is reached only from where its cleanups are live.                *)
MayReach(stack, target) == IsPrefix(target, stack)

(* EmitGotoStmt to a label that has a destination, or gets one.             *)
Goto(l, conditional) ==
  /\ MayJump(conditional)
  /\ counts' = Count("jumps")
  /\ LET known == labelMap[l].dest
         isNew == known.block = 0
         f == IF isNew THEN CreateBlock(ir) ELSE ir
         dest == IF isNew THEN [NoDest EXCEPT !.block = NextBlock(ir), !.index = nextIndex] ELSE known
     IN /\ dest.valid => \A target \in labelMap[l].stacks : MayReach(Stack, target)
        /\ nextIndex' = IF isNew THEN nextIndex + 1 ELSE nextIndex
        /\ labelMap' = [labelMap EXCEPT ![l].dest = dest,
                          ![l].stacks = IF dest.valid THEN @ ELSE @ \cup {Stack}]
        /\ IF HaveInsertPoint THEN BranchThroughCleanup(IfThen(f, conditional), dest)
           ELSE ir' = f /\ UNCHANGED <<scopes, fixups>>
  /\ UNCHANGED <<returnBlock, frames, closing>>

(* EmitLabel.                                                               *)
EmitLabel(l) ==
  /\ Generating /\ counts.statements < MaxStatements
  /\ counts' = [counts EXCEPT !.statements = @ + 1]
  /\ LET known == labelMap[l].dest
         isNew == known.block = 0
         dest == IF isNew THEN DestHere(NextBlock(ir), nextIndex)
                 ELSE [known EXCEPT !.depth = Len(scopes), !.valid = TRUE]
         f == IF isNew THEN CreateBlock(ir) ELSE ResolvedIn(ir, fixups, dest)
     IN /\ ~known.valid
        /\ \A stack \in labelMap[l].stacks : MayReach(stack, Stack)
        /\ nextIndex' = IF isNew THEN nextIndex + 1 ELSE nextIndex
        /\ labelMap' = [labelMap EXCEPT ![l] = [dest |-> dest, stacks |-> {Stack}]]
        /\ fixups' = IF isNew THEN fixups ELSE Resolved(fixups, dest.block)
        /\ ir' = EmitInstr(EmitBlock(f, dest.block), AtMark(dest.index, Live(scopes)))
  /\ UNCHANGED <<scopes, returnBlock, frames, closing>>

-----------------------------------------------------------------------------
(* PopCleanupBlock                                                          *)

(* ~RunCleanupsScope, and FinishSubprogram for the function's own scope:    *)
(* the fallthrough, if there is one, goes on behind the scope.  Each label  *)
(* that is used is defined (Sema).                                          *)
BeginClose ==
  /\ Generating
  /\ Len(frames) = 1 => \A l \in Labels : labelMap[l].dest.block # 0 => labelMap[l].dest.valid
  /\ closing' = TRUE
  /\ LET frame == Last(frames)
         index == IF Len(frames) = 1 THEN returnBlock.index ELSE frame.header.index
     IN ir' = IF HaveInsertPoint THEN EmitInstr(ir, JumpMark(index, Live(scopes))) ELSE ir
  /\ UNCHANGED <<scopes, fixups, labelMap, nextIndex, returnBlock, frames, counts>>

Popping == closing /\ Len(scopes) > Last(frames).depth

Top == Last(scopes)
Rest == Front(scopes)

HasFixups == Len(fixups) # Top.fixupDepth
HasExistingBranches == Top.branches # {}
HasBranchThroughs == Len(Top.afters) # Cardinality(Top.branches)
HasPrebranchedFallthrough == HaveInsertPoint /\ Terminated(ir, ir.insert)

RequiresNormalCleanup ==
  Top.kind # "eh" /\ (HasFixups \/ HasExistingBranches \/ HaveInsertPoint)

IsEmittedDirectly ==
  HaveInsertPoint /\ ~HasPrebranchedFallthrough /\ ~HasFixups /\ ~HasExistingBranches

(* The fallthrough goes on to another cleanup that is popped with this one: *)
(* PopCleanupBlocks.                                                        *)
FallthroughIsBranchThrough == Last(frames).depth < InnermostNormal(Rest)

(* destroyOptimisticNormalEntry.                                            *)
WithoutUse(term) ==
  IF term.kind = "switch" /\ Len(term.cases) = 1 /\ term.to = 0 THEN Br(term.cases[1].block) ELSE term

DestroyOptimisticEntry(f, entry) ==
  IF entry = 0 THEN f
    ELSE LET replaced == ReplaceAllUses(f, entry, 0)
             blocks == replaced.blocks
         IN [replaced EXCEPT !.blocks = [i \in DOMAIN blocks |->
               IF i = entry THEN Erased
               ELSE IF i \in Users(f, entry) THEN [blocks[i] EXCEPT !.term = WithoutUse(@)]
               ELSE blocks[i]]]

(* EmitCleanup.                                                             *)
RunCleanup(f, scope) ==
  LET run == EmitInstr(f, Run(scope))
  IN IF scope.kind = "split" THEN EmitBlock(CreateBlock(run), NextBlock(run)) ELSE run

PopUnneeded ==
  /\ Popping /\ ~RequiresNormalCleanup
  /\ ir' = DestroyOptimisticEntry(ir, Top.block)
  /\ scopes' = Rest
  /\ fixups' = FixupsAfterPop(Rest, fixups)
  /\ UNCHANGED <<labelMap, nextIndex, returnBlock, frames, closing, counts>>

PopDirectly ==
  /\ Popping /\ RequiresNormalCleanup /\ IsEmittedDirectly
  /\ ir' = RunCleanup(DestroyOptimisticEntry(ir, Top.block), Top)
  /\ scopes' = Rest
  /\ fixups' = FixupsAfterPop(Rest, fixups)
  /\ UNCHANGED <<labelMap, nextIndex, returnBlock, frames, closing, counts>>

HasEnclosingCleanups == InnermostNormal(Rest) # 0

NeedsBranchThrough ==
  \/ HasBranchThroughs
  \/ HaveInsertPoint /\ FallthroughIsBranchThrough
  \/ HasFixups /\ HasEnclosingCleanups

(* Exactly one branch-after and no other threads.                           *)
HasSingleExit ==
  ~HasBranchThroughs /\ ~HasFixups /\ ~HaveInsertPoint /\ Len(Top.afters) = 1

NeedsSwitch ==
  /\ ~HasSingleExit
  /\ \/ Top.afters # << >>
     \/ HaveInsertPoint /\ ~FallthroughIsBranchThrough
     \/ HasFixups /\ ~HasEnclosingCleanups

(* The epilogue of the cleanup, for the given destinations.                 *)
Epilogue(through, fallthrough) ==
  CASE HasSingleExit -> Br(Top.afters[1].block)
    [] NeedsSwitch ->
         Switch(through,
                (IF fallthrough # 0 THEN <<[index |-> 0, block |-> fallthrough]>> ELSE << >>)
                  \o Top.afters
                  \o (IF HasFixups /\ ~HasEnclosingCleanups THEN FixupCases(fixups) ELSE << >>))
    [] OTHER -> Br(through)

(* SimplifyCleanupEntry: the entry is merged into its only predecessor.     *)
CanMerge(f, entry) ==
  HasOneUse(f, entry) /\ \A i \in Users(f, entry) : f.blocks[i].term.kind = "br"

Predecessor(f, entry) == CHOOSE i \in Users(f, entry) : TRUE

Merged(f, entry) ==
  IF ~CanMerge(f, entry) THEN f
    ELSE LET pred == Predecessor(f, entry)
             code == f.blocks[pred].code \o f.blocks[entry].code
         IN [blocks |-> [f.blocks EXCEPT ![pred] = [code |-> code, term |-> f.blocks[entry].term],
                                         ![entry] = Erased],
             insert |-> IF f.insert = entry THEN pred ELSE f.insert]

(* The fixups above depth after the cleanup with the given entry and exit:  *)
(* optimistically they go on from its exit.                                 *)
Threaded(queue, depth, exit) ==
  [k \in DOMAIN queue |-> IF k > depth /\ queue[k].dest # 0
                            THEN [queue[k] EXCEPT !.optimistic = exit] ELSE queue[k]]

(* A merged block takes the branches of fixups with it.  Only if it was the *)
(* exit as well are the optimistic blocks brought up to date.               *)
Patched(queue, depth, entry, exit, pred) ==
  [k \in DOMAIN queue |->
     [queue[k] EXCEPT !.branch = IF @ = entry THEN pred ELSE @,
                      !.optimistic = IF k > depth /\ entry = exit THEN pred ELSE @]]

(* The cleanup in f from its entry on, with the block that it goes on to    *)
(* for the jumps that go through.                                           *)
ThreadCleanup(f, entry, through) ==
  LET continues == NeedsSwitch /\ HaveInsertPoint /\ ~FallthroughIsBranchThrough
      fallthrough == IF continues THEN NextBlock(f) ELSE 0
      ran == RunCleanup(IF continues THEN CreateBlock(f) ELSE f, Top)
      threaded == SetTerm(LeadIn(ran, fixups, Top.fixupDepth, entry), ran.insert,
                          Epilogue(through, fallthrough))
  IN [body |-> IF continues THEN EmitBlock(threaded, fallthrough)
               ELSE IF HaveInsertPoint THEN threaded ELSE SetInsertPoint(threaded, 0),
      exit |-> ran.insert]

(* The cleanup's block is entered by all jumps that leave the scope.        *)
PopThreaded ==
  /\ Popping /\ RequiresNormalCleanup /\ ~IsEmittedDirectly
  /\ LET enclosing == InnermostNormal(Rest)
         created == WithEntry(ir, scopes, Len(scopes))
         entry == EntryOf(ir, scopes, Len(scopes))
         stored == IF HaveInsertPoint /\ ~HasPrebranchedFallthrough
                     THEN EmitInstr(created, Store(0)) ELSE created
         entered == EmitBlock(stored, entry)
         linked == IF NeedsBranchThrough THEN WithEntry(entered, Rest, enclosing) ELSE entered
         through == IF NeedsBranchThrough THEN EntryOf(entered, Rest, enclosing) ELSE 0
         cleanup == ThreadCleanup(linked, entry, through)
         queue == Threaded(FixupsAfterPop(Rest, fixups), Top.fixupDepth, cleanup.exit)
     IN /\ ir' = Merged(cleanup.body, entry)
        /\ scopes' = IF NeedsBranchThrough THEN Entered(entered, Rest, enclosing) ELSE Rest
        /\ fixups' = IF CanMerge(cleanup.body, entry)
                       THEN Patched(queue, Top.fixupDepth, entry, cleanup.exit,
                                    Predecessor(cleanup.body, entry))
                       ELSE queue
  /\ UNCHANGED <<labelMap, nextIndex, returnBlock, frames, closing, counts>>

-----------------------------------------------------------------------------
(* Behind the scope                                                         *)

Popped == closing /\ Len(scopes) = Last(frames).depth

EndScope ==
  /\ Popped /\ Len(frames) > 1 /\ ~Last(frames).loop
  /\ ir' = IF HaveInsertPoint THEN EmitInstr(ir, AtMark(0, Live(scopes))) ELSE ir
  /\ frames' = Front(frames) /\ closing' = FALSE
  /\ UNCHANGED <<scopes, fixups, labelMap, nextIndex, returnBlock, counts>>

(* EmitWhileStmt behind its body.                                           *)
EndLoop ==
  /\ Popped /\ Len(frames) > 1 /\ Last(frames).loop
  /\ LET frame == Last(frames)
     IN ir' = EmitInstr(EmitBlock(EmitBranch(ir, frame.header.block), frame.exit.block),
                        AtMark(frame.exit.index, Live(scopes)))
  /\ frames' = Front(frames) /\ closing' = FALSE
  /\ UNCHANGED <<scopes, fixups, labelMap, nextIndex, returnBlock, counts>>

(* EmitReturnBlock.  Whether the block at the insertion point is empty      *)
(* depends on code that is left out.                                        *)
HasNoCleanupCode(code) == \A i \in DOMAIN code : code[i].op \notin {"store", "run"}

EndFunction(isEmpty) ==
  /\ Popped /\ Len(frames) = 1
  /\ isEmpty => HaveInsertPoint /\ HasNoCleanupCode(ir.blocks[ir.insert].code)
  /\ LET block == returnBlock.block
         user == CHOOSE i \in Users(ir, block) : TRUE
         isFoldable == HasOneUse(ir, block) /\ ir.blocks[user].term.kind = "br"
         placed == IF HaveInsertPoint /\ (isEmpty \/ Users(ir, block) = {})
                     THEN ReplaceAllUses(ir, block, ir.insert)
                   ELSE IF ~HaveInsertPoint /\ isFoldable
                     THEN SetInsertPoint(SetTerm(ir, user, NoTerm), user)
                   ELSE EmitBlock(ir, block)
     IN ir' = EmitInstr(placed, AtMark(returnBlock.index, Live(scopes)))
  /\ frames' = << >> /\ closing' = FALSE
  /\ UNCHANGED <<scopes, fixups, labelMap, nextIndex, returnBlock, counts>>

-----------------------------------------------------------------------------
(* StartSubprogram: block 1 is the entry of the function, block 2 the       *)
(* return block.                                                            *)
Init ==
  /\ scopes = << >> /\ fixups = << >>
  /\ ir = [blocks |-> <<NewBlock, NewBlock>>, insert |-> 1]
  /\ returnBlock = [block |-> 2, depth |-> 0, index |-> 1, valid |-> TRUE]
  /\ nextIndex = 2
  /\ labelMap = [l \in Labels |-> [dest |-> NoDest, stacks |-> {}]]
  /\ frames = <<[depth |-> 0, loop |-> FALSE, header |-> NoDest, exit |-> NoDest]>>
  /\ closing = FALSE
  /\ counts = [cleanups |-> 0, scopes |-> 0, jumps |-> 0, statements |-> 0]

Next ==
  \/ \E kind \in Kinds : PushCleanup(kind)
  \/ OpenScope \/ OpenLoop
  \/ \E conditional \in BOOLEAN :
       \/ Break(conditional) \/ Continue(conditional) \/ Return(conditional)
       \/ \E l \in Labels : Goto(l, conditional)
  \/ \E l \in Labels : EmitLabel(l)
  \/ BeginClose
  \/ PopUnneeded \/ PopDirectly \/ PopThreaded
  \/ EndScope \/ EndLoop
  \/ \E isEmpty \in BOOLEAN : EndFunction(isEmpty)

Spec == Init /\ [][Next]_vars
=============================================================================
