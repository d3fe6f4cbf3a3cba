-------------------------- MODULE CleanupScopesProofs --------------------------
(***************************************************************************)
(* Proofs about CleanupScopes, for every function of any size: the         *)
(* variables keep their types, and branch fixups never outgrow the scopes. *)
(***************************************************************************)
EXTENDS CleanupScopesProperties, SequenceLemmas, FiniteSetTheorems,
        TLAPS

-----------------------------------------------------------------------------
(* Sequences and sets of numbers                                            *)

LEMMA FunctionSeq ==
  ASSUME NEW S, NEW n \in Nat, NEW f \in [1 .. n -> S]
  PROVE  f \in Seq(S) /\ Len(f) = n
  OBVIOUS

LEMMA SeqElement ==
  ASSUME NEW S, NEW s \in Seq(S), NEW i \in DOMAIN s
  PROVE  s[i] \in S /\ i \in Nat
  OBVIOUS

(* A set of naturals with a bound has a greatest element.                   *)
LEMMA LargestFacts ==
  ASSUME NEW S, NEW n \in Nat, S \subseteq 0 .. n, S # {}
  PROVE  Largest(S) \in S /\ \A k \in S : k <= Largest(S)
<1> DEFINE T == {n - k : k \in S}
<1>1. T \subseteq Nat /\ T # {}
  <2>1. \A k \in S : n - k \in Nat
    OBVIOUS
  <2>2. PICK k : k \in S
    OBVIOUS
  <2>3. n - k \in T
    BY <2>2
  <2> QED BY <2>1, <2>3
<1>2. IsWellFoundedOn(OpToRel(<, Nat), Nat)
  BY NatLessThanWellFounded
<1>3. PICK x \in T : \A y \in T : ~(<<y, x>> \in OpToRel(<, Nat))
  BY <1>1, <1>2, WFMin
<1>4. PICK k \in S : x = n - k
  OBVIOUS
<1>5. \A j \in S : j <= k
  <2> TAKE j \in S
  <2>1. n - j \in T /\ n - j \in Nat /\ x \in Nat
    BY <1>1
  <2>2. ~(n - j < x)
    BY <1>3, <2>1 DEF OpToRel
  <2> QED BY <1>4, <2>2
<1> QED BY <1>5 DEF Largest


-----------------------------------------------------------------------------
(* The operations on the blocks of the function                             *)

Block == [code : Seq(Instruction), term : Terminator]
Body == [blocks : Seq(Block), insert : Nat]

(* g is f after some steps: blocks are never taken away.                    *)
Follows(g, f) == g \in Body /\ Len(f.blocks) <= Len(g.blocks)

LEMMA CasesFacts ==
  /\ << >> \in Seq(Case)
  /\ << >> \in Seq(Instruction)
  /\ \A c \in Case : <<c>> \in Seq(Case)
  OBVIOUS

LEMMA TermFacts ==
  /\ NoTerm \in Terminator
  /\ \A b, c \in Nat : Br(b) \in Terminator /\ CondBr(b, c) \in Terminator
  /\ \A b \in Nat : \A cases \in Seq(Case) :
       Switch(b, cases) \in Terminator
<1>1. ASSUME NEW c \in Nat PROVE [index |-> 0, block |-> c] \in Case
  BY DEF Case
<1> QED BY <1>1, CasesFacts DEF NoTerm, Br, CondBr, Switch, Terminator

LEMMA NewBlockFacts == NewBlock \in Block /\ Erased \in Block
<1>1. [NoTerm EXCEPT !.kind = "erased"] \in Terminator
  BY CasesFacts DEF NoTerm, Terminator
<1> QED BY <1>1, CasesFacts, TermFacts DEF NewBlock, Erased, Block

LEMMA BodyFacts ==
  ASSUME NEW f \in Body
  PROVE  /\ Len(f.blocks) \in Nat /\ NextBlock(f) \in Nat /\ f.insert \in Nat
         /\ f.blocks \in Seq(Block)
         /\ \A b \in DOMAIN f.blocks : f.blocks[b] \in Block
         /\ DOMAIN f.blocks \subseteq Nat
  BY DEF Body, NextBlock

LEMMA FollowsFacts ==
  ASSUME NEW f \in Body, NEW g, Follows(g, f), NEW h, Follows(h, g)
  PROVE  Follows(h, f) /\ g \in Body /\ h \in Body
  BY DEF Follows, Body

LEMMA CreateBlockFacts ==
  ASSUME NEW f \in Body
  PROVE  /\ Follows(CreateBlock(f), f)
         /\ CreateBlock(f).insert = f.insert
         /\ NextBlock(f) \in DOMAIN CreateBlock(f).blocks
<1>1. NewBlock \in Block
  BY NewBlockFacts
<1>2. f.blocks \in Seq(Block) /\ Len(f.blocks) \in Nat
  BY BodyFacts
<1>3. PICK blocks : blocks = Append(f.blocks, NewBlock)
  OBVIOUS
<1>4. blocks \in Seq(Block) /\ Len(blocks) = Len(f.blocks) + 1
  BY <1>1, <1>2, <1>3
<1>5. CreateBlock(f) = [f EXCEPT !.blocks = blocks]
  BY <1>3 DEF CreateBlock
<1> QED BY <1>2, <1>4, <1>5 DEF Body, Follows, NextBlock

LEMMA ReplaceBlocksFacts ==
  ASSUME NEW f \in Body, NEW g \in Seq(Block), Len(g) = Len(f.blocks),
         NEW h, h = [f EXCEPT !.blocks = g]
  PROVE  Follows(h, f) /\ h.insert = f.insert /\ h.blocks = g
<1>1. Len(f.blocks) \in Nat
  BY BodyFacts
<1> QED BY <1>1 DEF Body, Follows

LEMMA SetTermFacts ==
  ASSUME NEW f \in Body, NEW b, NEW term \in Terminator
  PROVE  /\ Follows(SetTerm(f, b, term), f)
         /\ SetTerm(f, b, term).insert = f.insert
<1> DEFINE new == [f.blocks[b] EXCEPT !.term = term]
<1>1. PICK blocks : blocks = [f.blocks EXCEPT ![b] = new]
  OBVIOUS
<1>2. b \in DOMAIN f.blocks => new \in Block
  BY BodyFacts DEF Block
<1>3. f.blocks \in Seq(Block)
  BY BodyFacts
<1>4. blocks \in Seq(Block) /\ Len(blocks) = Len(f.blocks)
  <2> HIDE DEF new
  <2>1. PICK old \in Seq(Block) : old = f.blocks
    BY <1>3
  <2>2. blocks = [old EXCEPT ![b] = new] /\ (b \in DOMAIN old => new \in Block)
    BY <1>1, <1>2, <2>1
  <2>3. Len(old) \in Nat /\ old \in [1 .. Len(old) -> Block]
    BY <2>1
  <2>4. blocks \in [1 .. Len(old) -> Block]
    BY <2>2, <2>3
  <2>5. blocks \in Seq(Block) /\ Len(blocks) = Len(old)
    BY <2>3, <2>4, FunctionSeq
  <2> QED BY <2>1, <2>5
<1>5. SetTerm(f, b, term) = [f EXCEPT !.blocks = blocks]
  BY <1>1 DEF SetTerm
<1> QED BY <1>4, <1>5, ReplaceBlocksFacts

LEMMA SetInsertPointFacts ==
  ASSUME NEW f \in Body, NEW b \in Nat
  PROVE  Follows(SetInsertPoint(f, b), f) /\ SetInsertPoint(f, b).insert = b
<1>1. Len(f.blocks) \in Nat
  BY BodyFacts
<1> QED BY <1>1 DEF SetInsertPoint, Body, Follows

LEMMA EmitInstrFacts ==
  ASSUME NEW f \in Body, NEW instr \in Instruction
  PROVE  /\ Follows(EmitInstr(f, instr), f)
         /\ EmitInstr(f, instr).insert = f.insert
         /\ Len(EmitInstr(f, instr).blocks) = Len(f.blocks)
<1> DEFINE b == f.insert
           new == [f.blocks[b] EXCEPT !.code = Append(f.blocks[b].code, instr)]
<1>1. PICK blocks : blocks = [f.blocks EXCEPT ![b] = new]
  OBVIOUS
<1>2. b \in DOMAIN f.blocks => new \in Block
  <2> SUFFICES ASSUME b \in DOMAIN f.blocks PROVE new \in Block
    OBVIOUS
  <2>1. f.blocks[b] \in Block
    BY BodyFacts
  <2>2. Append(f.blocks[b].code, instr) \in Seq(Instruction)
    BY <2>1 DEF Block
  <2> QED BY <2>1, <2>2 DEF Block
<1>3. f.blocks \in Seq(Block)
  BY BodyFacts
<1>4. blocks \in Seq(Block) /\ Len(blocks) = Len(f.blocks)
  <2> HIDE DEF new
  <2>1. PICK old \in Seq(Block) : old = f.blocks
    BY <1>3
  <2>2. blocks = [old EXCEPT ![b] = new] /\ (b \in DOMAIN old => new \in Block)
    BY <1>1, <1>2, <2>1
  <2>3. Len(old) \in Nat /\ old \in [1 .. Len(old) -> Block]
    BY <2>1
  <2>4. blocks \in [1 .. Len(old) -> Block]
    BY <2>2, <2>3
  <2>5. blocks \in Seq(Block) /\ Len(blocks) = Len(old)
    BY <2>3, <2>4, FunctionSeq
  <2> QED BY <2>1, <2>5
<1>5. EmitInstr(f, instr) = [f EXCEPT !.blocks = blocks]
  BY <1>1 DEF EmitInstr
<1> QED BY <1>4, <1>5, ReplaceBlocksFacts

LEMMA EmitBranchFacts ==
  ASSUME NEW f \in Body, NEW b \in Nat
  PROVE  Follows(EmitBranch(f, b), f)
<1>1. Br(b) \in Terminator
  BY TermFacts
<1>2. PICK g : g = IF f.insert = 0 \/ Terminated(f, f.insert) THEN f ELSE SetTerm(f, f.insert, Br(b))
  OBVIOUS
<1>3. Follows(f, f)
  BY DEF Follows, Body
<1>4. Follows(g, f)
  BY <1>1, <1>2, <1>3, SetTermFacts
<1>5. g \in Body
  BY <1>4 DEF Follows
<1>6. EmitBranch(f, b) = SetInsertPoint(g, 0)
  BY <1>2 DEF EmitBranch
<1>7. Follows(SetInsertPoint(g, 0), g)
  BY <1>5, SetInsertPointFacts
<1> QED BY <1>4, <1>6, <1>7, FollowsFacts

LEMMA EmitBlockFacts ==
  ASSUME NEW f \in Body, NEW b \in Nat
  PROVE  Follows(EmitBlock(f, b), f) /\ EmitBlock(f, b).insert = b
<1>1. Follows(EmitBranch(f, b), f) /\ EmitBranch(f, b) \in Body
  BY EmitBranchFacts DEF Follows
<1>2. /\ Follows(EmitBlock(f, b), EmitBranch(f, b))
      /\ EmitBlock(f, b).insert = b
  BY <1>1, SetInsertPointFacts DEF EmitBlock
<1> QED BY <1>1, <1>2, FollowsFacts

LEMMA InstructionFacts ==
  ASSUME NEW n \in Nat, NEW live \in SUBSET Nat
  PROVE  /\ Store(n) \in Instruction
         /\ JumpMark(n, live) \in Instruction /\ AtMark(n, live) \in Instruction
         /\ \A s \in Scope : Run(s) \in Instruction
  BY DEF Store, Run, JumpMark, AtMark, Instruction, Scope

LEMMA MapBlocksFacts ==
  ASSUME NEW f \in Body, NEW g \in [DOMAIN f.blocks -> Block],
         NEW h, h = [f EXCEPT !.blocks = g]
  PROVE  Follows(h, f) /\ h.insert = f.insert
<1>1. /\ Len(f.blocks) \in Nat /\ DOMAIN f.blocks = 1 .. Len(f.blocks)
  BY DEF Body
<1>2. g \in Seq(Block) /\ Len(g) = Len(f.blocks)
  BY <1>1, FunctionSeq
<1> QED BY <1>2, ReplaceBlocksFacts

LEMMA RetargetedFacts ==
  ASSUME NEW term \in Terminator, NEW b, NEW c \in Nat
  PROVE  Retargeted(term, b, c) \in Terminator
<1>1. PICK cases : cases = [k \in DOMAIN term.cases |->
                              IF term.cases[k].block = b
                                THEN [term.cases[k] EXCEPT !.block = c] ELSE term.cases[k]]
  OBVIOUS
<1>2. term.cases \in Seq(Case) /\ Len(term.cases) \in Nat
      /\ DOMAIN term.cases = 1 .. Len(term.cases)
  BY DEF Terminator
<1>3. ASSUME NEW k \in DOMAIN term.cases
      PROVE  /\ term.cases[k] \in Case
             /\ [term.cases[k] EXCEPT !.block = c] \in Case
  <2>1. term.cases[k] \in Case
    BY <1>2, SeqElement
  <2> QED BY <2>1 DEF Case
<1>4. cases \in [1 .. Len(term.cases) -> Case]
  BY <1>1, <1>2, <1>3
<1>5. cases \in Seq(Case)
  BY <1>2, <1>4, FunctionSeq
<1>6. PICK to \in Nat : to = IF term.to = b THEN c ELSE term.to
  BY DEF Terminator
<1>7. Retargeted(term, b, c) = [term EXCEPT !.to = to, !.cases = cases]
  BY <1>1, <1>6 DEF Retargeted
<1> QED BY <1>5, <1>7 DEF Terminator

LEMMA ReplaceAllUsesFacts ==
  ASSUME NEW f \in Body, NEW b, NEW c \in Nat
  PROVE  Follows(ReplaceAllUses(f, b, c), f) /\ ReplaceAllUses(f, b, c).insert = f.insert
<1>1. PICK g : g = [i \in DOMAIN f.blocks |->
                      IF i \in Users(f, b)
                        THEN [f.blocks[i] EXCEPT !.term = Retargeted(f.blocks[i].term, b, c)]
                        ELSE f.blocks[i]]
  OBVIOUS
<1>2. \A i \in DOMAIN f.blocks : f.blocks[i] \in Block
  BY BodyFacts
<1>3. \A i \in DOMAIN f.blocks : Retargeted(f.blocks[i].term, b, c) \in Terminator
  BY <1>2, RetargetedFacts DEF Block
<1>4. \A i \in DOMAIN f.blocks :
        [f.blocks[i] EXCEPT !.term = Retargeted(f.blocks[i].term, b, c)] \in Block
  BY <1>2, <1>3 DEF Block
<1>5. g \in [DOMAIN f.blocks -> Block]
  BY <1>1, <1>2, <1>4
<1>6. ReplaceAllUses(f, b, c) = [f EXCEPT !.blocks = g]
  BY <1>1 DEF ReplaceAllUses
<1> QED BY <1>5, <1>6, MapBlocksFacts

LEMMA DestroyOptimisticEntryFacts ==
  ASSUME NEW f \in Body, NEW entry
  PROVE  Follows(DestroyOptimisticEntry(f, entry), f)
<1>a. Follows(f, f)
  BY DEF Follows, Body
<1> SUFFICES ASSUME entry # 0 PROVE Follows(DestroyOptimisticEntry(f, entry), f)
  BY <1>a DEF DestroyOptimisticEntry
<1>1. PICK r \in Body : r = ReplaceAllUses(f, entry, 0) /\ Follows(r, f)
  BY ReplaceAllUsesFacts DEF Follows
<1>2. PICK g : g = [i \in DOMAIN r.blocks |->
                      IF i = entry THEN Erased
                      ELSE IF i \in Users(f, entry)
                        THEN [r.blocks[i] EXCEPT !.term = WithoutUse(r.blocks[i].term)]
                        ELSE r.blocks[i]]
  OBVIOUS
<1>3. \A i \in DOMAIN r.blocks : r.blocks[i] \in Block
  BY <1>1, BodyFacts
<1>4. ASSUME NEW term \in Terminator PROVE WithoutUse(term) \in Terminator
  <2>1. term.cases \in Seq(Case)
    BY DEF Terminator
  <2>2. Len(term.cases) = 1 => term.cases[1] \in Case
    BY <2>1
  <2>3. Len(term.cases) = 1 => term.cases[1].block \in Nat
    BY <2>2 DEF Case
  <2> QED BY <2>3, TermFacts DEF WithoutUse
<1>5. \A i \in DOMAIN r.blocks :
        [r.blocks[i] EXCEPT !.term = WithoutUse(r.blocks[i].term)] \in Block
  <2> TAKE i \in DOMAIN r.blocks
  <2>1. r.blocks[i] \in Block /\ WithoutUse(r.blocks[i].term) \in Terminator
    BY <1>3, <1>4 DEF Block
  <2> QED BY <2>1 DEF Block
<1>6. g \in [DOMAIN r.blocks -> Block]
  BY <1>2, <1>3, <1>5, NewBlockFacts
<1>7. DestroyOptimisticEntry(f, entry) = [r EXCEPT !.blocks = g]
  BY <1>1, <1>2 DEF DestroyOptimisticEntry
<1>8. Follows(DestroyOptimisticEntry(f, entry), r)
  BY <1>6, <1>7, MapBlocksFacts
<1> QED BY <1>1, <1>8, FollowsFacts

LEMMA RunCleanupFacts ==
  ASSUME NEW f \in Body, NEW s \in Scope
  PROVE  Follows(RunCleanup(f, s), f)
<1>1. Run(s) \in Instruction
  BY InstructionFacts
<1>2. PICK run \in Body : run = EmitInstr(f, Run(s)) /\ Follows(run, f)
  BY <1>1, EmitInstrFacts DEF Follows
<1>3. PICK new \in Body : new = CreateBlock(run) /\ Follows(new, run)
  BY CreateBlockFacts DEF Follows
<1>4. NextBlock(run) \in Nat
  BY BodyFacts
<1>5. Follows(EmitBlock(new, NextBlock(run)), new)
  BY <1>4, EmitBlockFacts
<1>6. Follows(EmitBlock(new, NextBlock(run)), f)
  BY <1>2, <1>3, <1>5, FollowsFacts
<1> QED BY <1>2, <1>3, <1>6 DEF RunCleanup

LEMMA MergedFacts ==
  ASSUME NEW f \in Body, NEW entry \in DOMAIN f.blocks
  PROVE  Follows(Merged(f, entry), f)
<1>1. Follows(f, f)
  BY DEF Follows, Body
<1> SUFFICES ASSUME CanMerge(f, entry) PROVE Follows(Merged(f, entry), f)
  BY <1>1 DEF Merged
<1>2. Users(f, entry) # {}
  BY DEF CanMerge, HasOneUse
<1>3. PICK pred : pred = Predecessor(f, entry)
  OBVIOUS
<1>4. pred \in DOMAIN f.blocks
  BY <1>2, <1>3 DEF Predecessor, Users
<1>5. /\ f.blocks[pred] \in Block /\ f.blocks[entry] \in Block /\ pred \in Nat
      /\ f.insert \in Nat /\ Erased \in Block /\ f.blocks \in Seq(Block)
      /\ Len(f.blocks) \in Nat
  BY <1>4, BodyFacts, NewBlockFacts
<1>6. PICK new : new = [code |-> f.blocks[pred].code \o f.blocks[entry].code,
                        term |-> f.blocks[entry].term]
  OBVIOUS
<1>7. new \in Block
  <2>1. f.blocks[pred].code \o f.blocks[entry].code \in Seq(Instruction)
    BY <1>5, ConcatProperties DEF Block
  <2> QED BY <1>5, <1>6, <2>1 DEF Block
<1>8. PICK one : one = [f.blocks EXCEPT ![pred] = new]
  OBVIOUS
<1>9. one \in Seq(Block) /\ Len(one) = Len(f.blocks)
  <2>1. PICK old \in Seq(Block) : old = f.blocks
    BY <1>5
  <2>2. one = [old EXCEPT ![pred] = new]
    BY <1>8, <2>1
  <2>3. Len(old) \in Nat /\ old \in [1 .. Len(old) -> Block]
    BY <2>1
  <2>4. one \in [1 .. Len(old) -> Block]
    BY <1>7, <2>2, <2>3
  <2>5. one \in Seq(Block) /\ Len(one) = Len(old)
    BY <2>3, <2>4, FunctionSeq
  <2> QED BY <2>1, <2>5
<1>10. PICK two : two = [one EXCEPT ![entry] = Erased]
  OBVIOUS
<1>11. two \in Seq(Block) /\ Len(two) = Len(f.blocks)
  <2>1. Len(one) \in Nat /\ one \in [1 .. Len(one) -> Block]
    BY <1>9
  <2>2. two \in [1 .. Len(one) -> Block]
    BY <1>5, <1>10, <2>1
  <2> QED BY <1>9, <2>1, <2>2, FunctionSeq
<1>12. PICK insert \in Nat : insert = IF f.insert = entry THEN pred ELSE f.insert
  BY <1>5
<1>13. Merged(f, entry) = [blocks |-> two, insert |-> insert]
  BY <1>3, <1>6, <1>8, <1>10, <1>12 DEF Merged
<1> QED BY <1>5, <1>11, <1>13 DEF Follows, Body

-----------------------------------------------------------------------------
(* The operations on branch fixups                                          *)

LEMMA WithCaseFacts ==
  ASSUME NEW term \in Terminator, NEW index \in Nat, NEW block \in Nat
  PROVE  WithCase(term, index, block) \in Terminator
<1>1. PICK c \in Case : c = [index |-> index, block |-> block]
  BY DEF Case
<1>2. term.cases \in Seq(Case) /\ term.to \in Nat
  BY DEF Terminator
<1>3. Append(term.cases, c) \in Seq(Case) /\ <<c>> \in Seq(Case)
  BY <1>2
<1>4. Switch(term.to, <<c>>) \in Terminator
  BY <1>2, <1>3, TermFacts
<1>5. [term EXCEPT !.cases = Append(term.cases, c)] \in Terminator
  BY <1>3 DEF Terminator
<1>6. [term EXCEPT !.kind = "erased"] \in Terminator
  BY DEF Terminator
<1>7. /\ term.kind = "br" => WithCase(term, index, block) = Switch(term.to, <<c>>)
      /\ term.kind = "switch" =>
           WithCase(term, index, block) = [term EXCEPT !.cases = Append(term.cases, c)]
      /\ term.kind \notin {"br", "switch"} =>
           WithCase(term, index, block) = [term EXCEPT !.kind = "erased"]
  BY <1>1 DEF WithCase
<1> QED BY <1>4, <1>5, <1>6, <1>7

LEMMA ResolvedInFacts ==
  ASSUME NEW f \in Body, NEW queue, NEW dest \in JumpDest
  PROVE  Follows(ResolvedIn(f, queue, dest), f)
<1> DEFINE optimistic ==
      {queue[k].optimistic : k \in {j \in DOMAIN queue : queue[j].dest = dest.block}}
<1>1. PICK g : g = [i \in DOMAIN f.blocks |->
                      IF i \in optimistic
                        THEN [f.blocks[i] EXCEPT !.term =
                                WithCase(f.blocks[i].term, dest.index, dest.block)]
                        ELSE f.blocks[i]]
  OBVIOUS
<1>2. \A i \in DOMAIN f.blocks : f.blocks[i] \in Block
  BY BodyFacts
<1>3. dest.index \in Nat /\ dest.block \in Nat
  BY DEF JumpDest
<1>4. \A i \in DOMAIN f.blocks :
        WithCase(f.blocks[i].term, dest.index, dest.block) \in Terminator
  BY <1>2, <1>3, WithCaseFacts DEF Block
<1>5. \A i \in DOMAIN f.blocks :
        [f.blocks[i] EXCEPT !.term = WithCase(f.blocks[i].term, dest.index, dest.block)] \in Block
  BY <1>2, <1>4 DEF Block
<1>6. g \in [DOMAIN f.blocks -> Block]
  <2> HIDE DEF optimistic
  <2> QED BY <1>1, <1>2, <1>5
<1>7. ResolvedIn(f, queue, dest) = [f EXCEPT !.blocks = g]
  BY <1>1 DEF ResolvedIn
<1> QED BY <1>6, <1>7, MapBlocksFacts

LEMMA LeadInFacts ==
  ASSUME NEW f \in Body, NEW queue \in Seq(Fixup), NEW depth \in Nat, NEW entry \in Nat
  PROVE  /\ Follows(LeadIn(f, queue, depth, entry), f)
         /\ LeadIn(f, queue, depth, entry).insert = f.insert
<1>1. PICK direct : direct = {k \in (depth + 1) .. Len(queue) : queue[k].dest # 0 /\ queue[k].optimistic = 0}
  OBVIOUS
<1>2. PICK new : new = [i \in DOMAIN f.blocks |->
                          LET k == CHOOSE j \in direct : queue[j].branch = i
                          IN [code |-> Append(f.blocks[i].code, Store(queue[k].index)), term |-> Br(entry)]]
  OBVIOUS
<1>3. PICK g : g = [i \in DOMAIN f.blocks |->
                      IF \E k \in direct : queue[k].branch = i THEN new[i] ELSE f.blocks[i]]
  OBVIOUS
<1>4. \A i \in DOMAIN f.blocks : f.blocks[i] \in Block
  BY BodyFacts
<1>5. ASSUME NEW i \in DOMAIN f.blocks, \E k \in direct : queue[k].branch = i
      PROVE  new[i] \in Block
  <2>1. PICK k \in direct : k = CHOOSE j \in direct : queue[j].branch = i
    BY <1>5
  <2>2. k \in DOMAIN queue
    BY <1>1
  <2>3. queue[k] \in Fixup
    BY <2>2, SeqElement
  <2>4. Store(queue[k].index) \in Instruction
    BY <2>3, InstructionFacts DEF Fixup
  <2>5. f.blocks[i] \in Block
    BY <1>4
  <2>6. Append(f.blocks[i].code, Store(queue[k].index)) \in Seq(Instruction)
    BY <2>4, <2>5 DEF Block
  <2>7. Br(entry) \in Terminator
    BY TermFacts
  <2>8. new[i] = [code |-> Append(f.blocks[i].code, Store(queue[k].index)), term |-> Br(entry)]
    BY <1>2, <2>1
  <2> QED BY <2>6, <2>7, <2>8 DEF Block
<1>6. g \in [DOMAIN f.blocks -> Block]
  BY <1>3, <1>4, <1>5
<1>7. LeadIn(f, queue, depth, entry) = [f EXCEPT !.blocks = g]
  BY <1>1, <1>2, <1>3 DEF LeadIn
<1> QED BY <1>6, <1>7, MapBlocksFacts

LEMMA SetToSeqFacts ==
  ASSUME NEW S, IsFiniteSet(S)
  PROVE  SetToSeq(S) \in Seq(S)
<1>1. Cardinality(S) \in Nat /\ ExistsBijection(1 .. Cardinality(S), S)
  BY FS_CardinalityType
<1>2. \E f \in [1 .. Cardinality(S) -> S] : IsInjective(f)
  BY <1>1 DEF ExistsBijection, Bijection, Injection
<1>3. SetToSeq(S) \in [1 .. Cardinality(S) -> S]
  BY <1>2 DEF SetToSeq
<1> QED BY <1>1, <1>3, FunctionSeq

LEMMA FixupCasesFacts ==
  ASSUME NEW queue \in Seq(Fixup)
  PROVE  FixupCases(queue) \in Seq(Case)
<1>1. PICK T : T = {j \in DOMAIN queue : queue[j].dest # 0}
  OBVIOUS
<1>2. PICK S : S = {[index |-> queue[k].index, block |-> queue[k].dest] : k \in T}
  OBVIOUS
<1>3. S \subseteq Case
  <2>1. \A k \in T : queue[k] \in Fixup
    BY <1>1, SeqElement
  <2> QED BY <1>2, <2>1 DEF Case, Fixup
<1>4. IsFiniteSet(T)
  <2>1. T \in SUBSET (1 .. Len(queue)) /\ Len(queue) \in Int
    BY <1>1
  <2>2. IsFiniteSet(1 .. Len(queue))
    BY <2>1, FS_Interval
  <2> QED BY <2>1, <2>2, FS_Subset
<1>5. IsFiniteSet(S)
  <2>1. PICK g : g = [k \in T |-> [index |-> queue[k].index, block |-> queue[k].dest]]
    OBVIOUS
  <2>2. g \in Surjection(T, S)
    BY <1>2, <2>1 DEF Surjection
  <2> QED BY <1>4, <2>2, FS_Surjection
<1>6. SetToSeq(S) \in Seq(S)
  BY <1>5, SetToSeqFacts
<1>7. SetToSeq(S) \in Seq(Case)
  BY <1>3, <1>6
<1>8. FixupCases(queue) = SetToSeq(S)
  BY <1>1, <1>2, Zenon DEF FixupCases
<1> QED BY <1>7, <1>8

LEMMA InnermostNormalFacts ==
  ASSUME NEW stack \in Seq(Scope)
  PROVE  /\ InnermostNormal(stack) \in 0 .. Len(stack)
         /\ InnermostNormal(stack) = 0 <=> Normals(stack) = {}
         /\ InnermostNormal(stack) # 0 => InnermostNormal(stack) \in Normals(stack)
         /\ \A i \in Normals(stack) : i <= InnermostNormal(stack)
<1>1. Len(stack) \in Nat /\ Normals(stack) \subseteq 1 .. Len(stack)
  BY DEF Normals
<1>2. PICK S : S = Normals(stack) \cup {0}
  OBVIOUS
<1>3. S \subseteq 0 .. Len(stack) /\ S # {}
  BY <1>1, <1>2
<1>4. Largest(S) \in S /\ \A k \in S : k <= Largest(S)
  BY <1>1, <1>3, LargestFacts
<1>5. PICK n : n = InnermostNormal(stack)
  OBVIOUS
<1>6. n = Largest(S)
  BY <1>2, <1>5 DEF InnermostNormal
<1>7. n \in S /\ n \in 0 .. Len(stack) /\ \A k \in S : k <= n
  BY <1>3, <1>4, <1>6
<1>8. \A i \in Normals(stack) : i \in S /\ i # 0
  BY <1>1, <1>2
<1>9. n # 0 => n \in Normals(stack)
  BY <1>2, <1>7
<1>10. n = 0 => Normals(stack) = {}
  BY <1>1, <1>7, <1>8
<1>11. Normals(stack) = {} => n = 0
  BY <1>9
<1> QED BY <1>5, <1>7, <1>8, <1>9, <1>10, <1>11

(* Null fixups are only taken from above the depth of the innermost scope.  *)
LEMMA PopNullFixupsFacts ==
  ASSUME NEW stack \in Seq(Scope), NEW queue \in Seq(Fixup),
         InnermostNormal(stack) # 0,
         stack[InnermostNormal(stack)].fixupDepth <= Len(queue)
  PROVE  /\ PopNullFixups(stack, queue) \in Seq(Fixup)
         /\ Len(PopNullFixups(stack, queue)) <= Len(queue)
         /\ stack[InnermostNormal(stack)].fixupDepth <= Len(PopNullFixups(stack, queue))
<1>1. PICK d \in Nat : d = stack[InnermostNormal(stack)].fixupDepth
  <2>1. InnermostNormal(stack) \in DOMAIN stack
    BY InnermostNormalFacts DEF Normals
  <2>2. stack[InnermostNormal(stack)] \in Scope
    BY <2>1, SeqElement
  <2> QED BY <2>2 DEF Scope
<1>2. PICK S : S = {d} \cup {k \in DOMAIN queue : queue[k].dest # 0}
  OBVIOUS
<1>3. Len(queue) \in Nat /\ d <= Len(queue) /\ DOMAIN queue = 1 .. Len(queue)
  BY <1>1
<1>4. S \subseteq 0 .. Len(queue) /\ S # {} /\ d \in S
  BY <1>2, <1>3
<1>5. Largest(S) \in 0 .. Len(queue) /\ d <= Largest(S)
  BY <1>3, <1>4, LargestFacts
<1>6. PopNullFixups(stack, queue) = SubSeq(queue, 1, Largest(S))
  BY <1>1, <1>2 DEF PopNullFixups
<1>7. /\ SubSeq(queue, 1, Largest(S)) \in Seq(Fixup)
      /\ Len(SubSeq(queue, 1, Largest(S))) = Largest(S)
  BY <1>5, PrefixSeq
<1> QED BY <1>1, <1>3, <1>5, <1>6, <1>7

(* Every normal scope was pushed when there were no more fixups than there  *)
(* are, nor than when a scope inside of it was pushed.                      *)
Fits(stack, queue) ==
  /\ queue # << >> => InnermostNormal(stack) # 0
  /\ \A i \in Normals(stack) : stack[i].fixupDepth <= Len(queue)
  /\ \A i, j \in Normals(stack) : i <= j => stack[i].fixupDepth <= stack[j].fixupDepth

LEMMA FitsTrimmed ==
  ASSUME NEW stack \in Seq(Scope), NEW queue \in Seq(Fixup), Fits(stack, queue),
         InnermostNormal(stack) # 0
  PROVE  /\ PopNullFixups(stack, queue) \in Seq(Fixup)
         /\ Len(PopNullFixups(stack, queue)) <= Len(queue)
         /\ Fits(stack, PopNullFixups(stack, queue))
<1>1. InnermostNormal(stack) \in Normals(stack)
  BY InnermostNormalFacts
<1>2. PICK rest : rest = PopNullFixups(stack, queue)
  OBVIOUS
<1>3. /\ rest \in Seq(Fixup) /\ Len(rest) <= Len(queue)
      /\ stack[InnermostNormal(stack)].fixupDepth <= Len(rest)
  BY <1>1, <1>2, PopNullFixupsFacts DEF Fits
<1>4. ASSUME NEW i \in Normals(stack) PROVE stack[i].fixupDepth <= Len(rest)
  <2>1. stack[i].fixupDepth <= stack[InnermostNormal(stack)].fixupDepth
    BY <1>1, InnermostNormalFacts DEF Fits
  <2>2. stack[i] \in Scope /\ stack[InnermostNormal(stack)] \in Scope
    BY <1>1, SeqElement DEF Normals
  <2>3. /\ stack[i].fixupDepth \in Nat
        /\ stack[InnermostNormal(stack)].fixupDepth \in Nat
    BY <2>2 DEF Scope
  <2>4. Len(rest) \in Nat
    BY <1>3
  <2> QED BY <1>3, <2>1, <2>3, <2>4
<1> QED BY <1>2, <1>3, <1>4 DEF Fits

(* Scopes with the same kinds and depths fit the same fixups.               *)
Alike(t, s) ==
  /\ Len(t) = Len(s)
  /\ \A i \in DOMAIN s : t[i].kind = s[i].kind /\ t[i].fixupDepth = s[i].fixupDepth

LEMMA AlikeFacts ==
  ASSUME NEW s \in Seq(Scope), NEW t \in Seq(Scope), Alike(t, s)
  PROVE  /\ Normals(t) = Normals(s)
         /\ InnermostNormal(t) = InnermostNormal(s)
         /\ \A queue : Fits(s, queue) => Fits(t, queue)
<1>1. DOMAIN t = DOMAIN s
  BY DEF Alike
<1>2. Normals(t) = Normals(s)
  BY <1>1 DEF Normals, Alike
<1>3. InnermostNormal(t) = InnermostNormal(s)
  BY <1>2 DEF InnermostNormal
<1>4. \A i \in Normals(s) : t[i].fixupDepth = s[i].fixupDepth
  BY DEF Normals, Alike
<1> QED BY <1>2, <1>3, <1>4 DEF Fits

-----------------------------------------------------------------------------
(* The operations on scopes                                                 *)

BlocksExist(stack, f) == \A i \in DOMAIN stack : stack[i].block \in 0 .. Len(f.blocks)

(* Every branch through the outermost normal scope ends behind it, which is *)
(* why its cleanup never has to lead into another one (the assertion at     *)
(* CGCleanup.cpp:694).                                                      *)
EndsBranches(s) == IsFiniteSet(s.branches) /\ Len(s.afters) = Cardinality(s.branches)

OutermostEndsBranches(stack) ==
  \A i \in Normals(stack) : (\A j \in Normals(stack) : i <= j) => EndsBranches(stack[i])

LEMMA BlocksExistFacts ==
  ASSUME NEW f \in Body, NEW g, Follows(g, f), NEW stack, BlocksExist(stack, f)
  PROVE  BlocksExist(stack, g)
<1>1. Len(f.blocks) \in Nat /\ Len(g.blocks) \in Nat /\ Len(f.blocks) <= Len(g.blocks)
  BY BodyFacts DEF Follows
<1> QED BY <1>1 DEF BlocksExist

LEMMA EntryFacts ==
  ASSUME NEW f \in Body, NEW stack \in Seq(Scope), NEW i \in DOMAIN stack,
         BlocksExist(stack, f), OutermostEndsBranches(stack)
  PROVE  /\ Follows(WithEntry(f, stack, i), f)
         /\ WithEntry(f, stack, i).insert = f.insert
         /\ EntryOf(f, stack, i) \in Nat
         /\ EntryOf(f, stack, i) \in DOMAIN WithEntry(f, stack, i).blocks
         /\ Entered(f, stack, i) \in Seq(Scope)
         /\ Alike(Entered(f, stack, i), stack)
         /\ BlocksExist(Entered(f, stack, i), WithEntry(f, stack, i))
         /\ OutermostEndsBranches(Entered(f, stack, i))
<1>1. stack[i] \in Scope /\ stack[i].block \in 0 .. Len(f.blocks)
  BY SeqElement DEF BlocksExist
<1>2. PICK g : g = WithEntry(f, stack, i)
  OBVIOUS
<1>3. PICK entry : entry = EntryOf(f, stack, i)
  OBVIOUS
<1>4. Follows(f, f) /\ DOMAIN f.blocks = 1 .. Len(f.blocks) /\ Len(f.blocks) \in Nat
  BY DEF Follows, Body
<1>5. Follows(g, f) /\ g.insert = f.insert /\ entry \in Nat /\ entry \in DOMAIN g.blocks
  <2>1. CASE stack[i].block # 0
    <3>1. g = f /\ entry = stack[i].block
      BY <1>2, <1>3, <2>1 DEF WithEntry, EntryOf
    <3> QED BY <1>1, <1>4, <2>1, <3>1
  <2>2. CASE stack[i].block = 0
    <3>1. g = CreateBlock(f) /\ entry = NextBlock(f)
      BY <1>2, <1>3, <2>2 DEF WithEntry, EntryOf
    <3>2. NextBlock(f) \in Nat
      BY BodyFacts
    <3> QED BY <3>1, <3>2, CreateBlockFacts
  <2> QED BY <2>1, <2>2
<1>6. PICK new : new = [stack[i] EXCEPT !.block = entry]
  OBVIOUS
<1>7. new \in Scope /\ new.block = entry /\ new.kind = stack[i].kind
      /\ new.fixupDepth = stack[i].fixupDepth
      /\ new.branches = stack[i].branches /\ new.afters = stack[i].afters
  BY <1>1, <1>5, <1>6 DEF Scope
<1>8. PICK t : t = Entered(f, stack, i)
  OBVIOUS
<1>9. t = [stack EXCEPT ![i] = new]
  BY <1>3, <1>6, <1>8 DEF Entered
<1>10. /\ Len(stack) \in Nat /\ stack \in [1 .. Len(stack) -> Scope]
       /\ DOMAIN stack = 1 .. Len(stack)
  OBVIOUS
<1>11. t \in [1 .. Len(stack) -> Scope]
  BY <1>7, <1>9, <1>10
<1>12. t \in Seq(Scope) /\ Len(t) = Len(stack)
  BY <1>10, <1>11, FunctionSeq
<1>13. \A k \in DOMAIN stack : t[k] = IF k = i THEN new ELSE stack[k]
  BY <1>9
<1>14. Alike(t, stack)
  BY <1>7, <1>12, <1>13 DEF Alike
<1>15. BlocksExist(t, g)
  <2>1. DOMAIN t = DOMAIN stack
    BY <1>10, <1>11
  <2>2. BlocksExist(stack, g)
    BY <1>5, BlocksExistFacts
  <2>3. DOMAIN g.blocks = 1 .. Len(g.blocks) /\ Len(g.blocks) \in Nat
    BY <1>5 DEF Follows, Body
  <2> QED BY <1>5, <1>7, <1>13, <2>1, <2>2, <2>3 DEF BlocksExist
<1>16. OutermostEndsBranches(t)
  <2>1. Normals(t) = Normals(stack)
    BY <1>12, <1>14, AlikeFacts
  <2>2. \A k \in Normals(stack) : EndsBranches(stack[k]) => EndsBranches(t[k])
    BY <1>7, <1>13 DEF EndsBranches, Normals
  <2> QED BY <2>1, <2>2 DEF OutermostEndsBranches
<1> QED BY <1>2, <1>3, <1>5, <1>8, <1>12, <1>14, <1>15, <1>16

LEMMA LiveFacts ==
  ASSUME NEW stack \in Seq(Scope)
  PROVE  Live(stack) \in SUBSET Nat
<1>1. \A i \in Normals(stack) : stack[i].id \in Nat
  <2> TAKE i \in Normals(stack)
  <2>1. stack[i] \in Scope
    BY SeqElement DEF Normals
  <2> QED BY <2>1 DEF Scope
<1> QED BY <1>1 DEF Live

LEMMA DestFacts ==
  ASSUME scopes \in Seq(Scope)
  PROVE  /\ \A b, n \in Nat : DestHere(b, n) \in JumpDest
         /\ NoDest \in JumpDest
<1>1. InnermostNormal(scopes) \in Nat
  BY InnermostNormalFacts
<1> QED BY <1>1 DEF DestHere, NoDest, JumpDest

LEMMA IfThenFacts ==
  ASSUME NEW f \in Body, NEW conditional \in BOOLEAN
  PROVE  Follows(IfThen(f, conditional), f)
<1>1. Follows(f, f)
  BY DEF Follows, Body
<1> SUFFICES ASSUME conditional PROVE Follows(IfThen(f, conditional), f)
  BY <1>1 DEF IfThen
<1>2. PICK then \in Nat : then = NextBlock(f)
  BY BodyFacts
<1>3. PICK one \in Body : one = CreateBlock(f) /\ Follows(one, f)
  BY CreateBlockFacts DEF Follows
<1>4. PICK two \in Body : two = CreateBlock(one) /\ Follows(two, one)
  BY CreateBlockFacts DEF Follows
<1>5. CondBr(then, then + 1) \in Terminator
  BY TermFacts
<1>6. PICK three \in Body :
        three = SetTerm(two, f.insert, CondBr(then, then + 1)) /\ Follows(three, two)
  BY <1>5, SetTermFacts DEF Follows
<1>7. Follows(SetInsertPoint(three, then), three)
  BY SetInsertPointFacts
<1>8. IfThen(f, conditional) = SetInsertPoint(three, then)
  BY <1>2, <1>3, <1>4, <1>6 DEF IfThen
<1> QED BY <1>3, <1>4, <1>6, <1>7, <1>8, FollowsFacts

(* Scopes that change neither in number nor in kind and depth.              *)
LEMMA MapScopesFacts ==
  ASSUME NEW stack \in Seq(Scope), NEW new \in [DOMAIN stack -> Scope],
         \A i \in DOMAIN stack : /\ new[i].kind = stack[i].kind
                                 /\ new[i].fixupDepth = stack[i].fixupDepth
                                 /\ new[i].block = stack[i].block
  PROVE  /\ new \in Seq(Scope) /\ Alike(new, stack)
         /\ \A f : BlocksExist(stack, f) => BlocksExist(new, f)
<1>1. Len(stack) \in Nat /\ DOMAIN stack = 1 .. Len(stack)
  OBVIOUS
<1>2. new \in Seq(Scope) /\ Len(new) = Len(stack) /\ DOMAIN new = DOMAIN stack
  BY <1>1, FunctionSeq
<1> QED BY <1>2 DEF Alike, BlocksExist

Telling(dest) == [i \in DOMAIN scopes |-> IF IsTold(i, dest) THEN Told(i, dest) ELSE scopes[i]]

LEMMA ToldFacts ==
  ASSUME scopes \in Seq(Scope), NEW dest \in JumpDest, NEW i \in DOMAIN scopes
  PROVE  /\ Told(i, dest) \in Scope
         /\ Told(i, dest).kind = scopes[i].kind
         /\ Told(i, dest).fixupDepth = scopes[i].fixupDepth
         /\ Told(i, dest).block = scopes[i].block
         /\ i = Outermost(Left(dest)) /\ EndsBranches(scopes[i]) => EndsBranches(Told(i, dest))
<1>1. PICK s \in Scope : s = scopes[i]
  BY SeqElement
<1>2. CASE dest.block \in s.branches
  <2>1. Told(i, dest) = s
    BY <1>1, <1>2 DEF Told
  <2> QED BY <1>1, <2>1
<1>3. CASE dest.block \notin s.branches
  <2>1. dest.index \in Nat /\ dest.block \in Nat
    BY DEF JumpDest
  <2>2. PICK c \in Case : c = [index |-> dest.index, block |-> dest.block]
    BY <2>1 DEF Case
  <2>3. PICK branches : branches = s.branches \cup {dest.block}
    OBVIOUS
  <2>4. PICK afters : afters = IF i = Outermost(Left(dest)) THEN Append(s.afters, c) ELSE s.afters
    OBVIOUS
  <2>5. s.afters \in Seq(Case) /\ s.branches \in SUBSET Nat
    BY DEF Scope
  <2>6. afters \in Seq(Case) /\ branches \in SUBSET Nat
    BY <2>1, <2>2, <2>3, <2>4, <2>5
  <2>7. Told(i, dest) = [s EXCEPT !.branches = branches, !.afters = afters]
    BY <1>1, <1>3, <2>2, <2>3, <2>4 DEF Told
  <2>8. /\ Told(i, dest) \in Scope /\ Told(i, dest).kind = s.kind
        /\ Told(i, dest).fixupDepth = s.fixupDepth /\ Told(i, dest).block = s.block
        /\ Told(i, dest).branches = branches /\ Told(i, dest).afters = afters
    BY <2>6, <2>7 DEF Scope
  <2>9. ASSUME i = Outermost(Left(dest)), EndsBranches(s)
        PROVE  EndsBranches(Told(i, dest))
    <3>1. /\ IsFiniteSet(branches)
          /\ Cardinality(branches) = Cardinality(s.branches) + 1
      BY <1>3, <2>3, <2>9, FS_AddElement DEF EndsBranches
    <3>2. Len(afters) = Len(s.afters) + 1
      BY <2>4, <2>5, <2>9
    <3> QED BY <2>8, <2>9, <3>1, <3>2 DEF EndsBranches
  <2> QED BY <1>1, <2>8, <2>9
<1> QED BY <1>2, <1>3

LEMMA TellingFacts ==
  ASSUME scopes \in Seq(Scope), NEW dest \in JumpDest, OutermostEndsBranches(scopes)
  PROVE  /\ Telling(dest) \in Seq(Scope)
         /\ Alike(Telling(dest), scopes)
         /\ \A f : BlocksExist(scopes, f) => BlocksExist(Telling(dest), f)
         /\ OutermostEndsBranches(Telling(dest))
<1>1. PICK new : new = Telling(dest)
  OBVIOUS
<1>2. \A i \in DOMAIN scopes : new[i] = IF IsTold(i, dest) THEN Told(i, dest) ELSE scopes[i]
  BY <1>1 DEF Telling
<1>3. \A i \in DOMAIN scopes : scopes[i] \in Scope
  BY SeqElement
<1>4. new \in [DOMAIN scopes -> Scope]
  <2>1. \A i \in DOMAIN scopes : Told(i, dest) \in Scope
    BY ToldFacts
  <2> QED BY <1>1, <1>3, <2>1 DEF Telling
<1>5. \A i \in DOMAIN scopes : /\ new[i].kind = scopes[i].kind
                               /\ new[i].fixupDepth = scopes[i].fixupDepth
                               /\ new[i].block = scopes[i].block
  BY <1>2, ToldFacts
<1>6. /\ new \in Seq(Scope) /\ Alike(new, scopes)
      /\ \A f : BlocksExist(scopes, f) => BlocksExist(new, f)
  BY <1>4, <1>5, MapScopesFacts
<1>7. ASSUME NEW i \in Normals(scopes), \A j \in Normals(scopes) : i <= j
      PROVE  EndsBranches(new[i])
  <2>1. i \in DOMAIN scopes /\ EndsBranches(scopes[i])
    BY <1>7 DEF OutermostEndsBranches, Normals
  <2>2. CASE IsTold(i, dest)
    <3>1. i \in Left(dest) /\ Left(dest) \subseteq Normals(scopes)
      BY <2>2 DEF IsTold, Left
    <3>2. \A j, k \in Left(dest) : j <= k /\ k <= j => j = k
      <4>1. Normals(scopes) \subseteq Nat
        BY DEF Normals
      <4> QED BY <3>1, <4>1
    <3>3. i = Outermost(Left(dest))
      BY <1>7, <3>1, <3>2 DEF Outermost
    <3>4. EndsBranches(Told(i, dest))
      BY <2>1, <3>3, ToldFacts
    <3> QED BY <1>2, <2>1, <2>2, <3>4
  <2>3. CASE ~IsTold(i, dest)
    BY <1>2, <2>1, <2>3
  <2> QED BY <2>2, <2>3
<1>8. Normals(new) = Normals(scopes)
  BY <1>6, AlikeFacts
<1>9. OutermostEndsBranches(new)
  BY <1>7, <1>8 DEF OutermostEndsBranches
<1> QED BY <1>1, <1>6, <1>9

-----------------------------------------------------------------------------
(* Popping a scope                                                          *)

LEMMA FrontFacts ==
  ASSUME NEW stack \in Seq(Scope), stack # << >>
  PROVE  /\ Front(stack) \in Seq(Scope) /\ Last(stack) \in Scope
         /\ Last(stack) = stack[Len(stack)] /\ Len(stack) \in DOMAIN stack
         /\ \A i \in DOMAIN Front(stack) : i \in DOMAIN stack /\ Front(stack)[i] = stack[i]
         /\ Normals(Front(stack)) = Normals(stack) \ {Len(stack)}
<1>1. /\ Len(stack) \in Nat \ {0} /\ Last(stack) = stack[Len(stack)] /\ Last(stack) \in Scope
      /\ Front(stack) \in Seq(Scope) /\ Len(Front(stack)) = Len(stack) - 1
      /\ \A i \in 1 .. Len(stack) - 1 : Front(stack)[i] = stack[i]
  BY LastFront
<1>2. DOMAIN stack = 1 .. Len(stack) /\ DOMAIN Front(stack) = 1 .. Len(stack) - 1
  BY <1>1
<1>3. Len(stack) \in DOMAIN stack
  BY <1>1, <1>2
<1>4. \A i : i \in DOMAIN Front(stack) <=> i \in DOMAIN stack /\ i # Len(stack)
  BY <1>1, <1>2
<1>5. \A i \in DOMAIN Front(stack) : Front(stack)[i] = stack[i]
  BY <1>1, <1>2
<1>6. Normals(Front(stack)) = Normals(stack) \ {Len(stack)}
  BY <1>4, <1>5 DEF Normals
<1> QED BY <1>1, <1>3, <1>4, <1>5, <1>6

(* The scopes that are left are in order with what becomes of the fixups.   *)
LEMMA FixupsAfterPopFacts ==
  ASSUME NEW stack \in Seq(Scope), stack # << >>, NEW queue \in Seq(Fixup), Fits(stack, queue)
  PROVE  /\ FixupsAfterPop(Front(stack), queue) \in Seq(Fixup)
         /\ Len(FixupsAfterPop(Front(stack), queue)) <= Len(queue)
         /\ Fits(Front(stack), FixupsAfterPop(Front(stack), queue))
<1>1. PICK rest \in Seq(Scope) :
        /\ rest = Front(stack) /\ Normals(rest) \subseteq Normals(stack)
        /\ \A i \in Normals(rest) : rest[i] = stack[i]
  BY FrontFacts DEF Normals
<1>2. Len(queue) \in Nat
  OBVIOUS
<1>3. CASE queue = << >> \/ InnermostNormal(rest) = 0
  <2>1. FixupsAfterPop(rest, queue) = << >>
    BY <1>3 DEF FixupsAfterPop
  <2>2. << >> \in Seq(Fixup) /\ Len(<< >>) = 0
    OBVIOUS
  <2>3. \A i \in Normals(rest) : rest[i].fixupDepth <= 0
    <3>1. InnermostNormal(rest) = 0 => Normals(rest) = {}
      BY InnermostNormalFacts
    <3>2. queue = << >> => \A i \in Normals(rest) : rest[i].fixupDepth <= 0
      BY <1>1, <2>2 DEF Fits
    <3> QED BY <1>3, <3>1, <3>2
  <2>4. Fits(rest, << >>)
    BY <1>1, <2>2, <2>3 DEF Fits
  <2> QED BY <1>1, <1>2, <2>1, <2>2, <2>4
<1>4. CASE queue # << >> /\ InnermostNormal(rest) # 0
  <2>1. FixupsAfterPop(rest, queue) = PopNullFixups(rest, queue)
    BY <1>4 DEF FixupsAfterPop
  <2>2. Fits(rest, queue)
    BY <1>1, <1>4 DEF Fits
  <2> QED BY <1>1, <1>4, <2>1, <2>2, FitsTrimmed
<1> QED BY <1>3, <1>4

LEMMA RestFacts ==
  ASSUME NEW stack \in Seq(Scope), stack # << >>, NEW f, BlocksExist(stack, f),
         OutermostEndsBranches(stack)
  PROVE  /\ BlocksExist(Front(stack), f)
         /\ OutermostEndsBranches(Front(stack))
<1>1. BlocksExist(Front(stack), f)
  BY FrontFacts DEF BlocksExist
<1>2. ASSUME NEW i \in Normals(Front(stack)), \A j \in Normals(Front(stack)) : i <= j
      PROVE  EndsBranches(Front(stack)[i])
  <2>1. i \in Normals(stack) /\ Front(stack)[i] = stack[i] /\ i <= Len(stack)
    <3>1. i \in Normals(stack) /\ i \in DOMAIN Front(stack)
      BY FrontFacts DEF Normals
    <3>2. i \in 1 .. Len(stack)
      BY <3>1 DEF Normals
    <3> QED BY <3>1, <3>2, FrontFacts
  <2>2. \A j \in Normals(stack) : i <= j
    BY <1>2, <2>1, FrontFacts
  <2> QED BY <2>1, <2>2 DEF OutermostEndsBranches
<1> QED BY <1>1, <1>2 DEF OutermostEndsBranches

(* What the fixups are does not matter, only how many.                      *)
LEMMA FitsMapped ==
  ASSUME NEW stack, NEW queue \in Seq(Fixup), Fits(stack, queue),
         NEW new \in [DOMAIN queue -> Fixup]
  PROVE  new \in Seq(Fixup) /\ Len(new) = Len(queue) /\ Fits(stack, new)
<1>1. Len(queue) \in Nat /\ DOMAIN queue = 1 .. Len(queue)
  OBVIOUS
<1>2. new \in Seq(Fixup) /\ Len(new) = Len(queue)
  BY <1>1, FunctionSeq
<1>3. new # << >> => queue # << >>
  BY <1>2
<1> QED BY <1>2, <1>3 DEF Fits

-----------------------------------------------------------------------------
(* The inductive invariant                                                  *)

Consistent(stack, queue, f) ==
  /\ stack \in Seq(Scope) /\ queue \in Seq(Fixup) /\ f \in Body
  /\ BlocksExist(stack, f)
  /\ Fits(stack, queue)
  /\ OutermostEndsBranches(stack)

(* A fixup comes from a jump, which is why their number stays below what a  *)
(* fixup depth can hold.                                                    *)
IInv ==
  /\ TypeOK
  /\ Consistent(scopes, fixups, ir)
  /\ closing => frames # << >>
  /\ Len(fixups) <= counts.jumps
  /\ counts.jumps <= MaxJumps

LEMMA ConsistentFollows ==
  ASSUME NEW stack, NEW queue, NEW f, Consistent(stack, queue, f), NEW g, Follows(g, f)
  PROVE  Consistent(stack, queue, g)
<1>1. BlocksExist(stack, g)
  BY BlocksExistFacts DEF Consistent
<1> QED BY <1>1 DEF Consistent, Follows

LEMMA BranchThroughCleanupFacts ==
  ASSUME Consistent(scopes, fixups, ir), NEW f, Follows(f, ir), NEW dest \in JumpDest,
         BranchThroughCleanup(f, dest)
  PROVE  /\ Consistent(scopes', fixups', ir')
         /\ Len(fixups') <= Len(fixups) + 1
<1>1. /\ scopes \in Seq(Scope) /\ fixups \in Seq(Fixup) /\ f \in Body /\ ir \in Body
      /\ f.insert \in Nat
  BY BodyFacts DEF Consistent, Follows
<1>2. /\ dest.index \in Nat /\ dest.block \in Nat
      /\ JumpMark(dest.index, Live(scopes)) \in Instruction
      /\ Store(dest.index) \in Instruction
      /\ Br(dest.block) \in Terminator
  BY <1>1, LiveFacts, InstructionFacts, TermFacts DEF JumpDest
<1>3. PICK marked \in Body :
        marked = EmitInstr(f, JumpMark(dest.index, Live(scopes))) /\ Follows(marked, f)
  BY <1>1, <1>2, EmitInstrFacts DEF Follows
<1>4. PICK threads \in BOOLEAN : threads = (~IsDirect(dest) /\ dest.valid)
  OBVIOUS
<1>5. PICK insert \in Nat : insert = IF f.insert = ir.insert THEN 0 ELSE f.insert + 1
  BY <1>1
<1>6. CASE threads
  <2>1. PICK top : top = InnermostNormal(scopes)
    OBVIOUS
  <2>2. top \in DOMAIN scopes
    BY <1>1, <1>4, <1>6, <2>1, InnermostNormalFacts DEF IsDirect, Normals
  <2>3. PICK stored \in Body : stored = EmitInstr(marked, Store(dest.index)) /\ Follows(stored, marked)
    BY <1>2, EmitInstrFacts DEF Follows
  <2>4. Follows(stored, ir) /\ BlocksExist(scopes, stored)
    <3>1. Follows(stored, ir)
      BY <1>1, <1>3, <2>3, FollowsFacts
    <3> QED BY <1>1, <3>1, BlocksExistFacts DEF Consistent
  <2>5. PICK told : told = Telling(dest)
    OBVIOUS
  <2>6. /\ told \in Seq(Scope) /\ Alike(told, scopes) /\ BlocksExist(told, stored)
        /\ OutermostEndsBranches(told) /\ top \in DOMAIN told
        /\ told[top].block = scopes[top].block
    <3>1. /\ told \in Seq(Scope) /\ Alike(told, scopes) /\ BlocksExist(told, stored)
          /\ OutermostEndsBranches(told)
      BY <1>1, <2>4, <2>5, TellingFacts DEF Consistent
    <3>2. DOMAIN told = DOMAIN scopes
      BY <2>5 DEF Telling
    <3>3. told[top].block = scopes[top].block
      <4>1. told[top] = IF IsTold(top, dest) THEN Told(top, dest) ELSE scopes[top]
        BY <2>2, <2>5 DEF Telling
      <4> QED BY <1>1, <2>2, <4>1, ToldFacts
    <3> QED BY <2>2, <3>1, <3>2, <3>3
  <2>7. /\ EntryOf(stored, told, top) = EntryOf(stored, scopes, top)
        /\ EntryOf(stored, told, top) = EntryOf(f, told, top)
        /\ EntryOf(f, scopes, top) = EntryOf(f, told, top)
        /\ WithEntry(stored, told, top) = WithEntry(stored, scopes, top)
    <3>1. Len(stored.blocks) = Len(f.blocks)
      BY <1>1, <1>2, <1>3, <2>3, EmitInstrFacts
    <3> QED BY <2>6, <3>1 DEF EntryOf, WithEntry, NextBlock
  <2>8. PICK t, g : t = Entered(f, told, top) /\ g = WithEntry(stored, scopes, top)
    OBVIOUS
  <2>9. t = Entered(stored, told, top) /\ g = WithEntry(stored, told, top)
    BY <2>7, <2>8 DEF Entered
  <2>10. /\ Follows(g, stored) /\ t \in Seq(Scope) /\ Alike(t, told) /\ BlocksExist(t, g)
         /\ OutermostEndsBranches(t) /\ EntryOf(stored, told, top) \in Nat
    BY <2>6, <2>9, EntryFacts
  <2>11. PICK target \in Nat : target = EntryOf(f, scopes, top)
    BY <2>7, <2>10
  <2>12. Br(target) \in Terminator /\ g \in Body
    BY <2>10, <2>11, TermFacts DEF Follows
  <2>13. PICK branched \in Body :
           branched = SetTerm(g, f.insert, Br(target)) /\ Follows(branched, g)
    BY <2>12, SetTermFacts DEF Follows
  <2>14. PICK last \in Body : last = SetInsertPoint(branched, insert) /\ Follows(last, branched)
    BY SetInsertPointFacts DEF Follows
  <2>15. Follows(last, g)
    BY <2>12, <2>13, <2>14, FollowsFacts
  <2>16. /\ ir' = last /\ scopes' = t /\ fixups' = fixups
    <3>1. /\ ir' = SetInsertPoint(SetTerm(WithEntry(EmitInstr(marked, Store(dest.index)), scopes, top),
                                          f.insert, Br(EntryOf(f, scopes, top))), insert)
          /\ scopes' = Entered(f, Telling(dest), top) /\ fixups' = fixups
      BY <1>3, <1>4, <1>5, <1>6, <2>1 DEF BranchThroughCleanup, Telling
    <3> QED BY <2>3, <2>5, <2>8, <2>11, <2>13, <2>14, <3>1
  <2>17. Fits(t, fixups)
    <3>1. Fits(told, fixups)
      BY <1>1, <2>6, AlikeFacts DEF Consistent
    <3> QED BY <2>6, <2>10, <3>1, AlikeFacts
  <2>18. BlocksExist(t, last)
    BY <2>10, <2>12, <2>15, BlocksExistFacts
  <2>19. Consistent(t, fixups, last)
    BY <1>1, <2>10, <2>17, <2>18 DEF Consistent
  <2>20. Len(fixups) \in Nat
    BY <1>1
  <2> QED BY <2>16, <2>19, <2>20
<1>7. CASE ~threads
  <2>1. PICK branched \in Body :
          branched = SetTerm(marked, f.insert, Br(dest.block)) /\ Follows(branched, marked)
    BY <1>2, SetTermFacts DEF Follows
  <2>2. PICK last \in Body : last = SetInsertPoint(branched, insert) /\ Follows(last, branched)
    BY SetInsertPointFacts DEF Follows
  <2>3. Follows(last, f)
    BY <1>1, <1>3, <2>1, <2>2, FollowsFacts
  <2>4. Follows(last, ir)
    BY <1>1, <2>3, FollowsFacts
  <2>5. Consistent(scopes, fixups, last)
    BY <2>4, ConsistentFollows
  <2>6. /\ ir' = last /\ scopes' = scopes
    BY <1>3, <1>4, <1>5, <1>7, <2>1, <2>2 DEF BranchThroughCleanup
  <2>7. CASE ~IsDirect(dest) /\ ~dest.valid
    <3>1. PICK new \in Fixup : new = [dest |-> dest.block, index |-> dest.index,
                                     branch |-> f.insert, optimistic |-> 0]
      BY <1>1, <1>2 DEF Fixup
    <3>2. PICK queue : queue = Append(fixups, new)
      OBVIOUS
    <3>3. queue \in Seq(Fixup) /\ Len(queue) = Len(fixups) + 1 /\ Len(fixups) \in Nat
      BY <1>1, <3>2
    <3>4. fixups' = queue
      BY <2>7, <3>1, <3>2 DEF BranchThroughCleanup
    <3>5. InnermostNormal(scopes) # 0
      BY <2>7 DEF IsDirect
    <3>6. \A i \in Normals(scopes) : scopes[i].fixupDepth \in Nat
      <4> TAKE i \in Normals(scopes)
      <4>1. scopes[i] \in Scope
        BY <1>1, SeqElement DEF Normals
      <4> QED BY <4>1 DEF Scope
    <3>7. \A i \in Normals(scopes) : scopes[i].fixupDepth <= Len(queue)
      BY <2>5, <3>3, <3>6 DEF Consistent, Fits
    <3>8. Fits(scopes, queue)
      BY <2>5, <3>5, <3>7 DEF Consistent, Fits
    <3>9. Consistent(scopes, queue, last)
      BY <2>5, <3>3, <3>8 DEF Consistent
    <3> QED BY <2>6, <3>3, <3>4, <3>9
  <2>8. CASE IsDirect(dest) \/ dest.valid
    <3>1. fixups' = fixups /\ Len(fixups) \in Nat
      BY <1>1, <2>8 DEF BranchThroughCleanup
    <3> QED BY <2>5, <2>6, <3>1
  <2> QED BY <2>7, <2>8
<1> QED BY <1>6, <1>7

LEMMA CountFacts ==
  ASSUME TypeOK, NEW what \in {"cleanups", "scopes", "jumps"}
  PROVE  /\ Count(what) \in [cleanups : Nat, scopes : Nat, jumps : Nat, statements : Nat]
         /\ Count(what).jumps = IF what = "jumps" THEN counts.jumps + 1 ELSE counts.jumps
<1>1. /\ counts.cleanups \in Nat /\ counts.scopes \in Nat /\ counts.jumps \in Nat
      /\ counts.statements \in Nat
      /\ counts = [cleanups |-> counts.cleanups, scopes |-> counts.scopes,
                   jumps |-> counts.jumps, statements |-> counts.statements]
  BY DEF TypeOK
<1>2. CASE what = "cleanups"
  <2>1. Count(what) = [cleanups |-> counts.cleanups + 1, scopes |-> counts.scopes,
                       jumps |-> counts.jumps, statements |-> counts.statements + 1]
    <3>1. Count("cleanups") = [counts EXCEPT !.statements = counts.statements + 1,
                                       !.cleanups = counts.cleanups + 1]
      BY DEF Count
    <3> QED BY <1>1, <1>2, <3>1
  <2> QED BY <1>1, <1>2, <2>1
<1>3. CASE what = "scopes"
  <2>1. Count(what) = [cleanups |-> counts.cleanups, scopes |-> counts.scopes + 1,
                       jumps |-> counts.jumps, statements |-> counts.statements + 1]
    <3>1. Count("scopes") = [counts EXCEPT !.statements = counts.statements + 1,
                                       !.scopes = counts.scopes + 1]
      BY DEF Count
    <3> QED BY <1>1, <1>3, <3>1
  <2> QED BY <1>1, <1>3, <2>1
<1>4. CASE what = "jumps"
  <2>1. Count(what) = [cleanups |-> counts.cleanups, scopes |-> counts.scopes,
                       jumps |-> counts.jumps + 1, statements |-> counts.statements + 1]
    <3>1. Count("jumps") = [counts EXCEPT !.statements = counts.statements + 1,
                                       !.jumps = counts.jumps + 1]
      BY DEF Count
    <3> QED BY <1>1, <1>4, <3>1
  <2> QED BY <1>1, <1>4, <2>1
<1> QED BY <1>2, <1>3, <1>4

-----------------------------------------------------------------------------
(* Init and the actions                                                     *)

LEMMA IInvInit == Init => IInv
<1> SUFFICES ASSUME Init PROVE IInv
  OBVIOUS
<1>1. ir \in Body
  <2>1. <<NewBlock, NewBlock>> \in Seq(Block)
    BY NewBlockFacts
  <2> QED BY <2>1 DEF Init, Body
<1>2. scopes = << >> /\ fixups = << >> /\ Len(fixups) = 0
  BY DEF Init
<1>3. Normals(scopes) = {}
  BY <1>2 DEF Normals
<1>4. Consistent(scopes, fixups, ir)
  BY <1>1, <1>2, <1>3 DEF Consistent, BlocksExist, Fits, OutermostEndsBranches
<1>5. NoDest \in JumpDest
  BY DEF NoDest, JumpDest
<1>6. frames \in Seq(Frame) /\ frames # << >>
  <2>1. [depth |-> 0, loop |-> FALSE, header |-> NoDest, exit |-> NoDest] \in Frame
    BY <1>5 DEF Frame
  <2> QED BY <2>1 DEF Init
<1>7. labelMap \in [Labels -> Label]
  <2>1. [dest |-> NoDest, stacks |-> {}] \in Label
    BY <1>5 DEF Label
  <2> QED BY <2>1 DEF Init
<1>8. returnBlock \in JumpDest
  BY DEF Init, JumpDest
<1>9. scopes \in Seq(Scope) /\ fixups \in Seq(Fixup)
  BY <1>2
<1>10. /\ counts \in [cleanups : Nat, scopes : Nat, jumps : Nat, statements : Nat]
       /\ counts.jumps = 0 /\ 0 <= MaxJumps
  BY BoundsAssumption DEF Init
<1>11. nextIndex \in Nat /\ closing \in BOOLEAN
  BY DEF Init
<1>12. TypeOK
  BY <1>1, <1>6, <1>7, <1>8, <1>9, <1>10, <1>11 DEF TypeOK, Body, Block
<1> QED BY <1>2, <1>4, <1>6, <1>10, <1>12 DEF IInv

(* A count below the width of the field it is kept in survives it.          *)
LEMMA FitsItsField ==
  ASSUME NEW n \in Nat, NEW d \in Nat \ {0}, n < d
  PROVE  n % d = n
  OBVIOUS

LEMMA IInvPushCleanup ==
  ASSUME IInv, MaxJumps < FixupDepths, NEW kind \in Kinds, PushCleanup(kind)
  PROVE  IInv'
<1>1. /\ scopes \in Seq(Scope) /\ fixups \in Seq(Fixup) /\ Consistent(scopes, fixups, ir)
      /\ Len(fixups) \in Nat /\ Len(fixups) <= MaxJumps /\ TypeOK
      /\ counts.cleanups \in Nat /\ counts.jumps \in Nat
  <2>1. fixups \in Seq(Fixup) /\ counts.jumps \in Nat /\ MaxJumps \in Nat
    BY BoundsAssumption DEF IInv, TypeOK
  <2> QED BY <2>1 DEF IInv, TypeOK
<1>2. Len(fixups) % FixupDepths = Len(fixups)
  <2>1. Len(fixups) \in Nat /\ Len(fixups) <= MaxJumps
    BY <1>1
  <2>2. FixupDepths \in Nat \ {0} /\ MaxJumps \in Nat
    BY BoundsAssumption
  <2>3. \A n, m \in Nat : \A d \in Nat : n <= m /\ m < d => n < d
    OBVIOUS
  <2>4. Len(fixups) < FixupDepths
    BY <2>1, <2>2, <2>3
  <2> QED BY <2>1, <2>2, <2>4, FitsItsField
<1>3. PICK new \in Scope : /\ new = [id |-> counts.cleanups + 1, kind |-> kind, block |-> 0,
                                     fixupDepth |-> Len(fixups) % FixupDepths,
                                     branches |-> {}, afters |-> << >>]
                          /\ new.kind = kind /\ new.block = 0 /\ new.branches = {}
                          /\ new.afters = << >> /\ new.fixupDepth = Len(fixups)
  <2>1. PICK new : new = [id |-> counts.cleanups + 1, kind |-> kind, block |-> 0,
                          fixupDepth |-> Len(fixups), branches |-> {}, afters |-> << >>]
    OBVIOUS
  <2>2. new \in Scope
    BY <1>1, <2>1, CasesFacts DEF Scope
  <2> QED BY <1>2, <2>1, <2>2
<1>4. PICK stack : stack = Append(scopes, new)
  OBVIOUS
<1>5. scopes' = stack /\ UNCHANGED <<fixups, ir, labelMap, nextIndex, returnBlock, frames, closing>>
  BY <1>3, <1>4 DEF PushCleanup
<1>6. /\ stack \in Seq(Scope) /\ DOMAIN stack = DOMAIN scopes \cup {Len(scopes) + 1}
      /\ DOMAIN scopes = 1 .. Len(scopes) /\ Len(scopes) \in Nat
      /\ \A i \in DOMAIN scopes : stack[i] = scopes[i]
      /\ stack[Len(scopes) + 1] = new
  BY <1>1, <1>4
<1>7. BlocksExist(stack, ir)
  <2>1. Len(ir.blocks) \in Nat
    BY <1>1, BodyFacts DEF Consistent
  <2> QED BY <1>1, <1>3, <1>6, <2>1 DEF Consistent, BlocksExist
<1>8. Normals(scopes) \subseteq Normals(stack) /\ Normals(stack) \subseteq Normals(scopes) \cup {Len(scopes) + 1}
  BY <1>6 DEF Normals
<1>9. \A i \in Normals(stack) :
        \/ (i \in Normals(scopes) /\ i <= Len(scopes) /\ stack[i] = scopes[i])
        \/ (i = Len(scopes) + 1 /\ stack[i] = new)
  BY <1>6, <1>8 DEF Normals
<1>10. Fits(stack, fixups)
  <2>1. fixups # << >> => InnermostNormal(stack) # 0
    BY <1>1, <1>6, <1>8, InnermostNormalFacts DEF Consistent, Fits
  <2>2. \A i \in Normals(stack) : stack[i].fixupDepth <= Len(fixups)
    BY <1>1, <1>3, <1>9 DEF Consistent, Fits
  <2>3. ASSUME NEW i \in Normals(stack), NEW j \in Normals(stack), i <= j
        PROVE  stack[i].fixupDepth <= stack[j].fixupDepth
    <3>1. CASE j = Len(scopes) + 1 /\ stack[j] = new
      BY <1>3, <2>2, <3>1
    <3>2. CASE j \in Normals(scopes) /\ j <= Len(scopes) /\ stack[j] = scopes[j]
      <4>1. i \in Normals(scopes) /\ stack[i] = scopes[i]
        <5>1. i \in Nat /\ j \in Nat
          BY <1>6 DEF Normals
        <5>2. i # Len(scopes) + 1
          BY <1>6, <2>3, <3>2, <5>1
        <5> QED BY <1>9, <5>2
      <4> QED BY <1>1, <2>3, <3>2, <4>1 DEF Consistent, Fits
    <3> QED BY <1>9, <3>1, <3>2
  <2> QED BY <2>1, <2>2, <2>3 DEF Fits
<1>11. OutermostEndsBranches(stack)
  <2>1. EndsBranches(new)
    <3>1. IsFiniteSet({}) /\ Cardinality({}) = 0
      BY FS_EmptySet
    <3> QED BY <1>3, <3>1 DEF EndsBranches
  <2>2. ASSUME NEW i \in Normals(stack), \A j \in Normals(stack) : i <= j
        PROVE  EndsBranches(stack[i])
    BY <1>1, <1>8, <1>9, <2>1, <2>2 DEF Consistent, OutermostEndsBranches
  <2> QED BY <2>2 DEF OutermostEndsBranches
<1>12. Consistent(scopes', fixups', ir')
  BY <1>1, <1>5, <1>6, <1>7, <1>10, <1>11 DEF Consistent
<1>13. /\ counts' \in [cleanups : Nat, scopes : Nat, jumps : Nat, statements : Nat]
       /\ counts'.jumps = counts.jumps
  <2>1. counts' = Count("cleanups")
    BY DEF PushCleanup
  <2> QED BY <1>1, <2>1, CountFacts
<1>14. TypeOK'
  BY <1>1, <1>5, <1>6, <1>13 DEF TypeOK
<1> QED BY <1>5, <1>12, <1>13, <1>14 DEF IInv

(* Steps that change neither scopes nor fixups.                             *)
LEMMA KeptFacts ==
  ASSUME IInv, UNCHANGED <<scopes, fixups>>, Follows(ir', ir),
         labelMap' \in [Labels -> Label], nextIndex' \in Nat, returnBlock' \in JumpDest,
         frames' \in Seq(Frame), closing' \in BOOLEAN, closing' => frames' # << >>,
         counts' \in [cleanups : Nat, scopes : Nat, jumps : Nat, statements : Nat],
         counts'.jumps = counts.jumps
  PROVE  IInv'
<1>1. Consistent(scopes', fixups', ir')
  BY ConsistentFollows DEF IInv
<1>2. ir' \in Body /\ scopes' \in Seq(Scope) /\ fixups' \in Seq(Fixup)
  BY <1>1 DEF Consistent
<1>3. TypeOK'
  BY <1>2 DEF TypeOK, Body, Block
<1> QED BY <1>1, <1>3 DEF IInv

LEMMA IInvOpenScope ==
  ASSUME IInv, OpenScope
  PROVE  IInv'
<1>1. TypeOK /\ scopes \in Seq(Scope) /\ Len(scopes) \in Nat /\ ir \in Body
  BY DEF IInv, TypeOK, Consistent
<1>2. PICK frame \in Frame :
        frame = [depth |-> Len(scopes), loop |-> FALSE, header |-> NoDest, exit |-> NoDest]
  BY <1>1, DestFacts DEF Frame
<1>3. frames' = Append(frames, frame)
  BY <1>2 DEF OpenScope
<1>4. frames' \in Seq(Frame) /\ frames' # << >>
  <2>1. frames \in Seq(Frame)
    BY <1>1 DEF TypeOK
  <2> QED BY <1>3, <2>1, AppendLast
<1>5. /\ counts' \in [cleanups : Nat, scopes : Nat, jumps : Nat, statements : Nat]
      /\ counts'.jumps = counts.jumps
  <2>1. counts' = Count("scopes")
    BY DEF OpenScope
  <2> QED BY <1>1, <2>1, CountFacts
<1>6. Follows(ir', ir)
  BY <1>1 DEF Follows, Body, OpenScope
<1>7. UNCHANGED <<scopes, fixups, labelMap, nextIndex, returnBlock, closing>>
  BY DEF OpenScope
<1> QED BY <1>1, <1>4, <1>5, <1>6, <1>7, KeptFacts DEF TypeOK

LEMMA IInvOpenLoop ==
  ASSUME IInv, OpenLoop
  PROVE  IInv'
<1>1. /\ TypeOK /\ scopes \in Seq(Scope) /\ Len(scopes) \in Nat /\ ir \in Body
      /\ nextIndex \in Nat /\ frames \in Seq(Frame)
  BY DEF IInv, TypeOK, Consistent
<1>2. PICK header \in Nat : header = NextBlock(ir)
  BY <1>1, BodyFacts
<1>3. PICK one \in Body : one = CreateBlock(ir) /\ Follows(one, ir)
  BY <1>1, CreateBlockFacts DEF Follows
<1>4. PICK two \in Body : two = CreateBlock(one) /\ Follows(two, one)
  BY CreateBlockFacts DEF Follows
<1>5. PICK three \in Body : three = CreateBlock(two) /\ Follows(three, two)
  BY CreateBlockFacts DEF Follows
<1>6. PICK four \in Body : four = EmitBlock(three, header) /\ Follows(four, three)
  BY EmitBlockFacts DEF Follows
<1>7. AtMark(nextIndex, Live(scopes)) \in Instruction
  BY <1>1, LiveFacts, InstructionFacts
<1>8. PICK condition \in Body :
        condition = EmitInstr(four, AtMark(nextIndex, Live(scopes))) /\ Follows(condition, four)
  BY <1>7, EmitInstrFacts DEF Follows
<1>9. CondBr(header + 2, header + 1) \in Terminator /\ header + 2 \in Nat /\ header + 1 \in Nat
  BY TermFacts
<1>10. PICK six \in Body :
         six = SetTerm(condition, header, CondBr(header + 2, header + 1)) /\ Follows(six, condition)
  BY <1>9, SetTermFacts DEF Follows
<1>11. Follows(EmitBlock(six, header + 2), six)
  BY <1>9, EmitBlockFacts
<1>12. ir' = EmitBlock(six, header + 2)
  BY <1>2, <1>3, <1>4, <1>5, <1>6, <1>8, <1>10 DEF OpenLoop
<1>13. Follows(two, ir) /\ Follows(three, ir)
  BY <1>1, <1>3, <1>4, <1>5, FollowsFacts
<1>14. Follows(four, ir) /\ Follows(condition, ir)
  BY <1>1, <1>6, <1>8, <1>13, FollowsFacts
<1>15. Follows(ir', ir)
  <2>1. Follows(six, ir)
    BY <1>1, <1>10, <1>14, FollowsFacts
  <2> QED BY <1>1, <1>11, <1>12, <2>1, FollowsFacts
<1>16. /\ DestHere(header, nextIndex) \in JumpDest
       /\ DestHere(header + 1, nextIndex + 1) \in JumpDest
  <2>1. nextIndex + 1 \in Nat
    BY <1>1
  <2> QED BY <1>1, <1>9, <2>1, DestFacts
<1>17. PICK frame \in Frame :
         frame = [depth |-> Len(scopes), loop |-> TRUE, header |-> DestHere(header, nextIndex),
                  exit |-> DestHere(header + 1, nextIndex + 1)]
  BY <1>1, <1>16 DEF Frame
<1>18. frames' = Append(frames, frame)
  BY <1>2, <1>17 DEF OpenLoop
<1>19. frames' \in Seq(Frame) /\ frames' # << >>
  BY <1>1, <1>18, AppendLast
<1>20. /\ counts' \in [cleanups : Nat, scopes : Nat, jumps : Nat, statements : Nat]
       /\ counts'.jumps = counts.jumps
  <2>1. counts' = Count("scopes")
    BY DEF OpenLoop
  <2> QED BY <1>1, <2>1, CountFacts
<1>21. nextIndex' \in Nat /\ UNCHANGED <<scopes, fixups, labelMap, returnBlock, closing>>
  BY <1>1 DEF OpenLoop
<1> QED BY <1>1, <1>15, <1>19, <1>20, <1>21, KeptFacts DEF TypeOK

(* Steps that emit a jump or a label.                                       *)
LEMMA JumpFacts ==
  ASSUME IInv, Consistent(scopes', fixups', ir'), Len(fixups') <= counts'.jumps,
         counts' \in [cleanups : Nat, scopes : Nat, jumps : Nat, statements : Nat],
         counts'.jumps <= MaxJumps,
         labelMap' \in [Labels -> Label], nextIndex' \in Nat,
         UNCHANGED <<returnBlock, frames, closing>>
  PROVE  IInv'
<1>1. ir' \in Body /\ scopes' \in Seq(Scope) /\ fixups' \in Seq(Fixup)
  BY DEF Consistent
<1>2. TypeOK'
  BY <1>1 DEF IInv, TypeOK, Body, Block
<1> QED BY <1>2 DEF IInv

LEMMA CountedJump ==
  ASSUME IInv, counts' = Count("jumps"), counts.jumps < MaxJumps
  PROVE  /\ counts' \in [cleanups : Nat, scopes : Nat, jumps : Nat, statements : Nat]
         /\ counts'.jumps = counts.jumps + 1 /\ counts'.jumps <= MaxJumps
         /\ counts.jumps \in Nat /\ Len(fixups) \in Nat /\ Len(fixups) <= counts.jumps
<1>1. TypeOK /\ counts.jumps \in Nat /\ fixups \in Seq(Fixup) /\ Len(fixups) <= counts.jumps
  BY DEF IInv, TypeOK
<1>2. /\ counts' \in [cleanups : Nat, scopes : Nat, jumps : Nat, statements : Nat]
      /\ counts'.jumps = counts.jumps + 1
  BY <1>1, CountFacts
<1> QED BY <1>1, <1>2, BoundsAssumption

LEMMA IInvJumpTo ==
  ASSUME IInv, NEW dest \in JumpDest, NEW conditional \in BOOLEAN, JumpTo(dest, conditional)
  PROVE  IInv'
<1>1. TypeOK /\ Consistent(scopes, fixups, ir) /\ ir \in Body
  BY DEF IInv, Consistent
<1>2. /\ counts' = Count("jumps") /\ counts.jumps < MaxJumps
      /\ BranchThroughCleanup(IfThen(ir, conditional), dest)
      /\ UNCHANGED <<labelMap, nextIndex, returnBlock, frames, closing>>
  BY DEF JumpTo, MayJump, May
<1>3. Follows(IfThen(ir, conditional), ir)
  BY <1>1, IfThenFacts
<1>4. PICK f : f = IfThen(ir, conditional)
  OBVIOUS
<1>5. Consistent(scopes', fixups', ir') /\ Len(fixups') <= Len(fixups) + 1
  BY <1>1, <1>2, <1>3, <1>4, BranchThroughCleanupFacts
<1>6. /\ counts' \in [cleanups : Nat, scopes : Nat, jumps : Nat, statements : Nat]
      /\ counts'.jumps <= MaxJumps /\ Len(fixups') <= counts'.jumps
  <2>1. Len(fixups') \in Nat
    BY <1>5 DEF Consistent
  <2> QED BY <1>2, <1>5, <2>1, CountedJump
<1> QED BY <1>1, <1>2, <1>5, <1>6, JumpFacts DEF TypeOK

LEMMA LoopFacts ==
  ASSUME TypeOK, Loops # {}
  PROVE  /\ frames[Largest(Loops)].exit \in JumpDest
         /\ frames[Largest(Loops)].header \in JumpDest
<1>1. frames \in Seq(Frame) /\ Len(frames) \in Nat /\ DOMAIN frames = 1 .. Len(frames)
  BY DEF TypeOK
<1>2. Loops \subseteq 0 .. Len(frames) /\ Loops \subseteq DOMAIN frames
  BY <1>1 DEF Loops
<1>3. Largest(Loops) \in Loops
  BY <1>1, <1>2, LargestFacts
<1>4. frames[Largest(Loops)] \in Frame
  BY <1>1, <1>2, <1>3, SeqElement
<1> QED BY <1>4 DEF Frame

LEMMA IInvJumps ==
  ASSUME IInv, NEW conditional \in BOOLEAN,
         Break(conditional) \/ Continue(conditional) \/ Return(conditional)
  PROVE  IInv'
<1>1. TypeOK /\ returnBlock \in JumpDest
  BY DEF IInv, TypeOK
<1>2. CASE Break(conditional)
  BY <1>1, <1>2, LoopFacts, IInvJumpTo DEF Break
<1>3. CASE Continue(conditional)
  BY <1>1, <1>3, LoopFacts, IInvJumpTo DEF Continue
<1>4. CASE Return(conditional)
  BY <1>1, <1>4, IInvJumpTo DEF Return
<1> QED BY <1>2, <1>3, <1>4

LEMMA StackFacts ==
  ASSUME scopes \in Seq(Scope)
  PROVE  Stack \in Seq(Nat)
<1>1. \A i \in DOMAIN scopes : scopes[i].id \in Nat
  <2> TAKE i \in DOMAIN scopes
  <2>1. scopes[i] \in Scope
    BY SeqElement
  <2> QED BY <2>1 DEF Scope
<1>2. Len(scopes) \in Nat /\ DOMAIN scopes = 1 .. Len(scopes)
  OBVIOUS
<1>3. Stack \in [1 .. Len(scopes) -> Nat]
  BY <1>1, <1>2 DEF Stack
<1> QED BY <1>2, <1>3, FunctionSeq

LEMMA IInvGoto ==
  ASSUME IInv, NEW l \in Labels, NEW conditional \in BOOLEAN, Goto(l, conditional)
  PROVE  IInv'
<1>1. /\ TypeOK /\ Consistent(scopes, fixups, ir) /\ ir \in Body /\ nextIndex \in Nat
      /\ labelMap \in [Labels -> Label] /\ scopes \in Seq(Scope)
  BY DEF IInv, Consistent, TypeOK
<1>2. PICK known \in JumpDest : known = labelMap[l].dest
  BY <1>1 DEF Label
<1>3. PICK isNew \in BOOLEAN : isNew = (known.block = 0)
  OBVIOUS
<1>4. PICK f \in Body : f = (IF isNew THEN CreateBlock(ir) ELSE ir) /\ Follows(f, ir)
  <2>1. Follows(CreateBlock(ir), ir)
    BY <1>1, CreateBlockFacts
  <2>2. Follows(ir, ir)
    BY <1>1 DEF Follows, Body
  <2>3. PICK f : f = IF isNew THEN CreateBlock(ir) ELSE ir
    OBVIOUS
  <2> QED BY <2>1, <2>2, <2>3 DEF Follows
<1>5. PICK dest \in JumpDest :
        dest = IF isNew THEN [NoDest EXCEPT !.block = NextBlock(ir), !.index = nextIndex] ELSE known
  <2>1. [NoDest EXCEPT !.block = NextBlock(ir), !.index = nextIndex] \in JumpDest
    BY <1>1, BodyFacts DEF NoDest, JumpDest
  <2> QED BY <2>1
<1>6. /\ counts' = Count("jumps") /\ counts.jumps < MaxJumps
      /\ nextIndex' = IF isNew THEN nextIndex + 1 ELSE nextIndex
      /\ labelMap' = [labelMap EXCEPT ![l].dest = dest,
                        ![l].stacks = IF dest.valid THEN @ ELSE @ \cup {Stack}]
      /\ IF HaveInsertPoint THEN BranchThroughCleanup(IfThen(f, conditional), dest)
         ELSE ir' = f /\ UNCHANGED <<scopes, fixups>>
      /\ UNCHANGED <<returnBlock, frames, closing>>
  BY <1>2, <1>3, <1>4, <1>5 DEF Goto, MayJump, May
<1>7. nextIndex' \in Nat
  BY <1>1, <1>6
<1>8. labelMap' \in [Labels -> Label]
  <2>1. PICK stacks \in SUBSET Seq(Nat) :
          stacks = IF dest.valid THEN labelMap[l].stacks ELSE labelMap[l].stacks \cup {Stack}
    BY <1>1, StackFacts DEF Label
  <2>2. PICK new : new = [labelMap[l] EXCEPT !.dest = dest, !.stacks = stacks]
    OBVIOUS
  <2>3. new \in Label
    BY <1>1, <2>2 DEF Label
  <2>4. labelMap' = [labelMap EXCEPT ![l] = new]
    BY <1>1, <1>6, <2>1, <2>2
  <2> QED BY <1>1, <2>3, <2>4
<1>9. Consistent(scopes', fixups', ir') /\ Len(fixups') <= Len(fixups) + 1
  <2>1. CASE HaveInsertPoint
    <3>1. PICK g : g = IfThen(f, conditional)
      OBVIOUS
    <3>2. Follows(g, ir)
      <4>1. Follows(g, f)
        BY <3>1, IfThenFacts
      <4> QED BY <1>1, <1>4, <4>1, FollowsFacts
    <3> QED BY <1>1, <1>6, <2>1, <3>1, <3>2, BranchThroughCleanupFacts
  <2>2. CASE ~HaveInsertPoint
    <3>1. ir' = f /\ scopes' = scopes /\ fixups' = fixups
      BY <1>6, <2>2
    <3>2. Consistent(scopes, fixups, f) /\ Len(fixups) \in Nat
      BY <1>1, <1>4, ConsistentFollows DEF Consistent
    <3> QED BY <3>1, <3>2
  <2> QED BY <2>1, <2>2
<1>10. /\ counts' \in [cleanups : Nat, scopes : Nat, jumps : Nat, statements : Nat]
       /\ counts'.jumps <= MaxJumps /\ Len(fixups') <= counts'.jumps
  <2>1. Len(fixups') \in Nat
    BY <1>9 DEF Consistent
  <2> QED BY <1>6, <1>9, <2>1, CountedJump
<1> QED BY <1>6, <1>7, <1>8, <1>9, <1>10, JumpFacts

LEMMA ResolvedFacts ==
  ASSUME Consistent(scopes, fixups, ir), NEW block \in Nat
  PROVE  /\ Resolved(fixups, block) \in Seq(Fixup)
         /\ Len(Resolved(fixups, block)) <= Len(fixups)
         /\ Fits(scopes, Resolved(fixups, block))
<1>1. /\ scopes \in Seq(Scope) /\ fixups \in Seq(Fixup) /\ Fits(scopes, fixups)
      /\ Len(fixups) \in Nat
  BY DEF Consistent
<1>2. CASE \E k \in DOMAIN fixups : fixups[k].dest = block
  <2>1. PICK queue : queue = [k \in DOMAIN fixups |->
                               IF fixups[k].dest = block THEN [fixups[k] EXCEPT !.dest = 0]
                               ELSE fixups[k]]
    OBVIOUS
  <2>2. \A k \in DOMAIN fixups : fixups[k] \in Fixup /\ [fixups[k] EXCEPT !.dest = 0] \in Fixup
    <3>1. \A k \in DOMAIN fixups : fixups[k] \in Fixup
      BY <1>1, SeqElement
    <3> QED BY <3>1 DEF Fixup
  <2>3. queue \in [DOMAIN fixups -> Fixup]
    BY <2>1, <2>2
  <2>4. queue \in Seq(Fixup) /\ Len(queue) = Len(fixups) /\ Fits(scopes, queue)
    BY <1>1, <2>3, FitsMapped
  <2>5. InnermostNormal(scopes) # 0
    BY <1>1, <1>2 DEF Fits
  <2>6. Resolved(fixups, block) = PopNullFixups(scopes, queue)
    BY <1>2, <2>1 DEF Resolved
  <2> QED BY <1>1, <2>4, <2>5, <2>6, FitsTrimmed
<1>3. CASE ~\E k \in DOMAIN fixups : fixups[k].dest = block
  BY <1>1, <1>3 DEF Resolved
<1> QED BY <1>2, <1>3

LEMMA IInvEmitLabel ==
  ASSUME IInv, NEW l \in Labels, EmitLabel(l)
  PROVE  IInv'
<1>1. /\ TypeOK /\ Consistent(scopes, fixups, ir) /\ ir \in Body /\ nextIndex \in Nat
      /\ labelMap \in [Labels -> Label] /\ scopes \in Seq(Scope) /\ Len(scopes) \in Nat
      /\ fixups \in Seq(Fixup) /\ Len(fixups) \in Nat
  BY DEF IInv, Consistent, TypeOK
<1>2. PICK known \in JumpDest : known = labelMap[l].dest
  BY <1>1 DEF Label
<1>3. PICK isNew \in BOOLEAN : isNew = (known.block = 0)
  OBVIOUS
<1>4. PICK dest \in JumpDest :
        dest = IF isNew THEN DestHere(NextBlock(ir), nextIndex)
               ELSE [known EXCEPT !.depth = Len(scopes), !.valid = TRUE]
  <2>1. DestHere(NextBlock(ir), nextIndex) \in JumpDest
    BY <1>1, BodyFacts, DestFacts
  <2>2. [known EXCEPT !.depth = Len(scopes), !.valid = TRUE] \in JumpDest
    BY <1>1 DEF JumpDest
  <2> QED BY <2>1, <2>2
<1>5. PICK f \in Body : f = (IF isNew THEN CreateBlock(ir) ELSE ResolvedIn(ir, fixups, dest))
                        /\ Follows(f, ir)
  <2>1. Follows(CreateBlock(ir), ir)
    BY <1>1, CreateBlockFacts
  <2>2. Follows(ResolvedIn(ir, fixups, dest), ir)
    BY <1>1, ResolvedInFacts
  <2>3. PICK f : f = IF isNew THEN CreateBlock(ir) ELSE ResolvedIn(ir, fixups, dest)
    OBVIOUS
  <2> QED BY <2>1, <2>2, <2>3 DEF Follows
<1>6. /\ counts' = [counts EXCEPT !.statements = @ + 1]
      /\ nextIndex' = IF isNew THEN nextIndex + 1 ELSE nextIndex
      /\ labelMap' = [labelMap EXCEPT ![l] = [dest |-> dest, stacks |-> {Stack}]]
      /\ fixups' = IF isNew THEN fixups ELSE Resolved(fixups, dest.block)
      /\ ir' = EmitInstr(EmitBlock(f, dest.block), AtMark(dest.index, Live(scopes)))
      /\ UNCHANGED <<scopes, returnBlock, frames, closing>>
  <2>1. dest = IF labelMap[l].dest.block = 0 THEN DestHere(NextBlock(ir), nextIndex)
               ELSE [labelMap[l].dest EXCEPT !.depth = Len(scopes), !.valid = TRUE]
    BY <1>2, <1>3, <1>4
  <2>2. f = IF labelMap[l].dest.block = 0 THEN CreateBlock(ir) ELSE ResolvedIn(ir, fixups, dest)
    BY <1>2, <1>3, <1>5
  <2>3. isNew <=> labelMap[l].dest.block = 0
    BY <1>2, <1>3
  <2>4. counts' = [counts EXCEPT !.statements = @ + 1] /\ UNCHANGED <<scopes, returnBlock, frames, closing>>
    BY DEF EmitLabel
  <2>5. nextIndex' = IF isNew THEN nextIndex + 1 ELSE nextIndex
    BY <2>3 DEF EmitLabel
  <2>6. labelMap' = [labelMap EXCEPT ![l] = [dest |-> dest, stacks |-> {Stack}]]
    BY <2>1, Zenon DEF EmitLabel
  <2>7. fixups' = IF isNew THEN fixups ELSE Resolved(fixups, dest.block)
    <3>1. fixups' = IF labelMap[l].dest.block = 0 THEN fixups ELSE Resolved(fixups, dest.block)
      <4>1. CASE labelMap[l].dest.block = 0
        BY <4>1 DEF EmitLabel
      <4>2. CASE labelMap[l].dest.block # 0
        <5>1. fixups' = Resolved(fixups, (IF labelMap[l].dest.block = 0
                                            THEN DestHere(NextBlock(ir), nextIndex)
                                            ELSE [labelMap[l].dest EXCEPT !.depth = Len(scopes),
                                                                          !.valid = TRUE]).block)
          BY <4>2 DEF EmitLabel
        <5>2. fixups' = Resolved(fixups, dest.block)
          BY <2>1, <5>1, Zenon
        <5> QED BY <4>2, <5>2
      <4> QED BY <4>1, <4>2
    <3> QED BY <2>3, <3>1
  <2>8. ir' = EmitInstr(EmitBlock(f, dest.block), AtMark(dest.index, Live(scopes)))
    BY <2>1, <2>2, Zenon DEF EmitLabel
  <2> QED BY <2>4, <2>5, <2>6, <2>7, <2>8
<1>7. nextIndex' \in Nat /\ dest.block \in Nat /\ dest.index \in Nat
  BY <1>1, <1>6 DEF JumpDest
<1>8. labelMap' \in [Labels -> Label]
  <2>1. [dest |-> dest, stacks |-> {Stack}] \in Label
    BY <1>1, StackFacts DEF Label
  <2> QED BY <1>1, <1>6, <2>1
<1>9. Follows(ir', ir)
  <2>1. PICK g \in Body : g = EmitBlock(f, dest.block) /\ Follows(g, f)
    BY <1>7, EmitBlockFacts DEF Follows
  <2>2. AtMark(dest.index, Live(scopes)) \in Instruction
    BY <1>1, <1>7, LiveFacts, InstructionFacts
  <2>3. Follows(ir', g)
    BY <1>6, <2>1, <2>2, EmitInstrFacts
  <2>4. Follows(g, ir)
    BY <1>1, <1>5, <2>1, FollowsFacts
  <2> QED BY <1>1, <2>3, <2>4, FollowsFacts
<1>10. /\ fixups' \in Seq(Fixup) /\ Len(fixups') <= Len(fixups) /\ Fits(scopes, fixups')
  BY <1>1, <1>6, <1>7, ResolvedFacts DEF Consistent
<1>11. Consistent(scopes', fixups', ir')
  <2>1. Consistent(scopes, fixups, ir')
    BY <1>1, <1>9, ConsistentFollows
  <2> QED BY <1>6, <1>10, <2>1 DEF Consistent
<1>12. /\ counts' \in [cleanups : Nat, scopes : Nat, jumps : Nat, statements : Nat]
       /\ counts'.jumps = counts.jumps /\ counts.jumps \in Nat
  BY <1>1, <1>6 DEF TypeOK
<1>13. counts'.jumps <= MaxJumps /\ Len(fixups') <= counts'.jumps
  <2>1. Len(fixups) <= counts.jumps /\ counts.jumps <= MaxJumps /\ Len(fixups') \in Nat
    BY <1>10 DEF IInv
  <2> QED BY <1>1, <1>10, <1>12, <2>1
<1> QED BY <1>6, <1>7, <1>8, <1>11, <1>12, <1>13, JumpFacts

LEMMA IInvBeginClose ==
  ASSUME IInv, BeginClose
  PROVE  IInv'
<1>1. /\ TypeOK /\ ir \in Body /\ scopes \in Seq(Scope) /\ frames \in Seq(Frame)
      /\ returnBlock \in JumpDest /\ frames # << >>
  BY DEF IInv, TypeOK, Consistent, BeginClose, Generating
<1>2. PICK frame \in Frame : frame = Last(frames)
  BY <1>1, LastFront
<1>3. PICK index \in Nat : index = IF Len(frames) = 1 THEN returnBlock.index ELSE frame.header.index
  <2>1. returnBlock.index \in Nat /\ frame.header.index \in Nat
    BY <1>1 DEF Frame, JumpDest
  <2> QED BY <2>1
<1>4. JumpMark(index, Live(scopes)) \in Instruction
  BY <1>1, LiveFacts, InstructionFacts
<1>5. Follows(EmitInstr(ir, JumpMark(index, Live(scopes))), ir) /\ Follows(ir, ir)
  BY <1>1, <1>4, EmitInstrFacts DEF Follows, Body
<1>6. ir' = IF HaveInsertPoint THEN EmitInstr(ir, JumpMark(index, Live(scopes))) ELSE ir
  BY <1>2, <1>3 DEF BeginClose
<1>7. Follows(ir', ir)
  BY <1>5, <1>6
<1>8. closing' = TRUE /\ UNCHANGED <<scopes, fixups, labelMap, nextIndex, returnBlock, frames, counts>>
  BY DEF BeginClose
<1> QED BY <1>1, <1>7, <1>8, KeptFacts DEF TypeOK

-----------------------------------------------------------------------------
(* PopCleanupBlock                                                          *)

LEMMA PoppingFacts ==
  ASSUME IInv, Popping
  PROVE  /\ scopes \in Seq(Scope) /\ scopes # << >> /\ fixups \in Seq(Fixup) /\ ir \in Body
         /\ Consistent(scopes, fixups, ir)
         /\ Top \in Scope /\ Top = scopes[Len(scopes)] /\ Len(scopes) \in DOMAIN scopes
         /\ Last(frames).depth \in Nat
<1>1. /\ scopes \in Seq(Scope) /\ fixups \in Seq(Fixup) /\ ir \in Body
      /\ Consistent(scopes, fixups, ir) /\ frames \in Seq(Frame) /\ frames # << >>
  BY DEF IInv, TypeOK, Consistent, Popping
<1>2. Last(frames).depth \in Nat
  <2>1. Last(frames) \in Frame
    BY <1>1, LastFront
  <2> QED BY <2>1 DEF Frame
<1>3. scopes # << >>
  <2>1. Len(scopes) > Last(frames).depth
    BY DEF Popping
  <2> QED BY <1>1, <1>2, <2>1
<1> QED BY <1>1, <1>2, <1>3, FrontFacts DEF Top

LEMMA PoppedConsistent ==
  ASSUME IInv, Popping, NEW g, Follows(g, ir)
  PROVE  /\ Consistent(Rest, FixupsAfterPop(Rest, fixups), g)
         /\ Len(FixupsAfterPop(Rest, fixups)) <= Len(fixups)
<1>1. /\ scopes \in Seq(Scope) /\ scopes # << >> /\ Consistent(scopes, fixups, ir)
      /\ fixups \in Seq(Fixup) /\ ir \in Body /\ Rest \in Seq(Scope)
  BY PoppingFacts, FrontFacts DEF Rest
<1>2. /\ FixupsAfterPop(Rest, fixups) \in Seq(Fixup)
      /\ Len(FixupsAfterPop(Rest, fixups)) <= Len(fixups)
      /\ Fits(Rest, FixupsAfterPop(Rest, fixups))
  BY <1>1, FixupsAfterPopFacts DEF Consistent, Rest
<1>3. /\ BlocksExist(Rest, ir) /\ OutermostEndsBranches(Rest)
  BY <1>1, RestFacts DEF Consistent, Rest
<1>4. BlocksExist(Rest, g)
  BY <1>1, <1>3, BlocksExistFacts
<1> QED BY <1>1, <1>2, <1>3, <1>4 DEF Consistent, Follows

LEMMA PopStep ==
  ASSUME IInv, Consistent(scopes', fixups', ir'), Len(fixups') <= Len(fixups),
         UNCHANGED <<labelMap, nextIndex, returnBlock, frames, closing, counts>>
  PROVE  IInv'
<1>1. /\ Len(fixups) <= counts.jumps /\ counts.jumps <= MaxJumps /\ counts.jumps \in Nat
      /\ Len(fixups) \in Nat /\ Len(fixups') \in Nat
      /\ counts \in [cleanups : Nat, scopes : Nat, jumps : Nat, statements : Nat]
      /\ labelMap \in [Labels -> Label] /\ nextIndex \in Nat
  <2>1. fixups \in Seq(Fixup) /\ fixups' \in Seq(Fixup)
    BY DEF IInv, Consistent
  <2> QED BY <2>1 DEF IInv, TypeOK
<1>2. Len(fixups') <= counts'.jumps /\ counts'.jumps <= MaxJumps
  BY <1>1
<1> QED BY <1>1, <1>2, JumpFacts

LEMMA IInvPopUnneeded ==
  ASSUME IInv, PopUnneeded
  PROVE  IInv'
<1>1. Popping /\ ir \in Body
  BY PoppingFacts DEF PopUnneeded
<1>2. Follows(ir', ir)
  BY <1>1, DestroyOptimisticEntryFacts DEF PopUnneeded
<1>3. scopes' = Rest /\ fixups' = FixupsAfterPop(Rest, fixups)
  BY DEF PopUnneeded
<1>4. Consistent(scopes', fixups', ir') /\ Len(fixups') <= Len(fixups)
  BY <1>1, <1>2, <1>3, PoppedConsistent
<1> QED BY <1>4, PopStep DEF PopUnneeded

LEMMA IInvPopDirectly ==
  ASSUME IInv, PopDirectly
  PROVE  IInv'
<1>1. Popping /\ ir \in Body /\ Top \in Scope
  BY PoppingFacts DEF PopDirectly
<1>2. PICK f \in Body : f = DestroyOptimisticEntry(ir, Top.block) /\ Follows(f, ir)
  BY <1>1, DestroyOptimisticEntryFacts DEF Follows
<1>3. ir' = RunCleanup(f, Top)
  BY <1>2 DEF PopDirectly
<1>4. Follows(ir', f)
  BY <1>1, <1>3, RunCleanupFacts
<1>5. Follows(ir', ir)
  BY <1>1, <1>2, <1>4, FollowsFacts
<1>6. scopes' = Rest /\ fixups' = FixupsAfterPop(Rest, fixups)
  BY DEF PopDirectly
<1>7. Consistent(scopes', fixups', ir') /\ Len(fixups') <= Len(fixups)
  BY <1>1, <1>5, <1>6, PoppedConsistent
<1> QED BY <1>7, PopStep DEF PopDirectly

(* A cleanup leads on into an enclosing one only if there is one: the       *)
(* assertion at CGCleanup.cpp:694.                                          *)
BranchThroughHasTarget ==
  Popping /\ RequiresNormalCleanup /\ NeedsBranchThrough => InnermostNormal(Rest) # 0

LEMMA BranchThroughFacts == IInv => BranchThroughHasTarget
<1> SUFFICES ASSUME IInv, Popping, RequiresNormalCleanup, NeedsBranchThrough,
                    InnermostNormal(Rest) = 0
             PROVE  FALSE
  BY DEF BranchThroughHasTarget
<1>1. /\ scopes \in Seq(Scope) /\ scopes # << >> /\ Top = scopes[Len(scopes)]
      /\ Len(scopes) \in DOMAIN scopes /\ Rest \in Seq(Scope)
      /\ Normals(Rest) = Normals(scopes) \ {Len(scopes)}
      /\ Last(frames).depth \in Nat /\ OutermostEndsBranches(scopes)
  BY PoppingFacts, FrontFacts DEF Rest, Consistent
<1>2. Normals(Rest) = {}
  BY <1>1, InnermostNormalFacts
<1>3. Len(scopes) \in Normals(scopes)
  BY <1>1 DEF RequiresNormalCleanup, Normals
<1>4. \A j \in Normals(scopes) : Len(scopes) <= j
  BY <1>1, <1>2
<1>5. ~HasBranchThroughs
  BY <1>1, <1>3, <1>4 DEF OutermostEndsBranches, EndsBranches, HasBranchThroughs
<1>6. ~FallthroughIsBranchThrough /\ ~HasEnclosingCleanups
  BY <1>1 DEF FallthroughIsBranchThrough, HasEnclosingCleanups
<1> QED BY <1>5, <1>6 DEF NeedsBranchThrough

LEMMA EpilogueFacts ==
  ASSUME IInv, Popping, NEW through \in Nat, NEW fallthrough \in Nat
  PROVE  Epilogue(through, fallthrough) \in Terminator
<1>1. fixups \in Seq(Fixup) /\ Top \in Scope
  BY PoppingFacts
<1>2. Top.afters \in Seq(Case)
  BY <1>1 DEF Scope
<1>3. PICK first \in Seq(Case) :
        first = IF fallthrough # 0 THEN <<[index |-> 0, block |-> fallthrough]>> ELSE << >>
  <2>1. [index |-> 0, block |-> fallthrough] \in Case
    BY DEF Case
  <2> QED BY <2>1, CasesFacts
<1>4. PICK last \in Seq(Case) :
        last = IF HasFixups /\ ~HasEnclosingCleanups THEN FixupCases(fixups) ELSE << >>
  BY <1>1, FixupCasesFacts, CasesFacts
<1>5. (first \o Top.afters) \o last \in Seq(Case)
  BY <1>2, <1>3, <1>4, ConcatProperties
<1>6. CASE HasSingleExit
  <2>1. Top.afters[1] \in Case
    BY <1>2, <1>6 DEF HasSingleExit
  <2>2. Top.afters[1].block \in Nat
    BY <2>1 DEF Case
  <2>3. ~NeedsSwitch
    BY <1>6 DEF NeedsSwitch
  <2>4. Epilogue(through, fallthrough) = Br(Top.afters[1].block)
    BY <1>6, <2>3 DEF Epilogue
  <2> QED BY <2>2, <2>4, TermFacts
<1>7. CASE ~HasSingleExit /\ NeedsSwitch
  <2>1. Epilogue(through, fallthrough) = Switch(through, (first \o Top.afters) \o last)
    BY <1>3, <1>4, <1>7 DEF Epilogue
  <2> QED BY <1>5, <2>1, TermFacts
<1>8. CASE ~HasSingleExit /\ ~NeedsSwitch
  BY <1>8, TermFacts DEF Epilogue
<1> QED BY <1>6, <1>7, <1>8

LEMMA ThreadedFacts ==
  ASSUME NEW stack, NEW queue \in Seq(Fixup), Fits(stack, queue), NEW depth, NEW exit \in Nat
  PROVE  /\ Threaded(queue, depth, exit) \in Seq(Fixup)
         /\ Len(Threaded(queue, depth, exit)) = Len(queue)
         /\ Fits(stack, Threaded(queue, depth, exit))
<1>1. \A k \in DOMAIN queue : queue[k] \in Fixup /\ [queue[k] EXCEPT !.optimistic = exit] \in Fixup
  <2>1. \A k \in DOMAIN queue : queue[k] \in Fixup
    BY SeqElement
  <2> QED BY <2>1 DEF Fixup
<1>2. Threaded(queue, depth, exit) \in [DOMAIN queue -> Fixup]
  BY <1>1 DEF Threaded
<1> QED BY <1>2, FitsMapped

LEMMA PatchedFacts ==
  ASSUME NEW stack, NEW queue \in Seq(Fixup), Fits(stack, queue), NEW depth, NEW entry, NEW exit,
         NEW pred \in Nat
  PROVE  /\ Patched(queue, depth, entry, exit, pred) \in Seq(Fixup)
         /\ Len(Patched(queue, depth, entry, exit, pred)) = Len(queue)
         /\ Fits(stack, Patched(queue, depth, entry, exit, pred))
<1>1. ASSUME NEW k \in DOMAIN queue
      PROVE  [queue[k] EXCEPT !.branch = IF @ = entry THEN pred ELSE @,
                              !.optimistic = IF k > depth /\ entry = exit THEN pred ELSE @] \in Fixup
  <2>1. queue[k] \in Fixup
    BY SeqElement
  <2> QED BY <2>1 DEF Fixup
<1>2. Patched(queue, depth, entry, exit, pred) \in [DOMAIN queue -> Fixup]
  BY <1>1 DEF Patched
<1> QED BY <1>2, FitsMapped

LEMMA ThreadCleanupFacts ==
  ASSUME IInv, Popping, NEW linked \in Body, NEW entry \in Nat, NEW through \in Nat
  PROVE  /\ Follows(ThreadCleanup(linked, entry, through).body, linked)
         /\ ThreadCleanup(linked, entry, through).exit \in Nat
<1>1. Top \in Scope /\ fixups \in Seq(Fixup)
  BY PoppingFacts
<1>2. PICK depth \in Nat : depth = Top.fixupDepth
  BY <1>1 DEF Scope
<1> DEFINE continues == NeedsSwitch /\ HaveInsertPoint /\ ~FallthroughIsBranchThrough
<1>3. PICK fallthrough \in Nat, prepared \in Body :
        /\ fallthrough = IF continues THEN NextBlock(linked) ELSE 0
        /\ prepared = IF continues THEN CreateBlock(linked) ELSE linked
        /\ Follows(prepared, linked)
  <2>1. /\ Follows(CreateBlock(linked), linked) /\ Follows(linked, linked)
        /\ NextBlock(linked) \in Nat
    BY CreateBlockFacts, BodyFacts DEF Follows, Body
  <2>2. PICK prepared : prepared = IF continues THEN CreateBlock(linked) ELSE linked
    OBVIOUS
  <2>3. PICK fallthrough : fallthrough = IF continues THEN NextBlock(linked) ELSE 0
    OBVIOUS
  <2>4. Follows(prepared, linked) /\ fallthrough \in Nat
    BY <2>1, <2>2, <2>3
  <2> QED BY <2>2, <2>3, <2>4 DEF Follows
<1>4. PICK ran \in Body, exit \in Nat :
         ran = RunCleanup(prepared, Top) /\ Follows(ran, prepared) /\ exit = ran.insert
  <2>1. Follows(RunCleanup(prepared, Top), prepared)
    BY <1>1, RunCleanupFacts
  <2> QED BY <2>1, BodyFacts DEF Follows
<1>5. PICK led \in Body : led = LeadIn(ran, fixups, depth, entry) /\ Follows(led, ran)
  BY <1>1, LeadInFacts DEF Follows
<1>6. PICK threaded \in Body :
         threaded = SetTerm(led, exit, Epilogue(through, fallthrough)) /\ Follows(threaded, led)
  <2>1. Epilogue(through, fallthrough) \in Terminator
    BY <1>1, EpilogueFacts
  <2> QED BY <2>1, SetTermFacts DEF Follows
<1>7. PICK onward \in Body :
         /\ onward = IF continues THEN EmitBlock(threaded, fallthrough)
                      ELSE IF HaveInsertPoint THEN threaded ELSE SetInsertPoint(threaded, 0)
         /\ Follows(onward, threaded)
  <2>1. /\ Follows(EmitBlock(threaded, fallthrough), threaded) /\ Follows(threaded, threaded)
        /\ Follows(SetInsertPoint(threaded, 0), threaded)
    BY EmitBlockFacts, SetInsertPointFacts DEF Follows, Body
  <2>2. PICK onward : onward = IF continues THEN EmitBlock(threaded, fallthrough)
                               ELSE IF HaveInsertPoint THEN threaded ELSE SetInsertPoint(threaded, 0)
    OBVIOUS
  <2>3. Follows(onward, threaded)
    BY <2>1, <2>2
  <2> QED BY <2>2, <2>3 DEF Follows
<1>8. Follows(onward, linked)
  <2>1. Follows(ran, linked)
    BY <1>3, <1>4, FollowsFacts
  <2>2. Follows(led, linked)
    BY <1>5, <2>1, FollowsFacts
  <2>3. Follows(threaded, linked)
    BY <1>6, <2>2, FollowsFacts
  <2> QED BY <1>7, <2>3, FollowsFacts
<1>9. ThreadCleanup(linked, entry, through) = [body |-> onward, exit |-> exit]
  BY <1>2, <1>3, <1>4, <1>5, <1>6, <1>7 DEF ThreadCleanup
<1> QED BY <1>8, <1>9

LEMMA IInvPopThreaded ==
  ASSUME IInv, PopThreaded
  PROVE  IInv'
<1>1. /\ Popping /\ RequiresNormalCleanup /\ ir \in Body /\ Top \in Scope
      /\ scopes \in Seq(Scope) /\ fixups \in Seq(Fixup) /\ Len(scopes) \in DOMAIN scopes
      /\ BlocksExist(scopes, ir) /\ OutermostEndsBranches(scopes)
  BY PoppingFacts DEF PopThreaded, Consistent
<1> DEFINE enclosing == InnermostNormal(Rest)
<1>2. PICK depth \in Nat : depth = Top.fixupDepth
  BY <1>1 DEF Scope
<1>3. PICK created \in Body, entry \in Nat :
        /\ created = WithEntry(ir, scopes, Len(scopes)) /\ entry = EntryOf(ir, scopes, Len(scopes))
        /\ Follows(created, ir) /\ entry \in DOMAIN created.blocks
  <2>1. /\ Follows(WithEntry(ir, scopes, Len(scopes)), ir)
        /\ EntryOf(ir, scopes, Len(scopes)) \in Nat
        /\ EntryOf(ir, scopes, Len(scopes)) \in DOMAIN WithEntry(ir, scopes, Len(scopes)).blocks
    BY <1>1, EntryFacts
  <2> QED BY <2>1 DEF Follows
<1>4. PICK stored \in Body :
        /\ stored = IF HaveInsertPoint /\ ~HasPrebranchedFallthrough
                      THEN EmitInstr(created, Store(0)) ELSE created
        /\ Follows(stored, created)
  <2>1. Follows(EmitInstr(created, Store(0)), created) /\ Follows(created, created)
    BY InstructionFacts, EmitInstrFacts DEF Follows, Body
  <2>2. PICK stored : stored = IF HaveInsertPoint /\ ~HasPrebranchedFallthrough
                               THEN EmitInstr(created, Store(0)) ELSE created
    OBVIOUS
  <2>3. Follows(stored, created)
    BY <2>1, <2>2
  <2> QED BY <2>2, <2>3 DEF Follows
<1>5. PICK entered \in Body : entered = EmitBlock(stored, entry) /\ Follows(entered, stored)
  BY EmitBlockFacts DEF Follows
<1>6. Follows(stored, ir) /\ Follows(entered, ir) /\ Follows(entered, created)
  <2>1. Follows(stored, ir) /\ Follows(entered, created)
    BY <1>1, <1>3, <1>4, <1>5, FollowsFacts
  <2> QED BY <1>1, <1>5, <2>1, FollowsFacts
<1>7. /\ Consistent(Rest, FixupsAfterPop(Rest, fixups), entered)
      /\ Len(FixupsAfterPop(Rest, fixups)) <= Len(fixups)
  BY <1>1, <1>6, PoppedConsistent
<1>8. PICK linked \in Body, through \in Nat, stack \in Seq(Scope) :
        /\ linked = IF NeedsBranchThrough THEN WithEntry(entered, Rest, enclosing) ELSE entered
        /\ through = IF NeedsBranchThrough THEN EntryOf(entered, Rest, enclosing) ELSE 0
        /\ stack = IF NeedsBranchThrough THEN Entered(entered, Rest, enclosing) ELSE Rest
        /\ Follows(linked, entered)
        /\ Consistent(stack, FixupsAfterPop(Rest, fixups), linked)
  <2>1. CASE NeedsBranchThrough
    <3>1. enclosing \in DOMAIN Rest /\ Rest \in Seq(Scope)
      <4>1. InnermostNormal(Rest) # 0 /\ Rest \in Seq(Scope)
        BY <1>1, <1>7, <2>1, BranchThroughFacts DEF BranchThroughHasTarget, Consistent
      <4> QED BY <4>1, InnermostNormalFacts DEF Normals
    <3>2. PICK g, t : g = WithEntry(entered, Rest, enclosing) /\ t = Entered(entered, Rest, enclosing)
      OBVIOUS
    <3>3. /\ Follows(g, entered) /\ EntryOf(entered, Rest, enclosing) \in Nat
          /\ t \in Seq(Scope) /\ Alike(t, Rest) /\ BlocksExist(t, g) /\ OutermostEndsBranches(t)
      BY <1>7, <3>1, <3>2, EntryFacts DEF Consistent
    <3>4. Fits(t, FixupsAfterPop(Rest, fixups))
      BY <1>7, <3>1, <3>3, AlikeFacts DEF Consistent
    <3>5. Consistent(t, FixupsAfterPop(Rest, fixups), g)
      BY <1>7, <3>3, <3>4 DEF Consistent, Follows
    <3> QED BY <2>1, <3>2, <3>3, <3>5 DEF Follows
  <2>2. CASE ~NeedsBranchThrough
    <3>1. Follows(entered, entered)
      BY DEF Follows, Body
    <3>2. Rest \in Seq(Scope) /\ 0 \in Nat
      BY <1>7 DEF Consistent
    <3> QED BY <1>7, <2>2, <3>1, <3>2
  <2> QED BY <2>1, <2>2
<1>9. PICK onward \in Body, exit \in Nat :
        /\ onward = ThreadCleanup(linked, entry, through).body
        /\ exit = ThreadCleanup(linked, entry, through).exit
        /\ Follows(onward, linked)
  <2>1. /\ Follows(ThreadCleanup(linked, entry, through).body, linked)
        /\ ThreadCleanup(linked, entry, through).exit \in Nat
    BY <1>1, ThreadCleanupFacts
  <2> QED BY <2>1 DEF Follows
<1>10. entry \in DOMAIN onward.blocks
  <2>1. Follows(linked, created)
    BY <1>6, <1>8, FollowsFacts
  <2>2. Follows(onward, created)
    BY <1>9, <2>1, FollowsFacts
  <2>3. /\ DOMAIN created.blocks = 1 .. Len(created.blocks) /\ Len(created.blocks) \in Nat
        /\ DOMAIN onward.blocks = 1 .. Len(onward.blocks) /\ Len(onward.blocks) \in Nat
    BY DEF Body
  <2> QED BY <1>3, <2>2, <2>3 DEF Follows
<1>11. Follows(Merged(onward, entry), linked)
  <2>1. Follows(Merged(onward, entry), onward)
    BY <1>10, MergedFacts
  <2> QED BY <1>9, <2>1, FollowsFacts
<1>12. PICK queue \in Seq(Fixup) :
         /\ queue = Threaded(FixupsAfterPop(Rest, fixups), depth, exit)
         /\ Len(queue) <= Len(fixups) /\ Fits(stack, queue)
  BY <1>7, <1>8, ThreadedFacts DEF Consistent
<1>13. /\ ir' = Merged(onward, entry) /\ scopes' = stack
       /\ fixups' = IF CanMerge(onward, entry)
                      THEN Patched(queue, depth, entry, exit, Predecessor(onward, entry)) ELSE queue
  <2>1. scopes' = stack
    BY <1>3, <1>4, <1>5, <1>8 DEF PopThreaded
  <2>2. ir' = Merged(onward, entry)
    BY <1>3, <1>4, <1>5, <1>8, <1>9 DEF PopThreaded
  <2>3. fixups' = IF CanMerge(onward, entry)
                    THEN Patched(queue, depth, entry, exit, Predecessor(onward, entry)) ELSE queue
    BY <1>2, <1>3, <1>4, <1>5, <1>8, <1>9, <1>12 DEF PopThreaded
  <2> QED BY <2>1, <2>2, <2>3
<1>14. fixups' \in Seq(Fixup) /\ Len(fixups') <= Len(fixups) /\ Fits(stack, fixups')
  <2>1. CASE CanMerge(onward, entry)
    <3>1. PICK pred \in Nat : pred = Predecessor(onward, entry)
      <4>1. Users(onward, entry) # {} /\ Users(onward, entry) \subseteq Nat
        BY <2>1, BodyFacts DEF CanMerge, HasOneUse, Users
      <4> QED BY <4>1 DEF Predecessor
    <3>2. fixups' = Patched(queue, depth, entry, exit, pred)
      BY <1>13, <2>1, <3>1
    <3> QED BY <1>12, <3>1, <3>2, PatchedFacts
  <2>2. CASE ~CanMerge(onward, entry)
    BY <1>12, <1>13, <2>2
  <2> QED BY <2>1, <2>2
<1>15. Consistent(scopes', fixups', ir')
  <2>1. Consistent(stack, FixupsAfterPop(Rest, fixups), ir')
    BY <1>8, <1>11, <1>13, ConsistentFollows
  <2> QED BY <1>13, <1>14, <2>1 DEF Consistent
<1>16. UNCHANGED <<labelMap, nextIndex, returnBlock, frames, closing, counts>>
  BY DEF PopThreaded
<1> QED BY <1>14, <1>15, <1>16, PopStep

-----------------------------------------------------------------------------
(* Behind the scope                                                         *)

LEMMA IInvEndScope ==
  ASSUME IInv, EndScope
  PROVE  IInv'
<1>1. /\ TypeOK /\ ir \in Body /\ scopes \in Seq(Scope) /\ frames \in Seq(Frame) /\ frames # << >>
  BY DEF IInv, TypeOK, Consistent, EndScope, Popped
<1>2. AtMark(0, Live(scopes)) \in Instruction
  BY <1>1, LiveFacts, InstructionFacts
<1>3. Follows(EmitInstr(ir, AtMark(0, Live(scopes))), ir) /\ Follows(ir, ir)
  BY <1>1, <1>2, EmitInstrFacts DEF Follows, Body
<1>4. Follows(ir', ir)
  BY <1>3 DEF EndScope
<1>5. frames' \in Seq(Frame) /\ closing' = FALSE
  BY <1>1, LastFront DEF EndScope
<1>6. UNCHANGED <<scopes, fixups, labelMap, nextIndex, returnBlock, counts>>
  BY DEF EndScope
<1> QED BY <1>1, <1>4, <1>5, <1>6, KeptFacts DEF TypeOK

LEMMA IInvEndLoop ==
  ASSUME IInv, EndLoop
  PROVE  IInv'
<1>1. /\ TypeOK /\ ir \in Body /\ scopes \in Seq(Scope) /\ frames \in Seq(Frame) /\ frames # << >>
  BY DEF IInv, TypeOK, Consistent, EndLoop, Popped
<1>2. PICK frame \in Frame : frame = Last(frames)
  BY <1>1, LastFront
<1>3. frame.header.block \in Nat /\ frame.exit.block \in Nat /\ frame.exit.index \in Nat
  BY DEF Frame, JumpDest
<1>4. PICK f \in Body : f = EmitBranch(ir, frame.header.block) /\ Follows(f, ir)
  BY <1>1, <1>3, EmitBranchFacts DEF Follows
<1>5. PICK g \in Body : g = EmitBlock(f, frame.exit.block) /\ Follows(g, f)
  BY <1>3, EmitBlockFacts DEF Follows
<1>6. AtMark(frame.exit.index, Live(scopes)) \in Instruction
  BY <1>1, <1>3, LiveFacts, InstructionFacts
<1>7. ir' = EmitInstr(g, AtMark(frame.exit.index, Live(scopes)))
  BY <1>2, <1>4, <1>5 DEF EndLoop
<1>8. Follows(ir', ir)
  <2>1. Follows(ir', g) /\ Follows(g, ir)
    BY <1>1, <1>4, <1>5, <1>6, <1>7, EmitInstrFacts, FollowsFacts
  <2> QED BY <1>1, <2>1, FollowsFacts
<1>9. frames' \in Seq(Frame) /\ closing' = FALSE
  BY <1>1, LastFront DEF EndLoop
<1>10. UNCHANGED <<scopes, fixups, labelMap, nextIndex, returnBlock, counts>>
  BY DEF EndLoop
<1> QED BY <1>1, <1>8, <1>9, <1>10, KeptFacts DEF TypeOK

LEMMA IInvEndFunction ==
  ASSUME IInv, NEW isEmpty \in BOOLEAN, EndFunction(isEmpty)
  PROVE  IInv'
<1>1. /\ TypeOK /\ ir \in Body /\ scopes \in Seq(Scope) /\ returnBlock \in JumpDest
  BY DEF IInv, TypeOK, Consistent
<1>2. returnBlock.block \in Nat /\ returnBlock.index \in Nat /\ ir.insert \in Nat
  BY <1>1, BodyFacts DEF JumpDest
<1> DEFINE block == returnBlock.block
           user == CHOOSE i \in Users(ir, block) : TRUE
           isFoldable == HasOneUse(ir, block) /\ ir.blocks[user].term.kind = "br"
<1>3. PICK placed : placed = IF HaveInsertPoint /\ (isEmpty \/ Users(ir, block) = {})
                               THEN ReplaceAllUses(ir, block, ir.insert)
                             ELSE IF ~HaveInsertPoint /\ isFoldable
                               THEN SetInsertPoint(SetTerm(ir, user, NoTerm), user)
                             ELSE EmitBlock(ir, block)
  OBVIOUS
<1>4. ir' = EmitInstr(placed, AtMark(returnBlock.index, Live(scopes)))
  BY <1>3 DEF EndFunction
<1>5. Follows(placed, ir)
  <2>1. Follows(ReplaceAllUses(ir, block, ir.insert), ir) /\ Follows(EmitBlock(ir, block), ir)
    BY <1>1, <1>2, ReplaceAllUsesFacts, EmitBlockFacts
  <2>2. isFoldable => Follows(SetInsertPoint(SetTerm(ir, user, NoTerm), user), ir)
    <3>1. SUFFICES ASSUME isFoldable PROVE Follows(SetInsertPoint(SetTerm(ir, user, NoTerm), user), ir)
      OBVIOUS
    <3>2. PICK i : i = user
      OBVIOUS
    <3>3. i \in Nat
      <4>1. Users(ir, block) # {} /\ Users(ir, block) \subseteq Nat
        BY <1>1, <3>1, BodyFacts DEF HasOneUse, Users
      <4> QED BY <3>2, <4>1
    <3>4. PICK f \in Body : f = SetTerm(ir, i, NoTerm) /\ Follows(f, ir)
      BY <1>1, TermFacts, SetTermFacts DEF Follows
    <3>5. Follows(SetInsertPoint(f, i), f)
      BY <3>3, SetInsertPointFacts
    <3>6. Follows(SetInsertPoint(f, i), ir)
      BY <1>1, <3>4, <3>5, FollowsFacts
    <3> QED BY <3>2, <3>4, <3>6
  <2> HIDE DEF isFoldable, user, block
  <2> QED BY <1>3, <2>1, <2>2
<1>6. Follows(ir', ir)
  <2>1. AtMark(returnBlock.index, Live(scopes)) \in Instruction /\ placed \in Body
    BY <1>1, <1>2, <1>5, LiveFacts, InstructionFacts DEF Follows
  <2>2. Follows(ir', placed)
    BY <1>4, <2>1, EmitInstrFacts
  <2> QED BY <1>1, <1>5, <2>2, FollowsFacts
<1>7. frames' \in Seq(Frame) /\ closing' = FALSE
  BY DEF EndFunction
<1>8. UNCHANGED <<scopes, fixups, labelMap, nextIndex, returnBlock, counts>>
  BY DEF EndFunction
<1> QED BY <1>1, <1>6, <1>7, <1>8, KeptFacts DEF TypeOK

-----------------------------------------------------------------------------
(* The theorems                                                             *)

LEMMA IInvNext ==
  ASSUME MaxJumps < FixupDepths, IInv, [Next]_vars
  PROVE  IInv'
<1>1. CASE UNCHANGED vars
  <2>1. ir \in Body /\ TypeOK
    BY DEF IInv, Consistent
  <2>2. Follows(ir', ir)
    BY <1>1, <2>1 DEF vars, Follows, Body
  <2> QED BY <1>1, <2>1, <2>2, KeptFacts DEF vars, TypeOK, IInv
<1>2. ASSUME NEW kind \in Kinds, PushCleanup(kind) PROVE IInv'
  BY <1>2, IInvPushCleanup
<1>3. CASE OpenScope
  BY <1>3, IInvOpenScope
<1>4. CASE OpenLoop
  BY <1>4, IInvOpenLoop
<1>5. ASSUME NEW conditional \in BOOLEAN,
             Break(conditional) \/ Continue(conditional) \/ Return(conditional)
      PROVE  IInv'
  BY <1>5, IInvJumps
<1>6. ASSUME NEW conditional \in BOOLEAN, NEW l \in Labels, Goto(l, conditional) PROVE IInv'
  BY <1>6, IInvGoto
<1>7. ASSUME NEW l \in Labels, EmitLabel(l) PROVE IInv'
  BY <1>7, IInvEmitLabel
<1>8. CASE BeginClose
  BY <1>8, IInvBeginClose
<1>9. CASE PopUnneeded
  BY <1>9, IInvPopUnneeded
<1>10. CASE PopDirectly
  BY <1>10, IInvPopDirectly
<1>11. CASE PopThreaded
  BY <1>11, IInvPopThreaded
<1>12. CASE EndScope
  BY <1>12, IInvEndScope
<1>13. CASE EndLoop
  BY <1>13, IInvEndLoop
<1>14. ASSUME NEW isEmpty \in BOOLEAN, EndFunction(isEmpty) PROVE IInv'
  BY <1>14, IInvEndFunction
<1> QED BY <1>1, <1>2, <1>3, <1>4, <1>5, <1>6, <1>7, <1>8, <1>9, <1>10, <1>11, <1>12, <1>13, <1>14
        DEF Next

LEMMA Invariance == MaxJumps < FixupDepths => (Spec => []IInv)
<1> SUFFICES ASSUME MaxJumps < FixupDepths PROVE Spec => []IInv
  OBVIOUS
<1>1. Init => IInv
  BY IInvInit
<1>2. IInv /\ [Next]_vars => IInv'
  BY IInvNext
<1> QED BY <1>1, <1>2, PTL DEF Spec

(* As long as a function has fewer jumps than EHCleanupScope has fixup      *)
(* depths, the variables keep their types, whatever else is in it.          *)
THEOREM TypeCorrect == MaxJumps < FixupDepths => (Spec => []TypeOK)
<1> SUFFICES ASSUME MaxJumps < FixupDepths PROVE Spec => []TypeOK
  OBVIOUS
<1>1. IInv => TypeOK
  BY DEF IInv
<1> QED BY <1>1, Invariance, PTL

(* Branch fixups exist only inside of a normal cleanup, and none of them is *)
(* taken away that a scope counts on: the assertions at CGCleanup.cpp:239,  *)
(* 333, 532 and 807.                                                        *)
THEOREM FixupsCorrect == MaxJumps < FixupDepths => (Spec => []FixupsFitTheirScopes)
<1> SUFFICES ASSUME MaxJumps < FixupDepths PROVE Spec => []FixupsFitTheirScopes
  OBVIOUS
<1>1. IInv => FixupsFitTheirScopes
  BY DEF IInv, Consistent, Fits, FixupsFitTheirScopes
<1> QED BY <1>1, Invariance, PTL

(* A popped cleanup that some jumps pass through has an enclosing cleanup   *)
(* that they go on to: the assertion at CGCleanup.cpp:694.                  *)
THEOREM BranchThroughsCorrect == MaxJumps < FixupDepths => (Spec => []BranchThroughHasTarget)
<1> SUFFICES ASSUME MaxJumps < FixupDepths PROVE Spec => []BranchThroughHasTarget
  OBVIOUS
<1> QED BY BranchThroughFacts, Invariance, PTL
=============================================================================
