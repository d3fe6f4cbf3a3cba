------------------------ MODULE CleanupScopesProperties ------------------------
(***************************************************************************)
(* What CleanupScopes must guarantee.                                      *)
(***************************************************************************)
EXTENDS CleanupScopes

CONSTANT MaxWalk   \* bound on the steps of an execution between two marks

(* An execution of the finished code: the place, the index stored last, -1  *)
(* if there is none, and the cleanups run so far.  It stops at a destination,*)
(* or where the code leads nowhere.                                          *)
From(b, i) ==
  [block |-> b, pos |-> i, slot |-> -1, ran |-> << >>, stopped |-> FALSE]

Executed(w, instr) ==
  CASE instr.op = "store" -> [w EXCEPT !.pos = @ + 1, !.slot = instr.n]
    [] instr.op = "run"   -> [w EXCEPT !.pos = @ + 1, !.ran = Append(@, instr.n)]
    [] instr.op = "jump"  -> [w EXCEPT !.pos = @ + 1]
    [] instr.op = "at"    -> [w EXCEPT !.stopped = TRUE]

Enter(w, b) == [w EXCEPT !.block = b, !.pos = 1, !.stopped = (b = 0)]

(* A switch without a stored index, or with two cases for it, leads nowhere.*)
Branched(w, term) ==
  LET hits == {k \in DOMAIN term.cases : term.cases[k].index = w.slot}
  IN CASE term.kind = "br" -> Enter(w, term.to)
       [] term.kind = "switch" /\ w.slot >= 0 /\ hits = {} -> Enter(w, term.to)
       [] term.kind = "switch" /\ w.slot >= 0 /\ Cardinality(hits) = 1 ->
            Enter(w, term.cases[CHOOSE k \in hits : TRUE].block)
       [] OTHER -> [w EXCEPT !.stopped = TRUE]

Step(w) ==
  LET block == ir.blocks[w.block]
  IN IF w.stopped THEN w
     ELSE IF w.pos <= Len(block.code) THEN Executed(w, block.code[w.pos])
     ELSE Branched(w, block.term)

Walk(b, i) ==
  LET walk[n \in 0 .. MaxWalk] == IF n = 0 THEN From(b, i) ELSE Step(walk[n - 1])
  IN walk[MaxWalk]

(* The destination, and others in the same place, are where w has stopped.  *)
HasArrived(w, jump) ==
  w.block # 0 /\
    LET code == ir.blocks[w.block].code
    IN \E j \in w.pos .. Len(code) :
         /\ \A k \in w.pos .. j : code[k].op \in {"at", "jump"}
         /\ code[j].op = "at" /\ code[j].n = jump.n
         /\ code[j].live \subseteq jump.live
         /\ {w.ran[m] : m \in DOMAIN w.ran} = jump.live \ code[j].live
         /\ \A m, n \in DOMAIN w.ran : m < n => w.ran[m] > w.ran[n]

(* In the finished function every jump and every fallthrough out of a scope *)
(* runs exactly the cleanups of the scopes it leaves, each once, from the   *)
(* innermost outward, and arrives where it should: "The ultimate            *)
(* destination of the branch" (CodeGenSubprogram.h:93), although the code   *)
(* of a cleanup is shared by all that pass through it.                      *)
JumpsRunTheirCleanups ==
  frames = << >> =>
    \A b \in DOMAIN ir.blocks : \A i \in DOMAIN ir.blocks[b].code :
      LET jump == ir.blocks[b].code[i]
          w == Walk(b, i + 1)
      IN jump.op = "jump" => w.stopped /\ HasArrived(w, jump)

(* Branch fixups exist only inside of a normal cleanup, and each was pushed *)
(* when there were no more of them than now: "we can't pop more fixups than *)
(* the fixup depth on the innermost normal cleanup, or else fixups that we  *)
(* try to add to that cleanup will end up in the wrong place"               *)
(* (CGCleanup.cpp:227; the assertions at 239, 333, 532 and 807).            *)
FixupsFitTheirScopes ==
  /\ fixups # << >> => InnermostNormal(scopes) # 0
  /\ \A i \in Normals(scopes) : scopes[i].fixupDepth <= Len(fixups)
=============================================================================
