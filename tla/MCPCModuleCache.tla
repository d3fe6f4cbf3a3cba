--------------------------- MODULE MCPCModuleCache ---------------------------
(***************************************************************************)
(* Small module graphs and caches for the runs of PCModuleCache.           *)
(***************************************************************************)
EXTENDS PCModuleCacheProperties

(* A diamond: T needs L and R, which need B; the headers of B import B      *)
(* itself.  Beside it a cycle: X needs Y, which needs X.                    *)
MCDiamond == {"T", "L", "R", "B"}

MCDiamondAndCycle ==
  [m \in MCDiamond \cup {"X", "Y"} |->
     CASE m = "T" -> << "L", "R" >>
       [] m = "X" -> << "Y" >>
       [] m = "Y" -> << "X" >>
       [] OTHER   -> << "B" >>]

(* A chain: T needs L, which needs B.                                       *)
MCChain == [m \in {"T", "L", "B"} |->
              CASE m = "T" -> << "L" >> [] m = "L" -> << "B" >> [] OTHER -> << >>]

MCEmptyCache == {[m \in PCModules |-> Absent]}

(* Every cache in which a file, if it is there, was built from headers that *)
(* were current or not, by a process that loaded what was there.            *)
MCOldCaches ==
  {c \in [PCModules -> {Absent} \cup
            {[stale |-> s, imports |-> im] :
               s \in SUBSET PCModules, im \in {Imports[m] : m \in PCModules}}] :
     /\ \A m \in PCModules : c[m] # Absent =>
          /\ c[m].imports = Imports[m]
          /\ c[m].stale \subseteq Closure(m)
          /\ \A k \in 1 .. Len(Imports[m]) :
               LET i == Imports[m][k]
               IN /\ c[i] # Absent
                  /\ c[i].stale = c[m].stale \cap Closure(i)}

MCAllBroken == SUBSET PCModules

MCDiamondBroken == SUBSET MCDiamond

MCNoneBroken == {{}}

MCPrograms1 == {[p \in Procs |-> << m >>] : m \in PCModules}

(* Modules of the diamond of their own choice, the same one of the cycle,   *)
(* or some twice.                                                           *)
MCProgramsDiamondOrCycle ==
  [Procs -> {<< m >> : m \in MCDiamond}]
    \cup {[p \in Procs |-> s] : s \in {<< "X" >>, << "Y" >>, << "L", "B", "L" >>}}
=============================================================================
