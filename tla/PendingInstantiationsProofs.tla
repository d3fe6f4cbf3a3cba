--------------------- MODULE PendingInstantiationsProofs ---------------------
(***************************************************************************)
(* Proofs about PendingInstantiations, for every translation unit: the     *)
(* variables keep their types, a member of a local class waits only while  *)
(* the scope of its function is open, no vtable use is discarded, every    *)
(* vtable that is used is handled, and a definition that is not constexpr  *)
(* is handed to the consumer once; and for every unit whose templates come *)
(* in time: all that it refers to is defined at its end.                   *)
(***************************************************************************)
EXTENDS PendingInstantiationsProperties, SequenceLemmas, FiniteSetTheorems, TLAPS

-----------------------------------------------------------------------------
(* The inductive invariant                                                  *)

(* The functions whose scopes are open below or in the call i of s.         *)
OpenScopes(s, i) == {s[j].of : j \in {k \in 1 .. i : ScopeIsOpen(s[k])}}

(* A call that may queue the members of a local class has the function of   *)
(* that class open, as has the code it still has to go through; its saved   *)
(* queues name nothing of a local class; and a call made by one that has    *)
(* defined its vtables is recursive and has saved no vtable uses.           *)
FrameOK(p, s, i) ==
  /\ s[i].of = Parser <=> i = 1
  /\ s[i].stage \in {"local", "pending", "done"} => s[i].code = << >>
  /\ ScopeIsOpen(s[i]) => LexicalScopes(p, s[i].of) \subseteq OpenScopes(s, i)
  /\ \A r \in Range(s[i].code) : ScopesOf(p, r) \subseteq OpenScopes(s, i)
  /\ \A c \in Range(s[i].savedUses) : ClassScopes(p, c) = {}
  /\ \A x \in Range(s[i].savedPending) : p.enclosing[x] = Parser
  /\ i < Len(s) /\ s[i].stage = "pending" => s[i + 1].recursive /\ s[i + 1].savedUses = << >>

StackOK(p, s) ==
  s \in Seq(Frame) /\ s # << >> /\ \A i \in 1 .. Len(s) : FrameOK(p, s, i)

(* What waits in the queues.                                                *)
LocalsOK(p, s, queue) ==
  \A x \in Range(queue) : p.enclosing[x] # Parser /\ Outer(p, x) \subseteq OpenScopes(s, Len(s))

UsesOK(p, uses) == \A c \in Range(uses) : ClassScopes(p, c) = {}

PendingOK(p, queue) == \A x \in Range(queue) : p.enclosing[x] = Parser

FileOK ==
  /\ file \subseteq program.file /\ program.headers \subseteq patterns
  /\ \A c \in keyDefined : ClassScopes(program, c) = {}

DrainedOK == Top.stage = "pending" => vtableUses = << >>

IInv ==
  /\ TypeOK
  /\ StackOK(program, stack)
  /\ LocalsOK(program, stack, pendingLocal)
  /\ UsesOK(program, vtableUses)
  /\ PendingOK(program, pendingInstantiations)
  /\ FileOK
  /\ DrainedOK

-----------------------------------------------------------------------------
(* Programs                                                                 *)

LEMMA ProgramFacts ==
  ASSUME NEW p \in Programs
  PROVE  /\ \A x \in Specializations :
              /\ p.body[x] \in Seq(Reference) /\ p.enclosing[x] \in Subprograms \cup {Parser}
              /\ \A r \in Range(p.body[x]) : ScopesOf(p, r) \subseteq LexicalScopes(p, x)
              /\ p.enclosing[x] # Parser => p.enclosing[x] # x /\ x \in p.headers \ p.late
         /\ \A c \in Classes : /\ p.virtual[c] \in Seq(Subprograms)
                               /\ c \notin p.local => ClassScopes(p, c) = {}
         /\ \A x \in Subprograms : /\ p.parent[x] \subseteq Classes
                                   /\ \A c \in p.parent[x] : ClassScopes(p, c) \subseteq Outer(p, x)
         /\ p.file \subseteq Reference \cup Declaration /\ p.headers \subseteq Specializations
         /\ \A d \in p.file : ScopesOf(p, d) = {}
<1>1. p \in Program
  BY SpecializationsAssumption
<1>2. /\ p.body \in [Specializations -> Seq(Reference)]
      /\ p.enclosing \in [Specializations -> Subprograms \cup {Parser}]
      /\ p.parent \in [Subprograms -> SUBSET Classes]
      /\ p.virtual \in [Classes -> Seq(Subprograms)]
      /\ p.file \subseteq Reference \cup Declaration /\ p.headers \subseteq Specializations
  BY <1>1 DEF Program
<1> QED BY <1>2, LocalClassesAssumption

LEMMA ScopeFacts ==
  ASSUME NEW p \in Programs, NEW x \in Specializations
  PROVE  /\ LexicalScopes(p, x) \subseteq Subprograms
         /\ LexicalScopes(p, x) \subseteq Outer(p, x) \cup {x}
         /\ p.enclosing[x] = Parser <=> Outer(p, x) = {}
         /\ p.enclosing[x] # Parser => p.enclosing[x] \in Outer(p, x)
<1>1. LexicalScopes(p, x) \subseteq Subprograms
  BY DEF LexicalScopes
<1>2. LexicalScopes(p, x) \subseteq Outer(p, x) \cup {x}
  BY DEF Outer
<1>3. ASSUME p.enclosing[x] = Parser PROVE Outer(p, x) = {}
  <2>1. \A y \in {x} : p.enclosing[y] # Parser => p.enclosing[y] \in {x}
    BY <1>3
  <2>2. {x} \in SUBSET Specializations
    OBVIOUS
  <2>3. LexicalScopes(p, x) \subseteq {x}
    BY <2>1, <2>2 DEF LexicalScopes
  <2> QED BY <2>3 DEF Outer
<1>4. ASSUME p.enclosing[x] # Parser PROVE p.enclosing[x] \in Outer(p, x)
  <2>1. p.enclosing[x] \in Subprograms /\ p.enclosing[x] # x
    BY <1>4, ProgramFacts
  <2>2. p.enclosing[x] \in LexicalScopes(p, x)
    BY <1>4, <2>1 DEF LexicalScopes
  <2> QED BY <2>1, <2>2 DEF Outer
<1> QED BY <1>1, <1>2, <1>3, <1>4

(* What a reference to x, or to c, needs the code around it to be in.       *)
LEMMA ScopesOfFacts ==
  ASSUME NEW p \in Programs
  PROVE  /\ \A x \in Specializations : \A r : r.of = x => ScopesOf(p, r) = Outer(p, x)
         /\ \A c \in Classes : \A r : r.of = c => ScopesOf(p, r) = ClassScopes(p, c)
<1>1. \A c \in Classes : c \notin Specializations
  BY SpecializationsAssumption
<1> QED BY <1>1 DEF ScopesOf

(* The code that marks the virtual members of c.                            *)
LEMMA VirtualMembersFacts ==
  ASSUME program \in Programs, NEW c \in Classes
  PROVE  /\ VirtualMembers(c) \in Seq(Reference)
         /\ \A r \in Range(VirtualMembers(c)) : ScopesOf(program, r) \subseteq ClassScopes(program, c)
<1>1. PICK members \in Seq(Subprograms) : members = program.virtual[c]
  BY ProgramFacts
<1>2. DOMAIN members = 1 .. Len(members) /\ Len(members) \in Nat
  OBVIOUS
<1>3. \A i \in 1 .. Len(members) : members[i] \in Subprograms /\ members[i] \in Specializations
  BY DEF Specializations
<1>4. \A i \in 1 .. Len(members) : [kind |-> "use", of |-> members[i]] \in Reference
  BY <1>3 DEF Reference
<1>5. VirtualMembers(c) = [i \in 1 .. Len(members) |-> [kind |-> "use", of |-> members[i]]]
  BY <1>1, <1>2 DEF VirtualMembers
<1>6. VirtualMembers(c) \in Seq(Reference)
  BY <1>2, <1>4, <1>5
<1>7. ASSUME NEW r \in Range(VirtualMembers(c))
      PROVE  ScopesOf(program, r) \subseteq ClassScopes(program, c)
  <2>1. PICK i \in 1 .. Len(members) : r = [kind |-> "use", of |-> members[i]]
    BY <1>2, <1>5 DEF Range
  <2>2. ScopesOf(program, r) = Outer(program, members[i])
    BY <1>3, <2>1, ScopesOfFacts
  <2>3. members[i] \in Range(program.virtual[c])
    BY <1>1, <1>2 DEF Range
  <2> QED BY <2>2, <2>3 DEF ClassScopes
<1> QED BY <1>6, <1>7

(* The elements of sequences.                                               *)
LEMMA RangeFacts ==
  ASSUME NEW S, NEW q \in Seq(S)
  PROVE  /\ Range(q) \subseteq S
         /\ q # << >> => /\ Tail(q) \in Seq(S) /\ Head(q) \in Range(q) /\ Head(q) \in S
                         /\ Range(Tail(q)) \subseteq Range(q)
         /\ \A e \in S : /\ Append(q, e) \in Seq(S)
                         /\ Range(Append(q, e)) = Range(q) \cup {e}
         /\ \A r \in Seq(S) : q \o r \in Seq(S) /\ Range(q \o r) = Range(q) \cup Range(r)
<1>1. Range(q) \subseteq S
  BY DEF Range
<1>2. ASSUME q # << >>
      PROVE  /\ Tail(q) \in Seq(S) /\ Head(q) \in Range(q) /\ Head(q) \in S
             /\ Range(Tail(q)) \subseteq Range(q)
  <2>1. PICK rest : rest = Tail(q)
    OBVIOUS
  <2>2. /\ rest \in Seq(S) /\ Len(rest) = Len(q) - 1 /\ Len(q) \in Nat \ {0}
        /\ \A i \in 1 .. Len(q) - 1 : rest[i] = q[i + 1]
        /\ Head(q) = q[1] /\ q[1] \in S
    BY <1>2, <2>1
  <2>3. DOMAIN rest = 1 .. Len(q) - 1 /\ DOMAIN q = 1 .. Len(q)
    BY <2>2
  <2>4. Range(rest) \subseteq Range(q) /\ Head(q) \in Range(q)
    BY <2>2, <2>3 DEF Range
  <2> QED BY <2>1, <2>2, <2>4
<1>3. ASSUME NEW e \in S
      PROVE  Append(q, e) \in Seq(S) /\ Range(Append(q, e)) = Range(q) \cup {e}
  <2>1. PICK longer : longer = Append(q, e)
    OBVIOUS
  <2>2. /\ longer \in Seq(S) /\ Len(longer) = Len(q) + 1 /\ longer[Len(q) + 1] = e
        /\ \A i \in 1 .. Len(q) : longer[i] = q[i]
    BY <2>1, AppendLast
  <2>3. DOMAIN longer = 1 .. Len(q) + 1 /\ DOMAIN q = 1 .. Len(q) /\ Len(q) \in Nat
    BY <2>2
  <2>4. Range(longer) = Range(q) \cup {e}
    BY <2>2, <2>3 DEF Range
  <2> QED BY <2>1, <2>2, <2>4
<1>4. ASSUME NEW r \in Seq(S)
      PROVE  q \o r \in Seq(S) /\ Range(q \o r) = Range(q) \cup Range(r)
  <2>1. PICK both : both = q \o r
    OBVIOUS
  <2>2. /\ both \in Seq(S) /\ Len(both) = Len(q) + Len(r)
        /\ \A i \in 1 .. Len(q) : both[i] = q[i]
        /\ \A i \in 1 .. Len(r) : both[Len(q) + i] = r[i]
    BY <2>1, ConcatProperties
  <2>3. /\ DOMAIN both = 1 .. Len(q) + Len(r) /\ DOMAIN q = 1 .. Len(q) /\ DOMAIN r = 1 .. Len(r)
        /\ Len(q) \in Nat /\ Len(r) \in Nat
    BY <2>2
  <2>4. Range(both) \subseteq Range(q) \cup Range(r)
    <3>1. ASSUME NEW i \in 1 .. Len(q) + Len(r) PROVE both[i] \in Range(q) \cup Range(r)
      <4>1. CASE i \in 1 .. Len(q)
        BY <2>2, <2>3, <4>1 DEF Range
      <4>2. CASE i \notin 1 .. Len(q)
        <5>1. i - Len(q) \in 1 .. Len(r) /\ Len(q) + (i - Len(q)) = i
          BY <2>3, <4>2
        <5>2. both[i] = r[i - Len(q)]
          BY <2>2, <5>1
        <5> QED BY <2>3, <5>1, <5>2 DEF Range
      <4> QED BY <4>1, <4>2
    <3> QED BY <2>3, <3>1 DEF Range
  <2>5. Range(q) \subseteq Range(both)
    BY <2>2, <2>3 DEF Range
  <2>6. Range(r) \subseteq Range(both)
    <3>1. \A i \in 1 .. Len(r) : Len(q) + i \in 1 .. Len(q) + Len(r)
      BY <2>3
    <3> QED BY <2>2, <2>3, <3>1 DEF Range
  <2> QED BY <2>1, <2>2, <2>4, <2>5, <2>6
<1> QED BY <1>1, <1>2, <1>3, <1>4

-----------------------------------------------------------------------------
(* The stack of calls                                                       *)

LEMMA OpenScopesKept ==
  ASSUME NEW s, NEW t, NEW n \in Nat, \A j \in 1 .. n : s[j] = t[j]
  PROVE  \A i \in 0 .. n : OpenScopes(s, i) = OpenScopes(t, i)
<1> SUFFICES ASSUME NEW i \in 0 .. n PROVE OpenScopes(s, i) = OpenScopes(t, i)
  OBVIOUS
<1>1. \A j \in 1 .. i : s[j] = t[j]
  OBVIOUS
<1> QED BY <1>1 DEF OpenScopes

LEMMA OpenScopesLast ==
  ASSUME NEW s, NEW n \in Nat \ {0}
  PROVE  /\ ScopeIsOpen(s[n]) => OpenScopes(s, n) = OpenScopes(s, n - 1) \cup {s[n].of}
         /\ ~ScopeIsOpen(s[n]) => OpenScopes(s, n) = OpenScopes(s, n - 1)
<1>1. 1 .. n = (1 .. n - 1) \cup {n} /\ n \notin 1 .. n - 1
  OBVIOUS
<1>2. {k \in 1 .. n : ScopeIsOpen(s[k])}
        = {k \in 1 .. n - 1 : ScopeIsOpen(s[k])} \cup {k \in {n} : ScopeIsOpen(s[k])}
  BY <1>1
<1>3. CASE ScopeIsOpen(s[n])
  <2>1. {k \in {n} : ScopeIsOpen(s[k])} = {n}
    BY <1>3
  <2> QED BY <1>2, <1>3, <2>1 DEF OpenScopes
<1>4. CASE ~ScopeIsOpen(s[n])
  <2>1. {k \in {n} : ScopeIsOpen(s[k])} = {}
    BY <1>4
  <2> QED BY <1>2, <1>4, <2>1 DEF OpenScopes
<1> QED BY <1>3, <1>4

SameCall(f, g) ==
  /\ g.of = f.of /\ g.recursive = f.recursive
  /\ g.savedUses = f.savedUses /\ g.savedPending = f.savedPending

(* The call on top goes on, and may leave its scope with no code to do.     *)
LEMMA CallGoesOn ==
  ASSUME NEW p, NEW s, StackOK(p, s), NEW g \in Frame, SameCall(Last(s), g),
         ScopeIsOpen(g) => ScopeIsOpen(Last(s)),
         (ScopeIsOpen(Last(s)) => ScopeIsOpen(g)) \/ g.code = << >>,
         g.stage \in {"local", "pending", "done"} => g.code = << >>,
         \A r \in Range(g.code) : ScopesOf(p, r) \subseteq OpenScopes(s, Len(s))
  PROVE  LET new == Append(Front(s), g) IN
         /\ StackOK(p, new) /\ Len(new) = Len(s) /\ Last(new) = g
         /\ OpenScopes(s, Len(s)) \subseteq OpenScopes(new, Len(new)) \cup {g.of}
         /\ (ScopeIsOpen(g) <=> ScopeIsOpen(Last(s))) =>
              OpenScopes(new, Len(new)) = OpenScopes(s, Len(s))
<1> DEFINE n == Len(s)
<1>1. PICK new : new = Append(Front(s), g)
  OBVIOUS
<1>2. s \in Seq(Frame) /\ s # << >> /\ \A i \in 1 .. n : FrameOK(p, s, i)
  BY DEF StackOK
<1>3. /\ new \in Seq(Frame) /\ new # << >> /\ Len(new) = n /\ n \in Nat \ {0}
      /\ \A i \in 1 .. n - 1 : new[i] = s[i]
      /\ new[n] = g /\ Last(new) = g /\ Last(s) = s[n]
  <2>1. /\ Front(s) \in Seq(Frame) /\ Len(Front(s)) = n - 1 /\ n \in Nat \ {0}
        /\ \A i \in 1 .. n - 1 : Front(s)[i] = s[i]
        /\ Last(s) = s[n]
    BY <1>2, LastFront
  <2>2. /\ new \in Seq(Frame) /\ new # << >> /\ Len(new) = Len(Front(s)) + 1
        /\ \A i \in 1 .. Len(Front(s)) : new[i] = Front(s)[i]
        /\ new[Len(Front(s)) + 1] = g
    BY <1>1, <2>1, AppendLast
  <2>3. Len(new) = n /\ new[n] = g /\ \A i \in 1 .. n - 1 : new[i] = s[i]
    BY <2>1, <2>2
  <2>4. Last(new) = g
    BY <2>3 DEF Last
  <2> QED BY <2>1, <2>2, <2>3, <2>4
<1>4. \A i \in 0 .. n - 1 : OpenScopes(new, i) = OpenScopes(s, i)
  <2>1. n - 1 \in Nat
    BY <1>3
  <2> QED BY <1>3, <2>1, OpenScopesKept
<1>5. OpenScopes(new, n - 1) = OpenScopes(s, n - 1)
  BY <1>3, <1>4
<1>6. /\ ScopeIsOpen(s[n]) => OpenScopes(s, n) = OpenScopes(s, n - 1) \cup {s[n].of}
      /\ ~ScopeIsOpen(s[n]) => OpenScopes(s, n) = OpenScopes(s, n - 1)
      /\ ScopeIsOpen(g) => OpenScopes(new, n) = OpenScopes(new, n - 1) \cup {g.of}
      /\ ~ScopeIsOpen(g) => OpenScopes(new, n) = OpenScopes(new, n - 1)
  BY <1>3, OpenScopesLast
<1>7. /\ OpenScopes(s, n) \subseteq OpenScopes(new, n) \cup {g.of}
      /\ (ScopeIsOpen(g) <=> ScopeIsOpen(s[n])) => OpenScopes(new, n) = OpenScopes(s, n)
  BY <1>3, <1>5, <1>6 DEF SameCall
<1>8. ASSUME NEW i \in 1 .. n - 1 PROVE FrameOK(p, new, i)
  <2>1. FrameOK(p, s, i) /\ i \in 1 .. n /\ i < n /\ i \in 0 .. n - 1 /\ i + 1 \in 1 .. n
    BY <1>2, <1>3
  <2>2. new[i] = s[i] /\ OpenScopes(new, i) = OpenScopes(s, i)
    BY <1>3, <1>4, <2>1
  <2>3. new[i + 1].recursive = s[i + 1].recursive /\ new[i + 1].savedUses = s[i + 1].savedUses
    <3>1. CASE i + 1 = n
      BY <1>3, <3>1 DEF SameCall
    <3>2. CASE i + 1 # n
      BY <1>3, <2>1, <3>2
    <3> QED BY <3>1, <3>2
  <2> QED BY <1>3, <2>1, <2>2, <2>3 DEF FrameOK
<1>9. FrameOK(p, new, n)
  <2>1. FrameOK(p, s, n)
    BY <1>2, <1>3
  <2>2. g.of = Parser <=> n = 1
    BY <1>3, <2>1 DEF FrameOK, SameCall
  <2>3. ScopeIsOpen(g) => LexicalScopes(p, g.of) \subseteq OpenScopes(new, n)
    BY <1>3, <1>7, <2>1 DEF FrameOK, SameCall
  <2>4. \A r \in Range(g.code) : ScopesOf(p, r) \subseteq OpenScopes(new, n)
    <3>1. CASE g.code = << >>
      BY <3>1 DEF Range
    <3>2. CASE g.code # << >>
      BY <1>3, <1>7, <3>2
    <3> QED BY <3>1, <3>2
  <2>5. /\ \A c \in Range(g.savedUses) : ClassScopes(p, c) = {}
        /\ \A x \in Range(g.savedPending) : p.enclosing[x] = Parser
    BY <1>3, <2>1 DEF FrameOK, SameCall
  <2> QED BY <1>3, <2>2, <2>3, <2>4, <2>5 DEF FrameOK
<1>10. \A i \in 1 .. n : FrameOK(p, new, i)
  <2>1. \A i \in 1 .. n : i = n \/ i \in 1 .. n - 1
    BY <1>3
  <2> QED BY <1>8, <1>9, <2>1
<1>11. StackOK(p, new)
  BY <1>3, <1>10 DEF StackOK
<1> QED BY <1>1, <1>3, <1>7, <1>11

(* A call is made for a specialization whose scopes are open.               *)
LEMMA CallBegins ==
  ASSUME NEW p \in Programs, NEW s, StackOK(p, s), NEW g \in Frame,
         g.of \in Specializations, g.stage = "body", g.code = p.body[g.of],
         Outer(p, g.of) \subseteq OpenScopes(s, Len(s)),
         UsesOK(p, g.savedUses), PendingOK(p, g.savedPending),
         Last(s).stage = "pending" => g.recursive /\ g.savedUses = << >>
  PROVE  LET new == Append(s, g) IN
         /\ StackOK(p, new) /\ Last(new) = g
         /\ OpenScopes(s, Len(s)) \subseteq OpenScopes(new, Len(new))
<1> DEFINE n == Len(s)
<1>1. PICK new : new = Append(s, g)
  OBVIOUS
<1>2. s \in Seq(Frame) /\ s # << >> /\ \A i \in 1 .. n : FrameOK(p, s, i)
  BY DEF StackOK
<1>3. /\ new \in Seq(Frame) /\ new # << >> /\ Len(new) = n + 1 /\ n \in Nat \ {0}
      /\ \A i \in 1 .. n : new[i] = s[i]
      /\ new[n + 1] = g /\ Last(new) = g /\ Last(s) = s[n]
  <2>1. IsPushed(Frame, new, s, g)
    BY <1>1, <1>2, ElementPushed, Zenon
  <2>2. Last(s) = s[n] /\ n \in Nat \ {0}
    BY <1>2, LastFront
  <2> QED BY <2>1, <2>2 DEF IsPushed
<1>4. \A i \in 0 .. n : OpenScopes(new, i) = OpenScopes(s, i)
  BY <1>3, OpenScopesKept
<1>5. g.of # Parser /\ ScopeIsOpen(g)
  BY SpecializationsAssumption DEF ScopeIsOpen
<1>6. OpenScopes(new, n + 1) = OpenScopes(s, n) \cup {g.of}
  <2>1. n + 1 \in Nat \ {0} /\ (n + 1) - 1 = n /\ n \in 0 .. n
    BY <1>3
  <2> QED BY <1>3, <1>4, <1>5, <2>1, OpenScopesLast
<1>7. ASSUME NEW i \in 1 .. n PROVE FrameOK(p, new, i)
  <2>1. FrameOK(p, s, i) /\ i \in 0 .. n /\ i + 1 \in 1 .. n + 1
    BY <1>2, <1>3
  <2>2. new[i] = s[i] /\ OpenScopes(new, i) = OpenScopes(s, i)
    BY <1>3, <1>4, <2>1
  <2>3. s[i].stage = "pending" => new[i + 1].recursive /\ new[i + 1].savedUses = << >>
    <3>1. CASE i = n
      BY <1>3, <3>1
    <3>2. CASE i # n
      BY <1>3, <2>1, <3>2 DEF FrameOK
    <3> QED BY <3>1, <3>2
  <2> QED BY <2>1, <2>2, <2>3 DEF FrameOK
<1>8. FrameOK(p, new, n + 1)
  <2>1. LexicalScopes(p, g.of) \subseteq OpenScopes(new, n + 1)
    BY <1>6, ScopeFacts
  <2>2. \A r \in Range(g.code) : ScopesOf(p, r) \subseteq OpenScopes(new, n + 1)
    BY <2>1, ProgramFacts
  <2> QED BY <1>3, <1>5, <2>1, <2>2 DEF FrameOK, UsesOK, PendingOK
<1>9. StackOK(p, new)
  <2>1. \A i \in 1 .. n + 1 : i = n + 1 \/ i \in 1 .. n
    BY <1>3
  <2> QED BY <1>3, <1>7, <1>8, <2>1 DEF StackOK
<1> QED BY <1>1, <1>3, <1>6, <1>9

(* A call returns after it has left its scope.                              *)
LEMMA CallReturns ==
  ASSUME NEW p, NEW s, StackOK(p, s), Last(s).of # Parser, ~ScopeIsOpen(Last(s))
  PROVE  /\ StackOK(p, Front(s))
         /\ OpenScopes(Front(s), Len(Front(s))) = OpenScopes(s, Len(s))
         /\ UsesOK(p, Last(s).savedUses) /\ PendingOK(p, Last(s).savedPending)
         /\ Last(Front(s)).stage = "pending" => Last(s).recursive /\ Last(s).savedUses = << >>
         /\ Last(s) \in Frame
<1> DEFINE n == Len(s)
<1>1. PICK new : new = Front(s)
  OBVIOUS
<1>2. s \in Seq(Frame) /\ s # << >> /\ \A i \in 1 .. n : FrameOK(p, s, i)
  BY DEF StackOK
<1>3. /\ new \in Seq(Frame) /\ Len(new) = n - 1 /\ n \in Nat \ {0}
      /\ \A i \in 1 .. n - 1 : new[i] = s[i]
      /\ Last(s) = s[n] /\ Last(s) \in Frame
  BY <1>1, <1>2, LastFront
<1>4. n # 1 /\ FrameOK(p, s, n)
  BY <1>2, <1>3 DEF FrameOK
<1>5. new # << >> /\ Last(new) = s[n - 1] /\ n - 1 \in 1 .. n - 1 /\ n - 1 \in Nat \ {0}
  <2>1. n - 1 \in Nat \ {0} /\ n - 1 \in 1 .. n - 1
    BY <1>3, <1>4
  <2> QED BY <1>3, <2>1 DEF Last
<1>6. \A i \in 0 .. n - 1 : OpenScopes(new, i) = OpenScopes(s, i)
  BY <1>3, <1>5, OpenScopesKept
<1>7. OpenScopes(new, n - 1) = OpenScopes(s, n)
  BY <1>3, <1>5, <1>6, OpenScopesLast
<1>8. ASSUME NEW i \in 1 .. n - 1 PROVE FrameOK(p, new, i)
  <2>1. FrameOK(p, s, i) /\ i \in 0 .. n - 1
    BY <1>2, <1>3
  <2>2. new[i] = s[i] /\ OpenScopes(new, i) = OpenScopes(s, i)
    BY <1>3, <1>6, <2>1
  <2>3. i < n - 1 /\ s[i].stage = "pending" => new[i + 1].recursive /\ new[i + 1].savedUses = << >>
    <3>1. ASSUME i < n - 1, s[i].stage = "pending"
          PROVE  new[i + 1].recursive /\ new[i + 1].savedUses = << >>
      <4>1. i + 1 \in 1 .. n - 1 /\ i < n
        BY <1>3, <3>1
      <4> QED BY <1>3, <2>1, <3>1, <4>1 DEF FrameOK
    <3> QED BY <3>1
  <2> QED BY <1>3, <2>1, <2>2, <2>3 DEF FrameOK
<1>9. StackOK(p, new)
  BY <1>3, <1>5, <1>8 DEF StackOK
<1>10. Last(new).stage = "pending" => s[n].recursive /\ s[n].savedUses = << >>
  <2>1. FrameOK(p, s, n - 1) /\ n - 1 < n /\ (n - 1) + 1 = n
    BY <1>2, <1>3, <1>5
  <2> QED BY <1>5, <2>1 DEF FrameOK
<1> QED BY <1>1, <1>3, <1>4, <1>7, <1>9, <1>10 DEF FrameOK, UsesOK, PendingOK

-----------------------------------------------------------------------------
(* Parts of an action                                                       *)

LEMMA TopFacts ==
  ASSUME IInv
  PROVE  /\ program \in Programs /\ Top \in Frame /\ Len(stack) \in Nat \ {0}
         /\ stack[Len(stack)] = Top
         /\ Top.of = Parser <=> Len(stack) = 1
         /\ Top.stage \in {"local", "pending", "done"} => Top.code = << >>
         /\ \A r \in Range(Top.code) : ScopesOf(program, r) \subseteq OpenScopes(stack, Len(stack))
<1>1. stack \in Seq(Frame) /\ stack # << >> /\ \A i \in 1 .. Len(stack) : FrameOK(program, stack, i)
  BY DEF IInv, StackOK
<1>2. Top \in Frame /\ Len(stack) \in Nat \ {0} /\ stack[Len(stack)] = Top
  BY <1>1, LastFront DEF Top
<1>3. FrameOK(program, stack, Len(stack))
  BY <1>1, <1>2
<1> QED BY <1>2, <1>3 DEF FrameOK, IInv, TypeOK

LEMMA FrameFacts ==
  ASSUME NEW f \in Frame
  PROVE  /\ f.of \in Specializations \cup {Parser} /\ f.code \in Seq(Reference)
         /\ f.stage \in {"body", "local", "vtables", "pending", "done"} /\ f.recursive \in BOOLEAN
         /\ f.index \in Nat /\ f.savedUses \in Seq(Classes)
         /\ f.savedPending \in Seq(Specializations)
  BY DEF Frame

(* A call that goes on is the same call with fields changed.                *)
LEMMA CodeUpdate ==
  ASSUME NEW f \in Frame, NEW code \in Seq(Reference), NEW g, g = [f EXCEPT !.code = code]
  PROVE  g \in Frame /\ SameCall(f, g) /\ g.code = code /\ g.stage = f.stage
  BY DEF Frame, SameCall

LEMMA StageUpdate ==
  ASSUME NEW f \in Frame, NEW stage \in {"body", "local", "vtables", "pending", "done"},
         NEW g, g = [f EXCEPT !.stage = stage]
  PROVE  g \in Frame /\ SameCall(f, g) /\ g.stage = stage /\ g.code = f.code
  BY DEF Frame, SameCall

(* The call on top has made its first reference, or has taken on other code *)
(* in the scopes that are open.                                             *)
LEMMA CodeChanges ==
  ASSUME IInv, NEW code \in Seq(Reference),
         Top.stage \in {"local", "pending", "done"} => code = << >>,
         \A r \in Range(code) : ScopesOf(program, r) \subseteq OpenScopes(stack, Len(stack))
  PROVE  LET new == Append(Front(stack), [Top EXCEPT !.code = code]) IN
         /\ StackOK(program, new) /\ Last(new).stage = Top.stage
         /\ OpenScopes(new, Len(new)) = OpenScopes(stack, Len(stack))
<1>1. PICK g : g = [Top EXCEPT !.code = code]
  OBVIOUS
<1>2. /\ Top \in Frame /\ g \in Frame /\ SameCall(Top, g) /\ g.code = code /\ g.stage = Top.stage
  <2>1. PICK f \in Frame : f = Top
    BY TopFacts
  <2>2. g \in Frame /\ SameCall(f, g) /\ g.code = code /\ g.stage = f.stage
    BY <1>1, <2>1, CodeUpdate
  <2> QED BY <2>1, <2>2
<1>3. ScopeIsOpen(g) <=> ScopeIsOpen(Top)
  BY <1>2 DEF ScopeIsOpen, SameCall
<1>4. StackOK(program, stack) /\ Top = Last(stack)
  BY DEF IInv, Top
<1>5. LET new == Append(Front(stack), g) IN
      /\ StackOK(program, new) /\ Last(new) = g
      /\ OpenScopes(new, Len(new)) = OpenScopes(stack, Len(stack))
  BY <1>2, <1>3, <1>4, CallGoesOn
<1> QED BY <1>1, <1>2, <1>5

LEMMA LocalsKept ==
  ASSUME IInv, NEW t, NEW queue, Range(queue) \subseteq Range(pendingLocal),
         OpenScopes(stack, Len(stack)) \subseteq OpenScopes(t, Len(t))
  PROVE  LocalsOK(program, t, queue)
  BY DEF IInv, LocalsOK

(* The members of local classes always have their patterns, so that only    *)
(* others are put back on the queue.                                        *)
LEMMA InstantiateFacts ==
  ASSUME IInv, NEW x \in Specializations, NEW as, NEW recursive \in BOOLEAN, NEW required \in BOOLEAN,
         NEW calls, StackOK(program, calls),
         NEW queue \in Seq(Specializations), PendingOK(program, queue),
         Outer(program, x) \subseteq OpenScopes(calls, Len(calls)),
         Last(calls).stage = "pending" => recursive /\ vtableUses = << >>,
         Instantiate(x, as, recursive, required, calls, queue)
  PROVE  /\ StackOK(program, stack')
         /\ OpenScopes(calls, Len(calls)) \subseteq OpenScopes(stack', Len(stack'))
         /\ Last(stack').stage = "pending" => vtableUses' = << >>
         /\ vtableUses' \in Seq(Classes) /\ UsesOK(program, vtableUses')
         /\ pendingInstantiations' \in Seq(Specializations)
         /\ PendingOK(program, pendingInstantiations')
         /\ defined' \subseteq Specializations /\ diagnosed' \subseteq Specializations
         /\ tooDeep' \in BOOLEAN /\ handed' = handed
<1> DEFINE outcome == Outcome(x, as, required, Len(calls))
           frame == [NewFrame(x, program.body[x], recursive) EXCEPT
                       !.savedUses = IF recursive THEN vtableUses ELSE << >>,
                       !.savedPending = IF recursive THEN queue ELSE << >>]
<1>1. PICK result : result = outcome
  OBVIOUS
<1>2. PICK g : g = frame
  OBVIOUS
<1>3. /\ stack' = IF result = "start" THEN Append(calls, g) ELSE calls
      /\ vtableUses' = IF result = "start" /\ recursive THEN << >> ELSE vtableUses
      /\ pendingInstantiations' =
           IF result = "start" /\ recursive THEN << >>
           ELSE IF result = "postpone" THEN Append(queue, x) ELSE queue
      /\ defined' = IF result = "start" /\ x \in Variables THEN defined \cup {x} ELSE defined
      /\ diagnosed' = IF result = "diagnose" THEN diagnosed \cup {x} ELSE diagnosed
      /\ tooDeep' = (tooDeep \/ result = "tooDeep")
      /\ handed' = handed
  BY <1>1, <1>2 DEF Instantiate
<1>4. /\ program \in Programs /\ vtableUses \in Seq(Classes) /\ UsesOK(program, vtableUses)
      /\ defined \subseteq Specializations /\ diagnosed \subseteq Specializations
      /\ tooDeep \in BOOLEAN /\ program.headers \subseteq patterns
      /\ program.body[x] \in Seq(Reference)
  BY ProgramFacts DEF IInv, TypeOK, FileOK
<1>5. result = "postpone" => program.enclosing[x] = Parser
  <2>1. program.enclosing[x] # Parser => x \in patterns /\ x \notin program.late
    BY <1>4, ProgramFacts
  <2>2. ASSUME x \in patterns, x \notin program.late PROVE outcome # "postpone"
    BY <2>2 DEF Outcome
  <2> QED BY <1>1, <2>1, <2>2
<1>6. /\ << >> \in Seq(Classes) /\ << >> \in Seq(Specializations)
      /\ Range(<< >>) = {}
  BY DEF Range
<1>7. UsesOK(program, << >>) /\ PendingOK(program, << >>)
  BY <1>6 DEF UsesOK, PendingOK
<1>8. pendingInstantiations' \in Seq(Specializations) /\ PendingOK(program, pendingInstantiations')
  <2>1. Append(queue, x) \in Seq(Specializations) /\ Range(Append(queue, x)) = Range(queue) \cup {x}
    BY RangeFacts
  <2>2. program.enclosing[x] = Parser => PendingOK(program, Append(queue, x))
    BY <2>1 DEF PendingOK
  <2> QED BY <1>3, <1>5, <1>6, <1>7, <2>1, <2>2
<1>9. vtableUses' \in Seq(Classes) /\ UsesOK(program, vtableUses')
  BY <1>3, <1>4, <1>6, <1>7
<1>10. /\ g.of = x /\ g.stage = "body" /\ g.code = program.body[x] /\ g.recursive = recursive
       /\ g.savedUses = IF recursive THEN vtableUses ELSE << >>
       /\ g.savedPending = IF recursive THEN queue ELSE << >>
       /\ g \in Frame
  <2>1. PICK uses : uses = IF recursive THEN vtableUses ELSE << >>
    OBVIOUS
  <2>2. PICK saved : saved = IF recursive THEN queue ELSE << >>
    OBVIOUS
  <2>3. uses \in Seq(Classes) /\ saved \in Seq(Specializations)
    BY <1>4, <1>6, <2>1, <2>2
  <2>4. << >> \in Seq(Classes) /\ << >> \in Seq(Specializations) /\ 0 \in Nat
    BY <1>6
  <2>5. PICK body \in Seq(Reference) : body = program.body[x]
    BY <1>4
  <2>6. g = [NewFrame(x, body, recursive) EXCEPT !.savedUses = uses, !.savedPending = saved]
    BY <1>2, <2>1, <2>2, <2>5
  <2>7. g = [of |-> x, stage |-> "body", code |-> body, recursive |-> recursive, index |-> 0,
             savedUses |-> uses, savedPending |-> saved]
    BY <2>6 DEF NewFrame
  <2> QED BY <2>1, <2>2, <2>3, <2>4, <2>5, <2>7 DEF Frame
<1>11. CASE result = "start"
  <2>1. UsesOK(program, g.savedUses) /\ PendingOK(program, g.savedPending)
    BY <1>4, <1>7, <1>10
  <2>2. Last(calls).stage = "pending" => g.recursive /\ g.savedUses = << >>
    BY <1>10
  <2>3. LET new == Append(calls, g) IN
        /\ StackOK(program, new) /\ Last(new) = g
        /\ OpenScopes(calls, Len(calls)) \subseteq OpenScopes(new, Len(new))
    BY <1>4, <1>10, <2>1, <2>2, CallBegins
  <2>4. stack' = Append(calls, g)
    BY <1>3, <1>11
  <2> QED BY <1>3, <1>4, <1>8, <1>9, <1>10, <2>3, <2>4
<1>12. CASE result # "start"
  <2>1. stack' = calls /\ vtableUses' = vtableUses
    BY <1>3, <1>12
  <2> QED BY <1>3, <1>4, <1>8, <1>9, <2>1
<1> QED BY <1>11, <1>12

(* MarkVTableUsed, by the first reference of the code or before it.         *)
LEMMA MarkVTableUsedFacts ==
  ASSUME IInv, Top.code # << >>, NEW c \in Classes, NEW required \in BOOLEAN,
         NEW rest \in Seq(Reference), Range(rest) \subseteq Range(Top.code),
         ClassScopes(program, c) \subseteq OpenScopes(stack, Len(stack)),
         MarkVTableUsed(c, required, rest)
  PROVE  /\ StackOK(program, stack') /\ Last(stack').stage # "pending"
         /\ OpenScopes(stack', Len(stack')) = OpenScopes(stack, Len(stack))
         /\ vtableUses' \in Seq(Classes) /\ UsesOK(program, vtableUses')
         /\ vtablesUsed' \in [Classes -> {"no", "used", "required"}]
<1>1. PICK new \in BOOLEAN : new = (UsesToAdd(c, required) # << >>)
  OBVIOUS
<1>2. PICK code : code = IF new /\ c \in program.local THEN VirtualMembers(c) \o rest ELSE rest
  OBVIOUS
<1>3. /\ vtablesUsed' = IF required THEN [vtablesUsed EXCEPT ![c] = "required"]
                        ELSE IF new THEN [vtablesUsed EXCEPT ![c] = "used"] ELSE vtablesUsed
      /\ vtableUses' = IF c \in program.local THEN vtableUses ELSE vtableUses \o UsesToAdd(c, required)
      /\ stack' = Append(Front(stack), [Top EXCEPT !.code = code])
  BY <1>1, <1>2 DEF MarkVTableUsed
<1>4. /\ program \in Programs /\ vtableUses \in Seq(Classes) /\ UsesOK(program, vtableUses)
      /\ vtablesUsed \in [Classes -> {"no", "used", "required"}]
      /\ Top.stage \notin {"local", "pending", "done"}
      /\ \A r \in Range(Top.code) : ScopesOf(program, r) \subseteq OpenScopes(stack, Len(stack))
  BY TopFacts DEF IInv, TypeOK
<1>5. /\ code \in Seq(Reference)
      /\ \A r \in Range(code) : ScopesOf(program, r) \subseteq OpenScopes(stack, Len(stack))
  <2>1. CASE new /\ c \in program.local
    <3>1. /\ VirtualMembers(c) \in Seq(Reference)
          /\ \A r \in Range(VirtualMembers(c)) : ScopesOf(program, r) \subseteq ClassScopes(program, c)
      BY <1>4, VirtualMembersFacts
    <3>2. /\ VirtualMembers(c) \o rest \in Seq(Reference)
          /\ Range(VirtualMembers(c) \o rest) = Range(VirtualMembers(c)) \cup Range(rest)
      BY <3>1, RangeFacts
    <3> QED BY <1>2, <1>4, <2>1, <3>1, <3>2
  <2>2. CASE ~(new /\ c \in program.local)
    BY <1>2, <1>4, <2>2
  <2> QED BY <2>1, <2>2
<1>6. LET t == Append(Front(stack), [Top EXCEPT !.code = code]) IN
      /\ StackOK(program, t) /\ Last(t).stage = Top.stage
      /\ OpenScopes(t, Len(t)) = OpenScopes(stack, Len(stack))
  BY <1>4, <1>5, CodeChanges
<1>7. vtableUses' \in Seq(Classes) /\ UsesOK(program, vtableUses')
  <2>1. CASE c \in program.local
    BY <1>3, <1>4, <2>1
  <2>2. CASE c \notin program.local
    <3>1. PICK more : more = UsesToAdd(c, required)
      OBVIOUS
    <3>2. more \in Seq(Classes) /\ Range(more) \subseteq {c}
      <4>1. <<c>> \in Seq(Classes) /\ Len(<<c>>) = 1 /\ <<c>>[1] = c /\ << >> \in Seq(Classes)
        OBVIOUS
      <4>2. Range(<<c>>) \subseteq {c} /\ Range(<< >>) = {}
        BY <4>1 DEF Range
      <4> QED BY <3>1, <4>1, <4>2 DEF UsesToAdd
    <3>3. vtableUses \o more \in Seq(Classes) /\ Range(vtableUses \o more) = Range(vtableUses) \cup Range(more)
      BY <1>4, <3>2, RangeFacts
    <3>4. ClassScopes(program, c) = {}
      BY <1>4, <2>2, ProgramFacts
    <3> QED BY <1>3, <1>4, <2>2, <3>1, <3>2, <3>3, <3>4 DEF UsesOK
  <2> QED BY <2>1, <2>2
<1>8. vtablesUsed' \in [Classes -> {"no", "used", "required"}]
  BY <1>3, <1>4
<1> QED BY <1>3, <1>4, <1>6, <1>7, <1>8

-----------------------------------------------------------------------------
(* References                                                               *)

LEMMA HeadFacts ==
  ASSUME IInv, Top.code # << >>
  PROVE  /\ Tail(Top.code) \in Seq(Reference) /\ Range(Tail(Top.code)) \subseteq Range(Top.code)
         /\ ScopesOf(program, Head(Top.code)) \subseteq OpenScopes(stack, Len(stack))
         /\ Head(Top.code).kind = "use" => Head(Top.code).of \in Specializations
         /\ Head(Top.code).kind # "use" => Head(Top.code).of \in Classes
         /\ Top.stage \notin {"local", "pending", "done"}
<1>1. PICK code \in Seq(Reference) : code = Top.code
  BY TopFacts, FrameFacts
<1>2. /\ Tail(code) \in Seq(Reference) /\ Head(code) \in Range(code) /\ Head(code) \in Reference
      /\ Range(Tail(code)) \subseteq Range(code)
  BY <1>1, RangeFacts
<1>3. PICK r \in Reference : r = Head(code)
  BY <1>2
<1>4. /\ r.kind = "use" => r.of \in Specializations
      /\ r.kind # "use" => r.of \in Classes
  BY <1>3 DEF Reference
<1> QED BY <1>1, <1>2, <1>3, <1>4, TopFacts

LEMMA IInvReferToVTable == IInv /\ ReferToVTable => IInv'
<1> SUFFICES ASSUME IInv, ReferToVTable PROVE IInv'
  OBVIOUS
<1>1. /\ Top.code # << >> /\ Head(Top.code).kind \in {"vtable", "required"}
      /\ MarkVTableUsed(Head(Top.code).of, Head(Top.code).kind = "required", Tail(Top.code))
      /\ UNCHANGED <<fileVars, pendingInstantiations, pendingLocal, declVars, resultVars,
                     vtableHandled>>
  BY DEF ReferToVTable, Code
<1>2. PICK c \in Classes : c = Head(Top.code).of
  BY <1>1, HeadFacts
<1>3. ClassScopes(program, c) \subseteq OpenScopes(stack, Len(stack))
  BY <1>1, <1>2, HeadFacts, ScopesOfFacts, TopFacts
<1>4. PICK rest \in Seq(Reference) : rest = Tail(Top.code) /\ Range(rest) \subseteq Range(Top.code)
  BY <1>1, HeadFacts
<1>5. PICK required \in BOOLEAN : required = (Head(Top.code).kind = "required")
  OBVIOUS
<1>6. MarkVTableUsed(c, required, rest)
  BY <1>1, <1>2, <1>4, <1>5
<1>7. /\ StackOK(program, stack') /\ Last(stack').stage # "pending"
      /\ OpenScopes(stack', Len(stack')) = OpenScopes(stack, Len(stack))
      /\ vtableUses' \in Seq(Classes) /\ UsesOK(program, vtableUses')
      /\ vtablesUsed' \in [Classes -> {"no", "used", "required"}]
  BY <1>1, <1>3, <1>4, <1>6, MarkVTableUsedFacts
<1>8. LocalsOK(program, stack', pendingLocal')
  BY <1>1, <1>7, LocalsKept
<1>9. TypeOK'
  BY <1>1, <1>7 DEF IInv, TypeOK, StackOK, fileVars, declVars, resultVars
<1>10. FileOK' /\ DrainedOK'
  BY <1>1, <1>7 DEF IInv, FileOK, DrainedOK, Top, fileVars
<1> QED BY <1>1, <1>7, <1>8, <1>9, <1>10 DEF IInv, fileVars

LEMMA IInvReferToVirtualMember == IInv /\ ReferToVirtualMember => IInv'
<1> SUFFICES ASSUME IInv, ReferToVirtualMember PROVE IInv'
  OBVIOUS
<1>1. /\ Top.code # << >> /\ Head(Top.code).kind = "use"
      /\ UNCHANGED <<fileVars, pendingInstantiations, pendingLocal, declVars, resultVars,
                     vtableHandled>>
  BY DEF ReferToVirtualMember, Code
<1>2. PICK x \in Subprograms : /\ x = Head(Top.code).of
                               /\ \E c \in UnusedParents(x) : MarkVTableUsed(c, FALSE, Top.code)
  BY DEF ReferToVirtualMember
<1>3. PICK c \in program.parent[x] : MarkVTableUsed(c, FALSE, Top.code)
  BY <1>2 DEF UnusedParents
<1>4. c \in Classes /\ ClassScopes(program, c) \subseteq Outer(program, x) /\ x \in Specializations
  BY ProgramFacts, TopFacts DEF Specializations
<1>5. ClassScopes(program, c) \subseteq OpenScopes(stack, Len(stack))
  <2>1. ScopesOf(program, Head(Top.code)) = Outer(program, x)
    BY <1>2, <1>4, ScopesOfFacts, TopFacts
  <2> QED BY <1>1, <1>4, <2>1, HeadFacts
<1>6. Top.code \in Seq(Reference)
  BY TopFacts, FrameFacts
<1>7. /\ StackOK(program, stack') /\ Last(stack').stage # "pending"
      /\ OpenScopes(stack', Len(stack')) = OpenScopes(stack, Len(stack))
      /\ vtableUses' \in Seq(Classes) /\ UsesOK(program, vtableUses')
      /\ vtablesUsed' \in [Classes -> {"no", "used", "required"}]
  BY <1>1, <1>3, <1>4, <1>5, <1>6, MarkVTableUsedFacts
<1>8. LocalsOK(program, stack', pendingLocal')
  BY <1>1, <1>7, LocalsKept
<1>9. TypeOK'
  BY <1>1, <1>7 DEF IInv, TypeOK, StackOK, fileVars, declVars, resultVars
<1>10. FileOK' /\ DrainedOK'
  BY <1>1, <1>7 DEF IInv, FileOK, DrainedOK, Top, fileVars
<1> QED BY <1>1, <1>7, <1>8, <1>9, <1>10 DEF IInv, fileVars

LEMMA IInvReferToSpecialization == IInv /\ ReferToSpecialization => IInv'
<1> SUFFICES ASSUME IInv, ReferToSpecialization PROVE IInv'
  OBVIOUS
<1>1. /\ Top.code # << >> /\ Head(Top.code).kind = "use" /\ Head(Top.code).of \in Specializations
      /\ UNCHANGED <<fileVars, kind, vtablesUsed, vtableHandled>>
  BY HeadFacts DEF ReferToSpecialization, Code
<1>2. PICK x \in Specializations : x = Head(Top.code).of
  BY <1>1
<1>3. PICK later \in BOOLEAN : later = ~(IsPending(x) /\ x \in program.constant /\ ~IsQueuedLocally(x))
  OBVIOUS
<1>4. /\ used' \subseteq used \cup (Subprograms \cap {x})
      /\ pointOfInstantiation' \subseteq pointOfInstantiation \cup {x}
      /\ ~later => /\ Instantiate(x, kind[x], FALSE, FALSE, Advanced, pendingInstantiations)
                   /\ UNCHANGED pendingLocal /\ ~IsQueuedLocally(x)
      /\ later => /\ stack' = Advanced
                  /\ pendingLocal' = IF IsPending(x) /\ IsQueuedLocally(x)
                                       THEN Append(pendingLocal, x) ELSE pendingLocal
                  /\ pendingInstantiations' =
                       IF IsPending(x) /\ ~IsQueuedLocally(x)
                         THEN Append(pendingInstantiations, x) ELSE pendingInstantiations
                  /\ UNCHANGED <<vtableUses, resultVars>>
  BY <1>2, <1>3 DEF ReferToSpecialization
<1>5. Outer(program, x) \subseteq OpenScopes(stack, Len(stack)) /\ program \in Programs
  BY <1>1, <1>2, HeadFacts, ScopesOfFacts, TopFacts
<1>6. IsQueuedLocally(x) <=> program.enclosing[x] # Parser
  BY DEF IsQueuedLocally, IsLocalMember
<1>7. PICK calls : calls = Advanced
  OBVIOUS
<1>8. /\ StackOK(program, calls) /\ Last(calls).stage # "pending"
      /\ OpenScopes(calls, Len(calls)) = OpenScopes(stack, Len(stack))
  <2>1. PICK rest \in Seq(Reference) : rest = Tail(Top.code) /\ Range(rest) \subseteq Range(Top.code)
    BY <1>1, HeadFacts
  <2>2. \A r \in Range(rest) : ScopesOf(program, r) \subseteq OpenScopes(stack, Len(stack))
    BY <2>1, TopFacts
  <2>3. Top.stage \notin {"local", "pending", "done"}
    BY <1>1, HeadFacts
  <2>4. LET t == Append(Front(stack), [Top EXCEPT !.code = rest]) IN
        /\ StackOK(program, t) /\ Last(t).stage = Top.stage
        /\ OpenScopes(t, Len(t)) = OpenScopes(stack, Len(stack))
    BY <2>1, <2>2, <2>3, CodeChanges
  <2>5. calls = Append(Front(stack), [Top EXCEPT !.code = rest])
    BY <1>7, <2>1 DEF Advanced
  <2> QED BY <2>3, <2>4, <2>5
<1>9. /\ pendingLocal \in Seq(Specializations) /\ pendingInstantiations \in Seq(Specializations)
      /\ PendingOK(program, pendingInstantiations) /\ UsesOK(program, vtableUses)
      /\ used \subseteq Subprograms /\ pointOfInstantiation \subseteq Specializations
  BY DEF IInv, TypeOK
<1>10. FileOK'
  BY <1>1 DEF IInv, FileOK, fileVars
<1>11. used' \subseteq Subprograms /\ pointOfInstantiation' \subseteq Specializations
  BY <1>4, <1>9
<1>12. CASE ~later
  <2>1. /\ Instantiate(x, kind[x], FALSE, FALSE, calls, pendingInstantiations)
        /\ pendingLocal' = pendingLocal
    BY <1>4, <1>7, <1>12
  <2>2. /\ StackOK(program, stack')
        /\ OpenScopes(calls, Len(calls)) \subseteq OpenScopes(stack', Len(stack'))
        /\ Last(stack').stage = "pending" => vtableUses' = << >>
        /\ vtableUses' \in Seq(Classes) /\ UsesOK(program, vtableUses')
        /\ pendingInstantiations' \in Seq(Specializations)
        /\ PendingOK(program, pendingInstantiations')
        /\ defined' \subseteq Specializations /\ diagnosed' \subseteq Specializations
        /\ tooDeep' \in BOOLEAN /\ handed' = handed
    BY <1>5, <1>8, <1>9, <2>1, InstantiateFacts
  <2>3. LocalsOK(program, stack', pendingLocal')
    BY <1>8, <2>1, <2>2, LocalsKept
  <2>4. TypeOK'
    BY <1>1, <1>11, <2>1, <2>2 DEF IInv, TypeOK, StackOK, fileVars
  <2>5. DrainedOK'
    BY <2>2 DEF DrainedOK, Top
  <2> QED BY <1>1, <1>10, <2>2, <2>3, <2>4, <2>5 DEF IInv, fileVars
<1>13. CASE later
  <2>1. stack' = calls /\ vtableUses' = vtableUses /\ UNCHANGED resultVars
    BY <1>4, <1>7, <1>13
  <2>2. /\ Append(pendingLocal, x) \in Seq(Specializations)
        /\ Range(Append(pendingLocal, x)) = Range(pendingLocal) \cup {x}
        /\ Append(pendingInstantiations, x) \in Seq(Specializations)
        /\ Range(Append(pendingInstantiations, x)) = Range(pendingInstantiations) \cup {x}
    BY <1>9, RangeFacts
  <2>3. LocalsOK(program, stack', pendingLocal')
    <3>1. LocalsOK(program, stack', pendingLocal)
      BY <1>8, <2>1, LocalsKept
    <3>2. program.enclosing[x] # Parser => LocalsOK(program, stack', Append(pendingLocal, x))
      BY <1>5, <1>8, <2>1, <2>2, <3>1 DEF LocalsOK
    <3> QED BY <1>4, <1>6, <1>13, <3>1, <3>2
  <2>4. PendingOK(program, pendingInstantiations')
    <3>1. program.enclosing[x] = Parser => PendingOK(program, Append(pendingInstantiations, x))
      BY <1>9, <2>2 DEF PendingOK
    <3> QED BY <1>4, <1>6, <1>9, <1>13, <3>1
  <2>5. pendingLocal' \in Seq(Specializations) /\ pendingInstantiations' \in Seq(Specializations)
    BY <1>4, <1>9, <1>13, <2>2
  <2>6. TypeOK'
    BY <1>1, <1>8, <1>11, <2>1, <2>5 DEF IInv, TypeOK, StackOK, fileVars, resultVars
  <2>7. DrainedOK'
    BY <1>8, <2>1 DEF DrainedOK, Top
  <2> QED BY <1>1, <1>8, <1>9, <1>10, <2>1, <2>3, <2>4, <2>6, <2>7 DEF IInv, fileVars
<1> QED BY <1>12, <1>13

-----------------------------------------------------------------------------
(* The rest of an instantiation                                             *)

(* The call on top enters its next stage, and may leave its scope.          *)
LEMMA StageChanges ==
  ASSUME IInv, NEW stage \in {"body", "local", "vtables", "pending", "done"}, Top.code = << >>,
         Top.of # Parser /\ stage \in {"body", "local"} => Top.stage \in {"body", "local"},
         stack' = Staged(stage)
  PROVE  /\ StackOK(program, stack') /\ Last(stack').stage = stage
         /\ OpenScopes(stack, Len(stack)) \subseteq OpenScopes(stack', Len(stack')) \cup {Top.of}
         /\ (stage \in {"body", "local"} <=> Top.stage \in {"body", "local"}) \/ Top.of = Parser =>
              OpenScopes(stack', Len(stack')) = OpenScopes(stack, Len(stack))
<1>1. PICK g : g = [Top EXCEPT !.stage = stage]
  OBVIOUS
<1>2. Top \in Frame /\ StackOK(program, stack) /\ Top = Last(stack)
  BY TopFacts DEF IInv, Top
<1>3. g \in Frame /\ SameCall(Top, g) /\ g.stage = stage /\ g.code = << >>
  <2>1. PICK f \in Frame : f = Top
    BY <1>2
  <2> QED BY <1>1, <2>1, StageUpdate
<1>4. stack' = Append(Front(stack), g) /\ g.of = Top.of
  BY <1>1, <1>3 DEF Staged, SameCall
<1>5. \A r \in Range(g.code) : ScopesOf(program, r) \subseteq OpenScopes(stack, Len(stack))
  BY <1>3 DEF Range
<1>6. /\ ScopeIsOpen(g) <=> Top.of # Parser /\ stage \in {"body", "local"}
      /\ ScopeIsOpen(Last(stack)) <=> Top.of # Parser /\ Top.stage \in {"body", "local"}
  BY <1>2, <1>3, <1>4 DEF ScopeIsOpen
<1>7. ScopeIsOpen(g) => ScopeIsOpen(Last(stack))
  BY <1>6
<1>8. SameCall(Last(stack), g)
  BY <1>2, <1>3
<1>9. LET new == Append(Front(stack), g) IN
      /\ StackOK(program, new) /\ Last(new) = g
      /\ OpenScopes(stack, Len(stack)) \subseteq OpenScopes(new, Len(new)) \cup {g.of}
      /\ (ScopeIsOpen(g) <=> ScopeIsOpen(Last(stack))) =>
           OpenScopes(new, Len(new)) = OpenScopes(stack, Len(stack))
  BY <1>2, <1>3, <1>5, <1>7, <1>8, CallGoesOn
<1> QED BY <1>3, <1>4, <1>6, <1>9

(* What the invariant needs of a step that leaves most of it alone.         *)
LEMMA CallsChange ==
  ASSUME IInv, StackOK(program, stack'), LocalsOK(program, stack', pendingLocal),
         Last(stack').stage = "pending" => vtableUses' = << >>, vtableUses' \in {vtableUses, << >>},
         UNCHANGED <<program, file, patterns, keyDefined, pendingInstantiations, vtablesUsed,
                     pendingLocal, declVars, diagnosed, tooDeep>>,
         lateTemplateParser' \in BOOLEAN, defined' \subseteq Specializations,
         handed' \in [Specializations -> Nat],
         vtableHandled' \in [Classes -> {"no", "used", "required"}]
  PROVE  IInv'
<1>1. vtableUses' \in Seq(Classes) /\ UsesOK(program, vtableUses')
  <2>1. << >> \in Seq(Classes) /\ UsesOK(program, << >>)
    BY DEF UsesOK, Range
  <2> QED BY <2>1 DEF IInv, TypeOK
<1>2. TypeOK'
  BY <1>1 DEF IInv, TypeOK, StackOK, declVars
<1>3. FileOK' /\ DrainedOK'
  BY DEF IInv, FileOK, DrainedOK, Top
<1> QED BY <1>1, <1>2, <1>3 DEF IInv

LEMMA NoLocals ==
  ASSUME NEW p, NEW t
  PROVE  LocalsOK(p, t, << >>)
  BY DEF LocalsOK, Range

(* The scope of a function stays open; that of a variable's initializer is  *)
(* of no concern to the members of local classes.                           *)
LEMMA IInvFinishBody == IInv /\ FinishBody => IInv'
<1> SUFFICES ASSUME IInv, FinishBody PROVE IInv'
  OBVIOUS
<1>1. /\ Top.of # Parser /\ Top.stage = "body" /\ Top.code = << >>
      /\ defined' = defined \cup {Top.of}
      /\ handed' = [handed EXCEPT ![Top.of] = @ + 1]
      /\ stack' = Staged(AfterBody(Top))
      /\ UNCHANGED <<fileVars, queueVars, vtablesUsed, pendingLocal, declVars, diagnosed, tooDeep,
                     vtableHandled>>
  BY DEF FinishBody, Instantiating
<1>2. PICK x \in Specializations : x = Top.of
  <2>1. PICK f \in Frame : f = Top
    BY TopFacts
  <2> QED BY <1>1, <2>1, FrameFacts
<1>3. PICK stage : stage = AfterBody(Top)
  OBVIOUS
<1>4. /\ x \in Subprograms => stage = "local"
      /\ x \notin Subprograms => stage = "vtables"
  BY <1>2, <1>3 DEF AfterBody
<1>5. /\ StackOK(program, stack') /\ Last(stack').stage = stage
      /\ OpenScopes(stack, Len(stack)) \subseteq OpenScopes(stack', Len(stack')) \cup {x}
      /\ x \in Subprograms => OpenScopes(stack', Len(stack')) = OpenScopes(stack, Len(stack))
  <2>1. stage \in {"body", "local", "vtables", "pending", "done"}
    BY <1>4
  <2>2. stack' = Staged(stage)
    BY <1>1, <1>3
  <2>3. /\ StackOK(program, stack') /\ Last(stack').stage = stage
        /\ OpenScopes(stack, Len(stack)) \subseteq OpenScopes(stack', Len(stack')) \cup {Top.of}
        /\ (stage \in {"body", "local"} <=> Top.stage \in {"body", "local"}) \/ Top.of = Parser =>
             OpenScopes(stack', Len(stack')) = OpenScopes(stack, Len(stack))
    BY <1>1, <2>1, <2>2, StageChanges
  <2> QED BY <1>1, <1>2, <1>4, <2>3
<1>6. LocalsOK(program, stack', pendingLocal)
  <2>1. LocalsOK(program, stack, pendingLocal) /\ pendingLocal \in Seq(Specializations)
    BY DEF IInv, TypeOK
  <2>2. ASSUME NEW y \in Range(pendingLocal)
        PROVE  program.enclosing[y] # Parser /\ Outer(program, y) \subseteq OpenScopes(stack', Len(stack'))
    <3>1. /\ program.enclosing[y] # Parser
          /\ Outer(program, y) \subseteq OpenScopes(stack, Len(stack))
          /\ y \in Specializations
      BY <2>1, RangeFacts DEF LocalsOK
    <3>2. Outer(program, y) \subseteq Subprograms
      BY <3>1, ScopeFacts, TopFacts DEF Outer
    <3> QED BY <1>5, <3>1, <3>2
  <2> QED BY <2>2 DEF LocalsOK
<1>7. defined' \subseteq Specializations /\ handed' \in [Specializations -> Nat]
  BY <1>1, <1>2 DEF IInv, TypeOK
<1>8. /\ lateTemplateParser' \in BOOLEAN
      /\ vtableHandled' \in [Classes -> {"no", "used", "required"}]
      /\ vtableUses' = vtableUses
      /\ UNCHANGED <<program, file, patterns, keyDefined, pendingInstantiations, vtablesUsed,
                     pendingLocal, declVars, diagnosed, tooDeep>>
  BY <1>1 DEF IInv, TypeOK, fileVars, queueVars
<1>9. Last(stack').stage # "pending"
  BY <1>4, <1>5
<1> QED BY <1>5, <1>6, <1>7, <1>8, <1>9, CallsChange

LEMMA IInvPerformLocal == IInv /\ PerformLocal => IInv'
<1> SUFFICES ASSUME IInv, PerformLocal PROVE IInv'
  OBVIOUS
<1>1. /\ pendingLocal # << >> /\ pendingLocal' = Tail(pendingLocal)
      /\ Instantiate(Head(pendingLocal), kind[Head(pendingLocal)], TRUE,
                     Required(Head(pendingLocal)), stack, pendingInstantiations)
      /\ UNCHANGED <<fileVars, vtablesUsed, declVars, vtableHandled>>
  BY DEF PerformLocal
<1>2. /\ pendingLocal \in Seq(Specializations) /\ pendingInstantiations \in Seq(Specializations)
      /\ PendingOK(program, pendingInstantiations) /\ StackOK(program, stack)
      /\ LocalsOK(program, stack, pendingLocal)
  BY DEF IInv, TypeOK
<1>3. /\ pendingLocal' \in Seq(Specializations) /\ Range(pendingLocal') \subseteq Range(pendingLocal)
      /\ Head(pendingLocal) \in Range(pendingLocal) /\ Head(pendingLocal) \in Specializations
  BY <1>1, <1>2, RangeFacts
<1>4. PICK x \in Specializations : x = Head(pendingLocal)
  BY <1>3
<1>5. PICK required \in BOOLEAN : required = Required(x)
  BY DEF Required
<1>6. Instantiate(x, kind[x], TRUE, required, stack, pendingInstantiations)
  BY <1>1, <1>4, <1>5
<1>7. Outer(program, x) \subseteq OpenScopes(stack, Len(stack))
  BY <1>2, <1>3, <1>4 DEF LocalsOK
<1>8. Last(stack).stage = "pending" => vtableUses = << >>
  BY DEF IInv, DrainedOK, Top
<1>9. /\ StackOK(program, stack')
      /\ OpenScopes(stack, Len(stack)) \subseteq OpenScopes(stack', Len(stack'))
      /\ Last(stack').stage = "pending" => vtableUses' = << >>
      /\ vtableUses' \in Seq(Classes) /\ UsesOK(program, vtableUses')
      /\ pendingInstantiations' \in Seq(Specializations)
      /\ PendingOK(program, pendingInstantiations')
      /\ defined' \subseteq Specializations /\ diagnosed' \subseteq Specializations
      /\ tooDeep' \in BOOLEAN /\ handed' = handed
  BY <1>2, <1>6, <1>7, <1>8, InstantiateFacts
<1>10. LocalsOK(program, stack', pendingLocal')
  BY <1>3, <1>9, LocalsKept
<1>11. TypeOK' /\ FileOK' /\ DrainedOK'
  BY <1>1, <1>3, <1>9 DEF IInv, TypeOK, StackOK, FileOK, DrainedOK, Top, fileVars, declVars
<1> QED BY <1>1, <1>9, <1>10, <1>11 DEF IInv, fileVars

LEMMA IInvPerformPending == IInv /\ PerformPending => IInv'
<1> SUFFICES ASSUME IInv, PerformPending PROVE IInv'
  OBVIOUS
<1>1. /\ pendingInstantiations # << >>
      /\ Instantiate(Head(pendingInstantiations), kind[Head(pendingInstantiations)], TRUE,
                     Required(Head(pendingInstantiations)), stack, Tail(pendingInstantiations))
      /\ UNCHANGED <<fileVars, vtablesUsed, pendingLocal, declVars, vtableHandled>>
  BY DEF PerformPending
<1>2. /\ pendingInstantiations \in Seq(Specializations)
      /\ PendingOK(program, pendingInstantiations) /\ StackOK(program, stack)
  BY DEF IInv, TypeOK
<1>3. /\ Tail(pendingInstantiations) \in Seq(Specializations)
      /\ Range(Tail(pendingInstantiations)) \subseteq Range(pendingInstantiations)
      /\ Head(pendingInstantiations) \in Range(pendingInstantiations)
      /\ Head(pendingInstantiations) \in Specializations
  BY <1>1, <1>2, RangeFacts
<1>4. PICK x \in Specializations : x = Head(pendingInstantiations)
  BY <1>3
<1>5. PICK required \in BOOLEAN : required = Required(x)
  BY DEF Required
<1>6. PICK queue \in Seq(Specializations) : queue = Tail(pendingInstantiations)
  BY <1>3
<1>7. Instantiate(x, kind[x], TRUE, required, stack, queue) /\ PendingOK(program, queue)
  BY <1>1, <1>2, <1>3, <1>4, <1>5, <1>6 DEF PendingOK
<1>8. Outer(program, x) \subseteq OpenScopes(stack, Len(stack))
  <2>1. program.enclosing[x] = Parser
    BY <1>2, <1>3, <1>4 DEF PendingOK
  <2> QED BY <2>1, ScopeFacts, TopFacts
<1>9. Last(stack).stage = "pending" => vtableUses = << >>
  BY DEF IInv, DrainedOK, Top
<1>10. /\ StackOK(program, stack')
       /\ OpenScopes(stack, Len(stack)) \subseteq OpenScopes(stack', Len(stack'))
       /\ Last(stack').stage = "pending" => vtableUses' = << >>
       /\ vtableUses' \in Seq(Classes) /\ UsesOK(program, vtableUses')
       /\ pendingInstantiations' \in Seq(Specializations)
       /\ PendingOK(program, pendingInstantiations')
       /\ defined' \subseteq Specializations /\ diagnosed' \subseteq Specializations
       /\ tooDeep' \in BOOLEAN /\ handed' = handed
  BY <1>2, <1>7, <1>8, <1>9, InstantiateFacts
<1>11. LocalsOK(program, stack', pendingLocal')
  BY <1>1, <1>10, LocalsKept
<1>12. TypeOK' /\ FileOK' /\ DrainedOK'
  BY <1>1, <1>10 DEF IInv, TypeOK, StackOK, FileOK, DrainedOK, Top, fileVars, declVars
<1> QED BY <1>1, <1>10, <1>11, <1>12 DEF IInv, fileVars

LEMMA IInvLeaveScope == IInv /\ LeaveScope => IInv'
<1> SUFFICES ASSUME IInv, LeaveScope PROVE IInv'
  OBVIOUS
<1>1. /\ Top.stage = "local" /\ pendingLocal = << >> /\ stack' = Staged("vtables")
      /\ UNCHANGED <<fileVars, queueVars, vtablesUsed, pendingLocal, declVars, resultVars,
                     vtableHandled>>
  BY DEF LeaveScope
<1>2. Top.code = << >>
  BY <1>1, TopFacts
<1>3. StackOK(program, stack') /\ Last(stack').stage = "vtables"
  BY <1>1, <1>2, StageChanges
<1>4. LocalsOK(program, stack', pendingLocal)
  BY <1>1, NoLocals
<1>5. /\ lateTemplateParser' \in BOOLEAN /\ defined' \subseteq Specializations
      /\ handed' \in [Specializations -> Nat]
      /\ vtableHandled' \in [Classes -> {"no", "used", "required"}]
      /\ vtableUses' = vtableUses
      /\ UNCHANGED <<program, file, patterns, keyDefined, pendingInstantiations, vtablesUsed,
                     pendingLocal, declVars, diagnosed, tooDeep>>
  BY <1>1 DEF IInv, TypeOK, fileVars, queueVars, resultVars
<1> QED BY <1>3, <1>4, <1>5, CallsChange

LEMMA IInvReturnFromNested == IInv /\ ReturnFromNested => IInv'
<1> SUFFICES ASSUME IInv, ReturnFromNested PROVE IInv'
  OBVIOUS
<1>1. /\ Top.of # Parser /\ Top.stage = "vtables" /\ ~Top.recursive /\ stack' = Front(stack)
      /\ UNCHANGED <<fileVars, queueVars, vtablesUsed, pendingLocal, declVars, resultVars,
                     vtableHandled>>
  BY DEF ReturnFromNested, Instantiating
<1>2. StackOK(program, stack) /\ Top = Last(stack) /\ ~ScopeIsOpen(Last(stack))
  BY <1>1 DEF IInv, Top, ScopeIsOpen
<1>3. /\ StackOK(program, stack')
      /\ OpenScopes(stack', Len(stack')) = OpenScopes(stack, Len(stack))
      /\ Last(stack').stage # "pending"
  BY <1>1, <1>2, CallReturns
<1>4. LocalsOK(program, stack', pendingLocal)
  BY <1>3, LocalsKept
<1>5. /\ lateTemplateParser' \in BOOLEAN /\ defined' \subseteq Specializations
      /\ handed' \in [Specializations -> Nat]
      /\ vtableHandled' \in [Classes -> {"no", "used", "required"}]
      /\ vtableUses' = vtableUses
      /\ UNCHANGED <<program, file, patterns, keyDefined, pendingInstantiations, vtablesUsed,
                     pendingLocal, declVars, diagnosed, tooDeep>>
  BY <1>1 DEF IInv, TypeOK, fileVars, queueVars, resultVars
<1> QED BY <1>3, <1>4, <1>5, CallsChange

-----------------------------------------------------------------------------
(* DefineUsedVTables                                                        *)

LEMMA IInvDefineUsedVTable == IInv /\ DefineUsedVTable => IInv'
<1> SUFFICES ASSUME IInv, DefineUsedVTable PROVE IInv'
  OBVIOUS
<1> DEFINE members(c) == Append(VirtualMembers(c), [kind |-> "handle", of |-> c])
<1>1. /\ Top.stage = "vtables" /\ Top.index < Len(vtableUses)
      /\ LET c == vtableUses[Top.index + 1] IN
           stack' = Append(Front(stack),
                      [Top EXCEPT !.index = @ + 1,
                                  !.code = IF DefinesVTable(c) THEN members(c) ELSE << >>])
      /\ UNCHANGED <<fileVars, queueVars, vtablesUsed, pendingLocal, declVars, resultVars,
                     vtableHandled>>
  BY DEF DefineUsedVTable, DefiningVTables
<1>2. PICK f \in Frame : f = Top
  BY TopFacts
<1>3. /\ program \in Programs /\ StackOK(program, stack) /\ Top = Last(stack)
      /\ vtableUses \in Seq(Classes) /\ UsesOK(program, vtableUses)
  BY TopFacts DEF IInv, TypeOK, Top
<1>4. PICK c \in Classes : c = vtableUses[Top.index + 1] /\ ClassScopes(program, c) = {}
  <2>1. f.index \in Nat /\ f.index + 1 \in 1 .. Len(vtableUses)
    BY <1>1, <1>2, <1>3, FrameFacts
  <2>2. DOMAIN vtableUses = 1 .. Len(vtableUses) /\ vtableUses[f.index + 1] \in Classes
    BY <1>3, <2>1
  <2>3. vtableUses[f.index + 1] \in Range(vtableUses)
    BY <2>1, <2>2 DEF Range
  <2> QED BY <1>2, <1>3, <2>2, <2>3 DEF UsesOK
<1>5. PICK code : code = IF DefinesVTable(c) THEN members(c) ELSE << >>
  OBVIOUS
<1>6. code \in Seq(Reference) /\ \A r \in Range(code) : ScopesOf(program, r) = {}
  <2>1. /\ VirtualMembers(c) \in Seq(Reference)
        /\ \A r \in Range(VirtualMembers(c)) : ScopesOf(program, r) = {}
    BY <1>3, <1>4, VirtualMembersFacts
  <2>2. PICK r \in Reference : r = [kind |-> "handle", of |-> c]
    BY DEF Reference
  <2>3. ScopesOf(program, r) = {}
    BY <1>3, <1>4, <2>2, ScopesOfFacts
  <2>4. members(c) \in Seq(Reference) /\ Range(members(c)) = Range(VirtualMembers(c)) \cup {r}
    BY <2>1, <2>2, RangeFacts
  <2>5. \A e \in Range(members(c)) : ScopesOf(program, e) = {}
    BY <2>1, <2>3, <2>4
  <2>6. << >> \in Seq(Reference) /\ Range(<< >>) = {}
    BY DEF Range
  <2> QED BY <1>5, <2>4, <2>5, <2>6
<1>7. PICK g : g = [f EXCEPT !.index = @ + 1, !.code = code]
  OBVIOUS
<1>8. g \in Frame /\ SameCall(f, g) /\ g.code = code /\ g.stage = f.stage
  <2>1. PICK index \in Nat : index = f.index + 1
    BY FrameFacts
  <2>2. g = [f EXCEPT !.index = index, !.code = code]
    BY <1>7, <2>1
  <2> QED BY <1>6, <2>1, <2>2 DEF Frame, SameCall
<1>9. stack' = Append(Front(stack), g)
  BY <1>1, <1>2, <1>4, <1>5, <1>7
<1>10. ScopeIsOpen(g) <=> ScopeIsOpen(Last(stack))
  BY <1>2, <1>3, <1>8 DEF ScopeIsOpen, SameCall
<1>11. LET new == Append(Front(stack), g) IN
       /\ StackOK(program, new) /\ Last(new) = g
       /\ OpenScopes(new, Len(new)) = OpenScopes(stack, Len(stack))
  <2>1. g.stage = "vtables"
    BY <1>1, <1>2, <1>8
  <2> QED BY <1>2, <1>3, <1>6, <1>8, <1>10, <2>1, CallGoesOn
<1>12. StackOK(program, stack') /\ Last(stack').stage # "pending"
  BY <1>1, <1>2, <1>8, <1>9, <1>11
<1>13. LocalsOK(program, stack', pendingLocal)
  BY <1>9, <1>11, LocalsKept
<1>14. /\ lateTemplateParser' \in BOOLEAN /\ defined' \subseteq Specializations
       /\ handed' \in [Specializations -> Nat]
       /\ vtableHandled' \in [Classes -> {"no", "used", "required"}]
       /\ vtableUses' = vtableUses
       /\ UNCHANGED <<program, file, patterns, keyDefined, pendingInstantiations, vtablesUsed,
                      pendingLocal, declVars, diagnosed, tooDeep>>
  BY <1>1 DEF IInv, TypeOK, fileVars, queueVars, resultVars
<1> QED BY <1>12, <1>13, <1>14, CallsChange

LEMMA IInvHandleVTable == IInv /\ HandleVTable => IInv'
<1> SUFFICES ASSUME IInv, HandleVTable PROVE IInv'
  OBVIOUS
<1>1. /\ Top.code # << >> /\ Head(Top.code).kind = "handle" /\ stack' = Advanced
      /\ LET c == Head(Top.code).of IN vtableHandled' = [vtableHandled EXCEPT ![c] = vtablesUsed[c]]
      /\ UNCHANGED <<fileVars, queueVars, vtablesUsed, pendingLocal, declVars, resultVars>>
  BY DEF HandleVTable, Code
<1>2. PICK rest \in Seq(Reference) : rest = Tail(Top.code) /\ Range(rest) \subseteq Range(Top.code)
  BY <1>1, HeadFacts
<1>3. Top.stage \notin {"local", "pending", "done"} /\ Head(Top.code).of \in Classes
  BY <1>1, HeadFacts
<1>4. \A r \in Range(rest) : ScopesOf(program, r) \subseteq OpenScopes(stack, Len(stack))
  BY <1>2, TopFacts
<1>5. LET new == Append(Front(stack), [Top EXCEPT !.code = rest]) IN
      /\ StackOK(program, new) /\ Last(new).stage = Top.stage
      /\ OpenScopes(new, Len(new)) = OpenScopes(stack, Len(stack))
  BY <1>2, <1>3, <1>4, CodeChanges
<1>6. stack' = Append(Front(stack), [Top EXCEPT !.code = rest])
  BY <1>1, <1>2 DEF Advanced
<1>7. LocalsOK(program, stack', pendingLocal)
  BY <1>5, <1>6, LocalsKept
<1>8. vtableHandled' \in [Classes -> {"no", "used", "required"}]
  <2>1. PICK c \in Classes : c = Head(Top.code).of
    BY <1>3
  <2>2. vtablesUsed[c] \in {"no", "used", "required"}
    BY DEF IInv, TypeOK
  <2>3. vtableHandled' = [vtableHandled EXCEPT ![c] = vtablesUsed[c]]
    BY <1>1, <2>1
  <2> QED BY <2>2, <2>3 DEF IInv, TypeOK
<1>9. /\ lateTemplateParser' \in BOOLEAN /\ defined' \subseteq Specializations
      /\ handed' \in [Specializations -> Nat]
      /\ vtableUses' = vtableUses
      /\ UNCHANGED <<program, file, patterns, keyDefined, pendingInstantiations, vtablesUsed,
                     pendingLocal, declVars, diagnosed, tooDeep>>
  BY <1>1 DEF IInv, TypeOK, fileVars, queueVars, resultVars
<1> QED BY <1>3, <1>5, <1>6, <1>7, <1>8, <1>9, CallsChange

LEMMA IInvFinishVTables == IInv /\ FinishVTables => IInv'
<1> SUFFICES ASSUME IInv, FinishVTables PROVE IInv'
  OBVIOUS
<1>1. /\ Top.stage = "vtables" /\ Top.code = << >> /\ stack' = Staged("pending")
      /\ vtableUses' = << >>
      /\ UNCHANGED <<fileVars, pendingInstantiations, vtablesUsed, pendingLocal, declVars,
                     resultVars, vtableHandled>>
  BY DEF FinishVTables, DefiningVTables
<1>2. /\ StackOK(program, stack')
      /\ OpenScopes(stack', Len(stack')) = OpenScopes(stack, Len(stack))
  BY <1>1, StageChanges
<1>3. LocalsOK(program, stack', pendingLocal)
  BY <1>2, LocalsKept
<1>4. /\ lateTemplateParser' \in BOOLEAN /\ defined' \subseteq Specializations
      /\ handed' \in [Specializations -> Nat]
      /\ vtableHandled' \in [Classes -> {"no", "used", "required"}]
      /\ UNCHANGED <<program, file, patterns, keyDefined, pendingInstantiations, vtablesUsed,
                     pendingLocal, declVars, diagnosed, tooDeep>>
  BY <1>1 DEF IInv, TypeOK, fileVars, resultVars
<1> QED BY <1>1, <1>2, <1>3, <1>4, CallsChange

(* The vtable uses that come back are those of a call that has not defined  *)
(* its vtables yet.                                                         *)
LEMMA IInvReturnFromRecursive == IInv /\ ReturnFromRecursive => IInv'
<1> SUFFICES ASSUME IInv, ReturnFromRecursive PROVE IInv'
  OBVIOUS
<1>1. /\ Top.of # Parser /\ Top.stage = "pending" /\ stack' = Front(stack)
      /\ vtableUses' = Top.savedUses /\ pendingInstantiations' = Top.savedPending
      /\ UNCHANGED <<fileVars, vtablesUsed, pendingLocal, declVars, resultVars, vtableHandled>>
  BY DEF ReturnFromRecursive, Instantiating, RestoredPending
<1>2. StackOK(program, stack) /\ Top = Last(stack) /\ ~ScopeIsOpen(Last(stack))
  BY <1>1 DEF IInv, Top, ScopeIsOpen
<1>3. /\ StackOK(program, stack')
      /\ OpenScopes(stack', Len(stack')) = OpenScopes(stack, Len(stack))
      /\ UsesOK(program, vtableUses') /\ PendingOK(program, pendingInstantiations')
      /\ Last(stack').stage = "pending" => vtableUses' = << >>
  BY <1>1, <1>2, CallReturns
<1>4. vtableUses' \in Seq(Classes) /\ pendingInstantiations' \in Seq(Specializations)
  <2>1. PICK f \in Frame : f = Top
    BY TopFacts
  <2> QED BY <1>1, <2>1, FrameFacts
<1>5. LocalsOK(program, stack', pendingLocal')
  BY <1>1, <1>3, LocalsKept
<1>6. TypeOK' /\ FileOK' /\ DrainedOK'
  BY <1>1, <1>3, <1>4
     DEF IInv, TypeOK, StackOK, FileOK, DrainedOK, Top, fileVars, declVars, resultVars
<1> QED BY <1>1, <1>3, <1>5, <1>6 DEF IInv, fileVars

-----------------------------------------------------------------------------
(* The file                                                                 *)

(* What the file holds names nothing of a local class.                      *)
LEMMA FileFacts ==
  ASSUME IInv, NEW d \in file
  PROVE  /\ d \in Reference \cup Declaration /\ ScopesOf(program, d) = {}
         /\ d.kind = "key" => d.of \in Classes /\ ClassScopes(program, d.of) = {}
         /\ d.kind \in {"pattern", "extern", "explicit"} =>
              d.of \in Specializations /\ Outer(program, d.of) = {}
<1>1. program \in Programs /\ d \in program.file
  BY TopFacts DEF IInv, FileOK
<1>2. d \in Reference \cup Declaration /\ ScopesOf(program, d) = {}
  BY <1>1, ProgramFacts
<1>3. PICK x : x = d.of
  OBVIOUS
<1>4. /\ d.kind = "key" => x \in Classes
      /\ d.kind \in {"pattern", "extern", "explicit"} => x \in Specializations
  BY <1>2, <1>3 DEF Reference, Declaration
<1> QED BY <1>1, <1>2, <1>3, <1>4, ScopesOfFacts

LEMMA IInvParseReference ==
  ASSUME IInv, NEW r, ParseReference(r)
  PROVE  IInv'
<1>1. /\ Top.stage = "body" /\ r \in file /\ r \in Reference /\ file' = file \ {r}
      /\ stack' = Append(Front(stack), [Top EXCEPT !.code = <<r>>])
      /\ UNCHANGED <<program, patterns, keyDefined, lateTemplateParser, queueVars, vtablesUsed,
                     pendingLocal, declVars, resultVars, vtableHandled>>
  BY DEF ParseReference, Parsing
<1>2. PICK code \in Seq(Reference) : code = <<r>>
  <2>1. r \in Reference
    BY <1>1
  <2>2. \A S : r \in S => <<r>> \in Seq(S)
    OBVIOUS
  <2> QED BY <2>1, <2>2
<1>3. \A e \in Range(code) : ScopesOf(program, e) = {}
  <2>1. Range(code) \subseteq {r}
    BY <1>2 DEF Range
  <2> QED BY <1>1, <2>1, FileFacts
<1>4. LET new == Append(Front(stack), [Top EXCEPT !.code = code]) IN
      /\ StackOK(program, new) /\ Last(new).stage = Top.stage
      /\ OpenScopes(new, Len(new)) = OpenScopes(stack, Len(stack))
  BY <1>1, <1>3, CodeChanges
<1>5. LocalsOK(program, stack', pendingLocal')
  BY <1>1, <1>2, <1>4, LocalsKept
<1>6. StackOK(program, stack') /\ Last(stack').stage # "pending"
  BY <1>1, <1>2, <1>4
<1>7. TypeOK' /\ FileOK' /\ DrainedOK'
  BY <1>1, <1>6 DEF IInv, TypeOK, StackOK, FileOK, DrainedOK, Top, queueVars, declVars, resultVars
<1> QED BY <1>1, <1>5, <1>6, <1>7 DEF IInv, queueVars

LEMMA IInvParseDefinition ==
  ASSUME IInv, NEW d, ParseDefinition(d)
  PROVE  IInv'
<1>1. /\ d \in file /\ d.kind \in {"pattern", "key"} /\ file' = file \ {d}
      /\ patterns' = IF d.kind = "pattern" THEN patterns \cup {d.of} ELSE patterns
      /\ keyDefined' = IF d.kind = "key" THEN keyDefined \cup {d.of} ELSE keyDefined
      /\ UNCHANGED <<program, lateTemplateParser, stack, queueVars, vtablesUsed, pendingLocal,
                     declVars, resultVars, vtableHandled>>
  BY DEF ParseDefinition
<1>2. PICK x : x = d.of
  OBVIOUS
<1>3. /\ d.kind = "key" => x \in Classes /\ ClassScopes(program, x) = {}
      /\ d.kind = "pattern" => x \in Specializations
  BY <1>1, <1>2, FileFacts
<1>4. /\ patterns' \subseteq Specializations /\ patterns \subseteq patterns'
      /\ keyDefined' \subseteq Classes
      /\ \A c \in keyDefined' : ClassScopes(program, c) = {}
  BY <1>1, <1>2, <1>3 DEF IInv, TypeOK, FileOK
<1>5. TypeOK' /\ FileOK' /\ DrainedOK'
  BY <1>1, <1>4 DEF IInv, TypeOK, FileOK, DrainedOK, Top, queueVars, declVars, resultVars
<1> QED BY <1>1, <1>5 DEF IInv, queueVars

LEMMA IInvParseExplicitInstantiation ==
  ASSUME IInv, NEW d, ParseExplicitInstantiation(d)
  PROVE  IInv'
<1>1. /\ Top.stage = "body" /\ d \in file /\ d.kind \in {"extern", "explicit"} /\ file' = file \ {d}
      /\ UNCHANGED <<program, patterns, keyDefined, lateTemplateParser, vtablesUsed, pendingLocal,
                     used, vtableHandled>>
  BY DEF ParseExplicitInstantiation, Parsing
<1>2. PICK x \in Specializations : x = d.of /\ Outer(program, x) = {}
  BY <1>1, FileFacts
<1>3. PICK new \in {"extern", "explicit"} : new = d.kind
  BY <1>1
<1>4. /\ kind' = kind \/ kind' = [kind EXCEPT ![x] = new]
      /\ pointOfInstantiation' \subseteq pointOfInstantiation \cup {x}
      /\ \/ UNCHANGED <<stack, queueVars, resultVars>>
         \/ Instantiate(x, "explicit", FALSE, FALSE, stack, pendingInstantiations)
  BY <1>2, <1>3 DEF ParseExplicitInstantiation
<1>5. kind' \in [Specializations -> {"implicit", "extern", "explicit"}]
      /\ pointOfInstantiation' \subseteq Specializations
  <2>1. kind \in [Specializations -> {"implicit", "extern", "explicit"}]
    BY DEF IInv, TypeOK
  <2>2. [kind EXCEPT ![x] = new] \in [Specializations -> {"implicit", "extern", "explicit"}]
    BY <2>1
  <2>3. pointOfInstantiation' \subseteq Specializations
    BY <1>4 DEF IInv, TypeOK
  <2> QED BY <1>4, <2>1, <2>2, <2>3
<1>6. FileOK'
  BY <1>1 DEF IInv, FileOK
<1>7. CASE UNCHANGED <<stack, queueVars, resultVars>>
  <2>1. TypeOK' /\ DrainedOK'
    BY <1>1, <1>5, <1>7 DEF IInv, TypeOK, DrainedOK, Top, queueVars, resultVars
  <2> QED BY <1>1, <1>6, <1>7, <2>1 DEF IInv, queueVars
<1>8. CASE Instantiate(x, "explicit", FALSE, FALSE, stack, pendingInstantiations)
  <2>1. /\ StackOK(program, stack) /\ pendingInstantiations \in Seq(Specializations)
        /\ PendingOK(program, pendingInstantiations) /\ Last(stack).stage # "pending"
    BY <1>1 DEF IInv, TypeOK, Top
  <2>2. /\ StackOK(program, stack')
        /\ OpenScopes(stack, Len(stack)) \subseteq OpenScopes(stack', Len(stack'))
        /\ Last(stack').stage = "pending" => vtableUses' = << >>
        /\ vtableUses' \in Seq(Classes) /\ UsesOK(program, vtableUses')
        /\ pendingInstantiations' \in Seq(Specializations)
        /\ PendingOK(program, pendingInstantiations')
        /\ defined' \subseteq Specializations /\ diagnosed' \subseteq Specializations
        /\ tooDeep' \in BOOLEAN /\ handed' = handed
    BY <1>2, <1>8, <2>1, InstantiateFacts
  <2>3. LocalsOK(program, stack', pendingLocal')
    BY <1>1, <2>2, LocalsKept
  <2>4. TypeOK' /\ DrainedOK'
    BY <1>1, <1>5, <2>2 DEF IInv, TypeOK, StackOK, DrainedOK, Top
  <2> QED BY <1>1, <1>6, <2>2, <2>3, <2>4 DEF IInv
<1> QED BY <1>4, <1>7, <1>8

LEMMA SetToSeqFacts ==
  ASSUME NEW S, IsFiniteSet(S)
  PROVE  SetToSeq(S) \in [1 .. Cardinality(S) -> S] /\ Cardinality(S) \in Nat
<1>1. Cardinality(S) \in Nat /\ ExistsBijection(1 .. Cardinality(S), S)
  BY FS_CardinalityType
<1>2. \E f \in [1 .. Cardinality(S) -> S] : IsInjective(f)
  BY <1>1 DEF ExistsBijection, Bijection, Injection
<1> QED BY <1>1, <1>2 DEF SetToSeq

(* Only the parser's call is left; the key functions that the file defines  *)
(* are not those of local classes.                                          *)
LEMMA IInvEndOfProgram == IInv /\ EndOfProgram => IInv'
<1> SUFFICES ASSUME IInv, EndOfProgram PROVE IInv'
  OBVIOUS
<1>1. /\ Top.of = Parser /\ Top.stage = "body" /\ lateTemplateParser' \in BOOLEAN
      /\ stack' = <<[Top EXCEPT !.stage = "vtables", !.code = MarkKeyDefined]>>
      /\ UNCHANGED <<program, file, patterns, keyDefined, queueVars, vtablesUsed, pendingLocal,
                     declVars, resultVars, vtableHandled>>
  BY DEF EndOfProgram, Parsing, LateParserAtEnd
<1>2. PICK f \in Frame : f = Top
  BY TopFacts
<1>3. /\ program \in Programs /\ StackOK(program, stack) /\ Top = Last(stack) /\ Len(stack) = 1
      /\ keyDefined \subseteq Classes /\ \A c \in keyDefined : ClassScopes(program, c) = {}
  BY <1>1, TopFacts DEF IInv, TypeOK, FileOK, Top
<1>4. PICK code : code = MarkKeyDefined
  OBVIOUS
<1>5. code \in Seq(Reference) /\ \A r \in Range(code) : ScopesOf(program, r) = {}
  <2>1. IsFiniteSet(keyDefined)
    BY <1>3, SpecializationsAssumption, FS_Subset
  <2>2. PICK n \in Nat : SetToSeq(keyDefined) \in [1 .. n -> keyDefined]
    BY <2>1, SetToSeqFacts
  <2>3. PICK classes \in [1 .. n -> keyDefined] : classes = SetToSeq(keyDefined)
    BY <2>2
  <2>4. code = [i \in 1 .. n |-> [kind |-> "required", of |-> classes[i]]]
    BY <1>4, <2>3 DEF MarkKeyDefined
  <2>5. \A i \in 1 .. n : classes[i] \in Classes /\ ClassScopes(program, classes[i]) = {}
    BY <1>3
  <2>6. \A i \in 1 .. n : [kind |-> "required", of |-> classes[i]] \in Reference
    BY <2>5 DEF Reference
  <2>7. code \in Seq(Reference)
    BY <2>4, <2>6
  <2>8. ASSUME NEW r \in Range(code) PROVE ScopesOf(program, r) = {}
    <3>1. PICK i \in 1 .. n : r = [kind |-> "required", of |-> classes[i]]
      BY <2>4 DEF Range
    <3> QED BY <1>3, <2>5, <3>1, ScopesOfFacts
  <2> QED BY <2>7, <2>8
<1>6. PICK g : g = [f EXCEPT !.stage = "vtables", !.code = code]
  OBVIOUS
<1>7. g \in Frame /\ SameCall(f, g) /\ g.code = code /\ g.stage = "vtables"
  BY <1>5, <1>6 DEF Frame, SameCall
<1>8. stack' = Append(Front(stack), g)
  <2>1. stack \in Seq(Frame)
    BY <1>3 DEF StackOK
  <2>2. PICK rest \in Seq(Frame) : rest = Front(stack) /\ Len(rest) = 0
    <3>1. stack # << >>
      BY <1>3 DEF StackOK
    <3> QED BY <1>3, <2>1, <3>1, LastFront
  <2>3. Append(rest, g) = <<g>>
    BY <2>2
  <2>4. stack' = <<g>>
    BY <1>1, <1>2, <1>4, <1>6
  <2> QED BY <2>2, <2>3, <2>4
<1>9. ~ScopeIsOpen(g) /\ ~ScopeIsOpen(Last(stack))
  BY <1>1, <1>2, <1>3, <1>7 DEF ScopeIsOpen, SameCall
<1>10. LET new == Append(Front(stack), g) IN
       /\ StackOK(program, new) /\ Last(new) = g
       /\ OpenScopes(new, Len(new)) = OpenScopes(stack, Len(stack))
  <2>1. SameCall(Last(stack), g)
    BY <1>2, <1>3, <1>7
  <2>2. g.stage \notin {"local", "pending", "done"}
    BY <1>7
  <2>3. \A r \in Range(g.code) : ScopesOf(program, r) \subseteq OpenScopes(stack, Len(stack))
    BY <1>5, <1>7
  <2>4. ScopeIsOpen(g) <=> ScopeIsOpen(Last(stack))
    BY <1>9
  <2>5. StackOK(program, stack) /\ g \in Frame
    BY <1>3, <1>7
  <2> QED BY <2>1, <2>2, <2>3, <2>4, <2>5, CallGoesOn
<1>11. LocalsOK(program, stack', pendingLocal)
  BY <1>8, <1>10, LocalsKept
<1>12. /\ defined' \subseteq Specializations /\ handed' \in [Specializations -> Nat]
       /\ vtableHandled' \in [Classes -> {"no", "used", "required"}]
       /\ vtableUses' = vtableUses
       /\ UNCHANGED <<program, file, patterns, keyDefined, pendingInstantiations, vtablesUsed,
                      pendingLocal, declVars, diagnosed, tooDeep>>
  BY <1>1 DEF IInv, TypeOK, queueVars, resultVars
<1> QED BY <1>1, <1>7, <1>8, <1>10, <1>11, <1>12, CallsChange

LEMMA IInvFinishProgram == IInv /\ FinishProgram => IInv'
<1> SUFFICES ASSUME IInv, FinishProgram PROVE IInv'
  OBVIOUS
<1>1. /\ Top.stage = "pending" /\ pendingLocal = << >> /\ stack' = Staged("done")
      /\ UNCHANGED <<fileVars, queueVars, vtablesUsed, pendingLocal, declVars, resultVars,
                     vtableHandled>>
  BY DEF FinishProgram
<1>2. Top.code = << >>
  BY <1>1, TopFacts
<1>3. StackOK(program, stack') /\ Last(stack').stage = "done"
  BY <1>1, <1>2, StageChanges
<1>4. LocalsOK(program, stack', pendingLocal)
  BY <1>1, NoLocals
<1>5. /\ lateTemplateParser' \in BOOLEAN /\ defined' \subseteq Specializations
      /\ handed' \in [Specializations -> Nat]
      /\ vtableHandled' \in [Classes -> {"no", "used", "required"}]
      /\ vtableUses' = vtableUses
      /\ UNCHANGED <<program, file, patterns, keyDefined, pendingInstantiations, vtablesUsed,
                     pendingLocal, declVars, diagnosed, tooDeep>>
  BY <1>1 DEF IInv, TypeOK, fileVars, queueVars, resultVars
<1> QED BY <1>3, <1>4, <1>5, CallsChange

-----------------------------------------------------------------------------
(* The invariant                                                            *)

LEMMA IInvInit == Init => IInv
<1> SUFFICES ASSUME Init PROVE IInv
  OBVIOUS
<1>1. /\ program \in Programs /\ file = program.file
      /\ stack = <<NewFrame(Parser, << >>, FALSE)>>
      /\ vtableUses = << >> /\ vtablesUsed = [c \in Classes |-> "no"]
      /\ pendingInstantiations = << >> /\ pendingLocal = << >>
      /\ pointOfInstantiation = {} /\ used = {} /\ kind = [x \in Specializations |-> "implicit"]
      /\ patterns = program.headers /\ keyDefined = {} /\ lateTemplateParser = FALSE
      /\ defined = {} /\ diagnosed = {} /\ tooDeep = FALSE
      /\ handed = [x \in Specializations |-> 0]
      /\ vtableHandled = [c \in Classes |-> "no"]
  BY DEF Init
<1>2. PICK g : g = NewFrame(Parser, << >>, FALSE)
  OBVIOUS
<1>3. /\ g \in Frame /\ g.of = Parser /\ g.stage = "body" /\ g.code = << >>
      /\ g.savedUses = << >> /\ g.savedPending = << >>
  <2>1. << >> \in Seq(Reference) /\ << >> \in Seq(Classes) /\ << >> \in Seq(Specializations)
    OBVIOUS
  <2>2. g = [of |-> Parser, stage |-> "body", code |-> << >>, recursive |-> FALSE, index |-> 0,
             savedUses |-> << >>, savedPending |-> << >>]
    BY <1>2 DEF NewFrame
  <2> QED BY <2>1, <2>2 DEF Frame
<1>4. /\ stack \in Seq(Frame) /\ stack # << >> /\ Len(stack) = 1 /\ stack[1] = g /\ Last(stack) = g
  <2>1. stack = <<g>>
    BY <1>1, <1>2
  <2>2. stack \in Seq(Frame) /\ stack # << >> /\ Len(stack) = 1 /\ stack[1] = g
    BY <1>3, <2>1
  <2> QED BY <2>2 DEF Last
<1>5. StackOK(program, stack)
  <2>1. FrameOK(program, stack, 1)
    <3>1. ~ScopeIsOpen(stack[1])
      BY <1>3, <1>4 DEF ScopeIsOpen
    <3>2. Range(<< >>) = {}
      BY DEF Range
    <3> QED BY <1>3, <1>4, <3>1, <3>2 DEF FrameOK
  <2>2. \A i \in 1 .. 1 : i = 1
    OBVIOUS
  <2> QED BY <1>4, <2>1, <2>2 DEF StackOK
<1>6. /\ LocalsOK(program, stack, pendingLocal) /\ UsesOK(program, vtableUses)
      /\ PendingOK(program, pendingInstantiations)
  <2>1. Range(<< >>) = {}
    BY DEF Range
  <2> QED BY <1>1, <2>1 DEF LocalsOK, UsesOK, PendingOK
<1>7. FileOK /\ DrainedOK
  BY <1>1, <1>3, <1>4 DEF FileOK, DrainedOK, Top
<1>8. TypeOK
  <2>1. /\ vtableUses \in Seq(Classes) /\ pendingInstantiations \in Seq(Specializations)
        /\ pendingLocal \in Seq(Specializations)
    BY <1>1
  <2>2. file \subseteq Reference \cup Declaration /\ patterns \subseteq Specializations
    BY <1>1, ProgramFacts
  <2>3. /\ vtablesUsed \in [Classes -> {"no", "used", "required"}]
        /\ kind \in [Specializations -> {"implicit", "extern", "explicit"}]
        /\ handed \in [Specializations -> Nat]
        /\ vtableHandled \in [Classes -> {"no", "used", "required"}]
    BY <1>1
  <2> QED BY <1>1, <1>4, <2>1, <2>2, <2>3 DEF TypeOK
<1> QED BY <1>5, <1>6, <1>7, <1>8 DEF IInv

LEMMA IInvNext == IInv /\ [Next]_vars => IInv'
<1> SUFFICES ASSUME IInv, [Next]_vars PROVE IInv'
  OBVIOUS
<1>1. CASE UNCHANGED vars
  BY <1>1 DEF IInv, TypeOK, FileOK, DrainedOK, Top, vars, fileVars, queueVars, declVars, resultVars
<1>2. CASE Next
  <2>1. ASSUME NEW d \in file,
               ParseReference(d) \/ ParseDefinition(d) \/ ParseExplicitInstantiation(d)
        PROVE  IInv'
    BY <2>1, IInvParseReference, IInvParseDefinition, IInvParseExplicitInstantiation
  <2> QED BY <1>2, <2>1, IInvReferToVTable, IInvReferToVirtualMember, IInvReferToSpecialization,
             IInvFinishBody, IInvPerformLocal, IInvPerformPending, IInvLeaveScope,
             IInvReturnFromNested, IInvDefineUsedVTable, IInvHandleVTable, IInvFinishVTables,
             IInvReturnFromRecursive, IInvEndOfProgram, IInvFinishProgram DEF Next
<1> QED BY <1>1, <1>2

LEMMA Invariance == Spec => []IInv
  BY IInvInit, IInvNext, PTL DEF Spec

(* In every translation unit the queues, the calls and the sets of          *)
(* declarations of Sema keep their types.                                   *)
THEOREM TypeCorrect == Spec => []TypeOK
<1>1. IInv => TypeOK
  BY DEF IInv
<1> QED BY <1>1, Invariance, PTL

(* A member of a local class is instantiated before the scope of its        *)
(* function, which the instantiation needs, is left: PerformLocal empties   *)
(* the queue first, and whatever queues such a member later is code of a    *)
(* function that is still open.                                             *)
THEOREM LocalsCorrect == Spec => []LocalsWaitInOpenScopes
<1>1. IInv => LocalsWaitInOpenScopes
  <2> SUFFICES ASSUME IInv, NEW x \in Range(pendingLocal)
               PROVE  \E i \in DOMAIN stack :
                        ScopeIsOpen(stack[i]) /\ stack[i].of = program.enclosing[x]
    BY DEF LocalsWaitInOpenScopes
  <2>1. /\ program \in Programs /\ stack \in Seq(Frame)
        /\ pendingLocal \in Seq(Specializations)
        /\ program.enclosing[x] # Parser /\ Outer(program, x) \subseteq OpenScopes(stack, Len(stack))
    BY DEF IInv, TypeOK, LocalsOK
  <2>2. x \in Specializations
    BY <2>1, RangeFacts
  <2>3. program.enclosing[x] \in OpenScopes(stack, Len(stack))
    BY <2>1, <2>2, ScopeFacts
  <2>4. DOMAIN stack = 1 .. Len(stack)
    BY <2>1
  <2> QED BY <2>3, <2>4 DEF OpenScopes
<1> QED BY <1>1, Invariance, PTL

(* The assertion of InstantiateSubprogramDefinition and of its twin holds:  *)
(* when a recursive call puts the queues of its caller back, all vtables    *)
(* that have been used meanwhile are defined.                               *)
THEOREM VTableUsesCorrect == Spec => []VTableUsesAreNotDiscarded
<1>1. IInv => VTableUsesAreNotDiscarded
  BY DEF IInv, DrainedOK, VTableUsesAreNotDiscarded
<1> QED BY <1>1, Invariance, PTL
-----------------------------------------------------------------------------
(* A definition is handed over once                                         *)

(* What is instantiated at its first reference or not, but whose definition *)
(* is not begun before it is complete; a constexpr subprogram is not.       *)
Deferred(p) == Subprograms \ p.constant

Single(p) == Variables \cup Deferred(p)

(* What has been queued, if it may ever be: no further reference queues it. *)
Asked == used \cup {x \in Specializations : kind[x] = "explicit"}

InBody(s, i, x) == s[i].of = x /\ s[i].stage = "body"

(* The body of a specialization is gone through by one call, until then it  *)
(* has not been handed over, and after that it has a definition.            *)
BodiesOK(p, s, def, hand) ==
  \A x \in Single(p) :
    /\ hand[x] \in {0, 1}
    /\ hand[x] = 1 => x \in def
    /\ \A i \in 1 .. Len(s) : InBody(s, i, x) =>
         /\ hand[x] = 0
         /\ x \in Variables => x \in def
         /\ \A j \in 1 .. Len(s) : InBody(s, j, x) => j = i

(* What waits or is being instantiated has been asked for.                  *)
AskedOK(p, s, pending, local, asked) ==
  \A x \in Deferred(p) :
    x \in asked \/
      /\ x \notin Range(pending)
      /\ x \notin Range(local)
      /\ \A i \in 1 .. Len(s) : ~InBody(s, i, x) /\ x \notin Range(s[i].savedPending)

(* A local specialization waits once, and not while it is instantiated.     *)
Unrepeated(x, local) ==
  \A k \in 1 .. Len(local) : \A l \in 1 .. Len(local) : local[k] = x /\ local[l] = x => k = l

LocalsOnce(p, s, local) ==
  \A x \in Deferred(p) :
    /\ Unrepeated(x, local)
    /\ x \in Range(local) => \A i \in 1 .. Len(s) : ~InBody(s, i, x)

(* What an explicit instantiation has begun may still be in the queue, but  *)
(* a recursive call starts with an empty one, which never gets it back.     *)
SegmentsOK(p, s, pending) ==
  \A x \in Deferred(p) : \A i \in 1 .. Len(s) : \A r \in i .. Len(s) :
    InBody(s, i, x) /\ s[r].recursive =>
      /\ x \notin Range(pending)
      /\ \A j \in r + 1 .. Len(s) : x \notin Range(s[j].savedPending)

RecursiveOK(s) ==
  \A i \in 1 .. Len(s) : s[i].stage = "pending" => i = 1 \/ s[i].recursive

QueuesOK(p, s, pending, local, asked) ==
  /\ AskedOK(p, s, pending, local, asked)
  /\ LocalsOnce(p, s, local)
  /\ SegmentsOK(p, s, pending)
  /\ RecursiveOK(s)

HandedInv ==
  /\ BodiesOK(program, stack, defined, handed)
  /\ QueuesOK(program, stack, pendingInstantiations, pendingLocal, Asked)

(* The calls go on; no body is begun again.                                 *)
Continues(s, t) ==
  /\ Len(t) = Len(s) /\ Len(s) \in Nat
  /\ \A i \in 1 .. Len(s) :
       /\ SameCall(s[i], t[i])
       /\ t[i].stage = "body" => s[i].stage = "body"
       /\ t[i].stage = "pending" => s[i].stage = "pending" \/ i = 1 \/ t[i].recursive

LEMMA ContinuesTop ==
  ASSUME NEW s \in Seq(Frame), s # << >>, NEW g \in Frame, SameCall(Last(s), g),
         g.stage = "body" => Last(s).stage = "body",
         g.stage = "pending" => Last(s).stage = "pending" \/ Len(s) = 1 \/ g.recursive
  PROVE  LET t == Append(Front(s), g) IN
         /\ Continues(s, t) /\ t \in Seq(Frame) /\ Len(t) = Len(s) /\ t[Len(s)] = g
         /\ \A i \in 1 .. Len(s) - 1 : t[i] = s[i]
<1> DEFINE n == Len(s)
<1>1. PICK t : t = Append(Front(s), g)
  OBVIOUS
<1>2. /\ Front(s) \in Seq(Frame) /\ Len(Front(s)) = n - 1 /\ n \in Nat \ {0}
      /\ \A i \in 1 .. n - 1 : Front(s)[i] = s[i]
      /\ Last(s) = s[n]
  BY LastFront
<1>3. /\ t \in Seq(Frame) /\ Len(t) = Len(Front(s)) + 1
      /\ \A i \in 1 .. Len(Front(s)) : t[i] = Front(s)[i]
      /\ t[Len(Front(s)) + 1] = g
  BY <1>1, <1>2, AppendLast
<1>4. Len(t) = n /\ t[n] = g /\ \A i \in 1 .. n - 1 : t[i] = s[i]
  BY <1>2, <1>3
<1>5. ASSUME NEW i \in 1 .. n
      PROVE  /\ SameCall(s[i], t[i])
             /\ t[i].stage = "body" => s[i].stage = "body"
             /\ t[i].stage = "pending" => s[i].stage = "pending" \/ i = 1 \/ t[i].recursive
  <2>1. CASE i = n
    BY <1>2, <1>4, <2>1
  <2>2. CASE i # n
    <3>1. t[i] = s[i]
      BY <1>2, <1>4, <2>2
    <3> QED BY <3>1 DEF SameCall
  <2> QED BY <2>1, <2>2
<1>6. Continues(s, t)
  BY <1>2, <1>4, <1>5 DEF Continues
<1> QED BY <1>1, <1>3, <1>4, <1>6

LEMMA ContinuesFacts ==
  ASSUME NEW s, NEW t, Continues(s, t)
  PROVE  /\ Len(t) = Len(s) /\ Len(s) \in Nat
         /\ \A i \in 1 .. Len(s) :
              /\ t[i].recursive = s[i].recursive /\ t[i].savedPending = s[i].savedPending
              /\ \A x : InBody(t, i, x) => InBody(s, i, x)
  BY DEF Continues, SameCall, InBody

LEMMA BodiesContinue ==
  ASSUME NEW p, NEW s, NEW t, Continues(s, t), NEW def, NEW more, def \subseteq more,
         NEW hand, BodiesOK(p, s, def, hand)
  PROVE  BodiesOK(p, t, more, hand)
<1> SUFFICES ASSUME NEW x \in Single(p)
             PROVE  /\ hand[x] \in {0, 1}
                    /\ hand[x] = 1 => x \in more
                    /\ \A i \in 1 .. Len(t) : InBody(t, i, x) =>
                         /\ hand[x] = 0
                         /\ x \in Variables => x \in more
                         /\ \A j \in 1 .. Len(t) : InBody(t, j, x) => j = i
  BY DEF BodiesOK
<1>1. /\ hand[x] \in {0, 1}
      /\ hand[x] = 1 => x \in def
      /\ \A i \in 1 .. Len(s) : InBody(s, i, x) =>
           /\ hand[x] = 0
           /\ x \in Variables => x \in def
           /\ \A j \in 1 .. Len(s) : InBody(s, j, x) => j = i
  BY DEF BodiesOK
<1>2. Len(t) = Len(s) /\ \A i \in 1 .. Len(s) : InBody(t, i, x) => InBody(s, i, x)
  BY ContinuesFacts
<1> QED BY <1>1, <1>2

(* Whatever is queued is not being instantiated.                            *)
LEMMA QueuesContinue ==
  ASSUME NEW p, NEW s, NEW t, Continues(s, t),
         NEW pending, NEW pending2, NEW local, NEW local2, NEW asked, NEW asked2,
         asked \subseteq asked2, QueuesOK(p, s, pending, local, asked),
         \A x \in Deferred(p) :
           /\ x \in Range(pending2) \/ x \in Range(local2) => x \in asked2
           /\ x \in Range(pending2) => x \in Range(pending) \/ \A i \in 1 .. Len(s) : ~InBody(s, i, x)
           /\ x \in Range(local2) => x \in Range(local) \/ \A i \in 1 .. Len(s) : ~InBody(s, i, x)
           /\ Unrepeated(x, local2)
  PROVE  QueuesOK(p, t, pending2, local2, asked2)
<1> DEFINE n == Len(s)
<1>1. /\ Len(t) = n /\ n \in Nat
      /\ \A i \in 1 .. n :
           /\ t[i].recursive = s[i].recursive /\ t[i].savedPending = s[i].savedPending
           /\ \A x : InBody(t, i, x) => InBody(s, i, x)
  BY ContinuesFacts
<1>2. \A x \in Deferred(p) :
        x \in asked \/
          /\ x \notin Range(pending)
          /\ x \notin Range(local)
          /\ \A i \in 1 .. n : ~InBody(s, i, x) /\ x \notin Range(s[i].savedPending)
  BY DEF QueuesOK, AskedOK
<1>3. AskedOK(p, t, pending2, local2, asked2)
  <2> SUFFICES ASSUME NEW x \in Deferred(p), x \notin asked2
               PROVE  /\ x \notin Range(pending2)
                      /\ x \notin Range(local2)
                      /\ \A i \in 1 .. Len(t) : ~InBody(t, i, x) /\ x \notin Range(t[i].savedPending)
    BY DEF AskedOK
  <2>1. /\ x \notin asked /\ x \notin Range(pending) /\ x \notin Range(local)
        /\ \A i \in 1 .. n : ~InBody(s, i, x) /\ x \notin Range(s[i].savedPending)
    BY <1>2
  <2> QED BY <1>1, <2>1
<1>4. LocalsOnce(p, t, local2)
  <2> SUFFICES ASSUME NEW x \in Deferred(p), x \in Range(local2), NEW i \in 1 .. Len(t)
               PROVE  ~InBody(t, i, x)
    BY DEF LocalsOnce
  <2>1. x \in Range(local) => ~InBody(s, i, x)
    BY <1>1 DEF QueuesOK, LocalsOnce
  <2> QED BY <1>1, <2>1
<1>5. SegmentsOK(p, t, pending2)
  <2> SUFFICES ASSUME NEW x \in Deferred(p), NEW i \in 1 .. Len(t), NEW r \in i .. Len(t),
                      InBody(t, i, x), t[r].recursive
               PROVE  /\ x \notin Range(pending2)
                      /\ \A j \in r + 1 .. Len(t) : x \notin Range(t[j].savedPending)
    BY DEF SegmentsOK
  <2>1. i \in 1 .. n /\ r \in 1 .. n /\ r \in i .. n /\ InBody(s, i, x) /\ s[r].recursive
    BY <1>1
  <2>2. /\ x \notin Range(pending)
        /\ \A j \in r + 1 .. n : x \notin Range(s[j].savedPending)
    BY <2>1 DEF QueuesOK, SegmentsOK
  <2>3. \A j \in r + 1 .. n : j \in 1 .. n
    BY <1>1, <2>1
  <2> QED BY <1>1, <2>1, <2>2, <2>3
<1>6. RecursiveOK(t)
  <2>1. RecursiveOK(s)
    BY DEF QueuesOK
  <2> QED BY <2>1 DEF Continues, SameCall, RecursiveOK
<1> QED BY <1>3, <1>4, <1>5, <1>6 DEF QueuesOK

(* A body is begun that no call goes through.                               *)
LEMMA BodiesPush ==
  ASSUME NEW p, NEW s \in Seq(Frame), NEW g \in Frame,
         NEW def, NEW more, NEW hand, BodiesOK(p, s, def, hand),
         def \subseteq more, g.of \in Variables => g.of \in more,
         g.of \in Single(p) => g.of \notin def /\ \A i \in 1 .. Len(s) : ~InBody(s, i, g.of)
  PROVE  BodiesOK(p, Append(s, g), more, hand)
<1> DEFINE n == Len(s)
<1>1. PICK t : t = Append(s, g)
  OBVIOUS
<1>2. n \in Nat /\ Len(t) = n + 1 /\ t[n + 1] = g /\ \A i \in 1 .. n : t[i] = s[i]
  BY <1>1, AppendLast
<1> SUFFICES ASSUME NEW x \in Single(p)
             PROVE  /\ hand[x] \in {0, 1}
                    /\ hand[x] = 1 => x \in more
                    /\ \A i \in 1 .. n + 1 : InBody(t, i, x) =>
                         /\ hand[x] = 0
                         /\ x \in Variables => x \in more
                         /\ \A j \in 1 .. n + 1 : InBody(t, j, x) => j = i
  BY <1>1, <1>2 DEF BodiesOK
<1>3. /\ hand[x] \in {0, 1}
      /\ hand[x] = 1 => x \in def
      /\ \A i \in 1 .. n : InBody(s, i, x) =>
           /\ hand[x] = 0
           /\ x \in Variables => x \in def
           /\ \A j \in 1 .. n : InBody(s, j, x) => j = i
  BY DEF BodiesOK
<1>4. \A i \in 1 .. n : InBody(t, i, x) <=> InBody(s, i, x)
  BY <1>2 DEF InBody
<1>5. \A i \in 1 .. n + 1 : i \in 1 .. n \/ i = n + 1
  BY <1>2
<1>6. CASE g.of = x
  <2>1. hand[x] = 0 /\ (x \in Variables => x \in more) /\ \A i \in 1 .. n : ~InBody(t, i, x)
    BY <1>3, <1>4, <1>6
  <2> QED BY <1>5, <2>1
<1>7. CASE g.of # x
  <2>1. ~InBody(t, n + 1, x)
    BY <1>2, <1>7 DEF InBody
  <2> QED BY <1>3, <1>4, <1>5, <2>1
<1> QED BY <1>6, <1>7

LEMMA QueuesPush ==
  ASSUME NEW p, NEW s \in Seq(Frame), NEW g \in Frame, g.stage = "body",
         NEW pending, NEW pending2, NEW local, NEW asked, QueuesOK(p, s, pending, local, asked),
         g.of \in Deferred(p) => g.of \in asked /\ g.of \notin Range(local),
         \/ /\ g.recursive
            /\ pending2 = << >> /\ Range(g.savedPending) \subseteq Range(pending)
         \/ /\ ~g.recursive
            /\ g.savedPending = << >> /\ Range(pending2) \subseteq Range(pending)
  PROVE  QueuesOK(p, Append(s, g), pending2, local, asked)
<1> DEFINE n == Len(s)
<1>1. PICK t : t = Append(s, g)
  OBVIOUS
<1>2. n \in Nat /\ Len(t) = n + 1 /\ t[n + 1] = g /\ \A i \in 1 .. n : t[i] = s[i]
  BY <1>1, AppendLast
<1>3. Range(<< >>) = {}
  BY DEF Range
<1>4. /\ Range(g.savedPending) \subseteq Range(pending) /\ Range(pending2) \subseteq Range(pending)
      /\ g.recursive => Range(pending2) = {}
  BY <1>3
<1>5. \A i \in 1 .. n : \A x : InBody(t, i, x) <=> InBody(s, i, x)
  BY <1>2 DEF InBody
<1>6. \A i \in 1 .. n + 1 : i \in 1 .. n \/ i = n + 1
  BY <1>2
<1>7. AskedOK(p, t, pending2, local, asked)
  <2> SUFFICES ASSUME NEW x \in Deferred(p), x \notin asked
               PROVE  /\ x \notin Range(pending2)
                      /\ x \notin Range(local)
                      /\ \A i \in 1 .. n + 1 : ~InBody(t, i, x) /\ x \notin Range(t[i].savedPending)
    BY <1>2 DEF AskedOK
  <2>1. /\ x \notin Range(pending) /\ x \notin Range(local)
        /\ \A i \in 1 .. n : ~InBody(s, i, x) /\ x \notin Range(s[i].savedPending)
    BY DEF QueuesOK, AskedOK
  <2>2. ~InBody(t, n + 1, x) /\ x \notin Range(t[n + 1].savedPending)
    BY <1>2, <1>4, <2>1 DEF InBody
  <2>3. \A i \in 1 .. n : ~InBody(t, i, x) /\ x \notin Range(t[i].savedPending)
    BY <1>2, <1>5, <2>1
  <2> QED BY <1>4, <1>6, <2>1, <2>2, <2>3
<1>8. LocalsOnce(p, t, local)
  <2> SUFFICES ASSUME NEW x \in Deferred(p), x \in Range(local), NEW i \in 1 .. n + 1
               PROVE  ~InBody(t, i, x)
    BY <1>2 DEF QueuesOK, LocalsOnce
  <2>1. ~InBody(t, n + 1, x)
    BY <1>2 DEF InBody
  <2>2. \A k \in 1 .. n : ~InBody(t, k, x)
    BY <1>5 DEF QueuesOK, LocalsOnce
  <2> QED BY <1>6, <2>1, <2>2
<1>9. SegmentsOK(p, t, pending2)
  <2> SUFFICES ASSUME NEW x \in Deferred(p), NEW i \in 1 .. n + 1, NEW r \in i .. n + 1,
                      InBody(t, i, x), t[r].recursive
               PROVE  /\ x \notin Range(pending2)
                      /\ \A j \in r + 1 .. n + 1 : x \notin Range(t[j].savedPending)
    BY <1>2 DEF SegmentsOK
  <2>1. CASE r = n + 1
    <3>1. \A j \in r + 1 .. n + 1 : FALSE
      BY <1>2, <2>1
    <3> QED BY <1>2, <1>4, <2>1, <3>1
  <2>2. CASE r # n + 1
    <3>1. i \in 1 .. n /\ r \in 1 .. n /\ r \in i .. n
      BY <1>2, <2>2
    <3>2. InBody(s, i, x) /\ s[r].recursive
      BY <1>2, <1>5, <3>1
    <3>3. /\ x \notin Range(pending)
          /\ \A j \in r + 1 .. n : x \notin Range(s[j].savedPending)
      BY <3>1, <3>2 DEF QueuesOK, SegmentsOK
    <3>4. \A j \in r + 1 .. n + 1 : j = n + 1 \/ (j \in r + 1 .. n /\ t[j] = s[j])
      BY <1>2, <3>1
    <3> QED BY <1>2, <1>4, <3>3, <3>4
  <2> QED BY <2>1, <2>2
<1>10. RecursiveOK(t)
  <2>1. RecursiveOK(s)
    BY DEF QueuesOK
  <2> QED BY <1>2, <1>6, <2>1 DEF RecursiveOK
<1> QED BY <1>1, <1>7, <1>8, <1>9, <1>10 DEF QueuesOK

(* A call returns; a recursive one puts the queue of its caller back.       *)
LEMMA HandedPop ==
  ASSUME NEW p, NEW s \in Seq(Frame), s # << >>,
         NEW pending, NEW pending2, NEW local, NEW asked, QueuesOK(p, s, pending, local, asked),
         NEW def, NEW hand, BodiesOK(p, s, def, hand),
         pending2 = pending \/ pending2 = Last(s).savedPending
  PROVE  /\ QueuesOK(p, Front(s), pending2, local, asked)
         /\ BodiesOK(p, Front(s), def, hand)
<1> DEFINE n == Len(s)
<1>1. PICK t : t = Front(s)
  OBVIOUS
<1>2. n \in Nat \ {0} /\ Len(t) = n - 1 /\ (\A i \in 1 .. n - 1 : t[i] = s[i]) /\ Last(s) = s[n]
  BY <1>1, LastFront
<1>3. \A i \in 1 .. n - 1 : i \in 1 .. n /\ \A x : InBody(t, i, x) <=> InBody(s, i, x)
  BY <1>2 DEF InBody
<1>4. BodiesOK(p, t, def, hand)
  BY <1>2, <1>3 DEF BodiesOK
<1>5. AskedOK(p, t, pending2, local, asked)
  <2> SUFFICES ASSUME NEW x \in Deferred(p), x \notin asked
               PROVE  /\ x \notin Range(pending2)
                      /\ x \notin Range(local)
                      /\ \A i \in 1 .. n - 1 : ~InBody(t, i, x) /\ x \notin Range(t[i].savedPending)
    BY <1>2 DEF AskedOK
  <2>1. /\ x \notin Range(pending) /\ x \notin Range(local)
        /\ \A i \in 1 .. n : ~InBody(s, i, x) /\ x \notin Range(s[i].savedPending)
    BY DEF QueuesOK, AskedOK
  <2>2. x \notin Range(pending2)
    BY <1>2, <2>1
  <2> QED BY <1>2, <1>3, <2>1, <2>2
<1>6. LocalsOnce(p, t, local)
  <2>1. LocalsOnce(p, s, local)
    BY DEF QueuesOK
  <2> QED BY <1>2, <1>3, <2>1 DEF LocalsOnce
<1>7. SegmentsOK(p, t, pending2)
  <2> SUFFICES ASSUME NEW x \in Deferred(p), NEW i \in 1 .. n - 1, NEW r \in i .. n - 1,
                      InBody(t, i, x), t[r].recursive
               PROVE  /\ x \notin Range(pending2)
                      /\ \A j \in r + 1 .. n - 1 : x \notin Range(t[j].savedPending)
    BY <1>2 DEF SegmentsOK
  <2>1. i \in 1 .. n /\ r \in i .. n /\ r \in 1 .. n - 1 /\ n \in r + 1 .. n
    BY <1>2
  <2>2. InBody(s, i, x) /\ s[r].recursive
    BY <1>2, <1>3, <2>1
  <2>3. /\ x \notin Range(pending)
        /\ \A j \in r + 1 .. n : x \notin Range(s[j].savedPending)
    BY <2>1, <2>2 DEF QueuesOK, SegmentsOK
  <2>4. x \notin Range(pending2)
    BY <1>2, <2>1, <2>3
  <2>5. \A j \in r + 1 .. n - 1 : j \in r + 1 .. n /\ t[j] = s[j]
    BY <1>2, <2>1
  <2> QED BY <2>3, <2>4, <2>5
<1>8. RecursiveOK(t)
  <2>1. RecursiveOK(s)
    BY DEF QueuesOK
  <2> QED BY <1>2, <1>3, <2>1 DEF RecursiveOK
<1> QED BY <1>1, <1>4, <1>5, <1>6, <1>7, <1>8 DEF QueuesOK

(* A call goes on and leaves the queues of instantiations alone.            *)
LEMMA HandedContinue ==
  ASSUME IInv, HandedInv, NEW g \in Frame, SameCall(Top, g), stack' = Append(Front(stack), g),
         g.stage = "body" => Top.stage = "body",
         g.stage = "pending" => Top.stage = "pending" \/ Len(stack) = 1 \/ g.recursive,
         UNCHANGED <<program, pendingInstantiations, pendingLocal, used, kind, defined, handed>>
  PROVE  HandedInv'
<1>1. stack \in Seq(Frame) /\ stack # << >>
  BY DEF IInv, StackOK
<1>2. Continues(stack, stack')
  BY <1>1, ContinuesTop DEF Top
<1>3. /\ BodiesOK(program, stack, defined, handed)
      /\ QueuesOK(program, stack, pendingInstantiations, pendingLocal, Asked)
  BY DEF HandedInv
<1>4. \A x \in Deferred(program) :
        /\ Unrepeated(x, pendingLocal)
        /\ x \in Range(pendingInstantiations) \/ x \in Range(pendingLocal) => x \in Asked
  BY <1>3 DEF QueuesOK, LocalsOnce, AskedOK
<1>5. QueuesOK(program, stack', pendingInstantiations, pendingLocal, Asked)
  BY <1>2, <1>3, <1>4, QueuesContinue
<1>6. BodiesOK(program, stack', defined, handed)
  BY <1>2, <1>3, BodiesContinue
<1> QED BY <1>5, <1>6 DEF HandedInv, Asked

LEMMA HandedStage ==
  ASSUME IInv, HandedInv, NEW stage \in {"local", "vtables", "pending", "done"}, stack' = Staged(stage),
         stage = "pending" => Top.of = Parser \/ Top.recursive,
         UNCHANGED <<program, pendingInstantiations, pendingLocal, used, kind, defined, handed>>
  PROVE  HandedInv'
<1>1. Top \in Frame /\ (Top.of = Parser => Len(stack) = 1)
  BY TopFacts
<1>2. PICK g : g = [Top EXCEPT !.stage = stage]
  OBVIOUS
<1>3. g \in Frame /\ SameCall(Top, g) /\ g.stage = stage
  BY <1>1, <1>2, StageUpdate
<1>4. stack' = Append(Front(stack), g)
  BY <1>2 DEF Staged
<1>5. g.recursive = Top.recursive
  BY <1>3 DEF SameCall
<1> QED BY <1>1, <1>3, <1>4, <1>5, HandedContinue

LEMMA HandedCode ==
  ASSUME IInv, HandedInv, NEW code \in Seq(Reference),
         stack' = Append(Front(stack), [Top EXCEPT !.code = code]),
         UNCHANGED <<program, pendingInstantiations, pendingLocal, used, kind, defined, handed>>
  PROVE  HandedInv'
<1>1. Top \in Frame
  BY TopFacts
<1>2. PICK g : g = [Top EXCEPT !.code = code]
  OBVIOUS
<1>3. g \in Frame /\ SameCall(Top, g) /\ g.stage = Top.stage
  BY <1>1, <1>2, CodeUpdate
<1> QED BY <1>2, <1>3, HandedContinue

LEMMA HandedMarkVTableUsed ==
  ASSUME IInv, HandedInv, Top.code # << >>, NEW c \in Classes, NEW required,
         NEW rest \in Seq(Reference), MarkVTableUsed(c, required, rest),
         UNCHANGED <<program, pendingInstantiations, pendingLocal, used, kind, defined, handed>>
  PROVE  HandedInv'
<1>1. program \in Programs
  BY TopFacts
<1>2. PICK code : code = IF UsesToAdd(c, required) # << >> /\ c \in program.local
                           THEN VirtualMembers(c) \o rest ELSE rest
  OBVIOUS
<1>3. VirtualMembers(c) \in Seq(Reference)
  BY <1>1, VirtualMembersFacts
<1>4. code \in Seq(Reference)
  BY <1>2, <1>3
<1>5. stack' = Append(Front(stack), [Top EXCEPT !.code = code])
  BY <1>2 DEF MarkVTableUsed
<1> QED BY <1>4, <1>5, HandedCode

LEMMA HandedReferToVTable == IInv /\ HandedInv /\ ReferToVTable => HandedInv'
<1> SUFFICES ASSUME IInv, HandedInv, ReferToVTable PROVE HandedInv'
  OBVIOUS
<1>1. /\ Top.code # << >> /\ Head(Top.code).kind \in {"vtable", "required"}
      /\ MarkVTableUsed(Head(Top.code).of, Head(Top.code).kind = "required", Tail(Top.code))
      /\ UNCHANGED <<program, pendingInstantiations, pendingLocal, used, kind, defined, handed>>
  BY DEF ReferToVTable, Code, fileVars, declVars, resultVars
<1>2. Tail(Top.code) \in Seq(Reference) /\ Head(Top.code).of \in Classes
  BY <1>1, HeadFacts
<1> QED BY <1>1, <1>2, HandedMarkVTableUsed

LEMMA HandedReferToVirtualMember == IInv /\ HandedInv /\ ReferToVirtualMember => HandedInv'
<1> SUFFICES ASSUME IInv, HandedInv, ReferToVirtualMember PROVE HandedInv'
  OBVIOUS
<1>1. /\ Top.code # << >> /\ Head(Top.code).of \in Subprograms
      /\ \E c \in UnusedParents(Head(Top.code).of) : MarkVTableUsed(c, FALSE, Top.code)
      /\ UNCHANGED <<program, pendingInstantiations, pendingLocal, used, kind, defined, handed>>
  BY DEF ReferToVirtualMember, Code, fileVars, declVars, resultVars
<1>2. program \in Programs /\ Top \in Frame
  BY TopFacts
<1>3. Top.code \in Seq(Reference)
  BY <1>2, FrameFacts
<1>4. PICK c \in Classes : MarkVTableUsed(c, FALSE, Top.code)
  <2>1. program.parent[Head(Top.code).of] \subseteq Classes
    BY <1>1, <1>2, ProgramFacts
  <2> QED BY <1>1, <2>1 DEF UnusedParents
<1> QED BY <1>1, <1>3, <1>4, HandedMarkVTableUsed

LEMMA HandedLeaveScope == IInv /\ HandedInv /\ LeaveScope => HandedInv'
  BY HandedStage DEF LeaveScope, fileVars, queueVars, declVars, resultVars

LEMMA HandedFinishVTables == IInv /\ HandedInv /\ FinishVTables => HandedInv'
<1> SUFFICES ASSUME IInv, HandedInv, FinishVTables PROVE HandedInv'
  OBVIOUS
<1>1. /\ stack' = Staged("pending") /\ (Top.of = Parser \/ Top.recursive)
      /\ UNCHANGED <<program, pendingInstantiations, pendingLocal, used, kind, defined, handed>>
  BY DEF FinishVTables, DefiningVTables, Instantiating, fileVars, declVars, resultVars
<1> QED BY <1>1, HandedStage

LEMMA HandedFinishProgram == IInv /\ HandedInv /\ FinishProgram => HandedInv'
  BY HandedStage DEF FinishProgram, fileVars, queueVars, declVars, resultVars

LEMMA HandedHandleVTable == IInv /\ HandedInv /\ HandleVTable => HandedInv'
<1> SUFFICES ASSUME IInv, HandedInv, HandleVTable PROVE HandedInv'
  OBVIOUS
<1>1. /\ Top.code # << >> /\ stack' = Append(Front(stack), [Top EXCEPT !.code = Tail(@)])
      /\ UNCHANGED <<program, pendingInstantiations, pendingLocal, used, kind, defined, handed>>
  BY DEF HandleVTable, Code, Advanced, fileVars, queueVars, declVars, resultVars
<1>2. Tail(Top.code) \in Seq(Reference)
  BY <1>1, HeadFacts
<1>3. [Top EXCEPT !.code = Tail(@)] = [Top EXCEPT !.code = Tail(Top.code)]
  <2>1. Top \in Frame
    BY TopFacts
  <2> QED BY <2>1 DEF Frame
<1> QED BY <1>1, <1>2, <1>3, HandedCode

LEMMA HandedDefineUsedVTable == IInv /\ HandedInv /\ DefineUsedVTable => HandedInv'
<1> SUFFICES ASSUME IInv, HandedInv, DefineUsedVTable PROVE HandedInv'
  OBVIOUS
<1>1. PICK f \in Frame : f = Top
  BY TopFacts
<1>2. PICK c : c = vtableUses[Top.index + 1]
  OBVIOUS
<1>3. /\ Top.index < Len(vtableUses) /\ Top.stage = "vtables"
      /\ UNCHANGED <<program, pendingInstantiations, pendingLocal, used, kind, defined, handed>>
  BY DEF DefineUsedVTable, DefiningVTables, fileVars, queueVars, declVars, resultVars
<1>4. program \in Programs /\ c \in Classes
  <2>1. vtableUses \in Seq(Classes) /\ program \in Programs
    BY DEF IInv, TypeOK
  <2>2. Top.index + 1 \in 1 .. Len(vtableUses)
    BY <1>1, <1>3, <2>1, FrameFacts
  <2> QED BY <1>2, <2>1, <2>2
<1>5. PICK code : code = IF DefinesVTable(c)
                           THEN Append(VirtualMembers(c), [kind |-> "handle", of |-> c]) ELSE << >>
  OBVIOUS
<1>6. code \in Seq(Reference)
  <2>1. VirtualMembers(c) \in Seq(Reference)
    BY <1>4, VirtualMembersFacts
  <2>2. [kind |-> "handle", of |-> c] \in Reference
    BY <1>4 DEF Reference
  <2>3. Append(VirtualMembers(c), [kind |-> "handle", of |-> c]) \in Seq(Reference)
    BY <2>1, <2>2
  <2>4. << >> \in Seq(Reference)
    OBVIOUS
  <2> QED BY <1>5, <2>3, <2>4
<1>7. PICK g : g = [f EXCEPT !.index = @ + 1, !.code = code]
  OBVIOUS
<1>8. g \in Frame /\ SameCall(f, g) /\ g.stage = f.stage
  <2>1. PICK index \in Nat : index = f.index + 1
    BY FrameFacts
  <2>2. g = [f EXCEPT !.index = index, !.code = code]
    BY <1>7, <2>1
  <2> QED BY <1>6, <2>1, <2>2 DEF Frame, SameCall
<1>9. stack' = Append(Front(stack), g)
  BY <1>1, <1>2, <1>5, <1>7 DEF DefineUsedVTable
<1> QED BY <1>1, <1>3, <1>8, <1>9, HandedContinue

LEMMA HandedReturn ==
  IInv /\ HandedInv /\ (ReturnFromNested \/ ReturnFromRecursive) => HandedInv'
<1> SUFFICES ASSUME IInv, HandedInv, ReturnFromNested \/ ReturnFromRecursive PROVE HandedInv'
  OBVIOUS
<1>1. /\ stack' = Front(stack)
      /\ pendingInstantiations' \in {pendingInstantiations, Last(stack).savedPending}
      /\ UNCHANGED <<program, pendingLocal, used, kind, defined, handed>>
  BY DEF ReturnFromNested, ReturnFromRecursive, RestoredPending, Top, fileVars, queueVars, declVars,
         resultVars
<1>2. stack \in Seq(Frame) /\ stack # << >>
  BY DEF IInv, StackOK
<1>3. /\ BodiesOK(program, stack, defined, handed)
      /\ QueuesOK(program, stack, pendingInstantiations, pendingLocal, Asked)
  BY DEF HandedInv
<1>4. /\ QueuesOK(program, stack', pendingInstantiations', pendingLocal, Asked)
      /\ BodiesOK(program, stack', defined, handed)
  BY <1>1, <1>2, <1>3, HandedPop
<1> QED BY <1>1, <1>4 DEF HandedInv, Asked

LEMMA UnrepeatedFacts ==
  ASSUME NEW S, NEW q \in Seq(S), NEW y, Unrepeated(y, q)
  PROVE  /\ \A x \in S : y # x \/ y \notin Range(q) => Unrepeated(y, Append(q, x))
         /\ q # << >> => /\ Unrepeated(y, Tail(q))
                         /\ y = Head(q) => y \notin Range(Tail(q))
<1> DEFINE n == Len(q)
<1>1. n \in Nat /\ DOMAIN q = 1 .. n /\ \A i \in 1 .. n : q[i] \in Range(q)
  BY DEF Range
<1>2. \A k \in 1 .. n : \A l \in 1 .. n : q[k] = y /\ q[l] = y => k = l
  BY DEF Unrepeated
<1>3. ASSUME NEW x \in S, y # x \/ y \notin Range(q) PROVE Unrepeated(y, Append(q, x))
  <2>1. PICK t : t = Append(q, x)
    OBVIOUS
  <2>2. Len(t) = n + 1 /\ t[n + 1] = x /\ \A i \in 1 .. n : t[i] = q[i]
    BY <2>1, AppendLast
  <2>3. ASSUME NEW k \in 1 .. n + 1, NEW l \in 1 .. n + 1, t[k] = y, t[l] = y PROVE k = l
    <3>1. CASE y = x
      <4>1. \A i \in 1 .. n : t[i] # y
        BY <1>1, <1>3, <2>2, <3>1
      <4> QED BY <1>1, <2>3, <4>1
    <3>2. CASE y # x
      <4>1. k \in 1 .. n /\ l \in 1 .. n
        BY <1>1, <2>2, <2>3, <3>2
      <4> QED BY <1>2, <2>2, <2>3, <4>1
    <3> QED BY <3>1, <3>2
  <2> QED BY <2>1, <2>2, <2>3 DEF Unrepeated
<1>4. ASSUME q # << >>
      PROVE  Unrepeated(y, Tail(q)) /\ (y = Head(q) => y \notin Range(Tail(q)))
  <2>1. PICK t : t = Tail(q)
    OBVIOUS
  <2>2. /\ n \in Nat \ {0} /\ Len(t) = n - 1 /\ DOMAIN t = 1 .. n - 1
        /\ \A i \in 1 .. n - 1 : t[i] = q[i + 1]
        /\ Head(q) = q[1]
    BY <1>4, <2>1
  <2>3. \A k \in 1 .. n - 1 : k + 1 \in 1 .. n /\ k + 1 # 1
    BY <2>2
  <2>4. 1 \in 1 .. n
    BY <2>2
  <2>5. Unrepeated(y, t)
    <3>1. ASSUME NEW k \in 1 .. n - 1, NEW l \in 1 .. n - 1, t[k] = y, t[l] = y PROVE k = l
      <4>1. k + 1 = l + 1
        BY <1>2, <2>2, <2>3, <3>1
      <4> QED BY <2>2, <4>1
    <3> QED BY <2>2, <3>1 DEF Unrepeated
  <2>6. ASSUME y = Head(q), y \in Range(t) PROVE FALSE
    <3>1. PICK k \in 1 .. n - 1 : t[k] = y
      BY <2>2, <2>6 DEF Range
    <3>2. q[k + 1] = y /\ q[1] = y
      BY <2>2, <2>6, <3>1
    <3> QED BY <1>2, <2>3, <2>4, <3>2
  <2> QED BY <2>1, <2>5, <2>6
<1> QED BY <1>3, <1>4

(* The first frame of a call for x.                                         *)
IsCall(g, x, recursive, queue) ==
  /\ g.of = x /\ g.stage = "body" /\ g.code = program.body[x] /\ g.recursive = recursive
  /\ g.index = 0
  /\ recursive => g.savedUses = vtableUses /\ g.savedPending = queue
  /\ ~recursive => g.savedUses = << >> /\ g.savedPending = << >>

Begins(g, x, recursive, calls, queue) ==
  /\ x \notin defined /\ stack' = Append(calls, g)
  /\ vtableUses' = IF recursive THEN << >> ELSE vtableUses
  /\ pendingInstantiations' = IF recursive THEN << >> ELSE queue
  /\ defined' = IF x \in Variables THEN defined \cup {x} ELSE defined

IsPutOff(x, calls, queue) ==
  /\ stack' = calls /\ vtableUses' = vtableUses /\ defined' = defined
  /\ pendingInstantiations' \in {queue, Append(queue, x)}

LEMMA InstantiateCases ==
  ASSUME IInv, NEW x \in Specializations, NEW as, NEW recursive \in BOOLEAN, NEW required,
         NEW calls, NEW queue \in Seq(Specializations),
         Instantiate(x, as, recursive, required, calls, queue)
  PROVE  \E g \in Frame :
           /\ IsCall(g, x, recursive, queue)
           /\ Begins(g, x, recursive, calls, queue) \/ IsPutOff(x, calls, queue)
           /\ handed' = handed
<1>1. PICK begins \in BOOLEAN : begins <=> Outcome(x, as, required, Len(calls)) = "start"
  OBVIOUS
<1>2. PICK g : g = [NewFrame(x, program.body[x], recursive) EXCEPT
                      !.savedUses = IF recursive THEN vtableUses ELSE << >>,
                      !.savedPending = IF recursive THEN queue ELSE << >>]
  OBVIOUS
<1>3. PICK uses : uses = IF recursive THEN vtableUses ELSE << >>
  OBVIOUS
<1>4. PICK saved : saved = IF recursive THEN queue ELSE << >>
  OBVIOUS
<1>5. PICK body \in Seq(Reference) : body = program.body[x]
  BY ProgramFacts DEF IInv, TypeOK
<1>6. /\ << >> \in Seq(Classes) /\ << >> \in Seq(Specializations)
      /\ uses \in Seq(Classes) /\ saved \in Seq(Specializations) /\ 0 \in Nat
  <2>1. vtableUses \in Seq(Classes)
    BY DEF IInv, TypeOK
  <2> QED BY <1>3, <1>4, <2>1
<1>7. g = [of |-> x, stage |-> "body", code |-> body, recursive |-> recursive, index |-> 0,
           savedUses |-> uses, savedPending |-> saved]
  <2>1. g = [NewFrame(x, body, recursive) EXCEPT !.savedUses = uses, !.savedPending = saved]
    BY <1>2, <1>3, <1>4, <1>5
  <2> QED BY <2>1 DEF NewFrame
<1>8. g \in Frame
  BY <1>5, <1>6, <1>7 DEF Frame
<1>9. /\ g.of = x /\ g.stage = "body" /\ g.code = program.body[x] /\ g.recursive = recursive
      /\ g.index = 0 /\ g.savedUses = uses /\ g.savedPending = saved
  BY <1>5, <1>7
<1>10. begins => x \notin defined
  <2>1. IsFinished(x) => Outcome(x, as, required, Len(calls)) # "start"
    BY DEF Outcome
  <2> QED BY <1>1, <2>1 DEF IsFinished
<1>11. /\ stack' = IF begins THEN Append(calls, g) ELSE calls
       /\ vtableUses' = IF begins /\ recursive THEN << >> ELSE vtableUses
       /\ begins => pendingInstantiations' = IF recursive THEN << >> ELSE queue
       /\ ~begins => pendingInstantiations' \in {queue, Append(queue, x)}
       /\ defined' = IF begins /\ x \in Variables THEN defined \cup {x} ELSE defined
       /\ handed' = handed
  BY <1>1, <1>2 DEF Instantiate
<1>12. IsCall(g, x, recursive, queue)
  BY <1>3, <1>4, <1>9 DEF IsCall
<1>13. begins => Begins(g, x, recursive, calls, queue)
  BY <1>10, <1>11 DEF Begins
<1>14. ~begins => IsPutOff(x, calls, queue)
  BY <1>11 DEF IsPutOff
<1> QED BY <1>8, <1>11, <1>12, <1>13, <1>14

(* A call for x begins or puts x off.                                       *)
LEMMA HandedInstantiate ==
  ASSUME IInv, NEW x \in Specializations, NEW as, NEW recursive \in BOOLEAN, NEW required,
         NEW calls \in Seq(Frame), NEW queue \in Seq(Specializations), NEW local, NEW asked,
         Instantiate(x, as, recursive, required, calls, queue),
         BodiesOK(program, calls, defined, handed), QueuesOK(program, calls, queue, local, asked),
         x \in Deferred(program) =>
           /\ x \in asked /\ x \notin Range(local)
           /\ \A i \in 1 .. Len(calls) : ~InBody(calls, i, x)
  PROVE  /\ BodiesOK(program, stack', defined', handed')
         /\ QueuesOK(program, stack', pendingInstantiations', local, asked)
<1>1. PICK g \in Frame :
        /\ IsCall(g, x, recursive, queue)
        /\ Begins(g, x, recursive, calls, queue) \/ IsPutOff(x, calls, queue)
        /\ handed' = handed
  BY InstantiateCases
<1>2. CASE Begins(g, x, recursive, calls, queue)
  <2>1. x \notin defined
    BY <1>2 DEF Begins
  <2>2. stack' = Append(calls, g) /\ defined \subseteq defined' /\ (x \in Variables => x \in defined')
    BY <1>1, <1>2 DEF Begins, IsCall
  <2>3. x \in Single(program) => \A i \in 1 .. Len(calls) : ~InBody(calls, i, x)
    BY <2>1 DEF Single, BodiesOK
  <2>4. BodiesOK(program, Append(calls, g), defined', handed)
    BY <1>1, <2>1, <2>2, <2>3, BodiesPush DEF IsCall
  <2>5. \/ /\ g.recursive
           /\ pendingInstantiations' = << >> /\ Range(g.savedPending) \subseteq Range(queue)
        \/ /\ ~g.recursive
           /\ g.savedPending = << >> /\ Range(pendingInstantiations') \subseteq Range(queue)
    BY <1>1, <1>2 DEF Begins, IsCall
  <2>6. QueuesOK(program, Append(calls, g), pendingInstantiations', local, asked)
    BY <1>1, <2>5, QueuesPush DEF IsCall
  <2> QED BY <1>1, <2>2, <2>4, <2>6
<1>3. CASE IsPutOff(x, calls, queue)
  <2>1. /\ stack' = calls /\ defined' = defined
        /\ pendingInstantiations' = queue \/ pendingInstantiations' = Append(queue, x)
    BY <1>3 DEF IsPutOff
  <2>2. Continues(calls, calls)
    <3>1. Len(calls) \in Nat
      OBVIOUS
    <3> QED BY <3>1 DEF Continues, SameCall
  <2>3. Range(pendingInstantiations') \subseteq Range(queue) \cup {x}
    <3>1. Range(Append(queue, x)) = Range(queue) \cup {x}
      BY RangeFacts
    <3> QED BY <2>1, <3>1
  <2>4. \A y \in Deferred(program) :
          /\ Unrepeated(y, local)
          /\ y \in Range(queue) \/ y \in Range(local) => y \in asked
    BY DEF QueuesOK, LocalsOnce, AskedOK
  <2>5. QueuesOK(program, calls, pendingInstantiations', local, asked)
    BY <2>2, <2>3, <2>4, QueuesContinue
  <2> QED BY <1>1, <2>1, <2>5
<1> QED BY <1>1, <1>2, <1>3

LEMMA HandedPerformLocal == IInv /\ HandedInv /\ PerformLocal => HandedInv'
<1> SUFFICES ASSUME IInv, HandedInv, PerformLocal PROVE HandedInv'
  OBVIOUS
<1>1. PICK x : x = Head(pendingLocal)
  OBVIOUS
<1>2. PICK required \in BOOLEAN : required = Required(x)
  BY DEF Required
<1>3. /\ pendingLocal # << >> /\ pendingLocal' = Tail(pendingLocal)
      /\ Instantiate(x, kind[x], TRUE, required, stack, pendingInstantiations)
      /\ UNCHANGED <<program, used, kind>>
  BY <1>1, <1>2 DEF PerformLocal, fileVars, declVars
<1>4. /\ stack \in Seq(Frame) /\ pendingLocal \in Seq(Specializations)
      /\ pendingInstantiations \in Seq(Specializations)
  BY DEF IInv, TypeOK
<1>5. /\ x \in Range(pendingLocal) /\ x \in Specializations
      /\ Range(pendingLocal') \subseteq Range(pendingLocal)
  BY <1>1, <1>3, <1>4, RangeFacts
<1>6. /\ BodiesOK(program, stack, defined, handed)
      /\ QueuesOK(program, stack, pendingInstantiations, pendingLocal, Asked)
  BY DEF HandedInv
<1>7. \A y \in Deferred(program) :
        /\ Unrepeated(y, pendingLocal)
        /\ y \in Range(pendingInstantiations) \/ y \in Range(pendingLocal) => y \in Asked
        /\ y \in Range(pendingLocal) => \A i \in 1 .. Len(stack) : ~InBody(stack, i, y)
  BY <1>6 DEF QueuesOK, LocalsOnce, AskedOK
<1>8. \A y \in Deferred(program) :
        Unrepeated(y, pendingLocal') /\ (y = x => y \notin Range(pendingLocal'))
  BY <1>1, <1>3, <1>4, <1>7, UnrepeatedFacts
<1>9. Continues(stack, stack)
  <2>1. Len(stack) \in Nat
    BY <1>4
  <2> QED BY <2>1 DEF Continues, SameCall
<1>10. QueuesOK(program, stack, pendingInstantiations, pendingLocal', Asked)
  BY <1>5, <1>6, <1>7, <1>8, <1>9, QueuesContinue
<1>11. /\ BodiesOK(program, stack', defined', handed')
       /\ QueuesOK(program, stack', pendingInstantiations', pendingLocal', Asked)
  BY <1>3, <1>4, <1>5, <1>6, <1>7, <1>8, <1>10, HandedInstantiate
<1> QED BY <1>3, <1>11 DEF HandedInv, Asked

LEMMA HandedPerformPending == IInv /\ HandedInv /\ PerformPending => HandedInv'
<1> SUFFICES ASSUME IInv, HandedInv, PerformPending PROVE HandedInv'
  OBVIOUS
<1> DEFINE n == Len(stack)
<1>1. PICK x : x = Head(pendingInstantiations)
  OBVIOUS
<1>2. PICK required \in BOOLEAN : required = Required(x)
  BY DEF Required
<1>3. PICK queue : queue = Tail(pendingInstantiations)
  OBVIOUS
<1>4. /\ pendingLocal = << >> /\ pendingInstantiations # << >> /\ Top.stage = "pending"
      /\ Instantiate(x, kind[x], TRUE, required, stack, queue)
      /\ UNCHANGED <<program, pendingLocal, used, kind>>
  BY <1>1, <1>2, <1>3 DEF PerformPending, fileVars, declVars
<1>5. stack \in Seq(Frame) /\ pendingInstantiations \in Seq(Specializations)
  BY DEF IInv, TypeOK
<1>6. /\ x \in Range(pendingInstantiations) /\ x \in Specializations
      /\ queue \in Seq(Specializations) /\ Range(queue) \subseteq Range(pendingInstantiations)
  BY <1>1, <1>3, <1>4, <1>5, RangeFacts
<1>7. /\ BodiesOK(program, stack, defined, handed)
      /\ QueuesOK(program, stack, pendingInstantiations, pendingLocal, Asked)
  BY DEF HandedInv
<1>8. \A y \in Deferred(program) :
        /\ Unrepeated(y, pendingLocal)
        /\ y \in Range(pendingInstantiations) \/ y \in Range(pendingLocal) => y \in Asked
  BY <1>7 DEF QueuesOK, LocalsOnce, AskedOK
<1>9. Continues(stack, stack)
  <2>1. Len(stack) \in Nat
    BY <1>5
  <2> QED BY <2>1 DEF Continues, SameCall
<1>10. QueuesOK(program, stack, queue, pendingLocal, Asked)
  BY <1>6, <1>7, <1>8, <1>9, QueuesContinue
<1>11. /\ n \in Nat \ {0} /\ stack[n] = Top /\ (Top.of = Parser <=> n = 1)
       /\ n = 1 \/ Top.recursive
  <2>1. n \in Nat \ {0} /\ stack[n] = Top /\ (Top.of = Parser <=> n = 1)
    BY TopFacts
  <2>2. RecursiveOK(stack)
    BY <1>7 DEF QueuesOK
  <2>3. n \in 1 .. n /\ stack[n].stage = "pending"
    BY <1>4, <2>1
  <2>4. n = 1 \/ stack[n].recursive
    BY <2>2, <2>3 DEF RecursiveOK
  <2> QED BY <2>1, <2>4
<1>12. ASSUME x \in Deferred(program), NEW i \in 1 .. n, InBody(stack, i, x) PROVE FALSE
  <2>1. i # n
    BY <1>4, <1>11, <1>12 DEF InBody
  <2>2. stack[n].recursive /\ n \in i .. n
    BY <1>11, <2>1
  <2> QED BY <1>6, <1>7, <1>12, <2>2 DEF QueuesOK, SegmentsOK
<1>13. x \notin Range(pendingLocal)
  BY <1>4 DEF Range
<1>14. /\ BodiesOK(program, stack', defined', handed')
       /\ QueuesOK(program, stack', pendingInstantiations', pendingLocal, Asked)
  BY <1>4, <1>5, <1>6, <1>7, <1>8, <1>10, <1>12, <1>13, HandedInstantiate
<1> QED BY <1>4, <1>14 DEF HandedInv, Asked

(* What a reference queues has not been asked for, and the call of a        *)
(* constexpr specialization is not one of those that are counted.           *)
LEMMA HandedReferToSpecialization == IInv /\ HandedInv /\ ReferToSpecialization => HandedInv'
<1> SUFFICES ASSUME IInv, HandedInv, ReferToSpecialization PROVE HandedInv'
  OBVIOUS
<1>1. Top.code # << >> /\ Head(Top.code).of \in Specializations
  BY HeadFacts DEF ReferToSpecialization, Code
<1>2. PICK x \in Specializations : x = Head(Top.code).of
  BY <1>1
<1>3. PICK later \in BOOLEAN : later <=> ~(IsPending(x) /\ x \in program.constant /\ ~IsQueuedLocally(x))
  OBVIOUS
<1>4. PICK waits \in BOOLEAN : waits <=> IsPending(x)
  OBVIOUS
<1>5. PICK here \in BOOLEAN : here <=> IsQueuedLocally(x)
  OBVIOUS
<1>6. PICK calls : calls = Advanced
  OBVIOUS
<1>7. /\ program' = program /\ kind' = kind
      /\ used \subseteq used'
      /\ ~later => /\ Instantiate(x, kind[x], FALSE, FALSE, calls, pendingInstantiations)
                   /\ pendingLocal' = pendingLocal /\ x \notin Deferred(program)
      /\ later => /\ stack' = calls
                  /\ pendingLocal' = IF waits /\ here THEN Append(pendingLocal, x) ELSE pendingLocal
                  /\ pendingInstantiations' =
                       IF waits /\ ~here THEN Append(pendingInstantiations, x)
                       ELSE pendingInstantiations
                  /\ defined' = defined /\ handed' = handed
  BY <1>2, <1>3, <1>4, <1>5, <1>6 DEF ReferToSpecialization, fileVars, resultVars, Deferred
<1>8. waits /\ x \in Subprograms => x \in used'
  BY <1>2, <1>4 DEF ReferToSpecialization, IsPending
<1>9. waits /\ x \in Deferred(program) => x \notin Asked
  BY <1>4 DEF IsPending, IsSkipped, IsImplicitlyInstantiable, Deferred, Asked
<1>10. Asked \subseteq Asked' /\ (waits /\ x \in Deferred(program) => x \in Asked')
  BY <1>7, <1>8 DEF Asked, Deferred
<1>11. /\ stack \in Seq(Frame) /\ stack # << >> /\ pendingLocal \in Seq(Specializations)
       /\ pendingInstantiations \in Seq(Specializations)
  BY DEF IInv, TypeOK
<1>12. Continues(stack, calls) /\ calls \in Seq(Frame)
  <2>1. PICK f \in Frame : f = Top
    BY TopFacts
  <2>2. PICK code \in Seq(Reference) : code = Tail(f.code)
    BY <1>1, <2>1, HeadFacts
  <2>3. PICK g : g = [f EXCEPT !.code = code]
    OBVIOUS
  <2>4. g \in Frame /\ SameCall(f, g) /\ g.stage = f.stage
    BY <2>3, CodeUpdate
  <2>5. calls = Append(Front(stack), g)
    BY <1>6, <2>1, <2>2, <2>3 DEF Advanced
  <2> QED BY <1>11, <2>1, <2>4, <2>5, ContinuesTop DEF Top
<1>13. /\ BodiesOK(program, stack, defined, handed)
       /\ QueuesOK(program, stack, pendingInstantiations, pendingLocal, Asked)
  BY DEF HandedInv
<1>14. \A y \in Deferred(program) :
         /\ Unrepeated(y, pendingLocal)
         /\ y \in Range(pendingInstantiations) \/ y \in Range(pendingLocal) => y \in Asked
         /\ y \notin Asked => /\ y \notin Range(pendingLocal)
                              /\ \A i \in 1 .. Len(stack) : ~InBody(stack, i, y)
  BY <1>13 DEF QueuesOK, LocalsOnce, AskedOK
<1>15. BodiesOK(program, calls, defined, handed)
  BY <1>12, <1>13, BodiesContinue
<1>16. CASE ~later
  <2>1. QueuesOK(program, calls, pendingInstantiations, pendingLocal, Asked')
    BY <1>10, <1>12, <1>13, <1>14, QueuesContinue
  <2>2. /\ Instantiate(x, kind[x], FALSE, FALSE, calls, pendingInstantiations)
        /\ pendingLocal' = pendingLocal /\ x \notin Deferred(program)
    BY <1>7, <1>16
  <2>3. /\ BodiesOK(program, stack', defined', handed')
        /\ QueuesOK(program, stack', pendingInstantiations', pendingLocal, Asked')
    BY <1>11, <1>12, <1>15, <2>1, <2>2, HandedInstantiate
  <2> QED BY <1>7, <2>2, <2>3 DEF HandedInv
<1>17. CASE later
  <2>1. /\ Range(Append(pendingLocal, x)) = Range(pendingLocal) \cup {x}
        /\ Range(Append(pendingInstantiations, x)) = Range(pendingInstantiations) \cup {x}
    BY <1>11, RangeFacts
  <2>2. /\ Range(pendingLocal') \subseteq Range(pendingLocal) \cup (IF waits THEN {x} ELSE {})
        /\ Range(pendingInstantiations') \subseteq
             Range(pendingInstantiations) \cup (IF waits THEN {x} ELSE {})
    BY <1>7, <1>17, <2>1
  <2>3. ASSUME NEW y \in Deferred(program) PROVE Unrepeated(y, pendingLocal')
    <3>1. CASE waits /\ here
      <4>1. y # x \/ y \notin Range(pendingLocal)
        BY <1>9, <1>14, <3>1
      <4>2. Unrepeated(y, pendingLocal)
        BY <1>14
      <4>3. pendingLocal' = Append(pendingLocal, x)
        BY <1>7, <1>17, <3>1
      <4> QED BY <1>11, <4>1, <4>2, <4>3, UnrepeatedFacts
    <3>2. CASE ~(waits /\ here)
      BY <1>7, <1>14, <1>17, <3>2
    <3> QED BY <3>1, <3>2
  <2>4. ASSUME NEW y \in Deferred(program)
        PROVE  /\ y \in Range(pendingInstantiations') \/ y \in Range(pendingLocal') => y \in Asked'
               /\ y \in Range(pendingInstantiations') =>
                    y \in Range(pendingInstantiations) \/ \A i \in 1 .. Len(stack) : ~InBody(stack, i, y)
               /\ y \in Range(pendingLocal') =>
                    y \in Range(pendingLocal) \/ \A i \in 1 .. Len(stack) : ~InBody(stack, i, y)
    <3>1. CASE waits /\ y = x
      BY <1>9, <1>10, <1>14, <3>1
    <3>2. CASE ~(waits /\ y = x)
      BY <1>10, <1>14, <2>2, <3>2
    <3> QED BY <3>1, <3>2
  <2>5. QueuesOK(program, calls, pendingInstantiations', pendingLocal', Asked')
    BY <1>10, <1>12, <1>13, <2>3, <2>4, QueuesContinue
  <2> QED BY <1>7, <1>15, <1>17, <2>5 DEF HandedInv
<1> QED BY <1>16, <1>17

(* The one body of the specialization ends.                                 *)
LEMMA HandedFinishBody == IInv /\ HandedInv /\ FinishBody => HandedInv'
<1> SUFFICES ASSUME IInv, HandedInv, FinishBody PROVE HandedInv'
  OBVIOUS
<1> DEFINE n == Len(stack)
<1>1. PICK x : x = Top.of
  OBVIOUS
<1>2. PICK stage : stage = AfterBody(Top)
  OBVIOUS
<1>3. /\ x # Parser /\ Top.stage = "body" /\ defined' = defined \cup {x}
      /\ handed' = [handed EXCEPT ![x] = @ + 1] /\ stack' = Staged(stage)
      /\ UNCHANGED <<program, pendingInstantiations, pendingLocal, used, kind>>
  BY <1>1, <1>2 DEF FinishBody, Instantiating, fileVars, queueVars, declVars
<1>4. stage \in {"local", "vtables"}
  BY <1>2 DEF AfterBody
<1>5. PICK f \in Frame : f = Top
  BY TopFacts
<1>6. PICK g : g = [f EXCEPT !.stage = stage]
  OBVIOUS
<1>7. g \in Frame /\ SameCall(f, g) /\ g.stage = stage
  <2>1. stage \in {"body", "local", "vtables", "pending", "done"}
    BY <1>4
  <2> QED BY <1>6, <2>1, StageUpdate
<1>8. stack \in Seq(Frame) /\ stack # << >> /\ handed \in [Specializations -> Nat]
  BY DEF IInv, TypeOK
<1>9. stack' = Append(Front(stack), g)
  BY <1>3, <1>5, <1>6 DEF Staged
<1>10. /\ Continues(stack, stack') /\ Len(stack') = n /\ stack'[n] = g
       /\ \A i \in 1 .. n - 1 : stack'[i] = stack[i]
  BY <1>4, <1>5, <1>7, <1>8, <1>9, ContinuesTop DEF Top
<1>11. /\ BodiesOK(program, stack, defined, handed)
       /\ QueuesOK(program, stack, pendingInstantiations, pendingLocal, Asked)
  BY DEF HandedInv
<1>12. \A y \in Deferred(program) :
         /\ Unrepeated(y, pendingLocal)
         /\ y \in Range(pendingInstantiations) \/ y \in Range(pendingLocal) => y \in Asked
  BY <1>11 DEF QueuesOK, LocalsOnce, AskedOK
<1>13. QueuesOK(program, stack', pendingInstantiations, pendingLocal, Asked)
  BY <1>10, <1>11, <1>12, QueuesContinue
<1>14. n \in Nat \ {0} /\ stack[n] = Top /\ n \in 1 .. n
  BY TopFacts
<1>15. ASSUME NEW y \in Single(program)
       PROVE  /\ handed'[y] \in {0, 1}
              /\ handed'[y] = 1 => y \in defined'
              /\ \A i \in 1 .. n : InBody(stack', i, y) =>
                   /\ handed'[y] = 0
                   /\ y \in Variables => y \in defined'
                   /\ \A j \in 1 .. n : InBody(stack', j, y) => j = i
  <2>1. /\ handed[y] \in {0, 1}
        /\ handed[y] = 1 => y \in defined
        /\ \A i \in 1 .. n : InBody(stack, i, y) =>
             /\ handed[y] = 0
             /\ y \in Variables => y \in defined
             /\ \A j \in 1 .. n : InBody(stack, j, y) => j = i
    BY <1>11 DEF BodiesOK
  <2>2. \A i \in 1 .. n : InBody(stack', i, y) => InBody(stack, i, y)
    BY <1>10, ContinuesFacts
  <2>3. CASE y = x
    <3>1. InBody(stack, n, y)
      BY <1>1, <1>3, <1>14, <2>3 DEF InBody
    <3>2. ~InBody(stack', n, y)
      BY <1>4, <1>7, <1>10 DEF InBody
    <3>3. \A i \in 1 .. n : ~InBody(stack', i, y)
      BY <1>14, <2>1, <2>2, <3>1, <3>2
    <3>4. y \in Specializations /\ handed[y] = 0
      BY <1>14, <2>1, <3>1 DEF Single, Deferred, Specializations
    <3>5. handed'[y] = 1
      BY <1>3, <1>8, <2>3, <3>4
    <3> QED BY <1>3, <2>3, <3>3, <3>5
  <2>4. CASE y # x
    <3>1. handed'[y] = handed[y]
      <4>1. y \in Specializations
        BY DEF Single, Deferred, Specializations
      <4> QED BY <1>3, <1>8, <2>4, <4>1
    <3> QED BY <1>3, <2>1, <2>2, <3>1
  <2> QED BY <2>3, <2>4
<1>16. BodiesOK(program, stack', defined', handed')
  BY <1>10, <1>15 DEF BodiesOK
<1> QED BY <1>3, <1>13, <1>16 DEF HandedInv, Asked

LEMMA HandedParseReference ==
  ASSUME IInv, HandedInv, NEW r, ParseReference(r)
  PROVE  HandedInv'
<1>1. /\ r \in file \cap Reference
      /\ stack' = Append(Front(stack), [Top EXCEPT !.code = <<r>>])
      /\ UNCHANGED <<program, pendingInstantiations, pendingLocal, used, kind, defined, handed>>
  BY DEF ParseReference, queueVars, declVars, resultVars
<1>2. <<r>> \in Seq(Reference)
  BY <1>1
<1> QED BY <1>1, <1>2, HandedCode

(* Only the parser's call is there, so nothing is being instantiated.       *)
LEMMA HandedParseExplicitInstantiation ==
  ASSUME IInv, HandedInv, NEW d, ParseExplicitInstantiation(d)
  PROVE  HandedInv'
<1>1. /\ d \in file /\ d.kind \in {"extern", "explicit"} /\ Top.of = Parser
      /\ UNCHANGED <<program, pendingLocal, used>>
  BY DEF ParseExplicitInstantiation, Parsing
<1>2. PICK x \in Specializations : x = d.of /\ Outer(program, x) = {}
  BY <1>1, FileFacts
<1>3. PICK new \in {"extern", "explicit"} : new = d.kind
  BY <1>1
<1>4. /\ stack \in Seq(Frame) /\ pendingLocal \in Seq(Specializations) /\ program \in Programs
      /\ pendingInstantiations \in Seq(Specializations)
      /\ kind \in [Specializations -> {"implicit", "extern", "explicit"}]
  BY DEF IInv, TypeOK
<1>5. /\ BodiesOK(program, stack, defined, handed)
      /\ QueuesOK(program, stack, pendingInstantiations, pendingLocal, Asked)
  BY DEF HandedInv
<1>6. CASE kind[x] = "explicit"
  <2>1. UNCHANGED <<kind, stack, queueVars, resultVars>>
    BY <1>2, <1>6 DEF ParseExplicitInstantiation
  <2> QED BY <1>1, <2>1 DEF HandedInv, Asked, queueVars, resultVars
<1>7. CASE kind[x] # "explicit"
  <2>1. /\ kind' = [kind EXCEPT ![x] = new]
        /\ new = "extern" => UNCHANGED <<stack, queueVars, resultVars>>
        /\ new = "explicit" => Instantiate(x, "explicit", FALSE, FALSE, stack, pendingInstantiations)
    BY <1>2, <1>3, <1>7 DEF ParseExplicitInstantiation
  <2>2. Asked \subseteq Asked' /\ (new = "explicit" => x \in Asked')
    BY <1>1, <1>4, <1>7, <2>1 DEF Asked
  <2>3. Continues(stack, stack)
    <3>1. Len(stack) \in Nat
      BY <1>4
    <3> QED BY <3>1 DEF Continues, SameCall
  <2>4. \A y \in Deferred(program) :
          /\ Unrepeated(y, pendingLocal)
          /\ y \in Range(pendingInstantiations) \/ y \in Range(pendingLocal) => y \in Asked
    BY <1>5 DEF QueuesOK, LocalsOnce, AskedOK
  <2>5. QueuesOK(program, stack, pendingInstantiations, pendingLocal, Asked')
    BY <1>5, <2>2, <2>3, <2>4, QueuesContinue
  <2>6. CASE new = "extern"
    <3>1. UNCHANGED <<program, stack, pendingInstantiations, pendingLocal, defined, handed>>
      BY <1>1, <2>1, <2>6 DEF queueVars, resultVars
    <3> QED BY <1>5, <2>5, <3>1 DEF HandedInv
  <2>7. CASE new = "explicit"
    <3>1. x \notin Range(pendingLocal)
      <4>1. program.enclosing[x] = Parser
        BY <1>2, <1>4, ScopeFacts
      <4>2. LocalsOK(program, stack, pendingLocal)
        BY DEF IInv
      <4> QED BY <4>1, <4>2 DEF LocalsOK
    <3>2. \A i \in 1 .. Len(stack) : ~InBody(stack, i, x)
      <4>1. Len(stack) = 1 /\ stack[1].of = Parser
        BY <1>1, TopFacts
      <4>2. x # Parser
        BY SpecializationsAssumption
      <4> QED BY <4>1, <4>2 DEF InBody
    <3>3. Instantiate(x, "explicit", FALSE, FALSE, stack, pendingInstantiations)
      BY <2>1, <2>7
    <3>4. x \in Asked'
      BY <2>2, <2>7
    <3>5. /\ BodiesOK(program, stack', defined', handed')
          /\ QueuesOK(program, stack', pendingInstantiations', pendingLocal, Asked')
      BY <1>4, <1>5, <2>5, <3>1, <3>2, <3>3, <3>4, HandedInstantiate
    <3> QED BY <1>1, <3>5 DEF HandedInv
  <2> QED BY <2>6, <2>7
<1> QED BY <1>6, <1>7

LEMMA HandedEndOfProgram == IInv /\ HandedInv /\ EndOfProgram => HandedInv'
<1> SUFFICES ASSUME IInv, HandedInv, EndOfProgram PROVE HandedInv'
  OBVIOUS
<1>1. IInv'
  BY IInvEndOfProgram
<1>2. /\ Top.of = Parser /\ stack' = <<[Top EXCEPT !.stage = "vtables", !.code = MarkKeyDefined]>>
      /\ UNCHANGED <<program, pendingInstantiations, pendingLocal, used, kind, defined, handed>>
  BY DEF EndOfProgram, Parsing, queueVars, declVars, resultVars
<1>3. PICK f \in Frame : f = Top
  BY TopFacts
<1>4. PICK g : g = [f EXCEPT !.stage = "vtables", !.code = MarkKeyDefined]
  OBVIOUS
<1>5. stack' = <<g>> /\ g \in Frame
  <2>1. stack' = <<g>>
    BY <1>2, <1>3, <1>4
  <2>2. stack' \in Seq(Frame) /\ Len(stack') = 1 /\ stack'[1] = g
    BY <1>1, <2>1 DEF IInv, TypeOK
  <2> QED BY <2>1, <2>2
<1>6. SameCall(f, g) /\ g.stage = "vtables"
  BY <1>4 DEF Frame, SameCall
<1>7. stack' = Append(Front(stack), g)
  <2>1. stack \in Seq(Frame) /\ stack # << >> /\ Len(stack) = 1
    BY <1>2, TopFacts DEF IInv, TypeOK
  <2>2. PICK rest \in Seq(Frame) : rest = Front(stack) /\ Len(rest) = 0
    BY <2>1, LastFront
  <2>3. Append(rest, g) = <<g>>
    BY <2>2
  <2> QED BY <1>5, <2>2, <2>3
<1> QED BY <1>2, <1>3, <1>5, <1>6, <1>7, HandedContinue

LEMMA HandedInit == Init => HandedInv
<1> SUFFICES ASSUME Init PROVE HandedInv
  OBVIOUS
<1>1. /\ stack = <<NewFrame(Parser, << >>, FALSE)>> /\ pendingInstantiations = << >>
      /\ pendingLocal = << >> /\ handed = [x \in Specializations |-> 0]
  BY DEF Init
<1>2. PICK g : g = NewFrame(Parser, << >>, FALSE)
  OBVIOUS
<1>3. g.of = Parser /\ g.stage = "body" /\ g.savedPending = << >> /\ g.recursive = FALSE
  BY <1>2 DEF NewFrame
<1>4. Len(stack) = 1 /\ stack[1] = g
  BY <1>1, <1>2
<1>5. \A i \in 1 .. 1 : i = 1
  OBVIOUS
<1>6. Range(<< >>) = {} /\ Len(<< >>) = 0
  BY DEF Range
<1>7. \A x \in Single(program) : x \in Specializations /\ x # Parser
  BY SpecializationsAssumption DEF Single, Deferred, Specializations
<1>8. \A x \in Single(program) : \A i \in 1 .. Len(stack) : ~InBody(stack, i, x)
  BY <1>3, <1>4, <1>5, <1>7 DEF InBody
<1>9. BodiesOK(program, stack, defined, handed)
  <2>1. \A x \in Single(program) : handed[x] = 0
    BY <1>1, <1>7
  <2> QED BY <1>8, <2>1 DEF BodiesOK
<1>10. \A x \in Deferred(program) : x \in Single(program)
  BY DEF Single
<1>11. AskedOK(program, stack, pendingInstantiations, pendingLocal, Asked)
  BY <1>1, <1>3, <1>4, <1>5, <1>6, <1>8, <1>10 DEF AskedOK
<1>12. LocalsOnce(program, stack, pendingLocal)
  <2>1. \A x : Unrepeated(x, pendingLocal)
    BY <1>1, <1>6 DEF Unrepeated
  <2> QED BY <1>1, <1>6, <2>1 DEF LocalsOnce
<1>13. SegmentsOK(program, stack, pendingInstantiations)
  BY <1>8, <1>10 DEF SegmentsOK
<1>14. RecursiveOK(stack)
  BY <1>4, <1>5 DEF RecursiveOK
<1> QED BY <1>9, <1>11, <1>12, <1>13, <1>14 DEF HandedInv, QueuesOK

LEMMA HandedNext == IInv /\ HandedInv /\ [Next]_vars => HandedInv'
<1> SUFFICES ASSUME IInv, HandedInv, [Next]_vars PROVE HandedInv'
  OBVIOUS
<1>1. CASE UNCHANGED vars
  BY <1>1 DEF HandedInv, Asked, vars, fileVars, queueVars, declVars, resultVars
<1>2. CASE Next
  <2>1. ASSUME NEW d \in file,
               ParseReference(d) \/ ParseDefinition(d) \/ ParseExplicitInstantiation(d)
        PROVE  HandedInv'
    <3>1. CASE ParseDefinition(d)
      BY <3>1 DEF ParseDefinition, HandedInv, Asked, queueVars, declVars, resultVars
    <3> QED BY <2>1, <3>1, HandedParseReference, HandedParseExplicitInstantiation
  <2> QED BY <1>2, <2>1, HandedReferToVTable, HandedReferToVirtualMember,
             HandedReferToSpecialization, HandedFinishBody, HandedPerformLocal,
             HandedPerformPending, HandedLeaveScope, HandedReturn, HandedDefineUsedVTable,
             HandedHandleVTable, HandedFinishVTables, HandedEndOfProgram, HandedFinishProgram
          DEF Next
<1> QED BY <1>1, <1>2

(* Each definition is handed to the consumer once, although it can be       *)
(* queued by a reference and by an explicit instantiation: a reference      *)
(* queues a specialization once, a call for it finds the definition that an *)
(* earlier call has completed, and a call that has not completed it yet has *)
(* put aside the queue in which another could wait.  Of constexpr           *)
(* subprograms this is not true.                                            *)
THEOREM HandedOnceCorrect == Spec => []HandedToConsumerOnce
<1>1. Spec => []HandedInv
  <2>1. Init => HandedInv
    BY HandedInit
  <2>2. IInv /\ HandedInv /\ [Next]_vars => HandedInv'
    BY HandedNext
  <2> QED BY <2>1, <2>2, Invariance, PTL DEF Spec
<1>2. HandedInv => HandedToConsumerOnce
  BY DEF HandedInv, BodiesOK, HandedToConsumerOnce, Single, Deferred, Specializations
<1> QED BY <1>1, <1>2, PTL

-----------------------------------------------------------------------------
(* Every vtable that is used is handled                                     *)

Ref(k, c) == [kind |-> k, of |-> c]

(* The queue of vtable uses that call j works with: a recursive call has    *)
(* put the queue of its caller aside.                                       *)
QueueAt(s, uses, j) ==
  IF j = Len(s) THEN uses ELSE IF s[j + 1].recursive THEN s[j + 1].savedUses ELSE << >>

SameQueue(s, i, j) == \A m \in i + 1 .. j : ~s[m].recursive

(* c is in one of the queues, where DefineUsedVTables has not yet been.     *)
IsLive(s, uses, c) ==
  \E j \in 1 .. Len(s) : \E k \in 1 .. Len(QueueAt(s, uses, j)) :
    /\ QueueAt(s, uses, j)[k] = c
    /\ \A i \in 1 .. j : SameQueue(s, i, j) => s[i].index < k

(* The loop of DefineUsedVTables is within the queue.                       *)
IndexOK(s, uses) ==
  \A j \in 1 .. Len(s) : \A i \in 1 .. j :
    /\ SameQueue(s, i, j)
    /\ j = Len(s) \/ s[j + 1].recursive
    /\ s[i].stage \notin {"pending", "done"}
    => s[i].index <= Len(QueueAt(s, uses, j))

CodesOK(s) ==
  \A i \in 1 .. Len(s) : s[i].stage = "vtables" /\ i # 1 /\ ~s[i].recursive => s[i].code = << >>

DoneOK(s, uses) ==
  \A i \in 1 .. Len(s) : s[i].stage = "done" => Len(s) = 1 /\ uses = << >>

(* The consumer knows the present state of c, or is going to be told.       *)
Settled(s, uses, isUsed, isHandled, c) ==
  \/ isHandled[c] = isUsed[c]
  \/ \E i \in 1 .. Len(s) : Ref("handle", c) \in Range(s[i].code)
  \/ IsLive(s, uses, c)

(* A class whose key function is defined is marked again at the end of the  *)
(* unit, and has not become required before.                                *)
VTablesOK(p, s, uses, isUsed, isHandled, keys) ==
  \A c \in Classes \ p.local :
    /\ c \notin p.keyed \cup p.extern => Settled(s, uses, isUsed, isHandled, c)
    /\ c \in p.keyed /\ s[1].stage = "body" =>
         isUsed[c] # "required" /\ \A i \in 1 .. Len(s) : Ref("required", c) \notin Range(s[i].code)
    /\ c \in keys /\ s[1].stage # "body" =>
         \/ Settled(s, uses, isUsed, isHandled, c)
         \/ Ref("required", c) \in Range(s[1].code) /\ isUsed[c] # "required"

(* A step leaves every use that waits waiting.                              *)
KeepsLive(s, t, uses, uses2) == \A c : IsLive(s, uses, c) => IsLive(t, uses2, c)

VTablesAt(p, s, uses, isUsed, isHandled, keys) ==
  /\ IndexOK(s, uses)
  /\ CodesOK(s)
  /\ DoneOK(s, uses)
  /\ keys \subseteq p.keyed
  /\ VTablesOK(p, s, uses, isUsed, isHandled, keys)

VTablesInv == VTablesAt(program, stack, vtableUses, vtablesUsed, vtableHandled, keyDefined)

(* Whether a vtable use still waits                                         *)

(* The calls are the same, at the same places of their queues.              *)
KeepsQueues(s, t) ==
  Len(t) = Len(s) /\
    \A i \in 1 .. Len(s) :
      /\ t[i].recursive = s[i].recursive
      /\ t[i].savedUses = s[i].savedUses
      /\ t[i].index = s[i].index
      /\ s[i].stage \in {"pending", "done"} => t[i].stage \in {"pending", "done"}

LEMMA LiveContinues ==
  ASSUME NEW s, NEW t, KeepsQueues(s, t), NEW uses
  PROVE  KeepsLive(s, t, uses, uses) /\ (IndexOK(s, uses) => IndexOK(t, uses))
<1>0. /\ Len(t) = Len(s)
      /\ \A i \in 1 .. Len(s) :
           /\ t[i].recursive = s[i].recursive
           /\ t[i].savedUses = s[i].savedUses
           /\ t[i].index = s[i].index
           /\ s[i].stage \in {"pending", "done"} => t[i].stage \in {"pending", "done"}
  BY DEF KeepsQueues
<1>1. \A j \in 1 .. Len(s) : \A i \in 1 .. j : SameQueue(t, i, j) <=> SameQueue(s, i, j)
  BY <1>0 DEF SameQueue
<1>2. \A j \in 1 .. Len(s) : QueueAt(t, uses, j) = QueueAt(s, uses, j)
  BY <1>0 DEF QueueAt
<1>3. ASSUME NEW c, IsLive(s, uses, c) PROVE IsLive(t, uses, c)
  <2>1. PICK j \in 1 .. Len(s) : \E k \in 1 .. Len(QueueAt(s, uses, j)) :
          /\ QueueAt(s, uses, j)[k] = c
          /\ \A i \in 1 .. j : SameQueue(s, i, j) => s[i].index < k
    BY <1>3 DEF IsLive
  <2>2. PICK k \in 1 .. Len(QueueAt(s, uses, j)) :
          /\ QueueAt(s, uses, j)[k] = c
          /\ \A i \in 1 .. j : SameQueue(s, i, j) => s[i].index < k
    BY <2>1
  <2>3. \A i \in 1 .. j : SameQueue(t, i, j) => t[i].index < k
    BY <1>0, <1>1, <2>2
  <2>4. k \in 1 .. Len(QueueAt(t, uses, j)) /\ QueueAt(t, uses, j)[k] = c
    BY <1>2, <2>2
  <2> QED BY <1>0, <2>3, <2>4 DEF IsLive
<1>4. ASSUME IndexOK(s, uses) PROVE IndexOK(t, uses)
  BY <1>0, <1>1, <1>2, <1>4 DEF IndexOK
<1> QED BY <1>3, <1>4 DEF KeepsLive

(* A use that is added waits.                                               *)
LEMMA LiveAppend ==
  ASSUME NEW s, NEW n \in Nat \ {0}, n = Len(s), NEW uses \in Seq(Classes), NEW c \in Classes,
         \A i \in 1 .. n : s[i].index \in Nat
  PROVE  /\ KeepsLive(s, s, uses, Append(uses, c))
         /\ IndexOK(s, uses) => IndexOK(s, Append(uses, c))
         /\ (\A i \in 1 .. n : SameQueue(s, i, n) => s[i].index <= Len(uses))
              => IsLive(s, Append(uses, c), c)
<1>1. PICK more : more = Append(uses, c)
  OBVIOUS
<1>2. /\ Len(uses) \in Nat /\ Len(more) = Len(uses) + 1 /\ more[Len(uses) + 1] = c
      /\ \A k \in 1 .. Len(uses) : more[k] = uses[k]
  BY <1>1, AppendLast
<1>3. /\ QueueAt(s, uses, n) = uses /\ QueueAt(s, more, n) = more
      /\ \A j \in 1 .. n : j # n => QueueAt(s, uses, j) = QueueAt(s, more, j)
  BY DEF QueueAt
<1>4. ASSUME NEW d, IsLive(s, uses, d) PROVE IsLive(s, more, d)
  <2>1. PICK j \in 1 .. n : \E k \in 1 .. Len(QueueAt(s, uses, j)) :
          /\ QueueAt(s, uses, j)[k] = d
          /\ \A i \in 1 .. j : SameQueue(s, i, j) => s[i].index < k
    BY <1>4 DEF IsLive
  <2>2. PICK k \in 1 .. Len(QueueAt(s, uses, j)) :
          /\ QueueAt(s, uses, j)[k] = d
          /\ \A i \in 1 .. j : SameQueue(s, i, j) => s[i].index < k
    BY <2>1
  <2>3. k \in 1 .. Len(QueueAt(s, more, j)) /\ QueueAt(s, more, j)[k] = d
    <3>1. CASE j = n
      BY <1>2, <1>3, <2>2, <3>1
    <3>2. CASE j # n
      BY <1>3, <2>2, <3>2
    <3> QED BY <3>1, <3>2
  <2> QED BY <2>2, <2>3 DEF IsLive
<1>5. ASSUME IndexOK(s, uses) PROVE IndexOK(s, more)
  <2> SUFFICES ASSUME NEW j \in 1 .. n, NEW i \in 1 .. j, SameQueue(s, i, j),
                      j = n \/ s[j + 1].recursive, s[i].stage \notin {"pending", "done"}
               PROVE  s[i].index <= Len(QueueAt(s, more, j))
    BY DEF IndexOK
  <2>1. s[i].index <= Len(QueueAt(s, uses, j)) /\ s[i].index \in Nat
    BY <1>5 DEF IndexOK
  <2>2. CASE j = n
    BY <1>2, <1>3, <2>1, <2>2
  <2>3. CASE j # n
    BY <1>3, <2>1, <2>3
  <2> QED BY <2>2, <2>3
<1>6. ASSUME \A i \in 1 .. n : SameQueue(s, i, n) => s[i].index <= Len(uses)
      PROVE  IsLive(s, more, c)
  <2>1. Len(uses) + 1 \in 1 .. Len(QueueAt(s, more, n)) /\ QueueAt(s, more, n)[Len(uses) + 1] = c
    BY <1>2, <1>3
  <2>2. \A i \in 1 .. n : SameQueue(s, i, n) => s[i].index < Len(uses) + 1
    BY <1>2, <1>6
  <2> QED BY <2>1, <2>2 DEF IsLive
<1> QED BY <1>1, <1>4, <1>5, <1>6 DEF KeepsLive

LEMMA LivePush ==
  ASSUME NEW s \in Seq(Frame), s # << >>, NEW g \in Frame, g.index = 0, g.stage = "body",
         NEW uses \in Seq(Classes), NEW uses2,
         \/ g.recursive /\ g.savedUses = uses /\ uses2 = << >>
         \/ ~g.recursive /\ g.savedUses = << >> /\ uses2 = uses
  PROVE  /\ KeepsLive(s, Append(s, g), uses, uses2)
         /\ IndexOK(s, uses) => IndexOK(Append(s, g), uses2)
<1> DEFINE n == Len(s)
<1>1. PICK t : t = Append(s, g)
  OBVIOUS
<1>2. /\ n \in Nat \ {0} /\ Len(t) = n + 1 /\ t[n + 1] = g
      /\ \A i \in 1 .. n : t[i] = s[i]
  BY <1>1, AppendLast
<1>3. \A j \in 1 .. n : \A i \in 1 .. j : SameQueue(t, i, j) <=> SameQueue(s, i, j)
  BY <1>2 DEF SameQueue
<1>4. \A j \in 1 .. n : j # n => QueueAt(t, uses2, j) = QueueAt(s, uses, j)
  <2>1. \A j \in 1 .. n : j # n => j + 1 \in 1 .. n /\ j # n + 1
    BY <1>2
  <2> QED BY <1>2, <2>1 DEF QueueAt
<1>5. QueueAt(s, uses, n) = uses /\ QueueAt(t, uses2, n + 1) = uses2
  BY <1>2 DEF QueueAt
<1>6. QueueAt(t, uses2, n) = IF g.recursive THEN g.savedUses ELSE << >>
  BY <1>2 DEF QueueAt
<1>7. \A i \in 1 .. n : SameQueue(t, i, n + 1) <=> SameQueue(s, i, n) /\ ~g.recursive
  <2>1. \A i \in 1 .. n : \A m \in i + 1 .. n + 1 : m = n + 1 \/ m \in i + 1 .. n
    BY <1>2
  <2>2. \A i \in 1 .. n : n + 1 \in i + 1 .. n + 1 /\ \A m \in i + 1 .. n : m \in i + 1 .. n + 1 /\ m \in 1 .. n
    BY <1>2
  <2> QED BY <1>2, <2>1, <2>2 DEF SameQueue
<1>8. ASSUME NEW c, IsLive(s, uses, c) PROVE IsLive(t, uses2, c)
  <2>1. PICK j \in 1 .. n : \E k \in 1 .. Len(QueueAt(s, uses, j)) :
          /\ QueueAt(s, uses, j)[k] = c
          /\ \A i \in 1 .. j : SameQueue(s, i, j) => s[i].index < k
    BY <1>8 DEF IsLive
  <2>2. PICK k \in 1 .. Len(QueueAt(s, uses, j)) :
          /\ QueueAt(s, uses, j)[k] = c
          /\ \A i \in 1 .. j : SameQueue(s, i, j) => s[i].index < k
    BY <2>1
  <2>3. j \in 1 .. n + 1 /\ n + 1 \in 1 .. n + 1 /\ \A i \in 1 .. j : i \in 1 .. n
    BY <1>2
  <2>4. CASE j # n \/ g.recursive
    <3>1. QueueAt(t, uses2, j) = QueueAt(s, uses, j)
      BY <1>4, <1>5, <1>6, <2>4
    <3>2. \A i \in 1 .. j : SameQueue(t, i, j) => t[i].index < k
      BY <1>2, <1>3, <2>2, <2>3
    <3> QED BY <1>2, <2>2, <2>3, <3>1, <3>2 DEF IsLive
  <2>5. CASE j = n /\ ~g.recursive
    <3>1. uses2 = uses
      BY <2>5
    <3>2. QueueAt(t, uses2, n + 1) = QueueAt(s, uses, j)
      BY <1>5, <2>5, <3>1
    <3>3. k \in Nat \ {0}
      BY <1>5, <2>5
    <3>4. \A i \in 1 .. n + 1 : SameQueue(t, i, n + 1) => t[i].index < k
      <4>1. \A i \in 1 .. n : SameQueue(t, i, n + 1) => t[i].index < k
        BY <1>2, <1>7, <2>2, <2>5
      <4>2. t[n + 1].index < k
        BY <1>2, <3>3
      <4>3. \A i \in 1 .. n + 1 : i = n + 1 \/ i \in 1 .. n
        BY <1>2
      <4> QED BY <4>1, <4>2, <4>3
    <3> QED BY <1>2, <2>2, <2>3, <3>2, <3>4 DEF IsLive
  <2> QED BY <2>4, <2>5
<1>9. ASSUME IndexOK(s, uses) PROVE IndexOK(t, uses2)
  <2> SUFFICES ASSUME NEW j \in 1 .. n + 1, NEW i \in 1 .. j, SameQueue(t, i, j),
                      j = n + 1 \/ t[j + 1].recursive, t[i].stage \notin {"pending", "done"}
               PROVE  t[i].index <= Len(QueueAt(t, uses2, j))
    BY <1>2 DEF IndexOK
  <2>1. Len(uses) \in Nat /\ Len(<< >>) = 0
    OBVIOUS
  <2>2. CASE i = n + 1
    <3>1. j = n + 1
      BY <1>2, <2>2
    <3> QED BY <1>2, <1>5, <2>1, <2>2, <3>1
  <2>3. CASE i # n + 1
    <3>1. i \in 1 .. n /\ t[i] = s[i]
      BY <1>2, <2>3
    <3>2. CASE j = n + 1
      <4>1. SameQueue(s, i, n) /\ ~g.recursive
        BY <1>7, <3>1, <3>2
      <4>2. s[i].index <= Len(uses)
        BY <1>2, <1>5, <1>9, <3>1, <4>1 DEF IndexOK
      <4> QED BY <1>5, <3>1, <3>2, <4>1, <4>2
    <3>3. CASE j = n
      <4>1. g.recursive /\ SameQueue(s, i, n)
        BY <1>2, <1>3, <3>1, <3>3
      <4>2. s[i].index <= Len(uses)
        BY <1>2, <1>5, <1>9, <3>1, <4>1 DEF IndexOK
      <4> QED BY <1>6, <3>1, <3>3, <4>1, <4>2
    <3>4. CASE j # n /\ j # n + 1
      <4>1. j \in 1 .. n /\ j + 1 \in 1 .. n
        BY <1>2, <3>4
      <4>2. s[j + 1].recursive /\ SameQueue(s, i, j)
        BY <1>2, <1>3, <3>4, <4>1
      <4>3. s[i].index <= Len(QueueAt(s, uses, j))
        BY <1>9, <3>1, <4>1, <4>2 DEF IndexOK
      <4> QED BY <1>4, <3>1, <3>4, <4>1, <4>3
    <3> QED BY <3>2, <3>3, <3>4
  <2> QED BY <2>2, <2>3
<1> QED BY <1>1, <1>8, <1>9 DEF KeepsLive

LEMMA LivePop ==
  ASSUME NEW s \in Seq(Frame), s # << >>, NEW uses \in Seq(Classes), NEW uses2,
         \/ Last(s).recursive /\ uses = << >> /\ uses2 = Last(s).savedUses
         \/ ~Last(s).recursive /\ uses2 = uses,
         Len(s) # 1
  PROVE  /\ KeepsLive(s, Front(s), uses, uses2)
         /\ IndexOK(s, uses) => IndexOK(Front(s), uses2)
<1> DEFINE n == Len(s)
<1>1. PICK t : t = Front(s)
  OBVIOUS
<1>2. /\ n \in Nat /\ n - 1 \in Nat \ {0} /\ Len(t) = n - 1 /\ Last(s) = s[n]
      /\ \A i \in 1 .. n - 1 : t[i] = s[i]
  <2>1. /\ Len(s) \in Nat \ {0} /\ Last(s) = s[Len(s)] /\ Len(Front(s)) = Len(s) - 1
        /\ \A i \in 1 .. Len(s) - 1 : Front(s)[i] = s[i]
    BY LastFront, Zenon
  <2>2. n - 1 \in Nat \ {0}
    BY <2>1
  <2> QED BY <1>1, <2>1, <2>2, Zenon
<1>3. ASSUME NEW j \in 1 .. n - 1, NEW i \in 1 .. j
      PROVE  SameQueue(t, i, j) <=> SameQueue(s, i, j)
  <2>1. \A m \in i + 1 .. j : m \in 1 .. n - 1
    BY <1>2
  <2>2. \A m \in i + 1 .. j : t[m] = s[m]
    BY <1>2, <2>1
  <2> QED BY <2>2 DEF SameQueue
<1>4. \A j \in 1 .. n - 1 : j # n - 1 => QueueAt(t, uses2, j) = QueueAt(s, uses, j)
  <2>1. \A j \in 1 .. n - 1 : j # n - 1 => j + 1 \in 1 .. n - 1 /\ j # n
    BY <1>2
  <2> QED BY <1>2, <2>1 DEF QueueAt
<1>5. QueueAt(s, uses, n) = uses /\ QueueAt(t, uses2, n - 1) = uses2
  BY <1>2 DEF QueueAt
<1>6. QueueAt(s, uses, n - 1) = IF s[n].recursive THEN s[n].savedUses ELSE << >>
  BY <1>2 DEF QueueAt
<1>7. \A i \in 1 .. n - 1 : SameQueue(s, i, n) <=> SameQueue(s, i, n - 1) /\ ~s[n].recursive
  <2> SUFFICES ASSUME NEW i \in 1 .. n - 1
               PROVE  SameQueue(s, i, n) <=> SameQueue(s, i, n - 1) /\ ~s[n].recursive
    OBVIOUS
  <2>1. i + 1 .. n = (i + 1 .. n - 1) \cup {n}
    BY <1>2
  <2> QED BY <2>1 DEF SameQueue
<1>8. ASSUME NEW c, IsLive(s, uses, c) PROVE IsLive(t, uses2, c)
  <2>1. PICK j \in 1 .. n : \E k \in 1 .. Len(QueueAt(s, uses, j)) :
          /\ QueueAt(s, uses, j)[k] = c
          /\ \A i \in 1 .. j : SameQueue(s, i, j) => s[i].index < k
    BY <1>8 DEF IsLive
  <2>2. PICK k \in 1 .. Len(QueueAt(s, uses, j)) :
          /\ QueueAt(s, uses, j)[k] = c
          /\ \A i \in 1 .. j : SameQueue(s, i, j) => s[i].index < k
    BY <2>1
  <2>3. k \in 1 .. Len(QueueAt(s, uses, j)) /\ Len(<< >>) = 0
    OBVIOUS
  <2>4. CASE j = n
    <3>1. ~s[n].recursive /\ uses2 = uses
      BY <1>2, <1>5, <2>3, <2>4
    <3>2. \A i \in 1 .. n - 1 : SameQueue(t, i, n - 1) => t[i].index < k
      <4> SUFFICES ASSUME NEW i \in 1 .. n - 1, SameQueue(t, i, n - 1) PROVE t[i].index < k
        OBVIOUS
      <4>1. n - 1 \in 1 .. n - 1 /\ i \in 1 .. n - 1 /\ i \in 1 .. n
        BY <1>2
      <4>3. t[i] = s[i]
        BY <1>2, <4>1
      <4>2. SameQueue(s, i, n)
        BY <1>3, <1>7, <3>1, <4>1
      <4> QED BY <2>2, <2>4, <4>1, <4>2, <4>3
    <3>3. n - 1 \in 1 .. n - 1 /\ QueueAt(t, uses2, n - 1) = QueueAt(s, uses, j)
      BY <1>2, <1>5, <2>4, <3>1
    <3> QED BY <1>2, <2>2, <3>2, <3>3 DEF IsLive
  <2>5. CASE j # n
    <3>1. j \in 1 .. n - 1
      BY <1>2, <2>5
    <3>2. QueueAt(t, uses2, j) = QueueAt(s, uses, j)
      <4>1. CASE j # n - 1
        BY <1>4, <3>1, <4>1
      <4>2. CASE j = n - 1
        <5>1. s[n].recursive
          BY <1>6, <2>3, <4>2
        <5> QED BY <1>2, <1>5, <1>6, <4>2, <5>1
      <4> QED BY <4>1, <4>2
    <3>3. \A i \in 1 .. j : SameQueue(t, i, j) => t[i].index < k
      BY <1>2, <1>3, <2>2, <3>1
    <3> QED BY <1>2, <2>2, <3>1, <3>2, <3>3 DEF IsLive
  <2> QED BY <2>4, <2>5
<1>9. ASSUME IndexOK(s, uses) PROVE IndexOK(t, uses2)
  <2> SUFFICES ASSUME NEW j \in 1 .. n - 1, NEW i \in 1 .. j, SameQueue(t, i, j),
                      j = n - 1 \/ t[j + 1].recursive, t[i].stage \notin {"pending", "done"}
               PROVE  t[i].index <= Len(QueueAt(t, uses2, j))
    BY <1>2 DEF IndexOK
  <2>1. /\ i \in 1 .. n - 1 /\ i \in 1 .. n /\ j \in 1 .. n /\ t[i] = s[i] /\ SameQueue(s, i, j)
        /\ n \in 1 .. n
    BY <1>2, <1>3
  <2>2. CASE j # n - 1
    <3>1. s[j + 1].recursive
      <4>1. j + 1 \in 1 .. n - 1
        BY <1>2, <2>2
      <4> QED BY <1>2, <2>2, <4>1
    <3>2. s[i].index <= Len(QueueAt(s, uses, j))
      BY <1>9, <2>1, <3>1 DEF IndexOK
    <3> QED BY <1>4, <2>1, <2>2, <3>2
  <2>3. CASE j = n - 1 /\ s[n].recursive
    <3>1. s[j + 1].recursive
      BY <1>2, <2>3
    <3>2. s[i].index <= Len(QueueAt(s, uses, j))
      BY <1>9, <2>1, <3>1 DEF IndexOK
    <3>3. uses2 = s[n].savedUses
      BY <1>2, <2>3
    <3> QED BY <1>5, <1>6, <2>1, <2>3, <3>2, <3>3
  <2>4. CASE j = n - 1 /\ ~s[n].recursive
    <3>1. SameQueue(s, i, n)
      BY <1>7, <2>1, <2>4
    <3>2. s[i].index <= Len(QueueAt(s, uses, n))
      BY <1>9, <2>1, <3>1 DEF IndexOK
    <3>3. uses2 = uses
      BY <1>2, <2>4
    <3> QED BY <1>5, <2>1, <2>4, <3>2, <3>3
  <2> QED BY <2>2, <2>3, <2>4
<1> QED BY <1>1, <1>8, <1>9 DEF KeepsLive

(* The call that DefineUsedVTables is part of has a queue of its own.       *)
OwnsQueue(s) == Len(s) = 1 \/ s[Len(s)].recursive

LEMMA OwnsQueueFacts ==
  ASSUME NEW s, NEW n \in Nat \ {0}, n = Len(s), OwnsQueue(s)
  PROVE  \A i \in 1 .. n : SameQueue(s, i, n) => i = n
<1> SUFFICES ASSUME NEW i \in 1 .. n, SameQueue(s, i, n), i # n PROVE FALSE
  OBVIOUS
<1>1. n \in i + 1 .. n
  OBVIOUS
<1> QED BY <1>1 DEF SameQueue, OwnsQueue

(* The loop takes the next entry.                                           *)
LEMMA LiveDefine ==
  ASSUME NEW s, NEW t, NEW n \in Nat \ {0}, n = Len(s), Len(t) = n, OwnsQueue(s),
         \A i \in 1 .. n : /\ t[i].recursive = s[i].recursive /\ t[i].savedUses = s[i].savedUses
                           /\ t[i].stage = s[i].stage
                           /\ i # n => t[i].index = s[i].index,
         NEW uses \in Seq(Classes), s[n].index \in Nat, s[n].index < Len(uses),
         t[n].index = s[n].index + 1
  PROVE  /\ \A c : IsLive(s, uses, c) => IsLive(t, uses, c) \/ c = uses[s[n].index + 1]
         /\ IndexOK(s, uses) => IndexOK(t, uses)
<1>1. ASSUME NEW j \in 1 .. n, NEW i \in 1 .. j
      PROVE  SameQueue(t, i, j) <=> SameQueue(s, i, j)
  <2>1. \A m \in i + 1 .. j : m \in 1 .. n
    OBVIOUS
  <2> QED BY <2>1 DEF SameQueue
<1>2. /\ \A j \in 1 .. n : QueueAt(t, uses, j) = QueueAt(s, uses, j)
      /\ QueueAt(s, uses, n) = uses
  BY DEF QueueAt
<1>3. \A i \in 1 .. n : SameQueue(s, i, n) => i = n
  BY OwnsQueueFacts
<1>4. ASSUME NEW c, IsLive(s, uses, c), c # uses[s[n].index + 1] PROVE IsLive(t, uses, c)
  <2>1. PICK j \in 1 .. n : \E k \in 1 .. Len(QueueAt(s, uses, j)) :
          /\ QueueAt(s, uses, j)[k] = c
          /\ \A i \in 1 .. j : SameQueue(s, i, j) => s[i].index < k
    BY <1>4 DEF IsLive
  <2>2. PICK k \in 1 .. Len(QueueAt(s, uses, j)) :
          /\ QueueAt(s, uses, j)[k] = c
          /\ \A i \in 1 .. j : SameQueue(s, i, j) => s[i].index < k
    BY <2>1
  <2>3. \A i \in 1 .. j : SameQueue(t, i, j) => t[i].index < k
    <3>1. CASE j = n
      <4>1. k \in 1 .. Len(uses) /\ uses[k] = c
        BY <1>2, <2>2, <3>1
      <4>2. k # s[n].index + 1
        BY <1>4, <4>1
      <4>3. SameQueue(s, n, n) /\ n \in 1 .. n
        BY DEF SameQueue
      <4>4. s[n].index < k
        BY <2>2, <3>1, <4>3
      <4>5. t[n].index < k
        BY <4>1, <4>2, <4>4
      <4> QED BY <1>1, <1>3, <3>1, <4>5
    <3>2. CASE j # n
      <4>1. \A i \in 1 .. j : i \in 1 .. n /\ i # n
        BY <3>2
      <4> QED BY <1>1, <2>2, <4>1
    <3> QED BY <3>1, <3>2
  <2> QED BY <1>2, <2>2, <2>3 DEF IsLive
<1>5. ASSUME IndexOK(s, uses) PROVE IndexOK(t, uses)
  <2> SUFFICES ASSUME NEW j \in 1 .. n, NEW i \in 1 .. j, SameQueue(t, i, j),
                      j = n \/ t[j + 1].recursive, t[i].stage \notin {"pending", "done"}
               PROVE  t[i].index <= Len(QueueAt(t, uses, j))
    BY DEF IndexOK
  <2>1. CASE i = n
    <3>1. j = n
      BY <2>1
    <3>2. Len(uses) \in Nat
      OBVIOUS
    <3> QED BY <1>2, <2>1, <3>1, <3>2
  <2>2. CASE i # n
    <3>1. SameQueue(s, i, j) /\ (j = n \/ s[j + 1].recursive) /\ s[i].stage \notin {"pending", "done"}
      <4>1. j # n => j + 1 \in 1 .. n
        OBVIOUS
      <4> QED BY <1>1, <4>1
    <3>2. s[i].index <= Len(QueueAt(s, uses, j))
      BY <1>5, <3>1 DEF IndexOK
    <3> QED BY <1>2, <2>2, <3>2
  <2> QED BY <2>1, <2>2
<1> QED BY <1>4, <1>5

(* The loop has reached the end of its queue, which is emptied.             *)
LEMMA LiveFinish ==
  ASSUME NEW s, NEW t, NEW n \in Nat \ {0}, n = Len(s), Len(t) = n, OwnsQueue(s),
         \A i \in 1 .. n : /\ t[i].recursive = s[i].recursive /\ t[i].savedUses = s[i].savedUses
                           /\ t[i].index = s[i].index /\ (i # n => t[i].stage = s[i].stage),
         NEW uses \in Seq(Classes), s[n].index = Len(uses), t[n].stage = "pending"
  PROVE  /\ KeepsLive(s, t, uses, << >>)
         /\ IndexOK(s, uses) => IndexOK(t, << >>)
<1>1. ASSUME NEW j \in 1 .. n, NEW i \in 1 .. j
      PROVE  SameQueue(t, i, j) <=> SameQueue(s, i, j)
  <2>1. \A m \in i + 1 .. j : m \in 1 .. n
    OBVIOUS
  <2> QED BY <2>1 DEF SameQueue
<1>2. /\ \A j \in 1 .. n : j # n => QueueAt(t, << >>, j) = QueueAt(s, uses, j)
      /\ QueueAt(s, uses, n) = uses
  <2>1. \A j \in 1 .. n : j # n => j + 1 \in 1 .. n
    OBVIOUS
  <2> QED BY <2>1 DEF QueueAt
<1>3. \A i \in 1 .. n : SameQueue(s, i, n) => i = n
  BY OwnsQueueFacts
<1>4. ASSUME NEW c, IsLive(s, uses, c) PROVE IsLive(t, << >>, c)
  <2>1. PICK j \in 1 .. n : \E k \in 1 .. Len(QueueAt(s, uses, j)) :
          /\ QueueAt(s, uses, j)[k] = c
          /\ \A i \in 1 .. j : SameQueue(s, i, j) => s[i].index < k
    BY <1>4 DEF IsLive
  <2>2. PICK k \in 1 .. Len(QueueAt(s, uses, j)) :
          /\ QueueAt(s, uses, j)[k] = c
          /\ \A i \in 1 .. j : SameQueue(s, i, j) => s[i].index < k
    BY <2>1
  <2>3. j # n
    <3>1. SUFFICES ASSUME j = n PROVE FALSE
      OBVIOUS
    <3>2. SameQueue(s, n, n) /\ n \in 1 .. n
      BY DEF SameQueue
    <3>3. s[n].index < k /\ k \in 1 .. Len(uses)
      BY <1>2, <2>2, <3>1, <3>2
    <3>4. Len(uses) \in Nat
      OBVIOUS
    <3> QED BY <3>3, <3>4
  <2>4. \A i \in 1 .. j : SameQueue(t, i, j) => t[i].index < k
    BY <1>1, <2>2
  <2> QED BY <1>2, <2>2, <2>3, <2>4 DEF IsLive
<1>5. ASSUME IndexOK(s, uses) PROVE IndexOK(t, << >>)
  <2> SUFFICES ASSUME NEW j \in 1 .. n, NEW i \in 1 .. j, SameQueue(t, i, j),
                      j = n \/ t[j + 1].recursive, t[i].stage \notin {"pending", "done"}
               PROVE  t[i].index <= Len(QueueAt(t, << >>, j))
    BY DEF IndexOK
  <2>1. SameQueue(s, i, j) /\ i # n
    BY <1>1
  <2>2. j # n
    BY <1>3, <2>1
  <2>3. s[j + 1].recursive /\ s[i].stage \notin {"pending", "done"}
    <3>1. j + 1 \in 1 .. n
      BY <2>2
    <3> QED BY <2>1, <2>2, <3>1
  <2>4. s[i].index <= Len(QueueAt(s, uses, j))
    BY <1>5, <2>1, <2>3 DEF IndexOK
  <2> QED BY <1>2, <2>2, <2>4
<1> QED BY <1>4, <1>5 DEF KeepsLive

(* The classes whose vtables this unit has to hand over, as far as it is    *)
(* known.                                                                   *)
Ours(p, keys) == {c \in Classes \ p.local : c \notin p.keyed \cup p.extern \/ c \in keys}

(* What a step has to preserve of each class.                               *)
KeepsSettled(p, s, t, uses, uses2, isUsed, isUsed2, isHandled, isHandled2, keys) ==
  \A c \in Ours(p, keys) :
    /\ Settled(s, uses, isUsed, isHandled, c) => Settled(t, uses2, isUsed2, isHandled2, c)
    /\ isUsed2[c] = isUsed[c] \/ Settled(t, uses2, isUsed2, isHandled2, c)
    /\ Ref("required", c) \in Range(s[1].code) /\ isUsed[c] # "required" =>
         Ref("required", c) \in Range(t[1].code) \/ Settled(t, uses2, isUsed2, isHandled2, c)

KeepsKeyed(p, t, isUsed, isUsed2) ==
  t[1].stage = "body" =>
    \A c \in p.keyed \cap (Classes \ p.local) :
      /\ isUsed2[c] = "required" => isUsed[c] = "required"
      /\ \A i \in 1 .. Len(t) : Ref("required", c) \notin Range(t[i].code)

LEMMA VTablesKept ==
  ASSUME NEW p, NEW s, NEW t, NEW uses, NEW uses2, NEW isUsed, NEW isUsed2,
         NEW isHandled, NEW isHandled2, NEW keys,
         VTablesOK(p, s, uses, isUsed, isHandled, keys),
         t[1].stage = "body" <=> s[1].stage = "body",
         KeepsSettled(p, s, t, uses, uses2, isUsed, isUsed2, isHandled, isHandled2, keys),
         KeepsKeyed(p, t, isUsed, isUsed2)
  PROVE  VTablesOK(p, t, uses2, isUsed2, isHandled2, keys)
<1> SUFFICES ASSUME NEW c \in Classes \ p.local
             PROVE  /\ c \notin p.keyed \cup p.extern => Settled(t, uses2, isUsed2, isHandled2, c)
                    /\ c \in p.keyed /\ t[1].stage = "body" =>
                         /\ isUsed2[c] # "required"
                         /\ \A i \in 1 .. Len(t) : Ref("required", c) \notin Range(t[i].code)
                    /\ c \in keys /\ t[1].stage # "body" =>
                         \/ Settled(t, uses2, isUsed2, isHandled2, c)
                         \/ Ref("required", c) \in Range(t[1].code) /\ isUsed2[c] # "required"
  BY DEF VTablesOK
<1>1. /\ c \notin p.keyed \cup p.extern => Settled(s, uses, isUsed, isHandled, c)
      /\ c \in p.keyed /\ s[1].stage = "body" =>
           /\ isUsed[c] # "required"
           /\ \A i \in 1 .. Len(s) : Ref("required", c) \notin Range(s[i].code)
      /\ c \in keys /\ s[1].stage # "body" =>
           \/ Settled(s, uses, isUsed, isHandled, c)
           \/ Ref("required", c) \in Range(s[1].code) /\ isUsed[c] # "required"
  BY DEF VTablesOK
<1>2. c \notin p.keyed \cup p.extern => Settled(t, uses2, isUsed2, isHandled2, c)
  BY <1>1 DEF Ours, KeepsSettled
<1>3. c \in p.keyed /\ t[1].stage = "body" =>
        /\ isUsed2[c] # "required"
        /\ \A i \in 1 .. Len(t) : Ref("required", c) \notin Range(t[i].code)
  <2> SUFFICES ASSUME c \in p.keyed, t[1].stage = "body"
               PROVE  /\ isUsed2[c] # "required"
                      /\ \A i \in 1 .. Len(t) : Ref("required", c) \notin Range(t[i].code)
    OBVIOUS
  <2>1. isUsed[c] # "required"
    BY <1>1
  <2>2. c \in p.keyed \cap (Classes \ p.local)
    OBVIOUS
  <2> QED BY <2>1, <2>2 DEF KeepsKeyed
<1>4. ASSUME c \in keys, t[1].stage # "body"
      PROVE  \/ Settled(t, uses2, isUsed2, isHandled2, c)
             \/ Ref("required", c) \in Range(t[1].code) /\ isUsed2[c] # "required"
  <2>1. c \in Ours(p, keys)
    BY <1>4 DEF Ours
  <2> QED BY <1>1, <1>4, <2>1 DEF KeepsSettled
<1> QED BY <1>2, <1>3, <1>4

(* The same for a step of the call on top, which becomes g.                 *)
TopSettles(s, t, g, uses, uses2, isUsed, isUsed2, isHandled, isHandled2, ours) ==
  \A c \in ours :
    /\ isUsed2[c] = isUsed[c] \/ IsLive(t, uses2, c)
    /\ isHandled2[c] = isHandled[c] \/ isHandled2[c] = isUsed2[c]
    /\ Ref("handle", c) \in Range(Last(s).code) =>
         Ref("handle", c) \in Range(g.code) \/ isHandled2[c] = isUsed2[c]
    /\ Ref("required", c) \in Range(Last(s).code) /\ isUsed[c] # "required" =>
         Ref("required", c) \in Range(g.code) \/ IsLive(t, uses2, c)
    /\ IsLive(s, uses, c) => IsLive(t, uses2, c) \/ Ref("handle", c) \in Range(g.code)

TopKeyed(p, s, g, isUsed, isUsed2) ==
  \A c \in p.keyed \cap (Classes \ p.local) :
    /\ isUsed2[c] = "required" =>
         isUsed[c] = "required" \/ Ref("required", c) \in Range(Last(s).code)
    /\ Ref("required", c) \in Range(g.code) =>
         Ref("required", c) \in Range(Last(s).code) \/ s[1].stage # "body"

LEMMA VTablesTop ==
  ASSUME NEW p, NEW s \in Seq(Frame), s # << >>, NEW g \in Frame, NEW t, t = Append(Front(s), g),
         Len(s) = 1 => (g.stage = "body" <=> Last(s).stage = "body"),
         NEW uses, NEW uses2, NEW isUsed, NEW isUsed2, NEW isHandled, NEW isHandled2, NEW keys,
         VTablesOK(p, s, uses, isUsed, isHandled, keys),
         TopSettles(s, t, g, uses, uses2, isUsed, isUsed2, isHandled, isHandled2, Ours(p, keys)),
         TopKeyed(p, s, g, isUsed, isUsed2)
  PROVE  VTablesOK(p, t, uses2, isUsed2, isHandled2, keys)
<1> DEFINE n == Len(s)
<1>1. /\ t \in Seq(Frame) /\ Len(t) = n /\ t[n] = g /\ Last(s) = s[n] /\ n \in Nat \ {0}
      /\ \A i \in 1 .. n - 1 : t[i] = s[i]
  <2>1. /\ Front(s) \in Seq(Frame) /\ Len(Front(s)) = n - 1 /\ n \in Nat \ {0}
        /\ \A i \in 1 .. n - 1 : Front(s)[i] = s[i]
        /\ Last(s) = s[n]
    BY LastFront
  <2>2. /\ t \in Seq(Frame) /\ Len(t) = Len(Front(s)) + 1
        /\ \A i \in 1 .. Len(Front(s)) : t[i] = Front(s)[i]
        /\ t[Len(Front(s)) + 1] = g
    BY <2>1, AppendLast
  <2>3. Len(t) = n /\ t[n] = g /\ \A i \in 1 .. n - 1 : t[i] = s[i]
    BY <2>1, <2>2
  <2> QED BY <2>1, <2>2, <2>3
<1>2. \A i \in 1 .. n : i = n \/ i \in 1 .. n - 1
  BY <1>1
<1>3. n = 1 \/ t[1] = s[1]
  BY <1>1, <1>2
<1>4. t[1].stage = "body" <=> s[1].stage = "body"
  BY <1>1, <1>3
<1>5. ASSUME NEW c \in Ours(p, keys), Settled(s, uses, isUsed, isHandled, c)
      PROVE  Settled(t, uses2, isUsed2, isHandled2, c)
  <2>1. CASE isHandled[c] = isUsed[c]
    BY <2>1 DEF Settled, TopSettles
  <2>2. CASE \E i \in 1 .. n : Ref("handle", c) \in Range(s[i].code)
    <3>1. PICK i \in 1 .. n : Ref("handle", c) \in Range(s[i].code)
      BY <2>2
    <3>2. CASE i = n
      <4>1. Ref("handle", c) \in Range(t[n].code) \/ isHandled2[c] = isUsed2[c]
        BY <1>1, <3>1, <3>2 DEF TopSettles
      <4> QED BY <1>1, <4>1 DEF Settled
    <3>3. CASE i # n
      BY <1>1, <1>2, <3>1, <3>3 DEF Settled
    <3> QED BY <3>2, <3>3
  <2>3. CASE IsLive(s, uses, c)
    <3>1. IsLive(t, uses2, c) \/ Ref("handle", c) \in Range(t[n].code)
      BY <1>1, <2>3 DEF TopSettles
    <3> QED BY <1>1, <3>1 DEF Settled
  <2> QED BY <1>5, <2>1, <2>2, <2>3 DEF Settled
<1>6. \A c \in Ours(p, keys) : isUsed2[c] = isUsed[c] \/ Settled(t, uses2, isUsed2, isHandled2, c)
  BY DEF Settled, TopSettles
<1>7. ASSUME NEW c \in Ours(p, keys), Ref("required", c) \in Range(s[1].code), isUsed[c] # "required"
      PROVE  Ref("required", c) \in Range(t[1].code) \/ Settled(t, uses2, isUsed2, isHandled2, c)
  <2>1. CASE n = 1
    <3>1. Ref("required", c) \in Range(g.code) \/ IsLive(t, uses2, c)
      BY <1>1, <1>7, <2>1 DEF TopSettles
    <3> QED BY <1>1, <2>1, <3>1 DEF Settled
  <2>2. CASE n # 1
    BY <1>3, <1>7, <2>2
  <2> QED BY <2>1, <2>2
<1>8. ASSUME s[1].stage = "body", NEW c \in p.keyed \cap (Classes \ p.local)
      PROVE  /\ isUsed2[c] = "required" => isUsed[c] = "required"
             /\ \A i \in 1 .. n : Ref("required", c) \notin Range(t[i].code)
  <2>1. \A i \in 1 .. n : Ref("required", c) \notin Range(s[i].code)
    BY <1>8 DEF VTablesOK
  <2>2. Ref("required", c) \notin Range(Last(s).code)
    BY <1>1, <2>1
  <2>3. Ref("required", c) \notin Range(t[n].code)
    BY <1>1, <1>8, <2>2 DEF TopKeyed
  <2>4. isUsed2[c] = "required" => isUsed[c] = "required"
    BY <1>8, <2>2 DEF TopKeyed
  <2> QED BY <1>1, <1>2, <2>1, <2>3, <2>4
<1>9. KeepsSettled(p, s, t, uses, uses2, isUsed, isUsed2, isHandled, isHandled2, keys)
  BY <1>5, <1>6, <1>7 DEF KeepsSettled
<1>10. KeepsKeyed(p, t, isUsed, isUsed2)
  BY <1>1, <1>4, <1>8 DEF KeepsKeyed
<1> QED BY <1>4, <1>9, <1>10, VTablesKept

LEMMA VTablesPush ==
  ASSUME NEW p, NEW s \in Seq(Frame), s # << >>, NEW g \in Frame,
         NEW uses, NEW uses2, NEW isUsed, NEW isHandled, NEW keys,
         VTablesOK(p, s, uses, isUsed, isHandled, keys),
         KeepsLive(s, Append(s, g), uses, uses2),
         \A c \in p.keyed : Ref("required", c) \notin Range(g.code)
  PROVE  VTablesOK(p, Append(s, g), uses2, isUsed, isHandled, keys)
<1> DEFINE n == Len(s)
<1>1. PICK t : t = Append(s, g)
  OBVIOUS
<1>2. /\ n \in Nat \ {0} /\ Len(t) = n + 1 /\ t[n + 1] = g
      /\ \A i \in 1 .. n : t[i] = s[i]
  BY <1>1, AppendLast
<1>3. t[1] = s[1]
  BY <1>2
<1>4. \A i \in 1 .. n : i \in 1 .. n + 1
  BY <1>2
<1>5. \A c \in Ours(p, keys) :
        Settled(s, uses, isUsed, isHandled, c) => Settled(t, uses2, isUsed, isHandled, c)
  <2> SUFFICES ASSUME NEW c \in Ours(p, keys), Settled(s, uses, isUsed, isHandled, c)
               PROVE  Settled(t, uses2, isUsed, isHandled, c)
    OBVIOUS
  <2>1. CASE isHandled[c] = isUsed[c]
    BY <2>1 DEF Settled
  <2>2. CASE \E i \in 1 .. n : Ref("handle", c) \in Range(s[i].code)
    <3>1. PICK i \in 1 .. n : Ref("handle", c) \in Range(s[i].code)
      BY <2>2
    <3>2. i \in 1 .. Len(t) /\ Ref("handle", c) \in Range(t[i].code)
      BY <1>2, <1>4, <3>1
    <3> QED BY <3>2 DEF Settled
  <2>3. CASE IsLive(s, uses, c)
    BY <1>1, <2>3 DEF Settled, KeepsLive
  <2> QED BY <2>1, <2>2, <2>3 DEF Settled
<1>6. ASSUME s[1].stage = "body", NEW c \in p.keyed \cap (Classes \ p.local)
      PROVE  \A i \in 1 .. n + 1 : Ref("required", c) \notin Range(t[i].code)
  <2>1. \A i \in 1 .. n : Ref("required", c) \notin Range(s[i].code)
    BY <1>6 DEF VTablesOK
  <2>2. \A i \in 1 .. n + 1 : i = n + 1 \/ i \in 1 .. n
    BY <1>2
  <2> QED BY <1>2, <2>1, <2>2
<1>7. KeepsSettled(p, s, t, uses, uses2, isUsed, isUsed, isHandled, isHandled, keys)
  BY <1>3, <1>5 DEF KeepsSettled
<1>8. KeepsKeyed(p, t, isUsed, isUsed)
  BY <1>2, <1>3, <1>6 DEF KeepsKeyed
<1> QED BY <1>1, <1>3, <1>7, <1>8, VTablesKept

LEMMA VTablesPop ==
  ASSUME NEW p, NEW s \in Seq(Frame), s # << >>, Len(s) # 1, Last(s).code = << >>,
         NEW uses, NEW uses2, NEW isUsed, NEW isHandled, NEW keys,
         VTablesOK(p, s, uses, isUsed, isHandled, keys),
         KeepsLive(s, Front(s), uses, uses2)
  PROVE  VTablesOK(p, Front(s), uses2, isUsed, isHandled, keys)
<1> DEFINE n == Len(s)
<1>1. PICK t : t = Front(s)
  OBVIOUS
<1>2. /\ n \in Nat /\ n - 1 \in Nat \ {0} /\ Len(t) = n - 1 /\ Last(s) = s[n]
      /\ \A i \in 1 .. n - 1 : t[i] = s[i]
  BY <1>1, LastFront
<1>3. t[1] = s[1]
  BY <1>2
<1>4. Range(<< >>) = {}
  BY DEF Range
<1>5. \A c \in Ours(p, keys) :
        Settled(s, uses, isUsed, isHandled, c) => Settled(t, uses2, isUsed, isHandled, c)
  <2> SUFFICES ASSUME NEW c \in Ours(p, keys), Settled(s, uses, isUsed, isHandled, c)
               PROVE  Settled(t, uses2, isUsed, isHandled, c)
    OBVIOUS
  <2>1. CASE isHandled[c] = isUsed[c]
    BY <2>1 DEF Settled
  <2>2. CASE \E i \in 1 .. n : Ref("handle", c) \in Range(s[i].code)
    <3>1. PICK i \in 1 .. n : Ref("handle", c) \in Range(s[i].code)
      BY <2>2
    <3>2. i # n
      BY <1>2, <1>4, <3>1
    <3>3. i \in 1 .. Len(t) /\ Ref("handle", c) \in Range(t[i].code)
      BY <1>2, <3>1, <3>2
    <3> QED BY <3>3 DEF Settled
  <2>3. CASE IsLive(s, uses, c)
    BY <1>1, <2>3 DEF Settled, KeepsLive
  <2> QED BY <2>1, <2>2, <2>3 DEF Settled
<1>6. ASSUME s[1].stage = "body", NEW c \in p.keyed \cap (Classes \ p.local)
      PROVE  \A i \in 1 .. Len(t) : Ref("required", c) \notin Range(t[i].code)
  <2>1. \A i \in 1 .. n : Ref("required", c) \notin Range(s[i].code)
    BY <1>6 DEF VTablesOK
  <2> QED BY <1>2, <2>1
<1>7. KeepsSettled(p, s, t, uses, uses2, isUsed, isUsed, isHandled, isHandled, keys)
  BY <1>3, <1>5 DEF KeepsSettled
<1>8. KeepsKeyed(p, t, isUsed, isUsed)
  BY <1>3, <1>6 DEF KeepsKeyed
<1> QED BY <1>1, <1>3, <1>7, <1>8, VTablesKept

-----------------------------------------------------------------------------
(* Steps and vtable uses                                                    *)

LEMMA TopReplaced ==
  ASSUME NEW s \in Seq(Frame), s # << >>, NEW g \in Frame, NEW t, t = Append(Front(s), g)
  PROVE  /\ t \in Seq(Frame) /\ Len(t) = Len(s) /\ Len(s) \in Nat \ {0} /\ Last(s) = s[Len(s)]
         /\ t[Len(s)] = g
         /\ \A i \in 1 .. Len(s) : i # Len(s) => t[i] = s[i]
<1>1. IsReplaced(Frame, t, s, g)
  BY ElementReplaced, Zenon
<1> QED BY <1>1 DEF IsReplaced

LEMMA ShapeTop ==
  ASSUME NEW s \in Seq(Frame), s # << >>, NEW g \in Frame, NEW t, t = Append(Front(s), g),
         g.recursive = Last(s).recursive, NEW uses, NEW uses2,
         CodesOK(s), DoneOK(s, uses), Last(s).stage # "done",
         g.stage = "vtables" /\ Len(s) # 1 /\ ~g.recursive => g.code = << >>,
         g.stage = "done" => Len(s) = 1 /\ uses2 = << >>
  PROVE  CodesOK(t) /\ DoneOK(t, uses2)
<1> DEFINE n == Len(s)
<1>1. /\ Len(t) = n /\ n \in Nat \ {0} /\ Last(s) = s[n] /\ t[n] = g
      /\ \A i \in 1 .. n : i # n => t[i] = s[i]
  BY TopReplaced
<1>2. \A i \in 1 .. n : s[i].stage # "done"
  <2> SUFFICES ASSUME NEW i \in 1 .. n, s[i].stage = "done" PROVE FALSE
    OBVIOUS
  <2>1. i = n
    BY <1>1 DEF DoneOK
  <2> QED BY <1>1, <2>1
<1>3. CodesOK(t)
  <2> SUFFICES ASSUME NEW i \in 1 .. n, t[i].stage = "vtables", i # 1, ~t[i].recursive
               PROVE  t[i].code = << >>
    BY <1>1 DEF CodesOK
  <2>1. CASE i = n
    BY <1>1, <2>1
  <2>2. CASE i # n
    BY <1>1, <2>2 DEF CodesOK
  <2> QED BY <2>1, <2>2
<1>4. DoneOK(t, uses2)
  <2> SUFFICES ASSUME NEW i \in 1 .. n, t[i].stage = "done" PROVE n = 1 /\ uses2 = << >>
    BY <1>1 DEF DoneOK
  <2>1. i = n
    BY <1>1, <1>2
  <2> QED BY <1>1, <2>1
<1> QED BY <1>3, <1>4

(* The elements that are not at the head are in the tail.                   *)
LEMMA HeadOrTail ==
  ASSUME NEW S, NEW q \in Seq(S), q # << >>
  PROVE  Range(q) \subseteq {Head(q)} \cup Range(Tail(q))
<1>1. PICK rest : rest = Tail(q)
  OBVIOUS
<1>2. /\ rest \in Seq(S) /\ Len(rest) = Len(q) - 1 /\ Len(q) \in Nat \ {0}
      /\ \A i \in 1 .. Len(q) - 1 : rest[i] = q[i + 1]
      /\ Head(q) = q[1]
  BY <1>1
<1>3. ASSUME NEW i \in 1 .. Len(q), i # 1 PROVE q[i] \in Range(rest)
  <2>1. i - 1 \in 1 .. Len(q) - 1 /\ (i - 1) + 1 = i
    BY <1>2, <1>3
  <2>2. rest[i - 1] = q[i]
    BY <1>2, <2>1
  <2>3. DOMAIN rest = 1 .. Len(q) - 1
    BY <1>2
  <2> QED BY <2>1, <2>2, <2>3 DEF Range
<1>4. DOMAIN q = 1 .. Len(q)
  OBVIOUS
<1> QED BY <1>1, <1>2, <1>3, <1>4 DEF Range

(* A call goes on and leaves the queue of vtable uses alone.                *)
LEMMA VTablesContinue ==
  ASSUME IInv, VTablesInv, NEW g \in Frame, NEW t, t = Append(Front(stack), g),
         SameCall(Top, g), g.index = Top.index, Top.stage # "done",
         Top.stage = "pending" => g.stage \in {"pending", "done"},
         Len(stack) = 1 => (g.stage = "body" <=> Top.stage = "body"),
         g.stage = "vtables" /\ Len(stack) # 1 /\ ~g.recursive => g.code = << >>,
         g.stage = "done" => Len(stack) = 1 /\ vtableUses = << >>,
         NEW isUsed, NEW isHandled,
         \A c \in Classes \ program.local :
           /\ isUsed[c] = vtablesUsed[c]
           /\ isHandled[c] = vtableHandled[c] \/ isHandled[c] = vtablesUsed[c]
           /\ Ref("handle", c) \in Range(Top.code) =>
                Ref("handle", c) \in Range(g.code) \/ isHandled[c] = vtablesUsed[c]
           /\ Ref("required", c) \in Range(Top.code) /\ vtablesUsed[c] # "required" =>
                Ref("required", c) \in Range(g.code)
           /\ c \in program.keyed /\ Ref("required", c) \in Range(g.code) =>
                Ref("required", c) \in Range(Top.code)
  PROVE  VTablesAt(program, t, vtableUses, isUsed, isHandled, keyDefined)
<1> DEFINE n == Len(stack)
<1>1. stack \in Seq(Frame) /\ stack # << >> /\ Top = Last(stack)
  BY DEF IInv, StackOK, Top
<1>2. /\ Len(t) = n /\ n \in Nat \ {0} /\ Last(stack) = stack[n] /\ t[n] = g
      /\ \A i \in 1 .. n : i # n => t[i] = stack[i]
  BY <1>1, TopReplaced
<1>3. /\ IndexOK(stack, vtableUses) /\ CodesOK(stack) /\ DoneOK(stack, vtableUses)
      /\ keyDefined \subseteq program.keyed
      /\ VTablesOK(program, stack, vtableUses, vtablesUsed, vtableHandled, keyDefined)
  BY DEF VTablesInv, VTablesAt
<1>4. \A i \in 1 .. n : /\ t[i].recursive = stack[i].recursive
                        /\ t[i].savedUses = stack[i].savedUses
                        /\ t[i].index = stack[i].index
                        /\ stack[i].stage \in {"pending", "done"} => t[i].stage \in {"pending", "done"}
  BY <1>1, <1>2 DEF SameCall
<1>5. KeepsLive(stack, t, vtableUses, vtableUses) /\ IndexOK(t, vtableUses)
  <2>1. KeepsQueues(stack, t)
    BY <1>2, <1>4 DEF KeepsQueues
  <2> QED BY <1>3, <2>1, LiveContinues
<1>6. CodesOK(t) /\ DoneOK(t, vtableUses)
  BY <1>1, <1>3, ShapeTop DEF SameCall
<1>7. Ours(program, keyDefined) \subseteq Classes \ program.local
  BY DEF Ours
<1>8. VTablesOK(program, t, vtableUses, isUsed, isHandled, keyDefined)
  <2>1. Len(stack) = 1 => (g.stage = "body" <=> Last(stack).stage = "body")
    BY <1>1
  <2>2. TopSettles(stack, t, g, vtableUses, vtableUses, vtablesUsed, isUsed,
                   vtableHandled, isHandled, Ours(program, keyDefined))
    BY <1>1, <1>5, <1>7 DEF TopSettles, KeepsLive
  <2>3. TopKeyed(program, stack, g, vtablesUsed, isUsed)
    BY <1>1 DEF TopKeyed
  <2> QED BY <1>1, <1>3, <2>1, <2>2, <2>3, VTablesTop
<1> QED BY <1>3, <1>5, <1>6, <1>8 DEF VTablesAt

(* The same in a step, for a call that is not at the end of the unit.       *)
LEMMA VTablesGoOn ==
  ASSUME IInv, VTablesInv, NEW code \in Seq(Reference), NEW stage,
         NEW g \in Frame, SameCall(Top, g), g.index = Top.index, g.code = code, g.stage = stage,
         stack' = Append(Front(stack), g),
         Top.stage \notin {"pending", "done"}, stage # "done",
         Len(stack) = 1 => stage = Top.stage,
         stage = "vtables" /\ Len(stack) # 1 /\ ~Top.recursive => code = << >>,
         Range(code) = Range(Top.code),
         UNCHANGED <<program, vtableUses, keyDefined, vtablesUsed, vtableHandled>>
  PROVE  VTablesInv'
<1>1. SameCall(Top, g) => g.recursive = Top.recursive
  BY DEF SameCall
<1>2. VTablesAt(program, stack', vtableUses, vtablesUsed, vtableHandled, keyDefined)
  BY <1>1, VTablesContinue
<1> QED BY <1>2 DEF VTablesInv

(* A call begins.                                                           *)
LEMMA VTablesCall ==
  ASSUME NEW p, NEW s \in Seq(Frame), s # << >>, Last(s).stage # "done",
         NEW g \in Frame, g.index = 0, g.stage = "body",
         \A c \in p.keyed : Ref("required", c) \notin Range(g.code),
         NEW uses \in Seq(Classes), NEW uses2,
         \/ g.recursive /\ g.savedUses = uses /\ uses2 = << >>
         \/ ~g.recursive /\ g.savedUses = << >> /\ uses2 = uses,
         NEW isUsed, NEW isHandled, NEW keys, VTablesAt(p, s, uses, isUsed, isHandled, keys)
  PROVE  VTablesAt(p, Append(s, g), uses2, isUsed, isHandled, keys)
<1> DEFINE n == Len(s)
<1>1. PICK t : t = Append(s, g)
  OBVIOUS
<1>2. /\ n \in Nat \ {0} /\ Len(t) = n + 1 /\ t[n + 1] = g
      /\ \A i \in 1 .. n : t[i] = s[i]
      /\ \A i \in 1 .. n + 1 : i = n + 1 \/ i \in 1 .. n
  BY <1>1, AppendLast
<1>3. /\ IndexOK(s, uses) /\ CodesOK(s) /\ DoneOK(s, uses) /\ keys \subseteq p.keyed
      /\ VTablesOK(p, s, uses, isUsed, isHandled, keys)
  BY DEF VTablesAt
<1>4. KeepsLive(s, t, uses, uses2) /\ IndexOK(t, uses2)
  BY <1>1, <1>3, LivePush
<1>5. CodesOK(t)
  BY <1>2, <1>3 DEF CodesOK
<1>6. DoneOK(t, uses2)
  <2> SUFFICES ASSUME NEW i \in 1 .. n + 1, t[i].stage = "done" PROVE FALSE
    BY <1>2 DEF DoneOK
  <2>1. i \in 1 .. n /\ s[i].stage = "done"
    BY <1>2
  <2>2. n = 1
    BY <1>3, <2>1 DEF DoneOK
  <2>3. Last(s) = s[n]
    BY LastFront
  <2>4. i = n
    BY <1>2, <2>1, <2>2
  <2> QED BY <2>1, <2>3, <2>4
<1>7. VTablesOK(p, t, uses2, isUsed, isHandled, keys)
  BY <1>1, <1>3, <1>4, VTablesPush
<1> QED BY <1>1, <1>3, <1>4, <1>5, <1>6, <1>7 DEF VTablesAt

LEMMA VTablesInstantiate ==
  ASSUME IInv, NEW x \in Specializations, NEW as, NEW recursive \in BOOLEAN, NEW required,
         NEW calls \in Seq(Frame), calls # << >>, Last(calls).stage # "done",
         NEW queue \in Seq(Specializations),
         Instantiate(x, as, recursive, required, calls, queue),
         VTablesAt(program, calls, vtableUses, vtablesUsed, vtableHandled, keyDefined),
         UNCHANGED <<program, keyDefined, vtablesUsed, vtableHandled>>
  PROVE  VTablesInv'
<1>1. PICK g \in Frame : /\ IsCall(g, x, recursive, queue)
                         /\ Begins(g, x, recursive, calls, queue) \/ IsPutOff(x, calls, queue)
  BY InstantiateCases
<1>2. program \in Programs /\ vtableUses \in Seq(Classes)
  BY DEF IInv, TypeOK
<1>3. CASE IsPutOff(x, calls, queue)
  BY <1>3 DEF IsPutOff, VTablesInv
<1>4. CASE Begins(g, x, recursive, calls, queue)
  <2>1. /\ stack' = Append(calls, g) /\ vtableUses' = IF recursive THEN << >> ELSE vtableUses
    BY <1>4 DEF Begins
  <2>2. /\ g.stage = "body" /\ g.index = 0 /\ g.recursive = recursive /\ g.code = program.body[x]
        /\ recursive => g.savedUses = vtableUses
        /\ ~recursive => g.savedUses = << >>
    BY <1>1 DEF IsCall
  <2>3. \A c \in program.keyed : Ref("required", c) \notin Range(g.code)
    BY <1>2, <2>2, KeyFunctionsAssumption DEF Ref, Text
  <2>4. \/ g.recursive /\ g.savedUses = vtableUses /\ vtableUses' = << >>
        \/ ~g.recursive /\ g.savedUses = << >> /\ vtableUses' = vtableUses
    BY <2>1, <2>2
  <2>5. VTablesAt(program, stack', vtableUses', vtablesUsed, vtableHandled, keyDefined)
    BY <1>2, <2>1, <2>2, <2>3, <2>4, VTablesCall
  <2> QED BY <2>5 DEF VTablesInv
<1> QED BY <1>1, <1>3, <1>4

LEMMA VTablesStage ==
  ASSUME IInv, VTablesInv, NEW stage \in {"local", "vtables", "pending"}, stack' = Staged(stage),
         Top.code = << >>, Top.stage \notin {"pending", "done"}, Top.of # Parser,
         UNCHANGED <<program, vtableUses, keyDefined, vtablesUsed, vtableHandled>>
  PROVE  VTablesInv'
<1>1. PICK f \in Frame : f = Top
  BY TopFacts
<1>2. PICK g : g = [f EXCEPT !.stage = stage]
  OBVIOUS
<1>3. g \in Frame /\ SameCall(f, g) /\ g.stage = stage /\ g.code = f.code
  BY <1>2, StageUpdate
<1>4. g.index = f.index
  BY <1>2 DEF Frame
<1>5. stack' = Append(Front(stack), g)
  BY <1>1, <1>2 DEF Staged
<1>6. Len(stack) # 1 /\ << >> \in Seq(Reference)
  BY TopFacts
<1> QED BY <1>1, <1>3, <1>4, <1>5, <1>6, VTablesGoOn

LEMMA VTablesFinishBody == IInv /\ VTablesInv /\ FinishBody => VTablesInv'
<1> SUFFICES ASSUME IInv, VTablesInv, FinishBody PROVE VTablesInv'
  OBVIOUS
<1>1. /\ Top.of # Parser /\ Top.stage = "body" /\ Top.code = << >> /\ stack' = Staged(AfterBody(Top))
      /\ UNCHANGED <<program, vtableUses, keyDefined, vtablesUsed, vtableHandled>>
  BY DEF FinishBody, Instantiating, fileVars, queueVars
<1>2. AfterBody(Top) \in {"local", "vtables", "pending"}
  BY DEF AfterBody
<1> QED BY <1>1, <1>2, VTablesStage

LEMMA VTablesLeaveScope == IInv /\ VTablesInv /\ LeaveScope => VTablesInv'
<1> SUFFICES ASSUME IInv, VTablesInv, LeaveScope PROVE VTablesInv'
  OBVIOUS
<1>1. /\ Top.stage = "local" /\ stack' = Staged("vtables")
      /\ UNCHANGED <<program, vtableUses, keyDefined, vtablesUsed, vtableHandled>>
  BY DEF LeaveScope, fileVars, queueVars
<1>2. Top.code = << >>
  BY <1>1, TopFacts
<1>3. CASE Top.of # Parser
  BY <1>1, <1>2, <1>3, VTablesStage
<1>4. CASE Top.of = Parser
  <2>1. PICK f \in Frame : f = Top
    BY TopFacts
  <2>2. PICK g : g = [f EXCEPT !.stage = "vtables"]
    OBVIOUS
  <2>3. /\ g \in Frame /\ SameCall(f, g) /\ g.stage = "vtables" /\ g.code = f.code
        /\ stack' = Append(Front(stack), g)
    BY <1>1, <2>1, <2>2, StageUpdate DEF Staged
  <2>4. g.index = f.index
    BY <2>2 DEF Frame
  <2>5. VTablesAt(program, stack', vtableUses, vtablesUsed, vtableHandled, keyDefined)
    BY <1>1, <1>2, <2>1, <2>3, <2>4, VTablesContinue
  <2> QED BY <1>1, <2>5 DEF VTablesInv
<1> QED BY <1>3, <1>4

(* The unit is finished with no vtable use left.                            *)
LEMMA VTablesFinishProgram == IInv /\ VTablesInv /\ FinishProgram => VTablesInv'
<1> SUFFICES ASSUME IInv, VTablesInv, FinishProgram PROVE VTablesInv'
  OBVIOUS
<1>1. /\ Top.of = Parser /\ Top.stage = "pending" /\ stack' = Staged("done")
      /\ UNCHANGED <<program, vtableUses, keyDefined, vtablesUsed, vtableHandled>>
  BY DEF FinishProgram, fileVars, queueVars
<1>2. PICK f \in Frame : f = Top
  BY TopFacts
<1>3. PICK g : g = [f EXCEPT !.stage = "done"]
  OBVIOUS
<1>4. /\ g \in Frame /\ SameCall(f, g) /\ g.stage = "done" /\ g.code = f.code
      /\ stack' = Append(Front(stack), g)
  BY <1>1, <1>2, <1>3, StageUpdate DEF Staged
<1>5. g.index = f.index
  BY <1>3 DEF Frame
<1>6. Len(stack) = 1 /\ vtableUses = << >>
  BY <1>1, TopFacts DEF IInv, DrainedOK
<1>7. VTablesAt(program, stack', vtableUses, vtablesUsed, vtableHandled, keyDefined)
  BY <1>1, <1>2, <1>4, <1>5, <1>6, VTablesContinue
<1> QED BY <1>1, <1>7 DEF VTablesInv

(* The call on top goes on to its next reference.                           *)
LEMMA AdvancedFacts ==
  ASSUME IInv, Top.code # << >>
  PROVE  \E g \in Frame :
           /\ Advanced = Append(Front(stack), g)
           /\ SameCall(Top, g) /\ g.index = Top.index /\ g.stage = Top.stage
           /\ Range(g.code) \subseteq Range(Top.code)
           /\ Range(Top.code) \subseteq {Head(Top.code)} \cup Range(g.code)
<1>1. PICK f \in Frame : f = Top
  BY TopFacts
<1>2. f.code \in Seq(Reference)
  BY FrameFacts
<1>3. PICK code \in Seq(Reference) : code = Tail(f.code)
  BY <1>1, HeadFacts
<1>4. PICK g : g = [f EXCEPT !.code = code]
  OBVIOUS
<1>5. g \in Frame /\ SameCall(f, g) /\ g.code = code /\ g.stage = f.stage
  BY <1>4, CodeUpdate
<1>6. g.index = f.index
  BY <1>4 DEF Frame
<1>7. Advanced = Append(Front(stack), g)
  BY <1>1, <1>3, <1>4 DEF Advanced
<1>8. Range(f.code) \subseteq {Head(f.code)} \cup Range(Tail(f.code))
  BY <1>1, <1>2, HeadOrTail
<1>9. Range(Tail(f.code)) \subseteq Range(f.code)
  BY <1>1, HeadFacts
<1> QED BY <1>1, <1>3, <1>5, <1>6, <1>7, <1>8, <1>9

(* Code is not what is left of a call that has defined its vtables.         *)
LEMMA CodeFacts ==
  ASSUME IInv, VTablesInv, Top.code # << >>
  PROVE  /\ Top.stage \in {"body", "vtables"}
         /\ Top.stage = "vtables" /\ Len(stack) # 1 => Top.recursive
<1>1. /\ Top \in Frame /\ stack[Len(stack)] = Top /\ Len(stack) \in Nat \ {0}
  BY TopFacts
<1>2. Top.stage \in {"body", "vtables"}
  BY <1>1, FrameFacts, HeadFacts
<1>3. CodesOK(stack)
  BY DEF VTablesInv, VTablesAt
<1>4. ASSUME Top.stage = "vtables", Len(stack) # 1 PROVE Top.recursive
  <2>1. Len(stack) \in 1 .. Len(stack)
    BY <1>1
  <2> QED BY <1>1, <1>3, <1>4, <2>1 DEF CodesOK
<1> QED BY <1>2, <1>4

LEMMA VTablesHandleVTable == IInv /\ VTablesInv /\ HandleVTable => VTablesInv'
<1> SUFFICES ASSUME IInv, VTablesInv, HandleVTable PROVE VTablesInv'
  OBVIOUS
<1>1. /\ Top.code # << >> /\ Head(Top.code).kind = "handle" /\ stack' = Advanced
      /\ UNCHANGED <<program, vtableUses, keyDefined, vtablesUsed>>
  BY DEF HandleVTable, Code, fileVars, queueVars
<1>2. PICK c \in Classes : c = Head(Top.code).of
  BY <1>1, HeadFacts
<1>3. /\ vtableHandled' = [vtableHandled EXCEPT ![c] = vtablesUsed[c]]
      /\ vtableHandled \in [Classes -> {"no", "used", "required"}]
  BY <1>2 DEF HandleVTable, IInv, TypeOK
<1>4. PICK g \in Frame :
        /\ stack' = Append(Front(stack), g)
        /\ SameCall(Top, g) /\ g.index = Top.index /\ g.stage = Top.stage
        /\ Range(g.code) \subseteq Range(Top.code)
        /\ Range(Top.code) \subseteq {Head(Top.code)} \cup Range(g.code)
  BY <1>1, AdvancedFacts
<1>5. ASSUME NEW d \in Classes \ program.local
      PROVE  /\ vtableHandled'[d] = vtableHandled[d] \/ vtableHandled'[d] = vtablesUsed[d]
             /\ Ref("handle", d) \in Range(Top.code) =>
                  Ref("handle", d) \in Range(g.code) \/ vtableHandled'[d] = vtablesUsed[d]
             /\ Ref("required", d) \in Range(Top.code) => Ref("required", d) \in Range(g.code)
  <2>1. /\ Ref("handle", d).of = d /\ Ref("required", d).kind = "required"
    BY DEF Ref
  <2>2. Ref("handle", d) = Head(Top.code) => d = c
    BY <1>2, <2>1
  <2>3. Ref("required", d) # Head(Top.code)
    BY <1>1, <2>1
  <2>4. IF d = c THEN vtableHandled'[d] = vtablesUsed[d] ELSE vtableHandled'[d] = vtableHandled[d]
    BY <1>3
  <2> QED BY <1>4, <2>2, <2>3, <2>4
<1>6. VTablesAt(program, stack', vtableUses, vtablesUsed, vtableHandled', keyDefined)
  <2>1. Top.stage \in {"body", "vtables"} /\ (Top.stage = "vtables" /\ Len(stack) # 1 => Top.recursive)
    BY <1>1, CodeFacts
  <2>2. g.recursive = Top.recursive
    BY <1>4 DEF SameCall
  <2> QED BY <1>4, <1>5, <2>1, <2>2, VTablesContinue
<1> QED BY <1>1, <1>6 DEF VTablesInv

(* Code outside templates refers to a vtable.                               *)
LEMMA VTablesParseReference ==
  ASSUME IInv, VTablesInv, NEW r, ParseReference(r)
  PROVE  VTablesInv'
<1>1. /\ Top.of = Parser /\ Top.stage = "body" /\ Top.code = << >> /\ r \in file \cap Reference
      /\ stack' = Append(Front(stack), [Top EXCEPT !.code = <<r>>])
      /\ UNCHANGED <<program, vtableUses, keyDefined, vtablesUsed, vtableHandled>>
  BY DEF ParseReference, Parsing, queueVars
<1>2. PICK f \in Frame : f = Top
  BY TopFacts
<1>3. PICK code : code = <<r>>
  OBVIOUS
<1>4. code \in Seq(Reference) /\ Range(code) = {r}
  BY <1>1, <1>3 DEF Range
<1>5. PICK g : g = [f EXCEPT !.code = code]
  OBVIOUS
<1>6. g \in Frame /\ SameCall(f, g) /\ g.code = code /\ g.stage = f.stage
  BY <1>4, <1>5, CodeUpdate
<1>7. g.index = f.index
  BY <1>5 DEF Frame
<1>8. stack' = Append(Front(stack), g)
  BY <1>1, <1>2, <1>3, <1>5
<1>9. program \in Programs /\ r \in program.file
  BY <1>1 DEF IInv, TypeOK, FileOK
<1>10. Range(<< >>) = {}
  BY DEF Range
<1>11. \A c \in program.keyed : Ref("required", c) # r
  BY <1>9, KeyFunctionsAssumption DEF Ref, Text
<1>12. Range(Top.code) = {} /\ \A c \in program.keyed : Ref("required", c) \notin Range(g.code)
  BY <1>1, <1>4, <1>6, <1>10, <1>11
<1>13. Top.stage # "done" /\ Top.stage # "pending" /\ g.stage # "done" /\ g.stage # "vtables"
       /\ (g.stage = "body" <=> Top.stage = "body")
  BY <1>1, <1>2, <1>6
<1>14. VTablesAt(program, stack', vtableUses, vtablesUsed, vtableHandled, keyDefined)
  BY <1>2, <1>6, <1>7, <1>8, <1>12, <1>13, VTablesContinue
<1> QED BY <1>1, <1>14 DEF VTablesInv

(* The loops that work with the queue of the call on top are within it.     *)
LEMMA IndexBound ==
  ASSUME IInv, VTablesInv, Top.stage \in {"body", "vtables"}
  PROVE  \A i \in 1 .. Len(stack) : SameQueue(stack, i, Len(stack)) => stack[i].index <= Len(vtableUses)
<1> DEFINE n == Len(stack)
<1>1. /\ n \in Nat \ {0} /\ stack[n] = Top
  BY TopFacts
<1>2. IndexOK(stack, vtableUses) /\ DoneOK(stack, vtableUses) /\ QueueAt(stack, vtableUses, n) = vtableUses
  BY DEF VTablesInv, VTablesAt, QueueAt
<1>3. \A i \in 1 .. n : FrameOK(program, stack, i)
  BY DEF IInv, StackOK
<1> SUFFICES ASSUME NEW i \in 1 .. n, SameQueue(stack, i, n) PROVE stack[i].index <= Len(vtableUses)
  OBVIOUS
<1>4. stack[i].stage # "pending"
  <2>1. CASE i = n
    BY <1>1, <2>1
  <2>2. CASE i # n
    <3>1. i < n /\ i + 1 \in i + 1 .. n
      BY <1>1, <2>2
    <3>2. ~stack[i + 1].recursive
      BY <3>1 DEF SameQueue
    <3> QED BY <1>3, <3>1, <3>2 DEF FrameOK
  <2> QED BY <2>1, <2>2
<1>5. stack[i].stage # "done"
  <2> SUFFICES ASSUME stack[i].stage = "done" PROVE FALSE
    OBVIOUS
  <2>1. n = 1
    BY <1>2 DEF DoneOK
  <2> QED BY <1>1, <2>1
<1>6. n \in 1 .. n
  BY <1>1
<1> QED BY <1>2, <1>4, <1>5, <1>6 DEF IndexOK

(* MarkVTableUsed                                                           *)
LEMMA MarkCases ==
  ASSUME IInv, NEW c \in Classes, NEW required \in BOOLEAN, NEW rest, MarkVTableUsed(c, required, rest)
  PROVE  /\ \/ c \in program.local /\ vtableUses' = vtableUses
            \/ vtableUses' = vtableUses /\ vtablesUsed' = vtablesUsed /\
                 (required => vtablesUsed[c] = "required")
            \/ vtableUses' = Append(vtableUses, c)
         /\ \A d \in Classes : d # c => vtablesUsed'[d] = vtablesUsed[d]
         /\ vtablesUsed'[c] = "required" => required \/ vtablesUsed[c] = "required"
<1>1. PICK new : new = UsesToAdd(c, required)
  OBVIOUS
<1>2. /\ vtablesUsed' = IF required THEN [vtablesUsed EXCEPT ![c] = "required"]
                        ELSE IF new # << >> THEN [vtablesUsed EXCEPT ![c] = "used"] ELSE vtablesUsed
      /\ vtableUses' = IF c \in program.local THEN vtableUses ELSE vtableUses \o new
      /\ new = IF vtablesUsed[c] = "no" \/ (required /\ vtablesUsed[c] = "used") THEN <<c>> ELSE << >>
  BY <1>1 DEF MarkVTableUsed, UsesToAdd
<1>3. /\ vtablesUsed \in [Classes -> {"no", "used", "required"}] /\ vtableUses \in Seq(Classes)
  BY DEF IInv, TypeOK
<1>4. /\ vtableUses \o << >> = vtableUses
      /\ vtableUses \o <<c>> = Append(vtableUses, c)
  BY <1>3
<1>5. <<c>> # << >>
  OBVIOUS
<1>6. vtablesUsed[c] \in {"no", "used", "required"}
  BY <1>3
<1>7. CASE new = << >>
  <2>1. required => vtablesUsed[c] = "required"
    BY <1>2, <1>5, <1>6, <1>7
  <2>2. [vtablesUsed EXCEPT ![c] = "required"] = vtablesUsed \/ ~required
    BY <1>3, <2>1
  <2>3. vtablesUsed' = vtablesUsed
    BY <1>2, <1>7, <2>2
  <2> QED BY <1>2, <1>4, <1>7, <2>1, <2>3
<1>8. CASE new # << >>
  <2>1. new = <<c>>
    BY <1>2, <1>8
  <2>2. \A d \in Classes : d # c => vtablesUsed'[d] = vtablesUsed[d]
    BY <1>2, <1>3
  <2>3. vtablesUsed'[c] = IF required THEN "required" ELSE "used"
    BY <1>2, <1>3, <1>8
  <2> QED BY <1>2, <1>4, <2>1, <2>2, <2>3
<1> QED BY <1>7, <1>8

(* The rest of the code, after it has marked c or before.                   *)
IsRest(code, rest, c, required) ==
  /\ Range(rest) \subseteq Range(code)
  /\ \A d \in Classes :
       /\ Ref("handle", d) \in Range(code) => Ref("handle", d) \in Range(rest)
       /\ Ref("required", d) \in Range(code) =>
            Ref("required", d) \in Range(rest) \/ (required /\ d = c)

LEMMA VTablesMark ==
  ASSUME IInv, VTablesInv, Top.code # << >>, NEW c \in Classes, NEW required \in BOOLEAN,
         NEW rest \in Seq(Reference), MarkVTableUsed(c, required, rest),
         required => Ref("required", c) \in Range(Top.code),
         IsRest(Top.code, rest, c, required),
         UNCHANGED <<program, keyDefined, vtableHandled>>
  PROVE  VTablesInv'
<1> DEFINE n == Len(stack)
<1>0. /\ Range(rest) \subseteq Range(Top.code)
      /\ \A d \in Classes :
           /\ Ref("handle", d) \in Range(Top.code) => Ref("handle", d) \in Range(rest)
           /\ Ref("required", d) \in Range(Top.code) =>
                Ref("required", d) \in Range(rest) \/ (required /\ d = c)
  BY DEF IsRest
<1>1. /\ program \in Programs /\ vtableUses \in Seq(Classes)
      /\ stack \in Seq(Frame) /\ stack # << >> /\ Top = Last(stack)
  BY DEF IInv, TypeOK, StackOK, Top
<1>2. PICK code : code = IF UsesToAdd(c, required) # << >> /\ c \in program.local
                           THEN VirtualMembers(c) \o rest ELSE rest
  OBVIOUS
<1>3. /\ code \in Seq(Reference)
      /\ \A d : \A k \in {"handle", "required"} : Ref(k, d) \in Range(code) <=> Ref(k, d) \in Range(rest)
  <2>1. PICK members \in Seq(Reference) : members = VirtualMembers(c)
    BY <1>1, VirtualMembersFacts
  <2>2. members \o rest \in Seq(Reference) /\ Range(members \o rest) = Range(members) \cup Range(rest)
    BY RangeFacts
  <2>3. PICK virtual : virtual = program.virtual[c]
    OBVIOUS
  <2>4. members = [i \in DOMAIN virtual |-> [kind |-> "use", of |-> virtual[i]]]
    BY <2>1, <2>3 DEF VirtualMembers
  <2>5. DOMAIN members = DOMAIN virtual /\ \A i \in DOMAIN virtual : members[i].kind = "use"
    BY <2>4
  <2>6. \A r \in Range(members) : r.kind = "use"
    BY <2>5 DEF Range
  <2>7. \A d : \A k \in {"handle", "required"} : Ref(k, d) \notin Range(members)
    BY <2>6 DEF Ref
  <2> QED BY <1>2, <2>1, <2>2, <2>7
<1>4. PICK f \in Frame : f = Top
  BY TopFacts
<1>5. PICK g : g = [f EXCEPT !.code = code]
  OBVIOUS
<1>6. g \in Frame /\ SameCall(f, g) /\ g.code = code /\ g.stage = f.stage
  BY <1>3, <1>5, CodeUpdate
<1>7. g.index = f.index
  BY <1>5 DEF Frame
<1>8. stack' = Append(Front(stack), g)
  BY <1>2, <1>4, <1>5 DEF MarkVTableUsed
<1>9. /\ Top.stage \in {"body", "vtables"} /\ (Top.stage = "vtables" /\ n # 1 => Top.recursive)
      /\ g.recursive = Top.recursive /\ g.stage # "done"
  BY <1>4, <1>6, CodeFacts DEF SameCall
<1>10. /\ \A d \in Classes : d # c => vtablesUsed'[d] = vtablesUsed[d]
       /\ vtablesUsed'[c] = "required" => required \/ vtablesUsed[c] = "required"
  BY MarkCases
<1>11. CASE \/ c \in program.local /\ vtableUses' = vtableUses
            \/ vtableUses' = vtableUses /\ vtablesUsed' = vtablesUsed /\
                 (required => vtablesUsed[c] = "required")
  <2>1. ASSUME NEW d \in Classes \ program.local
        PROVE  /\ vtablesUsed'[d] = vtablesUsed[d]
               /\ Ref("handle", d) \in Range(Top.code) => Ref("handle", d) \in Range(g.code)
               /\ Ref("required", d) \in Range(Top.code) /\ vtablesUsed[d] # "required" =>
                    Ref("required", d) \in Range(g.code)
               /\ Ref("required", d) \in Range(g.code) => Ref("required", d) \in Range(Top.code)
    <3>1. vtablesUsed'[d] = vtablesUsed[d]
      BY <1>10, <1>11
    <3>2. required /\ d = c => vtablesUsed[d] = "required"
      BY <1>11
    <3> QED BY <1>0, <1>3, <1>6, <3>1, <3>2
  <2>2. VTablesAt(program, stack', vtableUses, vtablesUsed', vtableHandled, keyDefined)
    BY <1>4, <1>6, <1>7, <1>8, <1>9, <2>1, VTablesContinue
  <2> QED BY <1>11, <2>2 DEF VTablesInv
<1>12. CASE vtableUses' = Append(vtableUses, c)
  <2>1. PICK uses \in Seq(Classes) : uses = vtableUses'
    <3>1. Append(vtableUses, c) \in Seq(Classes)
      BY <1>1
    <3> QED BY <1>12, <3>1
  <2>2. PICK t : t = stack'
    OBVIOUS
  <2>3. /\ Len(t) = n /\ n \in Nat \ {0} /\ Last(stack) = stack[n] /\ t[n] = g
        /\ \A i \in 1 .. n : i # n => t[i] = stack[i]
    <3>1. t = Append(Front(stack), g)
      BY <1>8, <2>2
    <3>2. stack \in Seq(Frame) /\ stack # << >> /\ g \in Frame
      BY <1>1, <1>6
    <3> QED BY <3>1, <3>2, TopReplaced
  <2>4. KeepsQueues(stack, t)
    <3>1. f.stage \notin {"pending", "done"}
      BY <1>4, <1>9
    <3>2. stack[n] = f
      BY <1>1, <1>4, <2>3
    <3> QED BY <1>6, <1>7, <2>3, <3>1, <3>2 DEF KeepsQueues, SameCall
  <2>5. \A i \in 1 .. n : stack[i].index \in Nat
    BY <1>1, FrameFacts
  <2>6. /\ IndexOK(stack, vtableUses) /\ CodesOK(stack) /\ DoneOK(stack, vtableUses)
        /\ keyDefined \subseteq program.keyed
        /\ VTablesOK(program, stack, vtableUses, vtablesUsed, vtableHandled, keyDefined)
    BY DEF VTablesInv, VTablesAt
  <2>7. \A i \in 1 .. n : SameQueue(stack, i, n) => stack[i].index <= Len(vtableUses)
    BY <1>9, IndexBound
  <2>8. /\ KeepsLive(stack, stack, vtableUses, uses) /\ IndexOK(stack, uses)
        /\ IsLive(stack, uses, c)
    BY <1>1, <1>12, <2>1, <2>3, <2>5, <2>6, <2>7, LiveAppend
  <2>9. KeepsLive(stack, t, uses, uses) /\ IndexOK(t, uses)
    BY <2>4, <2>8, LiveContinues
  <2>10. IsLive(t, uses, c) /\ \A d : IsLive(stack, vtableUses, d) => IsLive(t, uses, d)
    BY <2>8, <2>9 DEF KeepsLive
  <2>11. CodesOK(t) /\ DoneOK(t, uses)
    BY <1>1, <1>4, <1>6, <1>8, <1>9, <2>2, <2>6, ShapeTop
  <2>12. TopSettles(stack, t, g, vtableUses, uses, vtablesUsed, vtablesUsed',
                    vtableHandled, vtableHandled, Ours(program, keyDefined))
    <3> SUFFICES ASSUME NEW d \in Ours(program, keyDefined)
                 PROVE  /\ vtablesUsed'[d] = vtablesUsed[d] \/ IsLive(t, uses, d)
                        /\ Ref("handle", d) \in Range(Last(stack).code) =>
                             Ref("handle", d) \in Range(g.code)
                        /\ Ref("required", d) \in Range(Last(stack).code) =>
                             Ref("required", d) \in Range(g.code) \/ IsLive(t, uses, d)
                        /\ IsLive(stack, vtableUses, d) => IsLive(t, uses, d)
      BY DEF TopSettles
    <3>1. d \in Classes
      BY DEF Ours
    <3>2. vtablesUsed'[d] = vtablesUsed[d] \/ IsLive(t, uses, d)
      BY <1>10, <2>10, <3>1
    <3> QED BY <1>0, <1>1, <1>3, <1>6, <2>10, <3>1, <3>2
  <2>13. TopKeyed(program, stack, g, vtablesUsed, vtablesUsed')
    <3> SUFFICES ASSUME NEW d \in Classes
                 PROVE  /\ vtablesUsed'[d] = "required" =>
                             vtablesUsed[d] = "required" \/ Ref("required", d) \in Range(Last(stack).code)
                        /\ Ref("required", d) \in Range(g.code) =>
                             Ref("required", d) \in Range(Last(stack).code)
      BY DEF TopKeyed
    <3>1. vtablesUsed'[d] = "required" =>
            vtablesUsed[d] = "required" \/ Ref("required", d) \in Range(Top.code)
      BY <1>10
    <3>2. Ref("required", d) \in Range(g.code) => Ref("required", d) \in Range(Top.code)
      BY <1>0, <1>3, <1>6
    <3> QED BY <1>1, <3>1, <3>2
  <2>14. VTablesOK(program, t, uses, vtablesUsed', vtableHandled, keyDefined)
    <3>1. g.stage = "body" <=> Last(stack).stage = "body"
      BY <1>1, <1>4, <1>6
    <3> QED BY <1>1, <1>6, <1>8, <2>2, <2>6, <2>12, <2>13, <3>1, VTablesTop
  <2>15. VTablesAt(program, t, uses, vtablesUsed', vtableHandled, keyDefined)
    BY <2>6, <2>9, <2>11, <2>14 DEF VTablesAt
  <2> QED BY <2>1, <2>2, <2>15 DEF VTablesInv
<1> QED BY <1>11, <1>12, MarkCases

LEMMA VTablesReferToVTable == IInv /\ VTablesInv /\ ReferToVTable => VTablesInv'
<1> SUFFICES ASSUME IInv, VTablesInv, ReferToVTable PROVE VTablesInv'
  OBVIOUS
<1>1. /\ Top.code # << >> /\ Head(Top.code).kind \in {"vtable", "required"}
      /\ MarkVTableUsed(Head(Top.code).of, Head(Top.code).kind = "required", Tail(Top.code))
      /\ UNCHANGED <<program, keyDefined, vtableHandled>>
  BY DEF ReferToVTable, Code, fileVars
<1>2. PICK q \in Seq(Reference) : q = Top.code
  BY TopFacts, FrameFacts
<1>3. PICK c \in Classes : c = Head(q).of
  BY <1>1, <1>2, HeadFacts
<1>4. PICK rest \in Seq(Reference) : rest = Tail(q) /\ Range(rest) \subseteq Range(q)
  BY <1>1, <1>2, HeadFacts
<1>5. PICK required \in BOOLEAN : required <=> Head(q).kind = "required"
  OBVIOUS
<1>6. MarkVTableUsed(c, required, rest)
  <2>1. required = (Head(q).kind = "required")
    BY <1>5
  <2> QED BY <1>1, <1>2, <1>3, <1>4, <2>1
<1>7. PICK r \in Reference : r = Head(q) /\ r \in Range(q) /\ Range(q) \subseteq {r} \cup Range(rest)
  BY <1>1, <1>2, <1>4, RangeFacts, HeadOrTail
<1>8. required => Ref("required", c) = r
  BY <1>3, <1>5, <1>7 DEF Reference, Ref
<1>9. IsRest(q, rest, c, required)
  <2> SUFFICES ASSUME NEW d \in Classes
               PROVE  /\ Ref("handle", d) \in Range(q) => Ref("handle", d) \in Range(rest)
                      /\ Ref("required", d) \in Range(q) =>
                           Ref("required", d) \in Range(rest) \/ (required /\ d = c)
    BY <1>4 DEF IsRest
  <2>1. /\ Ref("handle", d).kind = "handle" /\ Ref("required", d).kind = "required"
        /\ Ref("required", d).of = d
    BY DEF Ref
  <2>2. r.kind # "handle"
    BY <1>1, <1>2, <1>7
  <2> QED BY <1>3, <1>5, <1>7, <2>1, <2>2
<1> QED BY <1>1, <1>2, <1>4, <1>6, <1>7, <1>8, <1>9, VTablesMark

LEMMA VTablesReferToVirtualMember == IInv /\ VTablesInv /\ ReferToVirtualMember => VTablesInv'
<1> SUFFICES ASSUME IInv, VTablesInv, ReferToVirtualMember PROVE VTablesInv'
  OBVIOUS
<1>1. /\ Top.code # << >> /\ Head(Top.code).of \in Subprograms
      /\ \E c \in UnusedParents(Head(Top.code).of) : MarkVTableUsed(c, FALSE, Top.code)
      /\ UNCHANGED <<program, keyDefined, vtableHandled>>
  BY DEF ReferToVirtualMember, Code, fileVars
<1>2. program \in Programs /\ Top \in Frame
  BY TopFacts
<1>3. Top.code \in Seq(Reference)
  BY <1>2, FrameFacts
<1>4. PICK c \in Classes : MarkVTableUsed(c, FALSE, Top.code)
  <2>1. program.parent[Head(Top.code).of] \subseteq Classes
    BY <1>1, <1>2, ProgramFacts
  <2> QED BY <1>1, <2>1 DEF UnusedParents
<1>5. IsRest(Top.code, Top.code, c, FALSE)
  BY DEF IsRest
<1> QED BY <1>1, <1>3, <1>4, <1>5, VTablesMark

-----------------------------------------------------------------------------
(* Calls and vtable uses                                                    *)

LEMMA VTablesReferToSpecialization ==
  IInv /\ VTablesInv /\ ReferToSpecialization => VTablesInv'
<1> SUFFICES ASSUME IInv, VTablesInv, ReferToSpecialization PROVE VTablesInv'
  OBVIOUS
<1>1. /\ Top.code # << >> /\ Head(Top.code).kind = "use" /\ Head(Top.code).of \in Specializations
      /\ UNCHANGED <<program, keyDefined, vtablesUsed, vtableHandled>>
  BY HeadFacts DEF ReferToSpecialization, Code, fileVars
<1>2. PICK x \in Specializations : x = Head(Top.code).of
  BY <1>1
<1>3. PICK calls : calls = Advanced
  OBVIOUS
<1>4. \/ Instantiate(x, kind[x], FALSE, FALSE, calls, pendingInstantiations)
      \/ stack' = calls /\ vtableUses' = vtableUses
  BY <1>2, <1>3 DEF ReferToSpecialization
<1>5. PICK g \in Frame :
        /\ calls = Append(Front(stack), g)
        /\ SameCall(Top, g) /\ g.index = Top.index /\ g.stage = Top.stage
        /\ Range(g.code) \subseteq Range(Top.code)
        /\ Range(Top.code) \subseteq {Head(Top.code)} \cup Range(g.code)
  BY <1>1, <1>3, AdvancedFacts
<1>6. \A d : \A k \in {"handle", "required"} : Ref(k, d) # Head(Top.code)
  BY <1>1 DEF Ref
<1>7. /\ Top.stage \in {"body", "vtables"} /\ (Top.stage = "vtables" /\ Len(stack) # 1 => Top.recursive)
      /\ g.recursive = Top.recursive
  BY <1>1, <1>5, CodeFacts DEF SameCall
<1>8. VTablesAt(program, calls, vtableUses, vtablesUsed, vtableHandled, keyDefined)
  BY <1>5, <1>6, <1>7, VTablesContinue
<1>9. /\ stack \in Seq(Frame) /\ stack # << >> /\ pendingInstantiations \in Seq(Specializations)
  BY DEF IInv, TypeOK
<1>10. calls \in Seq(Frame) /\ calls # << >> /\ Last(calls).stage # "done"
  <2>1. /\ calls \in Seq(Frame) /\ Len(calls) = Len(stack) /\ Len(stack) \in Nat \ {0}
        /\ calls[Len(stack)] = g
    BY <1>5, <1>9, TopReplaced
  <2>2. calls # << >>
    BY <2>1
  <2>3. Last(calls) = calls[Len(calls)]
    BY <2>1, <2>2, LastFront
  <2> QED BY <1>5, <1>7, <2>1, <2>2, <2>3
<1>11. CASE Instantiate(x, kind[x], FALSE, FALSE, calls, pendingInstantiations)
  BY <1>1, <1>8, <1>9, <1>10, <1>11, VTablesInstantiate
<1>12. CASE stack' = calls /\ vtableUses' = vtableUses
  BY <1>1, <1>8, <1>12 DEF VTablesInv
<1> QED BY <1>4, <1>11, <1>12

LEMMA VTablesPerformLocal == IInv /\ VTablesInv /\ PerformLocal => VTablesInv'
<1> SUFFICES ASSUME IInv, VTablesInv, PerformLocal PROVE VTablesInv'
  OBVIOUS
<1>1. PICK x : x = Head(pendingLocal)
  OBVIOUS
<1>2. PICK required : required = Required(x)
  OBVIOUS
<1>3. /\ pendingLocal # << >> /\ Top.stage # "done"
      /\ Instantiate(x, kind[x], TRUE, required, stack, pendingInstantiations)
      /\ UNCHANGED <<program, keyDefined, vtablesUsed, vtableHandled>>
  BY <1>1, <1>2 DEF PerformLocal, fileVars
<1>4. /\ stack \in Seq(Frame) /\ stack # << >> /\ pendingInstantiations \in Seq(Specializations)
      /\ pendingLocal \in Seq(Specializations)
  BY DEF IInv, TypeOK
<1>5. x \in Specializations
  BY <1>1, <1>3, <1>4, RangeFacts
<1>6. VTablesAt(program, stack, vtableUses, vtablesUsed, vtableHandled, keyDefined)
  BY DEF VTablesInv
<1> QED BY <1>3, <1>4, <1>5, <1>6, VTablesInstantiate DEF Top

LEMMA VTablesPerformPending == IInv /\ VTablesInv /\ PerformPending => VTablesInv'
<1> SUFFICES ASSUME IInv, VTablesInv, PerformPending PROVE VTablesInv'
  OBVIOUS
<1>1. PICK x : x = Head(pendingInstantiations)
  OBVIOUS
<1>2. PICK required : required = Required(x)
  OBVIOUS
<1>3. /\ pendingInstantiations # << >> /\ Top.stage # "done"
      /\ Instantiate(x, kind[x], TRUE, required, stack, Tail(pendingInstantiations))
      /\ UNCHANGED <<program, keyDefined, vtablesUsed, vtableHandled>>
  BY <1>1, <1>2 DEF PerformPending, fileVars
<1>4. /\ stack \in Seq(Frame) /\ stack # << >> /\ pendingInstantiations \in Seq(Specializations)
  BY DEF IInv, TypeOK
<1>5. x \in Specializations /\ Tail(pendingInstantiations) \in Seq(Specializations)
  BY <1>1, <1>3, <1>4, RangeFacts
<1>6. VTablesAt(program, stack, vtableUses, vtablesUsed, vtableHandled, keyDefined)
  BY DEF VTablesInv
<1> QED BY <1>3, <1>4, <1>5, <1>6, VTablesInstantiate DEF Top

LEMMA VTablesParseExplicitInstantiation ==
  ASSUME IInv, VTablesInv, NEW d, ParseExplicitInstantiation(d)
  PROVE  VTablesInv'
<1>1. /\ d \in file /\ Top.stage # "done" /\ d.kind \in {"extern", "explicit"}
      /\ \/ stack' = stack /\ vtableUses' = vtableUses
         \/ Instantiate(d.of, "explicit", FALSE, FALSE, stack, pendingInstantiations)
      /\ UNCHANGED <<program, keyDefined, vtablesUsed, vtableHandled>>
  BY DEF ParseExplicitInstantiation, Parsing, queueVars
<1>2. PICK x \in Specializations : x = d.of
  BY <1>1, FileFacts
<1>3. /\ stack \in Seq(Frame) /\ stack # << >> /\ pendingInstantiations \in Seq(Specializations)
      /\ VTablesAt(program, stack, vtableUses, vtablesUsed, vtableHandled, keyDefined)
  BY DEF IInv, TypeOK, VTablesInv
<1>4. CASE stack' = stack /\ vtableUses' = vtableUses
  BY <1>1, <1>3, <1>4 DEF VTablesInv
<1>5. CASE Instantiate(d.of, "explicit", FALSE, FALSE, stack, pendingInstantiations)
  <2>1. Instantiate(x, "explicit", FALSE, FALSE, stack, pendingInstantiations)
    BY <1>2, <1>5
  <2> QED BY <1>1, <1>3, <2>1, VTablesInstantiate DEF Top
<1> QED BY <1>1, <1>4, <1>5

(* A call that returns has no code left, and leaves no use in its queue.    *)
LEMMA VTablesReturn ==
  IInv /\ HandedInv /\ VTablesInv /\ (ReturnFromNested \/ ReturnFromRecursive) => VTablesInv'
<1> SUFFICES ASSUME IInv, HandedInv, VTablesInv,
                    ReturnFromNested \/ ReturnFromRecursive
             PROVE  VTablesInv'
  OBVIOUS
<1> DEFINE n == Len(stack)
<1>1. /\ stack' = Front(stack) /\ Top.of # Parser
      /\ \/ Top.stage = "vtables" /\ ~Top.recursive /\ vtableUses' = vtableUses
         \/ Top.stage = "pending" /\ vtableUses' = Top.savedUses
      /\ UNCHANGED <<program, keyDefined, vtablesUsed, vtableHandled>>
  BY DEF ReturnFromNested, ReturnFromRecursive, Instantiating, fileVars, queueVars
<1>2. /\ stack \in Seq(Frame) /\ stack # << >> /\ Top = Last(stack) /\ vtableUses \in Seq(Classes)
      /\ Top.stage = "pending" => vtableUses = << >>
  BY DEF IInv, TypeOK, DrainedOK, Top
<1>3. n # 1 /\ n \in Nat \ {0} /\ stack[n] = Top /\ (Top.stage = "pending" => Top.code = << >>)
  BY <1>1, TopFacts
<1>4. /\ IndexOK(stack, vtableUses) /\ CodesOK(stack) /\ DoneOK(stack, vtableUses)
      /\ keyDefined \subseteq program.keyed
      /\ VTablesOK(program, stack, vtableUses, vtablesUsed, vtableHandled, keyDefined)
  BY DEF VTablesInv, VTablesAt
<1>5. n \in 1 .. n
  BY <1>3
<1>6. Top.code = << >>
  BY <1>1, <1>3, <1>4, <1>5 DEF CodesOK
<1>7. PICK t : t = Front(stack)
  OBVIOUS
<1>8. Len(t) = n - 1 /\ \A i \in 1 .. n - 1 : t[i] = stack[i]
  BY <1>2, <1>7, LastFront
<1>9. Top.recursive \in BOOLEAN /\ Top.savedUses \in Seq(Classes)
  BY TopFacts, FrameFacts
<1>10. \/ Top.recursive /\ vtableUses = << >> /\ vtableUses' = Top.savedUses
       \/ ~Top.recursive /\ vtableUses' = vtableUses
  <2>1. Top.stage = "pending" => Top.recursive
    BY <1>3, <1>5 DEF HandedInv, QueuesOK, RecursiveOK
  <2> QED BY <1>1, <1>2, <2>1
<1>11. KeepsLive(stack, t, vtableUses, vtableUses') /\ IndexOK(t, vtableUses')
  BY <1>2, <1>3, <1>4, <1>7, <1>10, LivePop
<1>12. CodesOK(t)
  BY <1>3, <1>4, <1>8 DEF CodesOK
<1>13. DoneOK(t, vtableUses')
  <2> SUFFICES ASSUME NEW i \in 1 .. n - 1, t[i].stage = "done" PROVE FALSE
    BY <1>8 DEF DoneOK
  <2>1. i \in 1 .. n /\ stack[i].stage = "done"
    BY <1>3, <1>8
  <2> QED BY <1>3, <1>4, <2>1 DEF DoneOK
<1>14. VTablesOK(program, t, vtableUses', vtablesUsed, vtableHandled, keyDefined)
  BY <1>2, <1>3, <1>4, <1>6, <1>7, <1>11, VTablesPop
<1> QED BY <1>1, <1>4, <1>7, <1>11, <1>12, <1>13, <1>14 DEF VTablesInv, VTablesAt

-----------------------------------------------------------------------------
(* DefineUsedVTables                                                        *)

LEMMA DefiningFacts ==
  ASSUME IInv, DefiningVTables
  PROVE  OwnsQueue(stack) /\ Top.stage = "vtables" /\ Top.code = << >>
<1>1. /\ Top.of = Parser <=> Len(stack) = 1
      /\ stack \in Seq(Frame) /\ stack # << >> /\ stack[Len(stack)] = Top
  BY TopFacts DEF IInv, StackOK
<1> QED BY <1>1 DEF DefiningVTables, Instantiating, OwnsQueue

(* The loop takes the next class, and goes on to hand over its vtable if    *)
(* that is for this unit to do.                                             *)
LEMMA VTablesDefine == IInv /\ VTablesInv /\ DefineUsedVTable => VTablesInv'
<1> SUFFICES ASSUME IInv, VTablesInv, DefineUsedVTable PROVE VTablesInv'
  OBVIOUS
<1> DEFINE n == Len(stack)
<1>1. /\ OwnsQueue(stack) /\ Top.stage = "vtables" /\ Top.code = << >>
      /\ Top.index < Len(vtableUses)
      /\ UNCHANGED <<program, vtableUses, keyDefined, vtablesUsed, vtableHandled>>
  BY DefiningFacts DEF DefineUsedVTable, fileVars, queueVars
<1>2. PICK f \in Frame : f = Top
  BY TopFacts
<1>3. /\ stack \in Seq(Frame) /\ stack # << >> /\ Top = Last(stack) /\ vtableUses \in Seq(Classes)
      /\ program \in Programs
  BY DEF IInv, TypeOK, Top
<1>4. PICK index \in Nat : index = f.index + 1
  BY FrameFacts
<1>5. f.index \in Nat /\ index \in 1 .. Len(vtableUses)
  BY <1>1, <1>2, <1>3, <1>4, FrameFacts
<1>6. PICK c \in Classes : c = vtableUses[index]
  BY <1>3, <1>5
<1>7. PICK code : code = IF DefinesVTable(c)
                           THEN Append(VirtualMembers(c), [kind |-> "handle", of |-> c]) ELSE << >>
  OBVIOUS
<1>8. /\ code \in Seq(Reference)
      /\ DefinesVTable(c) => Ref("handle", c) \in Range(code)
      /\ \A d : Ref("required", d) \notin Range(code)
  <2>1. PICK members \in Seq(Reference) : members = VirtualMembers(c)
    BY <1>3, VirtualMembersFacts
  <2>2. PICK r \in Reference : r = Ref("handle", c)
    BY DEF Reference, Ref
  <2>3. Append(members, r) \in Seq(Reference) /\ Range(Append(members, r)) = Range(members) \cup {r}
    BY RangeFacts
  <2>4. << >> \in Seq(Reference) /\ Range(<< >>) = {}
    BY DEF Range
  <2>5. code = IF DefinesVTable(c) THEN Append(members, r) ELSE << >>
    BY <1>7, <2>1, <2>2 DEF Ref
  <2>6. \A d : Ref("required", d) \notin Range(members)
    <3>1. PICK virtual : virtual = program.virtual[c]
      OBVIOUS
    <3>2. members = [i \in DOMAIN virtual |-> [kind |-> "use", of |-> virtual[i]]]
      BY <2>1, <3>1 DEF VirtualMembers
    <3>3. DOMAIN members = DOMAIN virtual /\ \A i \in DOMAIN virtual : members[i].kind = "use"
      BY <3>2
    <3>4. \A q \in Range(members) : q.kind = "use"
      BY <3>3 DEF Range
    <3> QED BY <3>4 DEF Ref
  <2>7. \A d : Ref("required", d) # r
    BY <2>2 DEF Ref
  <2> QED BY <2>2, <2>3, <2>4, <2>5, <2>6, <2>7
<1>9. PICK g : g = [f EXCEPT !.index = index, !.code = code]
  OBVIOUS
<1>10. /\ g \in Frame /\ g.of = f.of /\ g.stage = f.stage /\ g.recursive = f.recursive
       /\ g.savedUses = f.savedUses /\ g.index = index /\ g.code = code
  BY <1>8, <1>9 DEF Frame
<1>11. stack' = Append(Front(stack), g)
  <2>1. [f EXCEPT !.index = @ + 1, !.code = code] = g
    BY <1>4, <1>9
  <2>2. c = vtableUses[f.index + 1]
    BY <1>4, <1>6
  <2> QED BY <1>2, <1>7, <2>1, <2>2 DEF DefineUsedVTable
<1>12. PICK t : t = stack'
  OBVIOUS
<1>13. t = Append(Front(stack), g)
  BY <1>11, <1>12
<1>14. /\ Len(t) = n /\ n \in Nat \ {0} /\ stack[n] = f /\ t[n] = g
       /\ \A i \in 1 .. n : i # n => t[i] = stack[i]
  <2>1. stack \in Seq(Frame) /\ stack # << >> /\ g \in Frame
    BY <1>3, <1>10
  <2>2. /\ Len(t) = n /\ n \in Nat \ {0} /\ Last(stack) = stack[n] /\ t[n] = g
        /\ \A i \in 1 .. n : i # n => t[i] = stack[i]
    BY <1>13, <2>1, TopReplaced
  <2> QED BY <1>2, <1>3, <2>2
<1>15. /\ IndexOK(stack, vtableUses) /\ CodesOK(stack) /\ DoneOK(stack, vtableUses)
       /\ keyDefined \subseteq program.keyed
       /\ VTablesOK(program, stack, vtableUses, vtablesUsed, vtableHandled, keyDefined)
  BY DEF VTablesInv, VTablesAt
<1>16. /\ \A d : IsLive(stack, vtableUses, d) => IsLive(t, vtableUses, d) \/ d = c
       /\ IndexOK(t, vtableUses)
  <2>1. \A i \in 1 .. n : /\ t[i].recursive = stack[i].recursive /\ t[i].savedUses = stack[i].savedUses
                          /\ t[i].stage = stack[i].stage
                          /\ i # n => t[i].index = stack[i].index
    BY <1>10, <1>14
  <2>2. /\ stack[n].index \in Nat /\ stack[n].index < Len(vtableUses)
        /\ t[n].index = stack[n].index + 1
    BY <1>1, <1>2, <1>4, <1>5, <1>10, <1>14
  <2>3. c = vtableUses[stack[n].index + 1]
    BY <1>4, <1>6, <1>14
  <2> QED BY <1>1, <1>3, <1>14, <1>15, <2>1, <2>2, <2>3, LiveDefine
<1>17. CodesOK(t) /\ DoneOK(t, vtableUses)
  <2>1. n = 1 \/ f.recursive
    BY <1>1, <1>14 DEF OwnsQueue
  <2> QED BY <1>1, <1>2, <1>3, <1>10, <1>13, <1>15, <2>1, ShapeTop
<1>18. \A d \in Ours(program, keyDefined) : DefinesVTable(d)
  BY <1>15 DEF Ours, DefinesVTable
<1>19. Range(<< >>) = {}
  BY DEF Range
<1>20. TopSettles(stack, t, g, vtableUses, vtableUses, vtablesUsed, vtablesUsed,
                  vtableHandled, vtableHandled, Ours(program, keyDefined))
  <2> SUFFICES ASSUME NEW d \in Ours(program, keyDefined)
               PROVE  /\ Ref("handle", d) \notin Range(Last(stack).code)
                      /\ Ref("required", d) \notin Range(Last(stack).code)
                      /\ IsLive(stack, vtableUses, d) =>
                           IsLive(t, vtableUses, d) \/ Ref("handle", d) \in Range(g.code)
    BY DEF TopSettles
  <2>1. d = c => Ref("handle", d) \in Range(g.code)
    BY <1>8, <1>10, <1>18
  <2> QED BY <1>1, <1>3, <1>16, <1>19, <2>1
<1>21. TopKeyed(program, stack, g, vtablesUsed, vtablesUsed)
  BY <1>8, <1>10 DEF TopKeyed
<1>22. VTablesOK(program, t, vtableUses, vtablesUsed, vtableHandled, keyDefined)
  <2>1. g.stage = "body" <=> Last(stack).stage = "body"
    BY <1>2, <1>3, <1>10
  <2> QED BY <1>3, <1>10, <1>13, <1>15, <1>20, <1>21, <2>1, VTablesTop
<1> QED BY <1>1, <1>12, <1>15, <1>16, <1>17, <1>22 DEF VTablesInv, VTablesAt

LEMMA VTablesFinish == IInv /\ VTablesInv /\ FinishVTables => VTablesInv'
<1> SUFFICES ASSUME IInv, VTablesInv, FinishVTables PROVE VTablesInv'
  OBVIOUS
<1> DEFINE n == Len(stack)
<1>1. /\ OwnsQueue(stack) /\ Top.stage = "vtables" /\ Top.code = << >>
      /\ Top.index = Len(vtableUses) /\ stack' = Staged("pending") /\ vtableUses' = << >>
      /\ UNCHANGED <<program, keyDefined, vtablesUsed, vtableHandled>>
  BY DefiningFacts DEF FinishVTables, fileVars
<1>2. PICK f \in Frame : f = Top
  BY TopFacts
<1>3. /\ stack \in Seq(Frame) /\ stack # << >> /\ Top = Last(stack) /\ vtableUses \in Seq(Classes)
  BY DEF IInv, TypeOK, Top
<1>4. PICK g : g = [f EXCEPT !.stage = "pending"]
  OBVIOUS
<1>5. g \in Frame /\ SameCall(f, g) /\ g.stage = "pending" /\ g.code = f.code
  BY <1>4, StageUpdate
<1>6. g.index = f.index
  BY <1>4 DEF Frame
<1>7. PICK t : t = stack'
  OBVIOUS
<1>8. t = Append(Front(stack), g)
  BY <1>1, <1>2, <1>4, <1>7 DEF Staged
<1>9. /\ Len(t) = n /\ n \in Nat \ {0} /\ stack[n] = f /\ t[n] = g
      /\ \A i \in 1 .. n : i # n => t[i] = stack[i]
  <2>1. stack \in Seq(Frame) /\ stack # << >> /\ g \in Frame
    BY <1>3, <1>5
  <2>2. /\ Len(t) = n /\ n \in Nat \ {0} /\ Last(stack) = stack[n] /\ t[n] = g
        /\ \A i \in 1 .. n : i # n => t[i] = stack[i]
    BY <1>8, <2>1, TopReplaced
  <2> QED BY <1>2, <1>3, <2>2
<1>10. /\ IndexOK(stack, vtableUses) /\ CodesOK(stack) /\ DoneOK(stack, vtableUses)
       /\ keyDefined \subseteq program.keyed
       /\ VTablesOK(program, stack, vtableUses, vtablesUsed, vtableHandled, keyDefined)
  BY DEF VTablesInv, VTablesAt
<1>11. KeepsLive(stack, t, vtableUses, << >>) /\ IndexOK(t, << >>)
  <2>1. \A i \in 1 .. n : /\ t[i].recursive = stack[i].recursive /\ t[i].savedUses = stack[i].savedUses
                          /\ t[i].index = stack[i].index /\ (i # n => t[i].stage = stack[i].stage)
    BY <1>5, <1>6, <1>9 DEF SameCall
  <2>2. stack[n].index = Len(vtableUses) /\ t[n].stage = "pending"
    BY <1>1, <1>2, <1>5, <1>9
  <2> QED BY <1>1, <1>3, <1>9, <1>10, <2>1, <2>2, LiveFinish
<1>12. CodesOK(t) /\ DoneOK(t, << >>)
  <2>1. g.recursive = f.recursive
    BY <1>5 DEF SameCall
  <2> QED BY <1>1, <1>2, <1>3, <1>5, <1>8, <1>10, <2>1, ShapeTop
<1>13. Range(<< >>) = {}
  BY DEF Range
<1>14. TopSettles(stack, t, g, vtableUses, << >>, vtablesUsed, vtablesUsed,
                  vtableHandled, vtableHandled, Ours(program, keyDefined))
  BY <1>1, <1>3, <1>11, <1>13 DEF TopSettles, KeepsLive
<1>15. TopKeyed(program, stack, g, vtablesUsed, vtablesUsed)
  BY <1>1, <1>2, <1>5, <1>13 DEF TopKeyed
<1>16. VTablesOK(program, t, << >>, vtablesUsed, vtableHandled, keyDefined)
  <2>1. g.stage = "body" <=> Last(stack).stage = "body"
    BY <1>1, <1>3, <1>5
  <2> QED BY <1>3, <1>5, <1>8, <1>10, <1>14, <1>15, <2>1, VTablesTop
<1> QED BY <1>1, <1>7, <1>10, <1>11, <1>12, <1>16 DEF VTablesInv, VTablesAt

-----------------------------------------------------------------------------
(* The end of the unit                                                      *)

(* A key function is defined before the end of the unit.                    *)
LEMMA VTablesParseDefinition ==
  ASSUME IInv, VTablesInv, NEW d, ParseDefinition(d)
  PROVE  VTablesInv'
<1>1. /\ d \in file /\ Top.of = Parser /\ Top.stage = "body"
      /\ keyDefined' = IF d.kind = "key" THEN keyDefined \cup {d.of} ELSE keyDefined
      /\ UNCHANGED <<program, stack, vtableUses, vtablesUsed, vtableHandled>>
  BY DEF ParseDefinition, Parsing, queueVars
<1>2. program \in Programs /\ d \in program.file
  BY <1>1 DEF IInv, TypeOK, FileOK
<1>3. d.kind = "key" => d.of \in program.keyed
  BY <1>2, KeyFunctionsAssumption
<1>4. stack[1] = Top
  BY <1>1, TopFacts
<1>5. /\ IndexOK(stack, vtableUses) /\ CodesOK(stack) /\ DoneOK(stack, vtableUses)
      /\ keyDefined \subseteq program.keyed
      /\ VTablesOK(program, stack, vtableUses, vtablesUsed, vtableHandled, keyDefined)
  BY DEF VTablesInv, VTablesAt
<1>6. PICK keys : keys = keyDefined'
  OBVIOUS
<1>7. keys \subseteq program.keyed
  BY <1>1, <1>3, <1>5, <1>6
<1>8. VTablesOK(program, stack, vtableUses, vtablesUsed, vtableHandled, keys)
  BY <1>1, <1>4, <1>5 DEF VTablesOK
<1> QED BY <1>1, <1>5, <1>6, <1>7, <1>8 DEF VTablesInv, VTablesAt

LEMMA SetToSeqIsOnto ==
  ASSUME NEW S, IsFiniteSet(S)
  PROVE  \E n \in Nat : /\ SetToSeq(S) \in [1 .. n -> S]
                        /\ \A e \in S : \E i \in 1 .. n : SetToSeq(S)[i] = e
<1>1. PICK n \in Nat : n = Cardinality(S)
  BY FS_CardinalityType
<1>2. Bijection(1 .. n, S) # {}
  BY <1>1, FS_CardinalityType DEF ExistsBijection
<1>3. \E f \in [1 .. n -> S] : IsInjective(f)
  BY <1>2 DEF Bijection, Injection
<1>4. SetToSeq(S) \in [1 .. n -> S] /\ IsInjective(SetToSeq(S))
  BY <1>1, <1>3 DEF SetToSeq
<1>5. PICK f \in Injection(1 .. n, S) : f = SetToSeq(S)
  BY <1>4 DEF Injection
<1>6. 1 \in Int /\ n \in Int /\ (IF 1 > n THEN 0 ELSE n - 1 + 1) = n
  OBVIOUS
<1>7. Cardinality(1 .. n) = n
  BY <1>6, FS_Interval
<1>8. f \in Surjection(1 .. n, S)
  BY <1>1, <1>7, FS_Injection
<1> QED BY <1>4, <1>5, <1>8 DEF Surjection

(* The classes whose key function is defined are about to be marked.        *)
LEMMA VTablesEndOfProgram == IInv /\ VTablesInv /\ EndOfProgram => VTablesInv'
<1> SUFFICES ASSUME IInv, VTablesInv, EndOfProgram PROVE VTablesInv'
  OBVIOUS
<1>1. /\ Top.of = Parser /\ Top.stage = "body" /\ Top.code = << >>
      /\ stack' = <<[Top EXCEPT !.stage = "vtables", !.code = MarkKeyDefined]>>
      /\ UNCHANGED <<program, keyDefined, vtableUses, vtablesUsed, vtableHandled>>
  BY DEF EndOfProgram, Parsing, queueVars
<1>2. PICK f \in Frame : f = Top
  BY TopFacts
<1>3. /\ Len(stack) = 1 /\ stack[1] = f /\ keyDefined \subseteq Classes
  BY <1>1, <1>2, TopFacts DEF IInv, TypeOK
<1>4. PICK code : code = MarkKeyDefined
  OBVIOUS
<1>5. Range(code) = {Ref("required", c) : c \in keyDefined}
  <2>1. IsFiniteSet(keyDefined)
    BY <1>3, SpecializationsAssumption, FS_Subset
  <2>2. PICK n \in Nat : /\ SetToSeq(keyDefined) \in [1 .. n -> keyDefined]
                         /\ \A e \in keyDefined : \E i \in 1 .. n : SetToSeq(keyDefined)[i] = e
    BY <2>1, SetToSeqIsOnto
  <2>3. PICK classes \in [1 .. n -> keyDefined] : classes = SetToSeq(keyDefined)
    BY <2>2
  <2>4. code = [i \in 1 .. n |-> Ref("required", classes[i])]
    BY <1>4, <2>3 DEF MarkKeyDefined, Ref
  <2>5. DOMAIN code = 1 .. n /\ \A i \in 1 .. n : code[i] = Ref("required", classes[i])
    BY <2>4
  <2> QED BY <2>2, <2>3, <2>5 DEF Range
<1>6. code \in Seq(Reference)
  <2>1. IsFiniteSet(keyDefined)
    BY <1>3, SpecializationsAssumption, FS_Subset
  <2>2. PICK n \in Nat : SetToSeq(keyDefined) \in [1 .. n -> keyDefined]
    BY <2>1, SetToSeqFacts
  <2>3. PICK classes \in [1 .. n -> keyDefined] : classes = SetToSeq(keyDefined)
    BY <2>2
  <2>4. code = [i \in 1 .. n |-> Ref("required", classes[i])]
    BY <1>4, <2>3 DEF MarkKeyDefined, Ref
  <2>5. \A i \in 1 .. n : Ref("required", classes[i]) \in Reference
    BY <1>3 DEF Ref, Reference
  <2> QED BY <2>4, <2>5
<1>7. PICK g : g = [f EXCEPT !.stage = "vtables", !.code = code]
  OBVIOUS
<1>8. /\ g \in Frame /\ g.code = code /\ g.stage = "vtables" /\ g.recursive = f.recursive
      /\ g.savedUses = f.savedUses /\ g.index = f.index
  BY <1>6, <1>7 DEF Frame
<1>9. PICK t : t = <<g>>
  OBVIOUS
<1>10. stack' = t /\ Len(t) = 1 /\ t[1] = g
  BY <1>1, <1>2, <1>4, <1>7, <1>9
<1>11. /\ IndexOK(stack, vtableUses) /\ keyDefined \subseteq program.keyed
       /\ VTablesOK(program, stack, vtableUses, vtablesUsed, vtableHandled, keyDefined)
  BY DEF VTablesInv, VTablesAt
<1>12. KeepsLive(stack, t, vtableUses, vtableUses) /\ IndexOK(t, vtableUses)
  <2>1. KeepsQueues(stack, t)
    BY <1>1, <1>2, <1>3, <1>8, <1>10 DEF KeepsQueues
  <2> QED BY <1>11, <2>1, LiveContinues
<1>13. CodesOK(t) /\ DoneOK(t, vtableUses)
  BY <1>8, <1>10 DEF CodesOK, DoneOK
<1>14. Range(<< >>) = {}
  BY DEF Range
<1>15. \A c : Settled(stack, vtableUses, vtablesUsed, vtableHandled, c) =>
              Settled(t, vtableUses, vtablesUsed, vtableHandled, c)
  <2> SUFFICES ASSUME NEW c, Settled(stack, vtableUses, vtablesUsed, vtableHandled, c)
               PROVE  Settled(t, vtableUses, vtablesUsed, vtableHandled, c)
    OBVIOUS
  <2>1. \A i \in 1 .. 1 : Ref("handle", c) \notin Range(stack[i].code)
    BY <1>1, <1>2, <1>3, <1>14
  <2> QED BY <1>3, <1>12, <2>1 DEF Settled, KeepsLive
<1>16. VTablesOK(program, t, vtableUses, vtablesUsed, vtableHandled, keyDefined)
  <2> SUFFICES ASSUME NEW c \in Classes \ program.local
               PROVE  /\ c \notin program.keyed \cup program.extern =>
                           Settled(t, vtableUses, vtablesUsed, vtableHandled, c)
                      /\ c \in keyDefined =>
                           Ref("required", c) \in Range(t[1].code) /\ vtablesUsed[c] # "required"
    BY <1>8, <1>10 DEF VTablesOK
  <2>1. c \notin program.keyed \cup program.extern =>
          Settled(stack, vtableUses, vtablesUsed, vtableHandled, c)
    BY <1>11 DEF VTablesOK
  <2>2. c \in program.keyed => vtablesUsed[c] # "required"
    BY <1>1, <1>2, <1>3, <1>11 DEF VTablesOK
  <2>3. c \in keyDefined => Ref("required", c) \in Range(t[1].code)
    BY <1>5, <1>8, <1>10
  <2> QED BY <1>11, <1>15, <2>1, <2>2, <2>3
<1> QED BY <1>1, <1>10, <1>11, <1>12, <1>13, <1>16 DEF VTablesInv, VTablesAt

LEMMA VTablesInit == Init => VTablesInv
<1> SUFFICES ASSUME Init PROVE VTablesInv
  OBVIOUS
<1>1. PICK g : g = NewFrame(Parser, << >>, FALSE)
  OBVIOUS
<1>2. /\ stack = <<g>> /\ vtableUses = << >> /\ vtablesUsed = [c \in Classes |-> "no"]
      /\ keyDefined = {} /\ vtableHandled = [c \in Classes |-> "no"]
  BY <1>1 DEF Init
<1>3. Len(stack) = 1 /\ stack[1] = g
  BY <1>2
<1>4. g.stage = "body" /\ g.index = 0 /\ g.code = << >>
  BY <1>1 DEF NewFrame
<1>5. Range(<< >>) = {} /\ Len(<< >>) = 0
  BY DEF Range
<1>6. IndexOK(stack, vtableUses)
  <2> SUFFICES ASSUME NEW j \in 1 .. 1, NEW i \in 1 .. j
               PROVE  stack[i].index <= Len(QueueAt(stack, vtableUses, j))
    BY <1>3 DEF IndexOK
  <2>1. i = 1 /\ j = 1
    OBVIOUS
  <2> QED BY <1>2, <1>3, <1>4, <1>5, <2>1 DEF QueueAt
<1>7. CodesOK(stack) /\ DoneOK(stack, vtableUses)
  BY <1>3, <1>4 DEF CodesOK, DoneOK
<1>8. VTablesOK(program, stack, vtableUses, vtablesUsed, vtableHandled, keyDefined)
  BY <1>2, <1>3, <1>4, <1>5 DEF VTablesOK, Settled
<1> QED BY <1>2, <1>6, <1>7, <1>8 DEF VTablesInv, VTablesAt

LEMMA VTablesNext == IInv /\ HandedInv /\ VTablesInv /\ [Next]_vars => VTablesInv'
<1> SUFFICES ASSUME IInv, HandedInv, VTablesInv, [Next]_vars PROVE VTablesInv'
  OBVIOUS
<1>1. CASE UNCHANGED vars
  BY <1>1 DEF VTablesInv, vars, fileVars, queueVars
<1>2. CASE Next
  <2>1. ASSUME NEW d \in file,
               ParseReference(d) \/ ParseDefinition(d) \/ ParseExplicitInstantiation(d)
        PROVE  VTablesInv'
    BY <2>1, VTablesParseReference, VTablesParseDefinition, VTablesParseExplicitInstantiation
  <2> QED BY <1>2, <2>1, VTablesReferToVTable, VTablesReferToVirtualMember,
             VTablesReferToSpecialization, VTablesFinishBody, VTablesPerformLocal,
             VTablesPerformPending, VTablesLeaveScope, VTablesReturn, VTablesDefine,
             VTablesHandleVTable, VTablesFinish, VTablesEndOfProgram, VTablesFinishProgram
          DEF Next
<1> QED BY <1>1, <1>2

(* Every vtable that is used and is for this unit to provide has been       *)
(* handed over at the end of the unit, as required if it was ever required: *)
(* a use that DefineUsedVTables has not reached yet is in its queue or in   *)
(* one that a recursive call has put aside, and no queue is dropped before  *)
(* all loops that work with it have gone past its end.                      *)
THEOREM UsedVTablesCorrect == Spec => []UsedVTablesAreHandled
<1>1. IInv /\ VTablesInv => UsedVTablesAreHandled
  <2> SUFFICES ASSUME IInv, VTablesInv, Done, NEW c \in Classes \ program.local, BelongsHere(c)
               PROVE  vtableHandled[c] = vtablesUsed[c]
    BY DEF UsedVTablesAreHandled
  <2>1. /\ Len(stack) \in Nat \ {0} /\ stack[Len(stack)] = Top /\ Top.stage = "done"
        /\ Top.code = << >>
    BY TopFacts DEF Done
  <2>2. /\ DoneOK(stack, vtableUses)
        /\ VTablesOK(program, stack, vtableUses, vtablesUsed, vtableHandled, keyDefined)
    BY DEF VTablesInv, VTablesAt
  <2>3. Len(stack) \in 1 .. Len(stack)
    BY <2>1
  <2>4. Len(stack) = 1 /\ vtableUses = << >>
    BY <2>1, <2>2, <2>3 DEF DoneOK
  <2>5. stack[1] = Top /\ \A i \in 1 .. Len(stack) : stack[i].code = << >>
    BY <2>1, <2>4
  <2>6. Range(<< >>) = {} /\ Len(<< >>) = 0
    BY DEF Range
  <2>7. ~IsLive(stack, vtableUses, c)
    <3>1. \A j \in 1 .. Len(stack) : QueueAt(stack, vtableUses, j) = << >>
      BY <2>4 DEF QueueAt
    <3>2. 1 .. 0 = {}
      OBVIOUS
    <3> QED BY <2>6, <3>1, <3>2 DEF IsLive
  <2>8. Settled(stack, vtableUses, vtablesUsed, vtableHandled, c) => vtableHandled[c] = vtablesUsed[c]
    BY <2>5, <2>6, <2>7 DEF Settled
  <2>9. stack[1].stage # "body" /\ Ref("required", c) \notin Range(stack[1].code)
    BY <2>1, <2>5, <2>6
  <2> QED BY <2>2, <2>8, <2>9 DEF VTablesOK, BelongsHere
<1>2. Spec => [](IInv /\ HandedInv)
  BY Invariance, HandedInit, HandedNext, PTL DEF Spec
<1>3. Spec => []VTablesInv
  BY <1>2, VTablesInit, VTablesNext, PTL DEF Spec
<1> QED BY <1>1, <1>3, Invariance, PTL

-----------------------------------------------------------------------------
(* What is referred to is defined                                           *)

(* What a set of calls goes through, has to go through, and has put aside.  *)
BodiesOf(calls) == {f.of : f \in {g \in calls : g.stage = "body"}}
CodeOf(calls) == UNION {Range(f.code) : f \in calls}
SavedOf(calls) == UNION {Range(f.savedPending) : f \in {g \in calls : g.recursive}}

(* What is defined, is being instantiated or is in a queue.                 *)
OwedIn(done, calls, pending, local) ==
  done \cup BodiesOf(calls) \cup SavedOf(calls) \cup Range(pending) \cup Range(local)

Owed == OwedIn(defined, Range(stack), pendingInstantiations, pendingLocal)

(* This unit never gets the template, or need not define the specialization.*)
Hopeless == {x \in Specializations : x \notin patterns /\ Pattern(x) \notin file}

LeftToOthers == {x \in Specializations : kind[x] = "extern" /\ x \notin program.inlined}

Safe == {x \in Specializations : tooDeep \/ x \in Owed \cup Hopeless \cup LeftToOthers}

ToDo == {x \in Specializations : Ref("use", x) \in CodeOf(Range(stack))}

(* The classes whose virtual members have been marked, or are about to be.  *)
Marked ==
  {c \in Classes : \/ c \in program.local /\ vtablesUsed[c] # "no"
                   \/ vtableHandled[c] # "no"
                   \/ Ref("handle", c) \in CodeOf(Range(stack))}

(* What the code refers to that the calls have reached so far.              *)
Demanded ==
  {x \in Specializations :
     \/ Ref("use", x) \in program.file \ file
     \/ \E y \in (defined \cup BodiesOf(Range(stack))) \cap Specializations :
          Ref("use", x) \in Range(program.body[y])
     \/ \E c \in Marked : x \in Range(program.virtual[c])}

(* A further reference to one of these does nothing.                        *)
Looked == used \cup {x \in pointOfInstantiation : kind[x] = "implicit"}

(* A call below the end of the unit that is not recursive is for what a     *)
(* constant expression needs or for an explicit instantiation; by the time  *)
(* a call is recursive, no template is to come.                             *)
CallsOK(p, pats, rest, calls, pending, local) ==
  /\ \A f \in calls :
       /\ f.of = Parser => ~f.recursive /\ (f.stage # "body" => rest = {})
       /\ f.of # Parser => f.of \in pats /\ (~f.recursive => f.of \in Early(p))
       /\ f.recursive => PatternsIn(rest) \subseteq pats
       /\ f.stage = "done" => pending = << >> /\ local = << >>

ExplicitOK ==
  /\ \A x \in Specializations : kind[x] = "explicit" => tooDeep \/ x \in Owed \cup diagnosed
  /\ \A x \in ExplicitIn(program) : Explicit(x) \in file \/ kind[x] = "explicit"

RefdInv ==
  /\ Demanded \subseteq Safe \cup ToDo
  /\ Looked \subseteq Safe
  /\ ExplicitOK
  /\ diagnosed \subseteq Hopeless
  /\ CallsOK(program, patterns, file, Range(stack), pendingInstantiations, pendingLocal)

-----------------------------------------------------------------------------
(* Sets of calls                                                            *)

(* The calls in S are those in F and g.                                     *)
Adds(S, F, g) ==
  /\ CodeOf(S) = CodeOf(F) \cup Range(g.code)
  /\ g.stage = "body" => BodiesOf(S) = BodiesOf(F) \cup {g.of}
  /\ g.stage # "body" => BodiesOf(S) = BodiesOf(F)
  /\ g.recursive => SavedOf(S) = SavedOf(F) \cup Range(g.savedPending)
  /\ ~g.recursive => SavedOf(S) = SavedOf(F)

LEMMA CallSets ==
  ASSUME NEW F, NEW g, NEW S, S = F \cup {g}
  PROVE  Adds(S, F, g)
<1>1. CodeOf(S) = CodeOf(F) \cup Range(g.code)
  BY DEF CodeOf
<1>2. ASSUME g.stage = "body" PROVE BodiesOf(S) = BodiesOf(F) \cup {g.of}
  BY <1>2 DEF BodiesOf
<1>3. ASSUME g.stage # "body" PROVE BodiesOf(S) = BodiesOf(F)
  <2>1. {f \in S : f.stage = "body"} = {f \in F : f.stage = "body"}
    BY <1>3
  <2> QED BY <2>1 DEF BodiesOf
<1>4. ASSUME g.recursive PROVE SavedOf(S) = SavedOf(F) \cup Range(g.savedPending)
  <2>1. {f \in S : f.recursive} = {f \in F : f.recursive} \cup {g}
    BY <1>4
  <2> QED BY <2>1 DEF SavedOf
<1>5. ASSUME ~g.recursive PROVE SavedOf(S) = SavedOf(F)
  <2>1. {f \in S : f.recursive} = {f \in F : f.recursive}
    BY <1>5
  <2> QED BY <2>1 DEF SavedOf
<1> QED BY <1>1, <1>2, <1>3, <1>4, <1>5 DEF Adds

(* The calls below the one on top.                                          *)
Callers == Range(Front(stack))

LEMMA CallsOfStack ==
  ASSUME IInv
  PROVE  /\ Front(stack) \in Seq(Frame) /\ Top \in Frame
         /\ Range(stack) = Callers \cup {Top}
         /\ \A g \in Frame : /\ Append(Front(stack), g) \in Seq(Frame)
                             /\ Range(Append(Front(stack), g)) = Callers \cup {g}
                             /\ Append(stack, g) \in Seq(Frame)
                             /\ Range(Append(stack, g)) = Range(stack) \cup {g}
         /\ \A f \in Callers : f.of = Parser => Len(stack) # 1 /\ f = stack[1]
<1>1. stack \in Seq(Frame) /\ stack # << >> /\ \A i \in 1 .. Len(stack) : FrameOK(program, stack, i)
  BY DEF IInv, StackOK
<1>2. /\ Front(stack) \in Seq(Frame) /\ Len(Front(stack)) = Len(stack) - 1 /\ Len(stack) \in Nat \ {0}
      /\ \A i \in 1 .. Len(stack) - 1 : Front(stack)[i] = stack[i]
      /\ Top = stack[Len(stack)] /\ Top \in Frame
  BY <1>1, LastFront DEF Top
<1>3. Range(stack) = {stack[i] : i \in 1 .. Len(stack)}
  <2>1. DOMAIN stack = 1 .. Len(stack)
    BY <1>1
  <2> QED BY <2>1 DEF Range
<1>4. Callers = {stack[i] : i \in 1 .. Len(stack) - 1}
  <2>1. DOMAIN Front(stack) = 1 .. Len(stack) - 1
    BY <1>2
  <2> QED BY <1>2, <2>1 DEF Callers, Range
<1>5. 1 .. Len(stack) = (1 .. Len(stack) - 1) \cup {Len(stack)}
  BY <1>2
<1>6. Range(stack) = Callers \cup {Top}
  BY <1>2, <1>3, <1>4, <1>5
<1>7. ASSUME NEW g \in Frame
      PROVE  /\ Append(Front(stack), g) \in Seq(Frame)
             /\ Range(Append(Front(stack), g)) = Callers \cup {g}
             /\ Append(stack, g) \in Seq(Frame)
             /\ Range(Append(stack, g)) = Range(stack) \cup {g}
  BY <1>1, <1>2, RangeFacts DEF Callers
<1>8. ASSUME NEW f \in Callers, f.of = Parser PROVE Len(stack) # 1 /\ f = stack[1]
  <2>1. PICK i \in 1 .. Len(stack) - 1 : f = stack[i]
    BY <1>4
  <2>2. i \in 1 .. Len(stack) /\ FrameOK(program, stack, i)
    BY <1>1, <1>2, <2>1
  <2>3. i = 1
    BY <1>8, <2>1, <2>2 DEF FrameOK
  <2> QED BY <1>2, <2>1, <2>3
<1> QED BY <1>2, <1>6, <1>7, <1>8

-----------------------------------------------------------------------------
(* Calls                                                                    *)

LEMMA OutcomeFacts ==
  ASSUME NEW x, NEW as, NEW required \in BOOLEAN, NEW depth, NEW outcome,
         outcome = Outcome(x, as, required, depth)
  PROVE  /\ outcome \in {"nothing", "postpone", "diagnose", "tooDeep", "start"}
         /\ outcome = "start" => x \in patterns
         /\ outcome = "diagnose" => x \notin patterns
         /\ outcome = "nothing" => \/ x \in defined \cup diagnosed
                                   \/ x \notin patterns /\ as # "explicit"
                                   \/ as = "extern" /\ x \notin program.inlined
<1>1. CASE IsFinished(x)
  <2>1. outcome = "nothing"
    BY <1>1 DEF Outcome
  <2> QED BY <1>1, <2>1 DEF IsFinished
<1>2. CASE ~IsFinished(x) /\ x \in patterns \cap program.late /\ ~lateTemplateParser
  <2>1. outcome = "postpone"
    BY <1>2 DEF Outcome
  <2> QED BY <2>1
<1>3. CASE ~IsFinished(x) /\ x \notin patterns
  <2>1. outcome = IF required THEN "diagnose" ELSE IF as = "explicit" THEN "postpone" ELSE "nothing"
    BY <1>3 DEF Outcome
  <2> QED BY <1>3, <2>1
<1>4. CASE ~IsFinished(x) /\ x \in patterns /\ ~(x \in program.late /\ ~lateTemplateParser)
  <2>1. outcome = IF as = "extern" /\ x \notin program.inlined THEN "nothing"
                  ELSE IF depth > InstantiationDepth THEN "tooDeep" ELSE "start"
    BY <1>4 DEF Outcome
  <2> QED BY <1>4, <2>1
<1> QED BY <1>1, <1>2, <1>3, <1>4

(* What a call for x does to what is owed: x is put off or instantiated, if *)
(* it is not given up.                                                      *)
Keeps(x, as, calls, queue, local) ==
  /\ OwedIn(defined, Range(calls), queue, local)
       \subseteq OwedIn(defined', Range(stack'), pendingInstantiations', local)
  /\ \/ tooDeep'
     \/ x \in OwedIn(defined', Range(stack'), pendingInstantiations', local) \cup diagnosed'
     \/ x \notin patterns /\ as # "explicit"
     \/ as = "extern" /\ x \notin program.inlined
  /\ tooDeep => tooDeep'
  /\ diagnosed \subseteq diagnosed'
  /\ \A y \in diagnosed' : y \in diagnosed \/ (y = x /\ x \notin patterns)

(* It goes through the code of all that it makes a body of.                 *)
Reaches(x, recursive, calls) ==
  /\ CodeOf(Range(calls)) \subseteq CodeOf(Range(stack'))
  /\ CodeOf(Range(stack')) \subseteq CodeOf(Range(calls)) \cup Range(program.body[x])
  /\ \A y \in defined' \cup BodiesOf(Range(stack')) :
       \/ y \in defined \cup BodiesOf(Range(calls))
       \/ y = x /\ Range(program.body[y]) \subseteq CodeOf(Range(stack'))
  /\ \A f \in Range(stack') :
       \/ f \in Range(calls)
       \/ f.of = x /\ f.stage = "body" /\ f.recursive = recursive /\ x \in patterns

LEMMA InstantiateKeeps ==
  ASSUME IInv, NEW x \in Specializations, NEW as, NEW recursive \in BOOLEAN, NEW required \in BOOLEAN,
         NEW calls \in Seq(Frame), NEW queue \in Seq(Specializations), NEW local,
         Instantiate(x, as, recursive, required, calls, queue)
  PROVE  Keeps(x, as, calls, queue, local) /\ Reaches(x, recursive, calls)
<1>1. PICK outcome : outcome = Outcome(x, as, required, Len(calls))
  OBVIOUS
<1>2. /\ outcome \in {"nothing", "postpone", "diagnose", "tooDeep", "start"}
      /\ outcome = "start" => x \in patterns
      /\ outcome = "diagnose" => x \notin patterns
      /\ outcome = "nothing" => \/ x \in defined \cup diagnosed
                                \/ x \notin patterns /\ as # "explicit"
                                \/ as = "extern" /\ x \notin program.inlined
  <2>1. PICK depth : depth = Len(calls)
    OBVIOUS
  <2>2. outcome = Outcome(x, as, required, depth)
    BY <1>1, <2>1, Zenon
  <2> QED BY <2>2, OutcomeFacts
<1>3. /\ pendingInstantiations' = IF outcome = "start" /\ recursive THEN << >>
                                  ELSE IF outcome = "postpone" THEN Append(queue, x) ELSE queue
      /\ diagnosed' = IF outcome = "diagnose" THEN diagnosed \cup {x} ELSE diagnosed
      /\ tooDeep' = (tooDeep \/ outcome = "tooDeep")
      /\ outcome # "start" => stack' = calls /\ defined' = defined
      /\ outcome = "start" => defined' = IF x \in Variables THEN defined \cup {x} ELSE defined
  BY <1>1 DEF Instantiate
<1>4. /\ diagnosed \subseteq diagnosed' /\ (tooDeep => tooDeep')
      /\ \A y \in diagnosed' : y \in diagnosed \/ (y = x /\ x \notin patterns)
      /\ defined \subseteq defined'
  BY <1>2, <1>3
<1>5. CASE outcome = "start"
  <2>1. PICK g \in Frame : IsCall(g, x, recursive, queue) /\ stack' = Append(calls, g)
    <3>1. PICK uses : uses = IF recursive THEN vtableUses ELSE << >>
      OBVIOUS
    <3>2. PICK saved : saved = IF recursive THEN queue ELSE << >>
      OBVIOUS
    <3>3. PICK body \in Seq(Reference) : body = program.body[x]
      BY ProgramFacts DEF IInv, TypeOK
    <3>4. PICK g : g = [NewFrame(x, body, recursive) EXCEPT !.savedUses = uses, !.savedPending = saved]
      OBVIOUS
    <3>5. g = [of |-> x, stage |-> "body", code |-> body, recursive |-> recursive, index |-> 0,
               savedUses |-> uses, savedPending |-> saved]
      BY <3>4 DEF NewFrame
    <3>6. uses \in Seq(Classes) /\ saved \in Seq(Specializations) /\ 0 \in Nat
      <4>1. vtableUses \in Seq(Classes) /\ << >> \in Seq(Classes) /\ << >> \in Seq(Specializations)
        BY DEF IInv, TypeOK
      <4> QED BY <3>1, <3>2, <4>1
    <3>7. g \in Frame
      BY <3>3, <3>5, <3>6 DEF Frame
    <3>8. IsCall(g, x, recursive, queue)
      BY <3>1, <3>2, <3>3, <3>5 DEF IsCall
    <3>9. stack' = Append(calls, g)
      BY <1>1, <1>5, <3>1, <3>2, <3>3, <3>4 DEF Instantiate
    <3> QED BY <3>7, <3>8, <3>9
  <2>2. Range(stack') = Range(calls) \cup {g}
    BY <2>1, RangeFacts
  <2>3. /\ g.of = x /\ g.stage = "body" /\ g.code = program.body[x] /\ g.recursive = recursive
        /\ recursive => g.savedPending = queue
    BY <2>1 DEF IsCall
  <2>4. /\ CodeOf(Range(stack')) = CodeOf(Range(calls)) \cup Range(program.body[x])
        /\ BodiesOf(Range(stack')) = BodiesOf(Range(calls)) \cup {x}
        /\ recursive => SavedOf(Range(stack')) = SavedOf(Range(calls)) \cup Range(queue)
        /\ ~recursive => SavedOf(Range(stack')) = SavedOf(Range(calls))
    <3>1. Adds(Range(stack'), Range(calls), g)
      BY <2>2, CallSets
    <3> QED BY <2>3, <3>1 DEF Adds
  <2>5. recursive \/ pendingInstantiations' = queue
    BY <1>3, <1>5
  <2>6. /\ OwedIn(defined, Range(calls), queue, local)
             \subseteq OwedIn(defined', Range(stack'), pendingInstantiations', local)
        /\ x \in OwedIn(defined', Range(stack'), pendingInstantiations', local)
    BY <1>4, <2>4, <2>5 DEF OwedIn
  <2>7. Keeps(x, as, calls, queue, local)
    BY <1>4, <2>6 DEF Keeps
  <2>8. \A y \in defined' \cup BodiesOf(Range(stack')) : y \in defined \cup BodiesOf(Range(calls)) \/ y = x
    BY <1>3, <1>5, <2>4
  <2>9. \A f \in Range(stack') :
          \/ f \in Range(calls)
          \/ f.of = x /\ f.stage = "body" /\ f.recursive = recursive /\ x \in patterns
    BY <1>2, <1>5, <2>2, <2>3
  <2>10. Reaches(x, recursive, calls)
    BY <2>4, <2>8, <2>9 DEF Reaches
  <2> QED BY <2>7, <2>10
<1>6. CASE outcome # "start"
  <2>1. stack' = calls /\ defined' = defined
    BY <1>3, <1>6
  <2>2. Reaches(x, recursive, calls)
    BY <2>1 DEF Reaches
  <2>3. Range(queue) \subseteq Range(pendingInstantiations')
        /\ (outcome = "postpone" => x \in Range(pendingInstantiations'))
    <3>1. Range(Append(queue, x)) = Range(queue) \cup {x}
      BY RangeFacts
    <3> QED BY <1>3, <1>6, <3>1
  <2>4. OwedIn(defined, Range(calls), queue, local)
          \subseteq OwedIn(defined', Range(stack'), pendingInstantiations', local)
    BY <2>1, <2>3 DEF OwedIn
  <2>5. \/ tooDeep'
        \/ x \in OwedIn(defined', Range(stack'), pendingInstantiations', local) \cup diagnosed'
        \/ x \notin patterns /\ as # "explicit"
        \/ as = "extern" /\ x \notin program.inlined
    BY <1>2, <1>3, <1>6, <2>1, <2>3 DEF OwedIn
  <2>6. Keeps(x, as, calls, queue, local)
    BY <1>4, <2>4, <2>5 DEF Keeps
  <2> QED BY <2>2, <2>6
<1> QED BY <1>5, <1>6

-----------------------------------------------------------------------------
(* What a step has to leave                                                 *)

LEMMA RefdStep ==
  ASSUME RefdInv, program' = program, Hopeless \subseteq Hopeless', LeftToOthers \subseteq Safe',
         \A x \in Specializations :
           /\ kind[x] = "explicit" => kind'[x] = "explicit"
           /\ kind'[x] = "explicit" => kind[x] = "explicit" \/ tooDeep' \/ x \in Owed' \cup diagnosed'
           /\ Explicit(x) \in file => Explicit(x) \in file' \/ kind'[x] = "explicit",
         tooDeep => tooDeep',
         \A x \in Specializations :
           x \in Owed => \/ tooDeep'
                         \/ x \in Owed' \cup diagnosed'
                         \/ kind[x] # "explicit" /\ x \in Hopeless \cup LeftToOthers,
         diagnosed \subseteq diagnosed', diagnosed' \subseteq Hopeless',
         ToDo \subseteq Safe' \cup ToDo',
         Demanded' \subseteq Demanded \cup ToDo',
         Looked' \subseteq Looked \cup Safe',
         CallsOK(program, patterns', file', Range(stack'), pendingInstantiations', pendingLocal')
  PROVE  RefdInv'
<1>1. Safe \subseteq Safe'
  BY DEF Safe
<1>2. Demanded' \subseteq Safe' \cup ToDo'
  BY <1>1 DEF RefdInv
<1>3. Looked' \subseteq Safe'
  BY <1>1 DEF RefdInv
<1>4. ExplicitOK'
  <2>1. /\ \A x \in Specializations : kind[x] = "explicit" => tooDeep \/ x \in Owed \cup diagnosed
        /\ \A x \in ExplicitIn(program) : Explicit(x) \in file \/ kind[x] = "explicit"
    BY DEF RefdInv, ExplicitOK
  <2>2. \A x \in Specializations : kind'[x] = "explicit" => tooDeep' \/ x \in Owed' \cup diagnosed'
    BY <2>1
  <2>3. \A x \in ExplicitIn(program) : Explicit(x) \in file' \/ kind'[x] = "explicit"
    BY <2>1 DEF ExplicitIn
  <2>4. ExplicitIn(program)' = ExplicitIn(program)
    BY DEF ExplicitIn
  <2> QED BY <2>2, <2>3, <2>4 DEF ExplicitOK
<1>5. CallsOK(program, patterns, file, Range(stack), pendingInstantiations, pendingLocal)'
  OBVIOUS
<1> QED BY <1>2, <1>3, <1>4, <1>5 DEF RefdInv

(* No template and no explicit instantiation is parsed.                     *)
LEMMA RefdKept ==
  ASSUME RefdInv, UNCHANGED <<program, patterns, kind>>, file' \subseteq file,
         \A x \in Specializations : Explicit(x) \in file => Explicit(x) \in file',
         tooDeep => tooDeep',
         \A x \in Specializations :
           x \in Owed => \/ tooDeep'
                         \/ x \in Owed' \cup diagnosed'
                         \/ kind[x] # "explicit" /\ x \in Hopeless \cup LeftToOthers,
         diagnosed \subseteq diagnosed', diagnosed' \subseteq Hopeless,
         ToDo \subseteq Safe' \cup ToDo',
         Demanded' \subseteq Demanded \cup ToDo',
         Looked' \subseteq Looked \cup Safe',
         CallsOK(program, patterns, file', Range(stack'), pendingInstantiations', pendingLocal')
  PROVE  RefdInv'
<1>1. Hopeless \subseteq Hopeless' /\ LeftToOthers' = LeftToOthers
  BY DEF Hopeless, LeftToOthers
<1>2. LeftToOthers' \subseteq Safe'
  BY DEF Safe, LeftToOthers
<1>3. diagnosed' \subseteq Hopeless' /\ LeftToOthers \subseteq Safe'
  BY <1>1, <1>2
<1>4. \A x \in Specializations :
        /\ kind[x] = "explicit" => kind'[x] = "explicit"
        /\ kind'[x] = "explicit" => kind[x] = "explicit" \/ tooDeep' \/ x \in Owed' \cup diagnosed'
        /\ Explicit(x) \in file => Explicit(x) \in file' \/ kind'[x] = "explicit"
  OBVIOUS
<1> QED BY <1>1, <1>3, <1>4, RefdStep

(* The call on top goes on.                                                 *)
GoesOn(g) ==
  /\ stack' = Append(Front(stack), g) /\ SameCall(Top, g)
  /\ g.stage = "body" => Top.stage = "body"
  /\ Top.stage = "body" => g.stage = "body" \/ Top.of \in defined' \cup {Parser}
  /\ \A x \in Specializations : Ref("use", x) \in Range(Top.code) => Ref("use", x) \in Range(g.code)
  /\ g.of = Parser /\ g.stage # "body" => file' = {}
  /\ g.stage = "done" => pendingInstantiations = << >> /\ pendingLocal = << >>

(* It parses its references, and marks the virtual members of some classes. *)
Marks(g) ==
  /\ \A c \in Classes : c \in program.local /\ vtablesUsed'[c] # "no" =>
       \/ vtablesUsed[c] # "no"
       \/ \A x \in Range(program.virtual[c]) : Ref("use", x) \in Range(g.code)
  /\ \A c \in Classes : vtableHandled'[c] # "no" =>
       vtableHandled[c] # "no" \/ Ref("handle", c) \in Range(Top.code)
  /\ \A c \in Classes : Ref("handle", c) \in Range(g.code) =>
       \/ Ref("handle", c) \in Range(Top.code)
       \/ \A x \in Range(program.virtual[c]) : Ref("use", x) \in Range(g.code)

LEMMA RefdGoesOn ==
  ASSUME IInv, RefdInv, NEW g \in Frame, GoesOn(g), Marks(g),
         UNCHANGED <<program, patterns, kind, used, pointOfInstantiation, diagnosed, tooDeep,
                     pendingInstantiations, pendingLocal>>,
         defined \subseteq defined', defined' \subseteq defined \cup BodiesOf({Top}),
         file' \subseteq file,
         \A x \in Specializations : Explicit(x) \in file => Explicit(x) \in file',
         \A x \in Specializations : Ref("use", x) \in file \ file' => Ref("use", x) \in Range(g.code),
         Top.stage # "done"
  PROVE  RefdInv'
<1>1. PICK F : F = Callers
  OBVIOUS
<1>2. Range(stack) = F \cup {Top} /\ Range(stack') = F \cup {g}
  BY <1>1, CallsOfStack DEF GoesOn
<1>3. PICK f : f = Top
  OBVIOUS
<1>4. /\ g.of = f.of /\ g.recursive = f.recursive /\ g.savedPending = f.savedPending
      /\ g.stage = "body" => f.stage = "body"
      /\ f.stage = "body" => g.stage = "body" \/ f.of \in defined' \cup {Parser}
      /\ \A x \in Specializations : Ref("use", x) \in Range(f.code) => Ref("use", x) \in Range(g.code)
      /\ g.of = Parser /\ g.stage # "body" => file' = {}
      /\ g.stage = "done" => pendingInstantiations = << >> /\ pendingLocal = << >>
  BY <1>3 DEF GoesOn, SameCall
<1>5. Adds(Range(stack), F, f) /\ Adds(Range(stack'), F, g)
  BY <1>2, <1>3, CallSets
<1>6. /\ CodeOf(Range(stack)) = CodeOf(F) \cup Range(f.code)
      /\ CodeOf(Range(stack')) = CodeOf(F) \cup Range(g.code)
      /\ SavedOf(Range(stack')) = SavedOf(Range(stack))
  BY <1>4, <1>5 DEF Adds
<1>7. /\ f.stage = "body" => BodiesOf(Range(stack)) = BodiesOf(F) \cup {f.of}
      /\ f.stage # "body" => BodiesOf(Range(stack)) = BodiesOf(F)
      /\ g.stage = "body" => BodiesOf(Range(stack')) = BodiesOf(F) \cup {f.of}
      /\ g.stage # "body" => BodiesOf(Range(stack')) = BodiesOf(F)
  BY <1>4, <1>5 DEF Adds
<1>8. BodiesOf(Range(stack')) \subseteq BodiesOf(Range(stack)) /\ BodiesOf({f}) \subseteq BodiesOf(Range(stack))
  <2>1. BodiesOf({f}) \subseteq BodiesOf(Range(stack))
    BY <1>2, <1>3 DEF BodiesOf
  <2> QED BY <1>4, <1>7, <2>1
<1>9. \A x \in Specializations : x \in BodiesOf(Range(stack)) => x \in BodiesOf(Range(stack')) \cup defined'
  <2>1. \A x \in Specializations : x # Parser
    BY SpecializationsAssumption
  <2> QED BY <1>4, <1>7, <2>1
<1>10. \A x \in Specializations : x \in Owed => x \in Owed'
  BY <1>6, <1>9 DEF Owed, OwedIn
<1>11. ToDo \subseteq ToDo'
  BY <1>4, <1>6 DEF ToDo
<1>12. \A c \in Marked' : c \in Marked \/ \A x \in Range(program.virtual[c]) : Ref("use", x) \in Range(g.code)
  <2> SUFFICES ASSUME NEW c \in Marked'
               PROVE  c \in Marked \/ \A x \in Range(program.virtual[c]) : Ref("use", x) \in Range(g.code)
    OBVIOUS
  <2>1. c \in Classes /\ program' = program
    BY DEF Marked
  <2>2. CASE c \in program.local /\ vtablesUsed'[c] # "no"
    BY <2>1, <2>2 DEF Marks, Marked
  <2>3. CASE vtableHandled'[c] # "no"
    BY <1>3, <1>6, <2>1, <2>3 DEF Marks, Marked
  <2>4. CASE Ref("handle", c) \in CodeOf(Range(stack'))
    BY <1>3, <1>6, <2>1, <2>4 DEF Marks, Marked
  <2> QED BY <2>1, <2>2, <2>3, <2>4 DEF Marked
<1>13. Demanded' \subseteq Demanded \cup ToDo'
  <2> SUFFICES ASSUME NEW x \in Demanded' PROVE x \in Demanded \cup ToDo'
    OBVIOUS
  <2>1. x \in Specializations /\ program' = program
    BY DEF Demanded
  <2>2. CASE Ref("use", x) \in program.file \ file'
    <3>1. Ref("use", x) \in program.file \ file \/ Ref("use", x) \in Range(g.code)
      BY <2>1, <2>2
    <3> QED BY <1>6, <2>1, <3>1 DEF Demanded, ToDo
  <2>3. CASE \E y \in (defined' \cup BodiesOf(Range(stack'))) \cap Specializations :
                Ref("use", x) \in Range(program.body[y])
    BY <1>3, <1>8, <2>1, <2>3 DEF Demanded
  <2>4. CASE \E c \in Marked' : x \in Range(program.virtual[c])
    BY <1>6, <1>12, <2>1, <2>4 DEF Demanded, ToDo
  <2> QED BY <2>1, <2>2, <2>3, <2>4 DEF Demanded
<1>14. CallsOK(program, patterns, file', Range(stack'), pendingInstantiations', pendingLocal')
  <2>1. CallsOK(program, patterns, file, F \cup {f}, pendingInstantiations, pendingLocal)
    BY <1>2, <1>3 DEF RefdInv
  <2>2. PatternsIn(file') \subseteq PatternsIn(file) /\ (file = {} => file' = {})
    BY DEF PatternsIn
  <2>3. CallsOK(program, patterns, file', F \cup {g}, pendingInstantiations, pendingLocal)
    BY <1>4, <2>1, <2>2 DEF CallsOK
  <2> QED BY <1>2, <2>3
<1>15. Looked' = Looked /\ diagnosed' \subseteq Hopeless /\ diagnosed \subseteq diagnosed'
  BY DEF Looked, RefdInv
<1> QED BY <1>10, <1>11, <1>13, <1>14, <1>15, RefdKept

LEMMA ParserFacts ==
  ASSUME IInv, RefdInv
  PROVE  Top.of = Parser /\ Top.stage # "body" => file = {}
<1>1. Top \in Range(stack)
  BY CallsOfStack
<1> QED BY <1>1 DEF RefdInv, CallsOK

(* The code of the call on top changes.                                     *)
LEMMA RefdCode ==
  ASSUME IInv, RefdInv, NEW f \in Frame, f = Top, NEW code \in Seq(Reference), NEW g \in Frame,
         SameCall(f, g), g.code = code, g.stage = f.stage, stack' = Append(Front(stack), g),
         f.stage # "done", Marks(g),
         \A x \in Specializations : Ref("use", x) \in Range(f.code) => Ref("use", x) \in Range(code),
         UNCHANGED <<program, patterns, kind, used, pointOfInstantiation, diagnosed, tooDeep, defined,
                     pendingInstantiations, pendingLocal>>,
         f.of = Parser => f.stage = "body" \/ file' = {},
         file' \subseteq file,
         \A x \in Specializations : Explicit(x) \in file => Explicit(x) \in file',
         \A x \in Specializations : Ref("use", x) \in file \ file' => Ref("use", x) \in Range(code)
  PROVE  RefdInv'
<1>1. GoesOn(g)
  BY DEF GoesOn, SameCall
<1> QED BY <1>1, RefdGoesOn

(* The call on top goes on to another part of the instantiation.            *)
LEMMA RefdStaged ==
  ASSUME IInv, RefdInv, NEW stage \in {"local", "vtables", "pending", "done"}, stack' = Staged(stage),
         UNCHANGED <<program, file, patterns, kind, used, pointOfInstantiation, diagnosed, tooDeep,
                     pendingInstantiations, pendingLocal, vtablesUsed, vtableHandled>>,
         defined \subseteq defined', defined' \subseteq defined \cup BodiesOf({Top}),
         Top.stage = "body" => Top.of \in defined' /\ Top.of # Parser,
         stage = "done" => pendingInstantiations = << >> /\ pendingLocal = << >>,
         Top.stage # "done"
  PROVE  RefdInv'
<1>1. PICK f \in Frame : f = Top
  BY TopFacts
<1>2. PICK g : g = [f EXCEPT !.stage = stage]
  OBVIOUS
<1>3. g \in Frame /\ SameCall(f, g) /\ g.stage = stage /\ g.code = f.code
  BY <1>2, StageUpdate
<1>4. stack' = Append(Front(stack), g)
  BY <1>1, <1>2 DEF Staged
<1>5. f.of = Parser => file = {}
  BY <1>1, ParserFacts
<1>6. GoesOn(g)
  BY <1>1, <1>3, <1>4, <1>5 DEF GoesOn, SameCall
<1>7. Marks(g)
  BY <1>1, <1>3 DEF Marks
<1> QED BY <1>3, <1>6, <1>7, RefdGoesOn

LEMMA RefdFinishBody == IInv /\ RefdInv /\ FinishBody => RefdInv'
<1> SUFFICES ASSUME IInv, RefdInv, FinishBody PROVE RefdInv'
  OBVIOUS
<1>1. /\ Top.of # Parser /\ Top.stage = "body" /\ stack' = Staged(AfterBody(Top))
      /\ defined' = defined \cup {Top.of}
      /\ UNCHANGED <<program, file, patterns, kind, used, pointOfInstantiation, diagnosed, tooDeep,
                     pendingInstantiations, pendingLocal, vtablesUsed, vtableHandled>>
  BY DEF FinishBody, Instantiating, fileVars, queueVars, declVars
<1>2. AfterBody(Top) \in {"local", "vtables", "pending", "done"}
  BY DEF AfterBody
<1>3. AfterBody(Top) # "done"
  BY DEF AfterBody
<1>4. Top.of \in BodiesOf({Top})
  BY <1>1 DEF BodiesOf
<1> QED BY <1>1, <1>2, <1>3, <1>4, RefdStaged

LEMMA RefdLeaveScope == IInv /\ RefdInv /\ LeaveScope => RefdInv'
<1> SUFFICES ASSUME IInv, RefdInv, LeaveScope PROVE RefdInv'
  OBVIOUS
<1>1. /\ Top.stage = "local" /\ stack' = Staged("vtables")
      /\ UNCHANGED <<program, file, patterns, kind, used, pointOfInstantiation, diagnosed, tooDeep,
                     pendingInstantiations, pendingLocal, vtablesUsed, vtableHandled, defined>>
  BY DEF LeaveScope, fileVars, queueVars, declVars, resultVars
<1> QED BY <1>1, RefdStaged

LEMMA RefdFinishVTables == IInv /\ RefdInv /\ FinishVTables => RefdInv'
<1> SUFFICES ASSUME IInv, RefdInv, FinishVTables PROVE RefdInv'
  OBVIOUS
<1>1. /\ Top.stage = "vtables" /\ stack' = Staged("pending")
      /\ UNCHANGED <<program, file, patterns, kind, used, pointOfInstantiation, diagnosed, tooDeep,
                     pendingInstantiations, pendingLocal, vtablesUsed, vtableHandled, defined>>
  BY DEF FinishVTables, DefiningVTables, fileVars, declVars, resultVars
<1> QED BY <1>1, RefdStaged

LEMMA RefdFinishProgram == IInv /\ RefdInv /\ FinishProgram => RefdInv'
<1> SUFFICES ASSUME IInv, RefdInv, FinishProgram PROVE RefdInv'
  OBVIOUS
<1>1. /\ Top.stage = "pending" /\ stack' = Staged("done")
      /\ pendingInstantiations = << >> /\ pendingLocal = << >>
      /\ UNCHANGED <<program, file, patterns, kind, used, pointOfInstantiation, diagnosed, tooDeep,
                     pendingInstantiations, pendingLocal, vtablesUsed, vtableHandled, defined>>
  BY DEF FinishProgram, fileVars, queueVars, declVars, resultVars
<1> QED BY <1>1, RefdStaged

-----------------------------------------------------------------------------
(* Code                                                                     *)

(* The code that marks the virtual members of c.                            *)
LEMMA VirtualUses ==
  ASSUME program \in Programs, NEW c \in Classes
  PROVE  /\ VirtualMembers(c) \in Seq(Reference)
         /\ \A x \in Range(program.virtual[c]) : Ref("use", x) \in Range(VirtualMembers(c))
         /\ \A r \in Range(VirtualMembers(c)) : r.kind = "use"
<1>1. PICK virtual : virtual = program.virtual[c]
  OBVIOUS
<1>2. PICK members \in Seq(Reference) : members = VirtualMembers(c)
  BY VirtualMembersFacts
<1>3. members = [i \in DOMAIN virtual |-> Ref("use", virtual[i])]
  BY <1>1, <1>2 DEF VirtualMembers, Ref
<1>4. /\ DOMAIN members = DOMAIN virtual
      /\ \A i \in DOMAIN virtual : members[i] = Ref("use", virtual[i])
  BY <1>3
<1>5. \A x : Ref("use", x).kind = "use"
  BY DEF Ref
<1> QED BY <1>1, <1>2, <1>4, <1>5 DEF Range

LEMMA RefdMark ==
  ASSUME IInv, RefdInv, Top.code # << >>, NEW c \in Classes, NEW required \in BOOLEAN,
         NEW rest \in Seq(Reference), MarkVTableUsed(c, required, rest),
         Range(rest) \subseteq Range(Top.code),
         \A x \in Specializations : Ref("use", x) \in Range(Top.code) => Ref("use", x) \in Range(rest),
         UNCHANGED <<program, file, patterns, kind, used, pointOfInstantiation, diagnosed, tooDeep,
                     defined, pendingInstantiations, pendingLocal, vtableHandled>>
  PROVE  RefdInv'
<1>1. /\ program \in Programs /\ vtablesUsed \in [Classes -> {"no", "used", "required"}]
  BY DEF IInv, TypeOK
<1>2. PICK new \in BOOLEAN : new <=> UsesToAdd(c, required) # << >>
  OBVIOUS
<1>3. PICK members \in Seq(Reference) :
        /\ members = VirtualMembers(c)
        /\ \A x \in Range(program.virtual[c]) : Ref("use", x) \in Range(members)
        /\ \A r \in Range(members) : r.kind = "use"
  BY <1>1, VirtualUses
<1>4. PICK code : code = IF new /\ c \in program.local THEN members \o rest ELSE rest
  OBVIOUS
<1>5. members \o rest \in Seq(Reference) /\ Range(members \o rest) = Range(members) \cup Range(rest)
  BY <1>3, RangeFacts
<1>6. /\ code \in Seq(Reference) /\ Range(rest) \subseteq Range(code)
      /\ \A d : Ref("handle", d) \in Range(code) => Ref("handle", d) \in Range(rest)
      /\ new /\ c \in program.local => \A x \in Range(program.virtual[c]) : Ref("use", x) \in Range(code)
  <2>1. \A d : Ref("handle", d) \notin Range(members)
    BY <1>3 DEF Ref
  <2> QED BY <1>3, <1>4, <1>5, <2>1
<1>7. PICK f \in Frame : f = Top
  BY TopFacts
<1>8. PICK g : g = [f EXCEPT !.code = code]
  OBVIOUS
<1>9. g \in Frame /\ SameCall(f, g) /\ g.code = code /\ g.stage = f.stage
  BY <1>6, <1>8, CodeUpdate
<1>10. stack' = Append(Front(stack), g)
  BY <1>2, <1>3, <1>4, <1>7, <1>8 DEF MarkVTableUsed
<1>11. ~new => vtablesUsed[c] # "no"
  BY <1>2 DEF UsesToAdd
<1>12. \A d \in Classes : d # c => vtablesUsed'[d] = vtablesUsed[d]
  BY MarkCases
<1>13. Marks(g)
  BY <1>6, <1>7, <1>9, <1>11, <1>12 DEF Marks
<1>14. f.stage # "done" /\ (f.of = Parser => f.stage = "body" \/ file = {})
  BY <1>7, HeadFacts, ParserFacts
<1> QED BY <1>6, <1>7, <1>9, <1>10, <1>13, <1>14, RefdCode

LEMMA RefdReferToVTable == IInv /\ RefdInv /\ ReferToVTable => RefdInv'
<1> SUFFICES ASSUME IInv, RefdInv, ReferToVTable PROVE RefdInv'
  OBVIOUS
<1>1. /\ Top.code # << >> /\ Head(Top.code).kind \in {"vtable", "required"}
      /\ MarkVTableUsed(Head(Top.code).of, Head(Top.code).kind = "required", Tail(Top.code))
      /\ UNCHANGED <<program, file, patterns, kind, used, pointOfInstantiation, diagnosed, tooDeep,
                     defined, pendingInstantiations, pendingLocal, vtableHandled>>
  BY DEF ReferToVTable, Code, fileVars, declVars, resultVars
<1>2. PICK q \in Seq(Reference) : q = Top.code
  BY TopFacts, FrameFacts
<1>3. PICK c \in Classes : c = Head(q).of
  BY <1>1, <1>2, HeadFacts
<1>4. PICK rest \in Seq(Reference) : rest = Tail(q) /\ Range(rest) \subseteq Range(q)
  BY <1>1, <1>2, HeadFacts
<1>5. PICK required \in BOOLEAN : required <=> Head(q).kind = "required"
  OBVIOUS
<1>6. MarkVTableUsed(c, required, rest)
  <2>1. required = (Head(q).kind = "required")
    BY <1>5
  <2> QED BY <1>1, <1>2, <1>3, <1>4, <2>1
<1>7. PICK r : r = Head(q) /\ Range(q) \subseteq {r} \cup Range(rest)
  BY <1>1, <1>2, <1>4, HeadOrTail
<1>8. \A x \in Specializations : Ref("use", x) \in Range(q) => Ref("use", x) \in Range(rest)
  <2>1. r.kind # "use" /\ \A x : Ref("use", x).kind = "use"
    BY <1>1, <1>2, <1>7 DEF Ref
  <2> QED BY <1>7, <2>1
<1> QED BY <1>1, <1>2, <1>4, <1>6, <1>8, RefdMark

LEMMA RefdReferToVirtualMember == IInv /\ RefdInv /\ ReferToVirtualMember => RefdInv'
<1> SUFFICES ASSUME IInv, RefdInv, ReferToVirtualMember PROVE RefdInv'
  OBVIOUS
<1>1. /\ Top.code # << >> /\ Head(Top.code).of \in Subprograms
      /\ \E c \in UnusedParents(Head(Top.code).of) : MarkVTableUsed(c, FALSE, Top.code)
      /\ UNCHANGED <<program, file, patterns, kind, used, pointOfInstantiation, diagnosed, tooDeep,
                     defined, pendingInstantiations, pendingLocal, vtableHandled>>
  BY DEF ReferToVirtualMember, Code, fileVars, declVars, resultVars
<1>2. program \in Programs /\ Top \in Frame
  BY TopFacts
<1>3. Top.code \in Seq(Reference)
  BY <1>2, FrameFacts
<1>4. PICK c \in Classes : MarkVTableUsed(c, FALSE, Top.code)
  <2>1. program.parent[Head(Top.code).of] \subseteq Classes
    BY <1>1, <1>2, ProgramFacts
  <2> QED BY <1>1, <2>1 DEF UnusedParents
<1> QED BY <1>1, <1>3, <1>4, RefdMark

LEMMA RefdDefineUsedVTable == IInv /\ RefdInv /\ DefineUsedVTable => RefdInv'
<1> SUFFICES ASSUME IInv, RefdInv, DefineUsedVTable PROVE RefdInv'
  OBVIOUS
<1>1. /\ Top.stage = "vtables" /\ Top.code = << >> /\ Top.index < Len(vtableUses)
      /\ UNCHANGED <<program, file, patterns, kind, used, pointOfInstantiation, diagnosed, tooDeep,
                     defined, pendingInstantiations, pendingLocal, vtablesUsed, vtableHandled>>
  BY DEF DefineUsedVTable, DefiningVTables, fileVars, queueVars, declVars, resultVars
<1>2. PICK f \in Frame : f = Top
  BY TopFacts
<1>3. program \in Programs /\ vtableUses \in Seq(Classes)
  BY DEF IInv, TypeOK
<1>4. PICK index \in Nat : index = f.index + 1
  BY FrameFacts
<1>5. f.index \in Nat /\ index \in 1 .. Len(vtableUses)
  BY <1>1, <1>2, <1>3, <1>4, FrameFacts
<1>6. PICK c \in Classes : c = vtableUses[index]
  BY <1>3, <1>5
<1>7. PICK members \in Seq(Reference) :
        /\ members = VirtualMembers(c)
        /\ \A x \in Range(program.virtual[c]) : Ref("use", x) \in Range(members)
        /\ \A r \in Range(members) : r.kind = "use"
  BY <1>3, VirtualUses
<1>8. PICK r \in Reference : r = Ref("handle", c)
  BY DEF Reference, Ref
<1>9. PICK code : code = IF DefinesVTable(c) THEN Append(members, r) ELSE << >>
  OBVIOUS
<1>10. Append(members, r) \in Seq(Reference) /\ Range(Append(members, r)) = Range(members) \cup {r}
  BY RangeFacts
<1>11. << >> \in Seq(Reference) /\ Range(<< >>) = {}
  BY DEF Range
<1>12. /\ code \in Seq(Reference)
       /\ \A d \in Classes : Ref("handle", d) \in Range(code) =>
            \A x \in Range(program.virtual[d]) : Ref("use", x) \in Range(code)
  <2>1. \A d : Ref("handle", d) \notin Range(members) /\ (Ref("handle", d) = r => d = c)
    BY <1>7, <1>8 DEF Ref
  <2> QED BY <1>7, <1>9, <1>10, <1>11, <2>1
<1>13. PICK g : g = [f EXCEPT !.index = index, !.code = code]
  OBVIOUS
<1>14. /\ g \in Frame /\ g.of = f.of /\ g.stage = f.stage /\ g.recursive = f.recursive
       /\ g.savedUses = f.savedUses /\ g.savedPending = f.savedPending /\ g.code = code
  BY <1>12, <1>13 DEF Frame
<1>15. stack' = Append(Front(stack), g)
  <2>1. [f EXCEPT !.index = @ + 1, !.code = code] = g
    BY <1>4, <1>13
  <2>2. c = vtableUses[f.index + 1]
    BY <1>4, <1>6
  <2>3. code = IF DefinesVTable(c)
                 THEN Append(VirtualMembers(c), [kind |-> "handle", of |-> c]) ELSE << >>
    BY <1>7, <1>8, <1>9 DEF Ref
  <2> QED BY <1>2, <2>1, <2>2, <2>3 DEF DefineUsedVTable
<1>16. SameCall(f, g) /\ Marks(g)
  BY <1>12, <1>14, <1>1 DEF SameCall, Marks
<1>17. Range(f.code) = {} /\ f.stage # "done" /\ (f.of = Parser => f.stage = "body" \/ file = {})
  BY <1>1, <1>2, <1>11, ParserFacts
<1> QED BY <1>1, <1>2, <1>12, <1>14, <1>15, <1>16, <1>17, RefdCode

LEMMA RefdHandleVTable == IInv /\ RefdInv /\ HandleVTable => RefdInv'
<1> SUFFICES ASSUME IInv, RefdInv, HandleVTable PROVE RefdInv'
  OBVIOUS
<1>1. /\ Top.code # << >> /\ Head(Top.code).kind = "handle" /\ stack' = Advanced
      /\ vtableHandled' = [vtableHandled EXCEPT ![Head(Top.code).of] = vtablesUsed[Head(Top.code).of]]
      /\ UNCHANGED <<program, file, patterns, kind, used, pointOfInstantiation, diagnosed, tooDeep,
                     defined, pendingInstantiations, pendingLocal, vtablesUsed>>
  BY DEF HandleVTable, Code, fileVars, queueVars, declVars, resultVars
<1>2. PICK f \in Frame : f = Top
  BY TopFacts
<1>3. PICK q \in Seq(Reference) : q = f.code
  BY FrameFacts
<1>4. PICK r \in Reference : r = Head(q) /\ r \in Range(q) /\ r.kind = "handle"
  BY <1>1, <1>2, <1>3, RangeFacts
<1>5. PICK c \in Classes : c = r.of /\ r = Ref("handle", c)
  <2>1. r.of \in Classes /\ r = [kind |-> "handle", of |-> r.of]
    BY <1>4 DEF Reference
  <2> QED BY <2>1 DEF Ref
<1>6. PICK g \in Frame :
        /\ stack' = Append(Front(stack), g)
        /\ SameCall(f, g) /\ g.stage = f.stage
        /\ Range(g.code) \subseteq Range(q)
        /\ Range(q) \subseteq {r} \cup Range(g.code)
  BY <1>1, <1>2, <1>3, <1>4, AdvancedFacts
<1>7. \A d \in Classes : d # c => vtableHandled'[d] = vtableHandled[d]
  BY <1>1, <1>2, <1>3, <1>4, <1>5 DEF IInv, TypeOK
<1>8. Marks(g)
  BY <1>1, <1>2, <1>3, <1>4, <1>5, <1>6, <1>7 DEF Marks
<1>9. \A x : Ref("use", x) # r
  BY <1>4 DEF Ref
<1>10. f.stage # "done" /\ (f.of = Parser => f.stage = "body" \/ file = {}) /\ g.code \in Seq(Reference)
  BY <1>1, <1>2, HeadFacts, ParserFacts, FrameFacts
<1> QED BY <1>1, <1>2, <1>3, <1>6, <1>8, <1>9, <1>10, RefdCode

LEMMA RefdParseReference ==
  ASSUME IInv, RefdInv, NEW r, ParseReference(r)
  PROVE  RefdInv'
<1>1. /\ Top.of = Parser /\ Top.stage = "body" /\ Top.code = << >> /\ r \in file \cap Reference
      /\ stack' = Append(Front(stack), [Top EXCEPT !.code = <<r>>]) /\ file' = file \ {r}
      /\ UNCHANGED <<program, patterns, kind, used, pointOfInstantiation, diagnosed, tooDeep,
                     defined, pendingInstantiations, pendingLocal, vtablesUsed, vtableHandled>>
  BY DEF ParseReference, Parsing, queueVars, declVars, resultVars
<1>2. PICK f \in Frame : f = Top
  BY TopFacts
<1>3. PICK code : code = <<r>>
  OBVIOUS
<1>4. code \in Seq(Reference) /\ Range(code) = {r}
  BY <1>1, <1>3 DEF Range
<1>5. PICK g : g = [f EXCEPT !.code = code]
  OBVIOUS
<1>6. g \in Frame /\ SameCall(f, g) /\ g.code = code /\ g.stage = f.stage
  BY <1>4, <1>5, CodeUpdate
<1>7. stack' = Append(Front(stack), g)
  BY <1>1, <1>2, <1>3, <1>5
<1>8. program \in Programs /\ r \in program.file
  BY <1>1 DEF IInv, TypeOK, FileOK
<1>9. r.kind # "handle"
  BY <1>8, KeyFunctionsAssumption DEF Text
<1>10. \A x : Explicit(x) # r
  BY <1>1 DEF Explicit, Reference
<1>11. Range(f.code) = {}
  BY <1>1, <1>2 DEF Range
<1>12. Marks(g)
  <2>1. \A d : Ref("handle", d) # r
    BY <1>9 DEF Ref
  <2> QED BY <1>1, <1>4, <1>6, <2>1 DEF Marks
<1> QED BY <1>1, <1>2, <1>4, <1>6, <1>7, <1>10, <1>11, <1>12, RefdCode

(* At the end of the unit only vtables are marked.                          *)
LEMMA RefdEndOfProgram == IInv /\ RefdInv /\ EndOfProgram => RefdInv'
<1> SUFFICES ASSUME IInv, RefdInv, EndOfProgram PROVE RefdInv'
  OBVIOUS
<1>1. /\ Top.of = Parser /\ Top.stage = "body" /\ Top.code = << >> /\ file = {}
      /\ stack' = <<[Top EXCEPT !.stage = "vtables", !.code = MarkKeyDefined]>>
      /\ UNCHANGED <<program, file, patterns, kind, used, pointOfInstantiation, diagnosed, tooDeep,
                     defined, pendingInstantiations, pendingLocal, vtablesUsed, vtableHandled>>
  BY DEF EndOfProgram, Parsing, queueVars, declVars, resultVars
<1>2. PICK f \in Frame : f = Top
  BY TopFacts
<1>3. /\ Len(stack) = 1 /\ keyDefined \subseteq Classes
  BY <1>1, <1>2, TopFacts DEF IInv, TypeOK
<1>4. PICK code : code = MarkKeyDefined
  OBVIOUS
<1>5. code \in Seq(Reference) /\ \A r \in Range(code) : r.kind = "required"
  <2>1. IsFiniteSet(keyDefined)
    BY <1>3, SpecializationsAssumption, FS_Subset
  <2>2. PICK n \in Nat : SetToSeq(keyDefined) \in [1 .. n -> keyDefined]
    BY <2>1, SetToSeqFacts
  <2>3. PICK classes \in [1 .. n -> keyDefined] : classes = SetToSeq(keyDefined)
    BY <2>2
  <2>4. code = [i \in 1 .. n |-> Ref("required", classes[i])]
    BY <1>4, <2>3 DEF MarkKeyDefined, Ref
  <2>5. \A i \in 1 .. n : Ref("required", classes[i]) \in Reference
    BY <1>3 DEF Ref, Reference
  <2>6. code \in Seq(Reference)
    BY <2>4, <2>5
  <2>7. DOMAIN code = 1 .. n /\ \A i \in 1 .. n : code[i].kind = "required"
    BY <2>4 DEF Ref
  <2> QED BY <2>6, <2>7 DEF Range
<1>6. PICK g : g = [f EXCEPT !.stage = "vtables", !.code = code]
  OBVIOUS
<1>7. /\ g \in Frame /\ SameCall(f, g) /\ g.code = code /\ g.stage = "vtables"
  BY <1>5, <1>6 DEF Frame, SameCall
<1>8. stack' = Append(Front(stack), g)
  <2>1. stack' = <<g>>
    BY <1>1, <1>2, <1>4, <1>6
  <2>2. Front(stack) \in Seq(Frame) /\ Len(Front(stack)) = 0
    <3>1. stack \in Seq(Frame) /\ stack # << >>
      BY DEF IInv, StackOK
    <3>2. Front(stack) \in Seq(Frame) /\ Len(Front(stack)) = Len(stack) - 1
      BY <3>1, LastFront
    <3> QED BY <1>3, <3>2
  <2>3. Front(stack) = << >>
    BY <2>2
  <2>4. Append(<< >>, g) = <<g>>
    OBVIOUS
  <2> QED BY <2>1, <2>3, <2>4
<1>9. Range(f.code) = {}
  BY <1>1, <1>2 DEF Range
<1>10. \A d : Ref("handle", d) \notin Range(code)
  BY <1>5 DEF Ref
<1>11. Marks(g)
  BY <1>1, <1>7, <1>10 DEF Marks
<1>12. GoesOn(g)
  BY <1>1, <1>2, <1>7, <1>8, <1>9 DEF GoesOn, SameCall
<1> QED BY <1>1, <1>7, <1>11, <1>12, RefdGoesOn

-----------------------------------------------------------------------------
(* Returns                                                                  *)

LEMMA RefdReturn ==
  IInv /\ HandedInv /\ VTablesInv /\ RefdInv /\ (ReturnFromNested \/ ReturnFromRecursive) => RefdInv'
<1> SUFFICES ASSUME IInv, HandedInv, VTablesInv, RefdInv, ReturnFromNested \/ ReturnFromRecursive
             PROVE  RefdInv'
  OBVIOUS
<1>1. /\ stack' = Front(stack) /\ Top.of # Parser
      /\ \/ Top.stage = "vtables" /\ ~Top.recursive /\ pendingInstantiations' = pendingInstantiations
         \/ /\ Top.stage = "pending" /\ pendingInstantiations = << >>
            /\ pendingInstantiations' = Top.savedPending
      /\ UNCHANGED <<program, file, patterns, kind, used, pointOfInstantiation, diagnosed, tooDeep,
                     defined, pendingLocal, vtablesUsed, vtableHandled>>
  BY DEF ReturnFromNested, ReturnFromRecursive, RestoredPending, Instantiating, fileVars, queueVars,
         declVars, resultVars
<1>2. PICK f \in Frame : f = Top
  BY TopFacts
<1>3. PICK F : F = Callers
  OBVIOUS
<1>4. Range(stack) = F \cup {f} /\ Range(stack') = F
  BY <1>1, <1>2, <1>3, CallsOfStack DEF Callers
<1>5. Adds(Range(stack), F, f)
  BY <1>4, CallSets
<1>6. Len(stack) # 1 /\ Len(stack) \in Nat \ {0} /\ stack[Len(stack)] = f
  BY <1>1, <1>2, TopFacts
<1>7. Len(stack) \in 1 .. Len(stack)
  BY <1>6
<1>8. f.code = << >>
  <2>1. CodesOK(stack)
    BY DEF VTablesInv, VTablesAt
  <2>2. f.stage = "pending" => f.code = << >>
    BY <1>2, TopFacts
  <2> QED BY <1>1, <1>2, <1>6, <1>7, <2>1, <2>2 DEF CodesOK
<1>9. f.stage = "pending" => f.recursive
  BY <1>6, <1>7 DEF HandedInv, QueuesOK, RecursiveOK
<1>10. f.recursive \in BOOLEAN
  BY FrameFacts
<1>11. CodeOf(Range(stack')) = CodeOf(Range(stack)) /\ BodiesOf(Range(stack')) = BodiesOf(Range(stack))
  <2>1. Range(<< >>) = {}
    BY DEF Range
  <2> QED BY <1>1, <1>2, <1>4, <1>5, <1>8, <2>1 DEF Adds
<1>12. Owed \subseteq Owed'
  <2>1. CASE f.stage = "vtables"
    <3>1. SavedOf(Range(stack')) = SavedOf(Range(stack)) /\ pendingInstantiations' = pendingInstantiations
      BY <1>1, <1>2, <1>4, <1>5, <2>1 DEF Adds
    <3> QED BY <1>1, <1>11, <3>1 DEF Owed, OwedIn
  <2>2. CASE f.stage = "pending"
    <3>1. /\ SavedOf(Range(stack)) = SavedOf(Range(stack')) \cup Range(pendingInstantiations')
          /\ Range(pendingInstantiations) = {}
      <4>1. Range(<< >>) = {}
        BY DEF Range
      <4> QED BY <1>1, <1>2, <1>4, <1>5, <1>9, <2>2, <4>1 DEF Adds
    <3> QED BY <1>1, <1>11, <3>1 DEF Owed, OwedIn
  <2> QED BY <1>1, <1>2, <2>1, <2>2
<1>13. ToDo' = ToDo /\ Demanded' = Demanded /\ Looked' = Looked
  BY <1>1, <1>11 DEF ToDo, Demanded, Looked, Marked
<1>14. \A c \in F : c.stage # "done"
  <2>1. DoneOK(stack, vtableUses)
    BY DEF VTablesInv, VTablesAt
  <2>2. \A i \in 1 .. Len(stack) : stack[i].stage # "done"
    BY <1>6, <2>1 DEF DoneOK
  <2>3. DOMAIN stack = 1 .. Len(stack)
    BY DEF IInv, StackOK
  <2> QED BY <1>4, <2>2, <2>3 DEF Range
<1>15. CallsOK(program, patterns, file, Range(stack'), pendingInstantiations', pendingLocal')
  <2>1. CallsOK(program, patterns, file, F \cup {f}, pendingInstantiations, pendingLocal)
    BY <1>4 DEF RefdInv
  <2>2. CallsOK(program, patterns, file, F, pendingInstantiations', pendingLocal')
    BY <1>14, <2>1 DEF CallsOK
  <2> QED BY <1>4, <2>2
<1>16. diagnosed \subseteq Hopeless
  BY DEF RefdInv
<1> QED BY <1>1, <1>12, <1>13, <1>15, <1>16, RefdKept

-----------------------------------------------------------------------------
(* Instantiations                                                           *)

LEMMA NoneIsDone ==
  ASSUME IInv, VTablesInv, Top.stage # "done"
  PROVE  \A f \in Range(stack) : f.stage # "done"
<1>1. /\ Len(stack) \in Nat \ {0} /\ stack[Len(stack)] = Top /\ DOMAIN stack = 1 .. Len(stack)
  BY TopFacts DEF IInv, StackOK
<1>2. DoneOK(stack, vtableUses)
  BY DEF VTablesInv, VTablesAt
<1>3. \A i \in 1 .. Len(stack) : stack[i].stage # "done"
  BY <1>1, <1>2 DEF DoneOK
<1> QED BY <1>1, <1>3 DEF Range

(* What does not queue x or instantiate it has no need to.                  *)
LEMMA NotPendingIsSafe ==
  ASSUME IInv, RefdInv, NEW x \in Specializations, ~IsPending(x)
  PROVE  x \in Safe
<1>1. /\ Looked \subseteq Safe /\ diagnosed \subseteq Hopeless
      /\ kind[x] = "explicit" => tooDeep \/ x \in Owed \cup diagnosed
  BY DEF RefdInv, ExplicitOK
<1>2. kind[x] \in {"implicit", "extern", "explicit"}
  BY DEF IInv, TypeOK
<1>3. x \in diagnosed \/ kind[x] = "explicit" => x \in Safe
  BY <1>1 DEF Safe
<1>4. kind[x] = "extern" /\ x \notin program.inlined => x \in Safe
  BY DEF Safe, LeftToOthers
<1>5. x \in used \/ (x \in pointOfInstantiation /\ kind[x] = "implicit") => x \in Safe
  BY <1>1 DEF Looked
<1>6. CASE x \in Subprograms
  <2>1. IsSkipped(x) => x \in used
    BY DEF IsSkipped
  <2>2. ~IsImplicitlyInstantiable(x) => x \in Safe
    <3>1. CASE x \in diagnosed \/ kind[x] = "explicit"
      BY <1>3, <3>1
    <3>2. CASE x \notin diagnosed /\ kind[x] = "implicit"
      BY <3>2 DEF IsImplicitlyInstantiable
    <3>3. CASE x \notin diagnosed /\ kind[x] = "extern"
      <4>1. IsImplicitlyInstantiable(x) <=> (x \notin patterns \/ x \in program.inlined)
        BY <3>3 DEF IsImplicitlyInstantiable
      <4> QED BY <1>4, <3>3, <4>1
    <3> QED BY <1>2, <3>1, <3>2, <3>3
  <2>3. Top.of = x /\ Top.stage = "body" => x \in Safe
    <3>1. Top \in Range(stack)
      BY CallsOfStack
    <3> QED BY <3>1 DEF Safe, Owed, OwedIn, BodiesOf
  <2> QED BY <1>5, <1>3, <1>2, <1>6, <2>1, <2>2, <2>3 DEF IsPending
<1>7. CASE x \notin Subprograms
  <2>1. x \notin program.inlined
    <3>1. program \in Program
      BY SpecializationsAssumption DEF IInv, TypeOK
    <3> QED BY <1>7, <3>1 DEF Program
  <2> QED BY <1>2, <1>3, <1>4, <1>5, <1>7, <2>1 DEF IsPending
<1> QED BY <1>6, <1>7

(* Where the queues are worked off, no template is to come.                 *)
LEMMA NoTemplateToCome ==
  ASSUME IInv, HandedInv, RefdInv, TemplatesComeFirst(program),
         \/ Top.stage = "pending"
         \/ Top.stage = "local" /\ pendingLocal # << >>
  PROVE  PatternsIn(file) \subseteq patterns
<1>1. /\ program \in Programs /\ Top \in Range(stack) /\ DOMAIN stack = 1 .. Len(stack)
      /\ Len(stack) \in Nat \ {0} /\ stack[Len(stack)] = Top /\ (Top.of = Parser <=> Len(stack) = 1)
  BY CallsOfStack, TopFacts DEF IInv, StackOK
<1>2. /\ \A f \in Range(stack) : /\ f.of = Parser /\ f.stage # "body" => file = {}
                                 /\ f.recursive => PatternsIn(file) \subseteq patterns
                                 /\ f.of # Parser => f.of \in patterns /\ (~f.recursive => f.of \in Early(program))
  BY DEF RefdInv, CallsOK
<1>3. PatternsIn({}) = {}
  BY DEF PatternsIn
<1>4. CASE Top.stage = "pending"
  <2>1. Len(stack) = 1 \/ Top.recursive
    BY <1>1, <1>4 DEF HandedInv, QueuesOK, RecursiveOK
  <2> QED BY <1>1, <1>2, <1>3, <1>4, <2>1
<1>5. CASE Top.stage = "local" /\ pendingLocal # << >>
  <2>1. PICK x \in Range(pendingLocal) : x \in Specializations
    <3>1. pendingLocal \in Seq(Specializations)
      BY DEF IInv, TypeOK
    <3> QED BY <1>5, <3>1, RangeFacts
  <2>2. program.enclosing[x] # Parser /\ Outer(program, x) \subseteq OpenScopes(stack, Len(stack))
    BY <2>1 DEF IInv, LocalsOK
  <2>3. program.enclosing[x] \in OpenScopes(stack, Len(stack))
    BY <1>1, <2>1, <2>2, ScopeFacts
  <2>4. PICK f \in Range(stack) : f.of = program.enclosing[x]
    <3>1. PICK i \in 1 .. Len(stack) : stack[i].of = program.enclosing[x]
      BY <2>3 DEF OpenScopes
    <3> QED BY <1>1, <3>1 DEF Range
  <2>5. CASE f.recursive
    BY <1>2, <2>5
  <2>6. CASE ~f.recursive
    <3>1. f.of \in patterns /\ program.enclosing[x] \in Early(program)
      BY <1>2, <2>2, <2>4, <2>6
    <3>2. PatternsIn(program.file) \subseteq {f.of}
      BY <2>1, <2>4, <3>1 DEF TemplatesComeFirst
    <3>3. PatternsIn(file) \subseteq PatternsIn(program.file)
      BY DEF PatternsIn, IInv, FileOK
    <3> QED BY <3>1, <3>2, <3>3
  <2> QED BY <2>5, <2>6
<1> QED BY <1>4, <1>5

(* A call for x is made with the calls given, for code of the same kind.    *)
LEMMA DemandsOfCall ==
  ASSUME IInv, NEW x \in Specializations, NEW recursive, NEW calls, Reaches(x, recursive, calls),
         BodiesOf(Range(calls)) \subseteq BodiesOf(Range(stack)),
         CodeOf(Range(calls)) \subseteq CodeOf(Range(stack)),
         UNCHANGED <<program, vtablesUsed, vtableHandled>>,
         \A z \in Specializations : Ref("use", z) \in file => Ref("use", z) \in file'
  PROVE  Demanded' \subseteq Demanded \cup ToDo'
<1>1. \A r \in Range(program.body[x]) : r.kind # "handle"
  BY KeyFunctionsAssumption DEF IInv, TypeOK, Text
<1>2. \A c : Ref("handle", c) \in CodeOf(Range(stack')) => Ref("handle", c) \in CodeOf(Range(stack))
  BY <1>1 DEF Reaches, Ref
<1>3. Marked' \subseteq Marked
  BY <1>2 DEF Marked
<1>4. \A y \in defined' \cup BodiesOf(Range(stack')) :
        y \in defined \cup BodiesOf(Range(stack)) \/ Range(program.body[y]) \subseteq CodeOf(Range(stack'))
  BY DEF Reaches
<1> SUFFICES ASSUME NEW z \in Demanded' PROVE z \in Demanded \cup ToDo'
  OBVIOUS
<1>5. z \in Specializations
  BY DEF Demanded
<1>6. CASE Ref("use", z) \in program.file \ file'
  BY <1>5, <1>6 DEF Demanded
<1>7. CASE \E y \in (defined' \cup BodiesOf(Range(stack'))) \cap Specializations :
              Ref("use", z) \in Range(program.body[y])
  BY <1>4, <1>5, <1>7 DEF Demanded, ToDo
<1>8. CASE \E c \in Marked' : z \in Range(program.virtual[c])
  BY <1>3, <1>5, <1>8 DEF Demanded
<1> QED BY <1>5, <1>6, <1>7, <1>8 DEF Demanded

LEMMA RefdPerform ==
  ASSUME IInv, HandedInv, VTablesInv, RefdInv, NEW x \in Specializations, NEW required \in BOOLEAN,
         NEW queue \in Seq(Specializations),
         Instantiate(x, kind[x], TRUE, required, stack, queue),
         Range(pendingInstantiations) \subseteq Range(queue) \cup {x},
         Range(pendingLocal) \subseteq Range(pendingLocal') \cup {x},
         Top.stage # "done", PatternsIn(file) \subseteq patterns,
         UNCHANGED <<program, file, patterns, kind, used, pointOfInstantiation, vtablesUsed,
                     vtableHandled>>
  PROVE  RefdInv'
<1>1. stack \in Seq(Frame)
  BY DEF IInv, TypeOK
<1>2. Keeps(x, kind[x], stack, queue, pendingLocal') /\ Reaches(x, TRUE, stack)
  BY <1>1, InstantiateKeeps
<1>3. x \notin patterns => x \in Hopeless
  BY DEF Hopeless, PatternsIn
<1>4. /\ tooDeep => tooDeep'
      /\ diagnosed \subseteq diagnosed' /\ diagnosed' \subseteq Hopeless
  BY <1>2, <1>3 DEF Keeps, RefdInv
<1>5. Owed \subseteq OwedIn(defined, Range(stack), queue, pendingLocal') \cup {x}
  BY DEF Owed, OwedIn
<1>6. OwedIn(defined, Range(stack), queue, pendingLocal') \subseteq Owed'
  BY <1>2 DEF Keeps, Owed
<1>7. \/ tooDeep'
      \/ x \in Owed' \cup diagnosed'
      \/ kind[x] # "explicit" /\ x \in Hopeless \cup LeftToOthers
  BY <1>2, <1>3 DEF Keeps, Owed, LeftToOthers
<1>8. \A y \in Specializations :
        y \in Owed => \/ tooDeep'
                      \/ y \in Owed' \cup diagnosed'
                      \/ kind[y] # "explicit" /\ y \in Hopeless \cup LeftToOthers
  BY <1>5, <1>6, <1>7
<1>9. ToDo \subseteq ToDo'
  BY <1>2 DEF Reaches, ToDo
<1>10. Demanded' \subseteq Demanded \cup ToDo'
  BY <1>2, DemandsOfCall
<1>11. Looked' = Looked
  BY DEF Looked
<1>12. CallsOK(program, patterns, file, Range(stack'), pendingInstantiations', pendingLocal')
  <2>1. CallsOK(program, patterns, file, Range(stack), pendingInstantiations, pendingLocal)
    BY DEF RefdInv
  <2>2. \A f \in Range(stack) : f.stage # "done"
    BY NoneIsDone
  <2>3. x # Parser
    BY SpecializationsAssumption
  <2>4. \A f \in Range(stack') :
          \/ f \in Range(stack)
          \/ f.of = x /\ f.stage = "body" /\ f.recursive = TRUE /\ x \in patterns
    BY <1>2 DEF Reaches
  <2> QED BY <2>1, <2>2, <2>3, <2>4 DEF CallsOK
<1> QED BY <1>4, <1>8, <1>9, <1>10, <1>11, <1>12, RefdKept

LEMMA RefdPerformLocal ==
  ASSUME TemplatesComeFirst(program), IInv, HandedInv, VTablesInv, RefdInv, PerformLocal
  PROVE  RefdInv'
<1>1. PICK x : x = Head(pendingLocal)
  OBVIOUS
<1>2. PICK required \in BOOLEAN : required = Required(x)
  BY DEF Required
<1>3. /\ pendingLocal # << >> /\ Top.stage \in {"local", "pending"} /\ pendingLocal' = Tail(pendingLocal)
      /\ Instantiate(x, kind[x], TRUE, required, stack, pendingInstantiations)
      /\ UNCHANGED <<program, file, patterns, kind, used, pointOfInstantiation, vtablesUsed,
                     vtableHandled>>
  BY <1>1, <1>2 DEF PerformLocal, fileVars, declVars
<1>4. pendingLocal \in Seq(Specializations) /\ pendingInstantiations \in Seq(Specializations)
  BY DEF IInv, TypeOK
<1>5. x \in Specializations
  BY <1>1, <1>3, <1>4, RangeFacts
<1>6. Range(pendingLocal) \subseteq Range(pendingLocal') \cup {x}
  BY <1>1, <1>3, <1>4, HeadOrTail
<1>7. PatternsIn(file) \subseteq patterns
  BY <1>3, NoTemplateToCome
<1>8. PICK queue \in Seq(Specializations) : queue = pendingInstantiations
  BY <1>4
<1>9. Instantiate(x, kind[x], TRUE, required, stack, queue)
  BY <1>3, <1>8
<1>10. Range(pendingInstantiations) \subseteq Range(queue) \cup {x}
  BY <1>8
<1>11. Top.stage # "done" /\ UNCHANGED <<program, file, patterns, kind, used, pointOfInstantiation,
                                        vtablesUsed, vtableHandled>>
  BY <1>3
<1> QED BY <1>5, <1>6, <1>7, <1>9, <1>10, <1>11, RefdPerform

LEMMA RefdPerformPending ==
  ASSUME TemplatesComeFirst(program), IInv, HandedInv, VTablesInv, RefdInv, PerformPending
  PROVE  RefdInv'
<1>1. PICK x : x = Head(pendingInstantiations)
  OBVIOUS
<1>2. PICK required \in BOOLEAN : required = Required(x)
  BY DEF Required
<1>3. PICK queue : queue = Tail(pendingInstantiations)
  OBVIOUS
<1>4. /\ pendingInstantiations # << >> /\ Top.stage = "pending" /\ pendingLocal' = pendingLocal
      /\ Instantiate(x, kind[x], TRUE, required, stack, queue)
      /\ UNCHANGED <<program, file, patterns, kind, used, pointOfInstantiation, vtablesUsed,
                     vtableHandled>>
  BY <1>1, <1>2, <1>3 DEF PerformPending, fileVars, declVars
<1>5. pendingInstantiations \in Seq(Specializations)
  BY DEF IInv, TypeOK
<1>6. x \in Specializations /\ queue \in Seq(Specializations)
  BY <1>1, <1>3, <1>4, <1>5, RangeFacts
<1>7. Range(pendingInstantiations) \subseteq Range(queue) \cup {x}
  BY <1>1, <1>3, <1>4, <1>5, HeadOrTail
<1>8. PatternsIn(file) \subseteq patterns
  BY <1>4, NoTemplateToCome
<1> QED BY <1>4, <1>6, <1>7, <1>8, RefdPerform

(* What the reference to x leaves is the rest of the code; x is queued or   *)
(* instantiated if it has to be.                                            *)
LEMMA RefdReferToSpecialization ==
  ASSUME TemplatesComeFirst(program), IInv, VTablesInv, RefdInv, ReferToSpecialization
  PROVE  RefdInv'
<1>1. /\ Top.code # << >> /\ Head(Top.code).kind = "use" /\ Head(Top.code).of \in Specializations
      /\ UNCHANGED <<program, file, patterns, kind, vtablesUsed, vtableHandled>>
  BY HeadFacts DEF ReferToSpecialization, Code, fileVars
<1>2. PICK x \in Specializations : x = Head(Top.code).of
  BY <1>1
<1>3. PICK calls : calls = Advanced
  OBVIOUS
<1>4. PICK at \in BOOLEAN : at <=> IsPending(x) /\ x \in program.constant /\ ~IsQueuedLocally(x)
  OBVIOUS
<1>5. /\ used' = used \/ used' = used \cup {x}
      /\ pointOfInstantiation' = IF IsPending(x) THEN pointOfInstantiation \cup {x} ELSE pointOfInstantiation
      /\ at => /\ Instantiate(x, kind[x], FALSE, FALSE, calls, pendingInstantiations)
               /\ pendingLocal' = pendingLocal
      /\ ~at => /\ stack' = calls /\ UNCHANGED <<defined, diagnosed, tooDeep>>
                /\ pendingLocal' = IF IsPending(x) /\ IsQueuedLocally(x)
                                     THEN Append(pendingLocal, x) ELSE pendingLocal
                /\ pendingInstantiations' =
                     IF IsPending(x) /\ ~IsQueuedLocally(x)
                       THEN Append(pendingInstantiations, x) ELSE pendingInstantiations
  BY <1>2, <1>3, <1>4 DEF ReferToSpecialization, resultVars
<1>6. PICK g \in Frame :
        /\ calls = Append(Front(stack), g)
        /\ SameCall(Top, g) /\ g.stage = Top.stage
        /\ Range(g.code) \subseteq Range(Top.code)
        /\ Range(Top.code) \subseteq {Head(Top.code)} \cup Range(g.code)
  BY <1>1, <1>3, AdvancedFacts
<1>7. /\ calls \in Seq(Frame) /\ Range(calls) = Callers \cup {g} /\ Range(stack) = Callers \cup {Top}
  BY <1>6, CallsOfStack
<1>8. /\ BodiesOf(Range(calls)) = BodiesOf(Range(stack)) /\ SavedOf(Range(calls)) = SavedOf(Range(stack))
      /\ CodeOf(Range(calls)) \subseteq CodeOf(Range(stack))
      /\ CodeOf(Range(stack)) \subseteq {Head(Top.code)} \cup CodeOf(Range(calls))
  <2>1. Adds(Range(calls), Callers, g) /\ Adds(Range(stack), Callers, Top)
    BY <1>7, CallSets
  <2>2. g.of = Top.of /\ g.recursive = Top.recursive /\ g.savedPending = Top.savedPending
    BY <1>6 DEF SameCall
  <2>3. CodeOf(Range(calls)) = CodeOf(Callers) \cup Range(g.code)
        /\ CodeOf(Range(stack)) = CodeOf(Callers) \cup Range(Top.code)
    BY <2>1 DEF Adds
  <2>4. BodiesOf(Range(calls)) = BodiesOf(Range(stack)) /\ SavedOf(Range(calls)) = SavedOf(Range(stack))
    BY <1>6, <2>1, <2>2 DEF Adds
  <2> QED BY <1>6, <2>3, <2>4
<1>9. pendingInstantiations \in Seq(Specializations) /\ pendingLocal \in Seq(Specializations)
  BY DEF IInv, TypeOK
<1>10. Owed = OwedIn(defined, Range(calls), pendingInstantiations, pendingLocal)
  BY <1>8 DEF Owed, OwedIn
<1>11. Hopeless' = Hopeless /\ LeftToOthers' = LeftToOthers
  BY <1>1 DEF Hopeless, LeftToOthers
<1>12. diagnosed \subseteq Hopeless
       /\ CallsOK(program, patterns, file, Range(stack), pendingInstantiations, pendingLocal)
  BY DEF RefdInv
<1>13. \A f \in Range(calls) : f.stage # "done" /\
         \E h \in Range(stack) : h.of = f.of /\ h.recursive = f.recursive /\ h.stage = f.stage
  <2>1. \A f \in Range(stack) : f.stage # "done"
    <3>1. Top.stage # "done"
      BY <1>1, HeadFacts
    <3> QED BY <3>1, NoneIsDone
  <2>2. g.of = Top.of /\ g.recursive = Top.recursive /\ g.stage = Top.stage
    BY <1>6 DEF SameCall
  <2> QED BY <1>7, <2>1, <2>2
<1>14. /\ Owed \subseteq Owed' /\ (tooDeep => tooDeep') /\ x \in Safe'
       /\ diagnosed \subseteq diagnosed' /\ diagnosed' \subseteq Hopeless
       /\ CodeOf(Range(calls)) \subseteq CodeOf(Range(stack'))
       /\ Demanded' \subseteq Demanded \cup ToDo'
       /\ CallsOK(program, patterns, file, Range(stack'), pendingInstantiations', pendingLocal')
  <2>1. CASE at
    <3>1. /\ Keeps(x, kind[x], calls, pendingInstantiations, pendingLocal)
          /\ Reaches(x, FALSE, calls)
      BY <1>5, <1>7, <1>9, <2>1, InstantiateKeeps
    <3>2. x \in program.constant /\ x \in patterns /\ x # Parser
      BY <1>4, <2>1, SpecializationsAssumption DEF TemplatesComeFirst, IInv, FileOK
    <3>3. Owed \subseteq Owed' /\ (tooDeep => tooDeep')
      BY <1>5, <1>10, <2>1, <3>1 DEF Keeps, Owed
    <3>4. diagnosed \subseteq diagnosed' /\ diagnosed' \subseteq Hopeless
      BY <1>12, <3>1, <3>2 DEF Keeps
    <3>5. x \in Safe'
      <4>1. \/ tooDeep'
            \/ x \in Owed' \cup diagnosed'
            \/ kind[x] = "extern" /\ x \notin program.inlined
        BY <1>5, <2>1, <3>1, <3>2 DEF Keeps, Owed
      <4> QED BY <1>11, <3>4, <4>1 DEF Safe, LeftToOthers
    <3>6. CodeOf(Range(calls)) \subseteq CodeOf(Range(stack'))
      BY <3>1 DEF Reaches
    <3>7. Demanded' \subseteq Demanded \cup ToDo'
      BY <1>1, <1>8, <3>1, DemandsOfCall
    <3>8. \A f \in Range(stack') :
            \/ f \in Range(calls)
            \/ f.of = x /\ f.stage = "body" /\ f.recursive = FALSE /\ x \in patterns
      BY <3>1 DEF Reaches
    <3>9. CallsOK(program, patterns, file, Range(stack'), pendingInstantiations', pendingLocal')
      BY <1>12, <1>13, <3>2, <3>8 DEF CallsOK, Early
    <3> QED BY <3>3, <3>4, <3>5, <3>6, <3>7, <3>9
  <2>2. CASE ~at
    <3>1. /\ Range(pendingLocal) \subseteq Range(pendingLocal')
          /\ Range(pendingInstantiations) \subseteq Range(pendingInstantiations')
          /\ IsPending(x) => x \in Range(pendingLocal') \cup Range(pendingInstantiations')
      <4>1. /\ Range(Append(pendingLocal, x)) = Range(pendingLocal) \cup {x}
            /\ Range(Append(pendingInstantiations, x)) = Range(pendingInstantiations) \cup {x}
        BY <1>9, RangeFacts
      <4> QED BY <1>5, <2>2, <4>1
    <3>2. Owed \subseteq Owed' /\ (tooDeep => tooDeep')
      BY <1>5, <1>10, <2>2, <3>1 DEF Owed, OwedIn
    <3>3. x \in Safe'
      <4>1. CASE IsPending(x)
        BY <3>1, <4>1 DEF Safe, Owed, OwedIn
      <4>2. CASE ~IsPending(x)
        <5>1. x \in Safe
          BY <4>2, NotPendingIsSafe
        <5> QED BY <1>11, <3>2, <5>1 DEF Safe
      <4> QED BY <4>1, <4>2
    <3>4. stack' = calls /\ defined' = defined
      BY <1>5, <2>2
    <3>5. Demanded' \subseteq Demanded
      <4>1. Marked' \subseteq Marked
        BY <1>1, <1>8, <3>4 DEF Marked
      <4> QED BY <1>1, <1>8, <3>4, <4>1 DEF Demanded
    <3>6. CallsOK(program, patterns, file, Range(stack'), pendingInstantiations', pendingLocal')
      BY <1>12, <1>13, <3>4 DEF CallsOK
    <3> QED BY <1>5, <1>12, <2>2, <3>2, <3>3, <3>4, <3>5, <3>6
  <2> QED BY <2>1, <2>2
<1>15. ToDo \subseteq Safe' \cup ToDo'
  <2> SUFFICES ASSUME NEW y \in ToDo, y # x PROVE y \in ToDo'
    BY <1>14
  <2>1. Ref("use", y) # Head(Top.code)
    BY <1>2 DEF Ref
  <2> QED BY <1>8, <1>14, <2>1 DEF ToDo
<1>16. Looked' \subseteq Looked \cup Safe'
  BY <1>1, <1>5, <1>14 DEF Looked
<1> QED BY <1>1, <1>14, <1>15, <1>16, RefdKept

-----------------------------------------------------------------------------
(* The file                                                                 *)

LEMMA RefdParseDefinition ==
  ASSUME IInv, RefdInv, NEW d, ParseDefinition(d)
  PROVE  RefdInv'
<1>1. /\ d \in file /\ d.kind \in {"pattern", "key"} /\ file' = file \ {d}
      /\ patterns' = IF d.kind = "pattern" THEN patterns \cup {d.of} ELSE patterns
      /\ UNCHANGED <<program, stack, pendingInstantiations, vtablesUsed, pendingLocal, kind,
                     pointOfInstantiation, used, defined, diagnosed, tooDeep, vtableHandled>>
  BY DEF ParseDefinition, queueVars, declVars, resultVars
<1>2. \A x : d # Explicit(x) /\ d # Ref("use", x)
  BY <1>1 DEF Explicit, Ref
<1>3. d.kind = "pattern" => d = Pattern(d.of)
  <2>1. d \in Reference \cup Declaration
    BY <1>1, FileFacts
  <2> QED BY <2>1 DEF Pattern, Reference, Declaration
<1>4. Hopeless \subseteq Hopeless'
  BY <1>1, <1>3 DEF Hopeless
<1>5. LeftToOthers \subseteq Safe' /\ diagnosed' \subseteq Hopeless'
  BY <1>1, <1>4 DEF LeftToOthers, Safe, RefdInv
<1>6. Owed' = Owed /\ ToDo' = ToDo /\ Looked' = Looked /\ Marked' = Marked
  BY <1>1 DEF Owed, ToDo, Looked, Marked
<1>7. Demanded' \subseteq Demanded
  BY <1>1, <1>2, <1>6 DEF Demanded
<1>8. CallsOK(program, patterns', file', Range(stack'), pendingInstantiations', pendingLocal')
  <2>1. CallsOK(program, patterns, file, Range(stack), pendingInstantiations, pendingLocal)
    BY DEF RefdInv
  <2>2. patterns \subseteq patterns' /\ PatternsIn(file') \subseteq PatternsIn(file)
    BY <1>1 DEF PatternsIn
  <2>3. file = {} => file' = {}
    BY <1>1
  <2>4. CallsOK(program, patterns', file', Range(stack), pendingInstantiations, pendingLocal)
    BY <2>1, <2>2, <2>3 DEF CallsOK
  <2> QED BY <1>1, <2>4
<1>9. \A x \in Specializations : Explicit(x) \in file => Explicit(x) \in file'
  BY <1>1, <1>2
<1> QED BY <1>1, <1>4, <1>5, <1>6, <1>7, <1>8, <1>9, RefdStep

(* A definition that is not required is not missed.                         *)
LEMMA UnrequiredIsNotDiagnosed ==
  ASSUME NEW x, NEW as, NEW recursive, NEW calls, NEW queue,
         Instantiate(x, as, recursive, FALSE, calls, queue)
  PROVE  diagnosed' = diagnosed
<1>1. PICK outcome : outcome = Outcome(x, as, FALSE, Len(calls))
  OBVIOUS
<1>2. outcome # "diagnose"
  <2>1. CASE IsFinished(x)
    BY <1>1, <2>1 DEF Outcome
  <2>2. CASE ~IsFinished(x) /\ x \in patterns \cap program.late /\ ~lateTemplateParser
    BY <1>1, <2>2 DEF Outcome
  <2>3. CASE ~IsFinished(x) /\ x \notin patterns
    BY <1>1, <2>3 DEF Outcome
  <2>4. CASE ~IsFinished(x) /\ x \in patterns /\ ~(x \in program.late /\ ~lateTemplateParser)
    BY <1>1, <2>4 DEF Outcome
  <2> QED BY <2>1, <2>2, <2>3, <2>4
<1> QED BY <1>1, <1>2 DEF Instantiate

(* Explicit instantiations are of kind "explicit" from here on.             *)
LEMMA RefdParseExplicitInstantiation ==
  ASSUME IInv, VTablesInv, RefdInv, NEW d, ParseExplicitInstantiation(d)
  PROVE  RefdInv'
<1>1. /\ Top.stage = "body" /\ d \in file /\ d.kind \in {"extern", "explicit"} /\ file' = file \ {d}
      /\ UNCHANGED <<program, patterns, vtablesUsed, pendingLocal, used, vtableHandled>>
  BY DEF ParseExplicitInstantiation, Parsing
<1>2. PICK x \in Specializations : x = d.of
  BY <1>1, FileFacts
<1>3. PICK new \in {"extern", "explicit"} : new = d.kind
  BY <1>1
<1>4. d = [kind |-> new, of |-> x]
  <2>1. d \in Reference \cup Declaration
    BY <1>1, FileFacts
  <2> QED BY <1>2, <1>3, <2>1 DEF Reference, Declaration
<1>5. \A y \in Specializations : d # Ref("use", y) /\ d # Pattern(y) /\ (d = Explicit(y) => new = "explicit" /\ y = x)
  BY <1>4 DEF Ref, Pattern, Explicit
<1>6. /\ \A y \in Specializations : Ref("use", y) \in file => Ref("use", y) \in file'
      /\ \A y \in Specializations :
           Explicit(y) \in file => Explicit(y) \in file' \/ (new = "explicit" /\ y = x)
      /\ Hopeless' = Hopeless /\ PatternsIn(file') = PatternsIn(file)
  BY <1>1, <1>5 DEF Hopeless, PatternsIn
<1>7. kind \in [Specializations -> {"implicit", "extern", "explicit"}]
  BY DEF IInv, TypeOK
<1>8. /\ \A f \in Range(stack) : f.stage # "done"
      /\ CallsOK(program, patterns, file, Range(stack), pendingInstantiations, pendingLocal)
      /\ file = {} => file' = {}
  BY <1>1, NoneIsDone DEF RefdInv
<1>9. CASE /\ UNCHANGED <<stack, pendingInstantiations, defined, diagnosed, tooDeep>>
           /\ \/ kind' = kind /\ pointOfInstantiation' = pointOfInstantiation /\ kind[x] = "explicit"
              \/ /\ new = "extern" /\ kind[x] # "explicit" /\ kind' = [kind EXCEPT ![x] = "extern"]
                 /\ pointOfInstantiation' = pointOfInstantiation \cup {x}
  <2>1. /\ \A y \in Specializations : /\ kind[y] = "explicit" <=> kind'[y] = "explicit"
                                      /\ kind'[y] = "implicit" => kind[y] = "implicit"
                                      /\ kind[y] = "extern" => kind'[y] = "extern"
        /\ \A y \in Specializations :
             y \in pointOfInstantiation' /\ kind'[y] = "implicit" => y \in pointOfInstantiation
        /\ new = "explicit" => kind'[x] = "explicit"
    BY <1>3, <1>7, <1>9
  <2>2. LeftToOthers \subseteq Safe'
    BY <1>1, <2>1 DEF LeftToOthers, Safe
  <2>3. Owed' = Owed /\ ToDo' = ToDo /\ Marked' = Marked
    BY <1>1, <1>9 DEF Owed, ToDo, Marked
  <2>4. Looked' \subseteq Looked
    <3>1. pointOfInstantiation' \subseteq Specializations
      BY <1>9 DEF IInv, TypeOK
    <3> QED BY <1>1, <2>1, <3>1 DEF Looked
  <2>5. Demanded' \subseteq Demanded
    BY <1>1, <1>6, <1>9, <2>3 DEF Demanded
  <2>6. CallsOK(program, patterns', file', Range(stack'), pendingInstantiations', pendingLocal')
    BY <1>1, <1>6, <1>8, <1>9 DEF CallsOK
  <2>7. diagnosed' \subseteq Hopeless' /\ Hopeless \subseteq Hopeless' /\ diagnosed \subseteq diagnosed'
    BY <1>6, <1>9 DEF RefdInv
  <2>8. \A y \in Specializations : Explicit(y) \in file => Explicit(y) \in file' \/ kind'[y] = "explicit"
    BY <1>6, <2>1
  <2> QED BY <1>1, <1>9, <2>1, <2>2, <2>3, <2>4, <2>5, <2>6, <2>7, <2>8, RefdStep
<1>10. CASE /\ Instantiate(x, "explicit", FALSE, FALSE, stack, pendingInstantiations)
            /\ new = "explicit" /\ kind[x] # "explicit" /\ kind' = [kind EXCEPT ![x] = "explicit"]
            /\ pointOfInstantiation' = pointOfInstantiation \cup {x}
  <2>1. stack \in Seq(Frame) /\ pendingInstantiations \in Seq(Specializations)
    BY DEF IInv, TypeOK
  <2>2. /\ Keeps(x, "explicit", stack, pendingInstantiations, pendingLocal)
        /\ Reaches(x, FALSE, stack)
    BY <1>10, <2>1, InstantiateKeeps
  <2>3. diagnosed' = diagnosed
    BY <1>10, UnrequiredIsNotDiagnosed
  <2>4. /\ Owed \subseteq Owed' /\ (tooDeep => tooDeep')
        /\ tooDeep' \/ x \in Owed' \cup diagnosed'
    BY <1>1, <2>2 DEF Keeps, Owed
  <2>5. /\ kind'[x] = "explicit"
        /\ \A y \in Specializations : y # x => kind'[y] = kind[y]
    BY <1>7, <1>10
  <2>6. diagnosed' \subseteq Hopeless' /\ Hopeless \subseteq Hopeless'
    BY <1>6, <2>3 DEF RefdInv
  <2>7. x \in Safe'
    BY <2>4, <2>6 DEF Safe
  <2>8. LeftToOthers \subseteq Safe'
    BY <1>1, <2>5, <2>7 DEF LeftToOthers, Safe
  <2>9. ToDo \subseteq ToDo'
    BY <2>2 DEF Reaches, ToDo
  <2>10. Demanded' \subseteq Demanded \cup ToDo'
    BY <1>1, <1>6, <2>2, DemandsOfCall
  <2>11. Looked' \subseteq Looked
    <3>1. pointOfInstantiation' \subseteq Specializations
      BY <1>10 DEF IInv, TypeOK
    <3> QED BY <1>1, <1>10, <2>5, <3>1 DEF Looked
  <2>12. CallsOK(program, patterns', file', Range(stack'), pendingInstantiations', pendingLocal')
    <3>1. \A f \in Range(stack') :
            \/ f \in Range(stack)
            \/ f.of = x /\ f.stage = "body" /\ f.recursive = FALSE /\ x \in patterns
      BY <2>2 DEF Reaches
    <3>2. x \in Early(program) /\ x # Parser
      <4>1. d = Explicit(x) /\ d \in program.file
        BY <1>1, <1>4, <1>10 DEF Explicit, IInv, FileOK
      <4> QED BY <4>1, SpecializationsAssumption DEF Early, ExplicitIn
    <3> QED BY <1>1, <1>6, <1>8, <3>1, <3>2 DEF CallsOK
  <2>13. /\ \A y \in Specializations : Explicit(y) \in file => Explicit(y) \in file' \/ kind'[y] = "explicit"
         /\ \A y \in Specializations : kind[y] = "explicit" => kind'[y] = "explicit"
         /\ \A y \in Specializations :
              kind'[y] = "explicit" => kind[y] = "explicit" \/ tooDeep' \/ y \in Owed' \cup diagnosed'
    BY <1>6, <2>4, <2>5
  <2> QED BY <1>1, <2>3, <2>4, <2>6, <2>8, <2>9, <2>10, <2>11, <2>12, <2>13, RefdStep
<1>11. /\ kind[x] = "explicit" => UNCHANGED <<kind, pointOfInstantiation, stack, queueVars, resultVars>>
       /\ kind[x] # "explicit" =>
            /\ kind' = [kind EXCEPT ![x] = new]
            /\ pointOfInstantiation' = pointOfInstantiation \cup {x}
            /\ new = "extern" => UNCHANGED <<stack, queueVars, resultVars>>
            /\ new # "extern" => Instantiate(x, "explicit", FALSE, FALSE, stack, pendingInstantiations)
  BY <1>2, <1>3 DEF ParseExplicitInstantiation
<1> QED BY <1>3, <1>9, <1>10, <1>11 DEF queueVars, resultVars

-----------------------------------------------------------------------------
(* From the beginning to the end of the unit                                *)

LEMMA RefdInit == Init => RefdInv
<1> SUFFICES ASSUME Init PROVE RefdInv
  OBVIOUS
<1>1. PICK g : g = NewFrame(Parser, << >>, FALSE)
  OBVIOUS
<1>2. /\ file = program.file /\ stack = <<g>> /\ vtablesUsed = [c \in Classes |-> "no"]
      /\ pendingInstantiations = << >> /\ pendingLocal = << >>
      /\ pointOfInstantiation = {} /\ used = {} /\ kind = [x \in Specializations |-> "implicit"]
      /\ defined = {} /\ diagnosed = {} /\ vtableHandled = [c \in Classes |-> "no"]
  BY <1>1 DEF Init
<1>3. g.of = Parser /\ g.stage = "body" /\ g.code = << >> /\ g.recursive = FALSE
  BY <1>1 DEF NewFrame
<1>4. Range(stack) = {g}
  BY <1>2 DEF Range
<1>5. CodeOf({g}) = {} /\ BodiesOf({g}) = {Parser}
  <2>1. Range(<< >>) = {}
    BY DEF Range
  <2> QED BY <1>3, <2>1 DEF CodeOf, BodiesOf
<1>6. Parser \notin Specializations
  BY SpecializationsAssumption
<1>7. Marked = {}
  BY <1>2, <1>4, <1>5 DEF Marked
<1>8. Demanded = {} /\ Looked = {}
  <2>1. BodiesOf(Range(stack)) = {Parser}
    BY <1>4, <1>5
  <2>2. program.file \ file = {} /\ (defined \cup BodiesOf(Range(stack))) \cap Specializations = {}
    BY <1>2, <1>6, <2>1
  <2>3. Demanded = {}
    BY <1>7, <2>2 DEF Demanded
  <2> QED BY <1>2, <2>3 DEF Looked
<1>9. ExplicitOK
  BY <1>2 DEF ExplicitOK, ExplicitIn
<1>10. CallsOK(program, patterns, file, {g}, pendingInstantiations, pendingLocal)
  BY <1>3 DEF CallsOK
<1> QED BY <1>2, <1>4, <1>8, <1>9, <1>10 DEF RefdInv

LEMMA RefdUnchanged == RefdInv /\ UNCHANGED vars => RefdInv'
<1> SUFFICES ASSUME RefdInv, UNCHANGED vars PROVE RefdInv'
  OBVIOUS
<1>1. UNCHANGED <<program, file, patterns, stack, pendingInstantiations, pendingLocal, vtablesUsed,
                  pointOfInstantiation, used, kind, defined, diagnosed, tooDeep, vtableHandled>>
  BY DEF vars, fileVars, queueVars, declVars, resultVars
<1>2. Owed' = Owed /\ Marked' = Marked /\ Hopeless' = Hopeless /\ LeftToOthers' = LeftToOthers
  BY <1>1 DEF Owed, Marked, Hopeless, LeftToOthers
<1>3. Safe' = Safe /\ ToDo' = ToDo /\ Demanded' = Demanded /\ Looked' = Looked
  BY <1>1, <1>2 DEF Safe, ToDo, Demanded, Looked
<1>4. ExplicitOK'
  BY <1>1, <1>2 DEF RefdInv, ExplicitOK
<1> QED BY <1>1, <1>2, <1>3, <1>4 DEF RefdInv

LEMMA RefdNext ==
  TemplatesComeFirst(program) /\ IInv /\ HandedInv /\ VTablesInv /\ RefdInv /\ [Next]_vars => RefdInv'
<1> SUFFICES ASSUME TemplatesComeFirst(program), IInv, HandedInv, VTablesInv, RefdInv, [Next]_vars
             PROVE  RefdInv'
  OBVIOUS
<1>1. CASE UNCHANGED vars
  BY <1>1, RefdUnchanged
<1>2. CASE Next
  <2>1. ASSUME NEW d \in file,
               ParseReference(d) \/ ParseDefinition(d) \/ ParseExplicitInstantiation(d)
        PROVE  RefdInv'
    BY <2>1, RefdParseReference, RefdParseDefinition, RefdParseExplicitInstantiation
  <2> QED BY <1>2, <2>1, RefdReferToVTable, RefdReferToVirtualMember, RefdReferToSpecialization,
             RefdFinishBody, RefdPerformLocal, RefdPerformPending, RefdLeaveScope, RefdReturn,
             RefdDefineUsedVTable, RefdHandleVTable, RefdFinishVTables, RefdEndOfProgram,
             RefdFinishProgram DEF Next
<1> QED BY <1>1, <1>2

(* At the end nothing is left to do.                                        *)
LEMMA OwedAtEnd ==
  ASSUME IInv, VTablesInv, RefdInv, Done
  PROVE  Owed = defined /\ ToDo = {} /\ file = {}
<1>1. /\ Len(stack) \in Nat \ {0} /\ stack[Len(stack)] = Top /\ Top.stage = "done"
      /\ Top.code = << >>
  BY TopFacts DEF Done
<1>2. Len(stack) = 1
  <2>1. DoneOK(stack, vtableUses) /\ Len(stack) \in 1 .. Len(stack)
    BY <1>1 DEF VTablesInv, VTablesAt
  <2> QED BY <1>1, <2>1 DEF DoneOK
<1>3. Range(stack) = {Top}
  <2>1. DOMAIN stack = 1 .. Len(stack)
    BY DEF IInv, StackOK
  <2>2. \A i \in 1 .. 1 : i = 1
    OBVIOUS
  <2>3. \A i \in DOMAIN stack : stack[i] = Top
    BY <1>1, <1>2, <2>1, <2>2
  <2>4. 1 \in DOMAIN stack
    BY <1>2, <2>1
  <2> QED BY <2>3, <2>4 DEF Range
<1>4. PICK f : f = Top /\ f.of = Parser /\ f.stage = "done" /\ f.code = << >>
  BY <1>1, <1>2, TopFacts
<1>5. ~f.recursive /\ file = {} /\ pendingInstantiations = << >> /\ pendingLocal = << >>
  BY <1>3, <1>4 DEF RefdInv, CallsOK
<1>6. Range(<< >>) = {}
  BY DEF Range
<1>7. CodeOf({f}) = {} /\ BodiesOf({f}) = {} /\ SavedOf({f}) = {}
  BY <1>4, <1>5, <1>6 DEF CodeOf, BodiesOf, SavedOf
<1> QED BY <1>3, <1>4, <1>5, <1>6, <1>7 DEF Owed, OwedIn, ToDo

LEMMA ReferencedIsDemanded ==
  ASSUME IInv, UsedVTablesAreHandled, Done, file = {}, NEW x \in Specializations, IsReferenced(x)
  PROVE  x \in Demanded \cup ExplicitIn(program)
<1>1. program \in Programs /\ defined \subseteq Specializations
  BY DEF IInv, TypeOK
<1>2. x \notin Classes /\ \A y \in defined : y \notin Classes
  BY <1>1, SpecializationsAssumption
<1>3. \A r \in Reference : r.kind = "use" => r = Ref("use", r.of)
  BY DEF Reference, Ref
<1>4. CASE x \in InFile({"use", "explicit"})
  <2>1. PICK d \in program.file : d.kind \in {"use", "explicit"} /\ d.of = x
    BY <1>4 DEF InFile
  <2>2. d \in Reference \cup Declaration
    BY <1>1, <2>1, ProgramFacts
  <2>3. d = Ref("use", x) \/ d = Explicit(x)
    BY <2>1, <2>2 DEF Reference, Declaration, Ref, Explicit
  <2> QED BY <2>1, <2>3 DEF Demanded, ExplicitIn
<1>5. CASE \E y \in defined : x \in Mentions(y)
  <2>1. PICK y \in defined : x \in Mentions(y)
    BY <1>5
  <2>2. PICK body \in Seq(Reference) : body = program.body[y]
    BY <1>1, ProgramFacts
  <2>3. x \in UsedIn(body) \/ x \in VTablesIn(body) \/ (y \in Subprograms /\ x \in program.parent[y])
    BY <1>2, <2>1, <2>2 DEF Mentions
  <2>4. y \in Subprograms => x \notin program.parent[y]
    BY <1>1, <1>2, ProgramFacts
  <2>5. Range(body) \subseteq Reference
    BY RangeFacts
  <2>6. x \notin VTablesIn(body)
    BY <1>2, <2>5 DEF VTablesIn, Reference
  <2>7. Ref("use", x) \in Range(body)
    BY <1>3, <2>3, <2>4, <2>5, <2>6 DEF UsedIn
  <2> QED BY <1>1, <2>1, <2>2, <2>7 DEF Demanded
<1>6. CASE \E c \in Used : x \in Mentions(c)
  <2>1. PICK c \in Classes : vtablesUsed[c] # "no" /\ x \in Mentions(c)
    BY <1>6 DEF Used
  <2>2. x \in Range(program.virtual[c]) /\ (BelongsHere(c) \/ c \in program.local)
    BY <2>1 DEF Mentions
  <2>3. c \in Marked
    BY <2>1, <2>2 DEF UsedVTablesAreHandled, Marked
  <2> QED BY <2>2, <2>3 DEF Demanded
<1> QED BY <1>4, <1>5, <1>6 DEF IsReferenced

(* Where no template comes too late, all that the unit refers to is defined *)
(* at its end: what code, a vtable or an explicit instantiation asks for is *)
(* in a queue, in one that a recursive call has put aside, or in progress   *)
(* until it is defined, unless the limit of the depth is reached, the       *)
(* template is missing or the definition is left to another unit.           *)
THEOREM ReferencedCorrect ==
  ASSUME \A p \in Programs : TemplatesComeFirst(p)
  PROVE  Spec => []ReferencedIsDefined
<1>1. IInv /\ VTablesInv /\ RefdInv /\ UsedVTablesAreHandled => ReferencedIsDefined
  <2> SUFFICES ASSUME IInv, VTablesInv, RefdInv, UsedVTablesAreHandled, Done, ~tooDeep,
                      NEW x \in Specializations
               PROVE  /\ IsReferenced(x) /\ Definable(x) => x \in defined
                      /\ kind[x] = "explicit" => x \in defined \cup diagnosed
    BY DEF ReferencedIsDefined
  <2>1. Owed = defined /\ ToDo = {} /\ file = {}
    BY OwedAtEnd
  <2>2. kind[x] = "explicit" => x \in defined \cup diagnosed
    BY <2>1 DEF RefdInv, ExplicitOK
  <2>3. Definable(x) => x \notin Hopeless \cup LeftToOthers
    BY DEF Definable, Hopeless, LeftToOthers
  <2>4. x \in Demanded /\ Definable(x) => x \in defined
    BY <2>1, <2>3 DEF RefdInv, Safe
  <2>5. x \in ExplicitIn(program) /\ Definable(x) => x \in defined
    BY <2>1, <2>2, <2>3 DEF RefdInv, ExplicitOK
  <2>6. IsReferenced(x) => x \in Demanded \cup ExplicitIn(program)
    BY <2>1, ReferencedIsDemanded
  <2> QED BY <2>2, <2>4, <2>5, <2>6
<1>2. Spec => [](IInv /\ HandedInv)
  BY Invariance, HandedInit, HandedNext, PTL DEF Spec
<1>3. Spec => []VTablesInv
  BY <1>2, VTablesInit, VTablesNext, PTL DEF Spec
<1>4. IInv /\ HandedInv /\ VTablesInv /\ RefdInv /\ [Next]_vars => RefdInv'
  BY RefdNext DEF IInv, TypeOK
<1>5. Spec => []RefdInv
  BY <1>2, <1>3, <1>4, RefdInit, PTL DEF Spec
<1> QED BY <1>1, <1>2, <1>3, <1>5, UsedVTablesCorrect, PTL
=============================================================================
