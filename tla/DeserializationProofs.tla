------------------------ MODULE DeserializationProofs ------------------------
(***************************************************************************)
(* Proofs about Deserialization, for any AST files, however their records, *)
(* macros and bodies mention each other, and for any order of requests.    *)
(*                                                                         *)
(* Each call of the reader is on the stack.  The base of all proofs is     *)
(* which call may be on top of which (StackInv) and the form each step has *)
(* as a change of the stack (StepForms).  The last part is about chains of *)
(* redeclarations without modules: every declaration that has been         *)
(* deserialized is in the list of a call that links it, or its chain waits *)
(* in the queue and has not been looked for (LinkInv).                     *)
(***************************************************************************)
EXTENDS DeserializationProperties, SequenceLemmas, FiniteSetTheorems, TLAPS

-----------------------------------------------------------------------------
(* The calls in progress                                                    *)

(* The calls in which nothing is half loaded; the others are on top of them. *)
BaseKinds == {"start", "pass", "handle", "body"}

(* The calls that NumCurrentElementsDeserializing counts.                   *)
CountedKinds == {"record", "identifier", "finish"}

Counted(s) == {i \in 1 .. Len(s) : s[i].kind \in CountedKinds}

(* What a call holds, whatever is below it.                                 *)
CallOK(f, S) ==
  /\ f.kind \in {"record", "handle", "body"} => f.decl \in Decls \ Parsed /\ f.decl \in S
  /\ f.kind \in {"finish", "pass"} => f.decl \notin Parsed
  /\ f.kind \in {"identifier", "start"} => f.decl = NoDecl
  /\ f.kind \in {"scope", "chain", "start"} => f.todo \subseteq Decls
  /\ f.kind = "macro" => f.todo \subseteq Names
  /\ f.current \in S \cup {NoDecl} /\ f.chain \subseteq S
  /\ f.guarded => f.kind = "pass"
  /\ f.index # 0

(* Which calls make which.                                                  *)
PlaceOK(s, i) ==
  /\ s[i].kind \in BaseKinds \cup {"finish"} => \A j \in 1 .. i - 1 : s[j].kind \in BaseKinds
  /\ s[i].kind \in {"scope", "chain", "macro"} =>
       /\ i # 1 /\ s[i - 1].kind = "finish"
       /\ s[i - 1].stage = CASE s[i].kind = "scope" -> "names"
                             [] s[i].kind = "chain" -> "chains"
                             [] s[i].kind = "macro" -> "macros"
  /\ s[i].kind = "finish" /\ i # Len(s) => s[i + 1].kind \in {"scope", "chain", "macro"}
  /\ s[i].kind = "start" => i = 1
  /\ s[i].kind = "handle" => i # 1 /\ s[i - 1].kind = "pass"
  /\ s[i].kind = "body" => i = 1 \/ s[i - 1].kind = "handle"
  /\ s[i].guarded => \A j \in i + 1 .. Len(s) : s[j].kind # "pass"

StackOK(s, S) == \A i \in 1 .. Len(s) : CallOK(s[i], S) /\ PlaceOK(s, i)

StackInv ==
  /\ StackOK(stack, loaded)
  /\ count = Cardinality(Counted(stack))
  /\ passing <=> \E i \in 1 .. Len(stack) : stack[i].guarded

(* What the parser has made is there from the start.                        *)
ParsedInv ==
  /\ Parsed \subseteq loaded /\ Parsed \cap (bodies \ bodiesRead) = {}
  /\ Parsed \cap pendingBodies = {} /\ Range(interesting) \subseteq loaded \ Parsed

(* The entry of a name stays in the queue while it is worked on.            *)
ScopeInv == \A i \in 1 .. Len(stack) : stack[i].kind = "scope" => pendingNames # << >>

(* Nothing waits when nothing is being loaded, or while bodies are set.     *)
QueuesInv ==
  /\ count = 0 => pendingBodies = {}
  /\ count = 0 \/ At("finish", "bodies") =>
       pendingNames = << >> /\ pendingMacros = << >> /\ pendingChains = << >>

-----------------------------------------------------------------------------
(* What the consumer gets                                                   *)

IsReading(f, d) == f.kind = "record" /\ f.stage # "done" /\ f.decl = d

Reading(s, d) == \E i \in 1 .. Len(s) : IsReading(s[i], d)

(* Somebody is there to pass what is waiting.                               *)
PassedLater ==
  consumer /\ interesting # << >> =>
    \E i \in 1 .. Len(stack) : stack[i].kind \in CountedKinds \cup {"pass", "start"}

InterestingInv ==
  /\ \A d \in Decls : handled[d] <= 1
  /\ \A d \in Decls : d \in Range(interesting) => handled[d] = 0
  /\ \A d \in Decls : Reading(stack, d) => handled[d] = 0 /\ d \notin Range(interesting)
  /\ \A d \in Decls : handled[d] # 0 => d \in loaded
  /\ \A i, j \in 1 .. Len(interesting) : interesting[i] = interesting[j] => i = j
  /\ \A i, j \in 1 .. Len(stack) : \A d \in Decls :
       IsReading(stack[i], d) /\ IsReading(stack[j], d) => i = j
  /\ \A d \in FromFiles \cap program.interesting :
       handled[d] = 1 \/ d \in Range(interesting) \/ Reading(stack, d)
  /\ PassedLater

-----------------------------------------------------------------------------
(* Where the cursors are                                                    *)

(* A call that jumps back in the file f when it returns.                    *)
Saves(p, g, f) ==
  g.kind \in {"record", "finish", "pass"} /\ g.decl # NoDecl /\ p.file[g.decl] = f

Savers(p, s, i, f) == {j \in i + 1 .. Len(s) : Saves(p, s[j], f)}

(* A place where the body of the call i may find the cursor of its file.    *)
GoodPlace(p, s, R, i, d) ==
  \/ d = s[i].decl
  \/ d \in p.eager \cap R /\ \A j \in 1 .. i : ~s[j].guarded

PlacesOK(p, s, R, c, i) ==
  LET f == p.file[s[i].decl]
      S == Savers(p, s, i, f)
  IN  /\ S = {} => GoodPlace(p, s, R, i, c[f])
      /\ \A j \in S : (\A k \in S : j <= k) => GoodPlace(p, s, R, i, s[j].place)

CursorsInv ==
  \A i \in 1 .. Len(stack) :
    stack[i].kind = "body" => PlacesOK(program, stack, bodiesRead, cursor, i)

-----------------------------------------------------------------------------
(* What lookup finds                                                        *)

(* d is still to be made visible by a call or an entry of the queue.        *)
Awaited(s, q, d) ==
  \/ \E i \in 1 .. Len(s) : s[i].kind = "scope" /\ d \in s[i].todo \cup {s[i].current}
  \/ \E k \in 1 .. Len(q) :
       /\ d \in q[k].decls
       /\ k = 1 => \A i \in 1 .. Len(s) : s[i].kind # "scope"

Findable(d) == d \in (IF sema THEN resolver ELSE preloaded)

Listed(n) == {d \in program.visible \cap InFiles(files) : program.name[d] = n}

NamesInv ==
  \A n \in namesRead \ outOfDate : \A d \in Listed(n) :
    Findable(d) \/ Awaited(stack, pendingNames, d)
-----------------------------------------------------------------------------
(* Stacks                                                                   *)

(* A call goes on: only what it has still to do changes.                    *)
SameCall(f, g) ==
  /\ g.kind = f.kind /\ g.decl = f.decl /\ g.guarded = f.guarded /\ g.place = f.place
  /\ g.stage = "done" <=> f.stage = "done"

Turn(s, t, S) ==
  \/ t = s
  \/ s # << >> /\ \E g \in Frame : SameCall(Last(s), g) /\ CallOK(g, S) /\ t = Append(Front(s), g)

LEMMA CallOKGrows ==
  ASSUME NEW f, NEW S, NEW T, S \subseteq T, CallOK(f, S)
  PROVE  CallOK(f, T)
BY DEF CallOK

(* The top of the stack becomes another call.                               *)
LEMMA StackReplaced ==
  ASSUME NEW s \in Seq(Frame), s # << >>, NEW g \in Frame, NEW t, t = Append(Front(s), g),
         NEW S \in SUBSET Decls, StackOK(s, S), CallOK(g, S),
         \/ g.kind = Last(s).kind /\ g.guarded = Last(s).guarded
         \/ /\ g.kind \in {"finish", "pass"}
            /\ \A i \in 1 .. Len(s) - 1 : s[i].kind \in BaseKinds
            /\ g.kind = "pass" => \A i \in 1 .. Len(s) - 1 : ~s[i].guarded
  PROVE  StackOK(t, S)
<1> DEFINE n == Len(s)
<1>1. IsReplaced(Frame, t, s, g)
  BY ElementReplaced, Zenon
<1>2. /\ t \in Seq(Frame) /\ Len(t) = n /\ n \in Nat \ {0} /\ t[n] = g /\ Last(s) = s[n]
      /\ \A i \in 1 .. n : i # n => t[i] = s[i]
  BY <1>1 DEF IsReplaced
<1>3. \A i \in 1 .. n : CallOK(s[i], S) /\ PlaceOK(s, i)
  BY DEF StackOK
<1> SUFFICES ASSUME NEW i \in 1 .. n PROVE CallOK(t[i], S) /\ PlaceOK(t, i)
  BY <1>2 DEF StackOK
<1>4. CallOK(t[i], S)
  BY <1>2, <1>3
<1>5. CASE i # n
  <2>1. t[i] = s[i] /\ i - 1 \in 0 .. n - 1 /\ i \in 1 .. n - 1
    BY <1>2, <1>5
  <2>2. \A j \in 1 .. i - 1 : t[j] = s[j]
    BY <1>2, <2>1
  <2>3. i # 1 => t[i - 1] = s[i - 1]
    <3>1. i # 1 => i - 1 \in 1 .. n /\ i - 1 # n
      BY <1>2, <2>1
    <3> QED BY <1>2, <3>1
  <2>4. CASE g.kind = Last(s).kind /\ g.guarded = Last(s).guarded
    <3>1. \A j \in 1 .. n : t[j].kind = s[j].kind
      BY <1>2, <2>4
    <3>2. \A j \in i + 1 .. n : j \in 1 .. n
      BY <1>2
    <3>3. i + 1 \in 1 .. n
      BY <1>2, <2>1
    <3> QED BY <1>2, <1>3, <2>1, <2>2, <2>3, <3>1, <3>2, <3>3 DEF PlaceOK
  <2>5. CASE /\ g.kind \in {"finish", "pass"}
             /\ \A j \in 1 .. n - 1 : s[j].kind \in BaseKinds
             /\ g.kind = "pass" => \A j \in 1 .. n - 1 : ~s[j].guarded
    <3>1. s[i].kind \in BaseKinds
      BY <2>1, <2>5
    <3>2. s[i].kind # "finish" /\ s[i].kind \notin {"scope", "chain", "macro"}
      BY <3>1 DEF BaseKinds
    <3>3. s[i].guarded => \A j \in i + 1 .. n : t[j].kind # "pass"
      <4> SUFFICES ASSUME s[i].guarded, NEW j \in i + 1 .. n PROVE t[j].kind # "pass"
        OBVIOUS
      <4>1. g.kind # "pass"
        BY <2>1, <2>5
      <4>2. j \in 1 .. n /\ \A k \in i + 1 .. n : s[k].kind # "pass"
        BY <1>2, <1>3 DEF PlaceOK
      <4> QED BY <1>2, <4>1, <4>2
    <3> QED BY <1>2, <1>3, <2>1, <2>2, <2>3, <3>2, <3>3 DEF PlaceOK
  <2> QED BY <2>4, <2>5
<1>6. CASE i = n
  <2>1. \A j \in 1 .. n - 1 : t[j] = s[j]
    BY <1>2
  <2>2. n # 1 => t[n - 1] = s[n - 1]
    BY <1>2, <2>1
  <2>3. CASE g.kind = Last(s).kind /\ g.guarded = Last(s).guarded
    <3>1. PlaceOK(s, n)
      BY <1>2, <1>3
    <3>2. \A j \in n + 1 .. n : FALSE
      BY <1>2
    <3> QED BY <1>2, <1>6, <2>1, <2>2, <2>3, <3>1, <3>2 DEF PlaceOK
  <2>4. CASE /\ g.kind \in {"finish", "pass"}
             /\ \A j \in 1 .. n - 1 : s[j].kind \in BaseKinds
    <3>1. \A j \in n + 1 .. n : FALSE
      BY <1>2
    <3> QED BY <1>2, <1>6, <2>1, <2>4, <3>1 DEF PlaceOK
  <2> QED BY <2>3, <2>4
<1> QED BY <1>4, <1>5, <1>6

(* What may be put on top of what.                                          *)
MayCall(s, g) ==
  /\ g.kind \in {"record", "identifier", "scope", "chain", "macro", "handle", "body", "start"}
  /\ ~g.guarded
  /\ g.kind \in {"record", "identifier"} => s = << >> \/ Last(s).kind # "finish"
  /\ g.kind \in {"scope", "chain", "macro"} =>
       /\ s # << >> /\ Last(s).kind = "finish"
       /\ Last(s).stage = CASE g.kind = "scope" -> "names"
                            [] g.kind = "chain" -> "chains"
                            [] g.kind = "macro" -> "macros"
  /\ g.kind = "handle" => s # << >> /\ Last(s).kind = "pass"
  /\ g.kind = "body" => s = << >> \/ Last(s).kind = "handle"
  /\ g.kind = "start" => s = << >>

LEMMA StackPushed ==
  ASSUME NEW s \in Seq(Frame), NEW g \in Frame, NEW t, t = Append(s, g),
         NEW S \in SUBSET Decls, NEW T \in SUBSET Decls, S \subseteq T,
         StackOK(s, S), CallOK(g, T), MayCall(s, g)
  PROVE  StackOK(t, T)
<1> DEFINE n == Len(s)
<1>1. IsPushed(Frame, t, s, g)
  BY ElementPushed, Zenon
<1>2. /\ t \in Seq(Frame) /\ Len(t) = n + 1 /\ n \in Nat /\ t[n + 1] = g
      /\ \A i \in 1 .. n : t[i] = s[i]
  BY <1>1 DEF IsPushed
<1>3. \A i \in 1 .. n : CallOK(s[i], S) /\ PlaceOK(s, i)
  BY DEF StackOK
<1>4. s = << >> => n = 0
  OBVIOUS
<1>5. s # << >> => n \in 1 .. n /\ Last(s) = s[n]
  <2>1. s # << >> => n \in Nat \ {0} /\ Last(s) = s[n]
    BY LastFront, Zenon
  <2> QED BY <1>2, <2>1
<1> SUFFICES ASSUME NEW i \in 1 .. n + 1 PROVE CallOK(t[i], T) /\ PlaceOK(t, i)
  BY <1>2 DEF StackOK
<1>6. CallOK(t[i], T)
  <2>1. CASE i = n + 1
    BY <1>2, <2>1
  <2>2. CASE i # n + 1
    <3>1. i \in 1 .. n
      BY <1>2, <2>2
    <3>2. CallOK(s[i], S)
      BY <1>3, <3>1
    <3> QED BY <1>2, <3>1, <3>2, CallOKGrows
  <2> QED BY <2>1, <2>2
<1>7. CASE i # n + 1
  <2>1. i \in 1 .. n /\ i \in Nat
    BY <1>2, <1>7
  <2>2. \A j \in 1 .. i - 1 : j \in 1 .. n /\ t[j] = s[j]
    BY <1>2, <2>1
  <2>3. i # 1 => t[i - 1] = s[i - 1]
    BY <2>1, <2>2
  <2>4. t[i] = s[i] /\ PlaceOK(s, i)
    BY <1>2, <1>3, <2>1
  <2>5. t[i].kind = "finish" /\ i # Len(t) => t[i + 1].kind \in {"scope", "chain", "macro"}
    <3> SUFFICES ASSUME t[i].kind = "finish" PROVE t[i + 1].kind \in {"scope", "chain", "macro"}
      OBVIOUS
    <3>1. CASE i = n
      <4>1. s # << >> /\ Last(s).kind = "finish" /\ t[i + 1] = g
        BY <1>2, <1>4, <1>5, <2>1, <2>4, <3>1
      <4>2. g.kind \notin {"record", "identifier", "handle", "body", "start"}
        BY <4>1 DEF MayCall
      <4> QED BY <4>1, <4>2 DEF MayCall
    <3>2. CASE i # n
      <4>1. i + 1 \in 1 .. n
        BY <1>2, <2>1, <3>2
      <4> QED BY <1>2, <2>4, <3>2, <4>1 DEF PlaceOK
    <3> QED BY <3>1, <3>2
  <2>6. t[i].guarded => \A j \in i + 1 .. Len(t) : t[j].kind # "pass"
    <3> SUFFICES ASSUME t[i].guarded, NEW j \in i + 1 .. n + 1 PROVE t[j].kind # "pass"
      BY <1>2
    <3>1. CASE j = n + 1
      BY <1>2, <3>1 DEF MayCall
    <3>2. CASE j # n + 1
      <4>1. j \in 1 .. n /\ j \in i + 1 .. n
        BY <1>2, <2>1, <3>2
      <4> QED BY <1>2, <2>4, <4>1 DEF PlaceOK
    <3> QED BY <3>1, <3>2
  <2>7. PlaceOK(t, i)
    BY <2>2, <2>3, <2>4, <2>5, <2>6 DEF PlaceOK
  <2> QED BY <1>6, <2>7
<1>8. CASE i = n + 1
  <2>1. t[i] = g /\ \A j \in 1 .. i - 1 : j \in 1 .. n /\ t[j] = s[j]
    BY <1>2, <1>8
  <2>2. /\ s # << >> => i # 1 /\ t[i - 1] = Last(s)
        /\ s = << >> => i = 1
    BY <1>2, <1>4, <1>5, <1>8
  <2>3. g.kind # "finish" /\ ~g.guarded
    BY DEF MayCall
  <2>4. g.kind \in BaseKinds => \A j \in 1 .. i - 1 : t[j].kind \in BaseKinds
    <3> SUFFICES ASSUME g.kind \in BaseKinds, NEW j \in 1 .. n PROVE s[j].kind \in BaseKinds
      BY <1>2, <1>8
    <3>1. s # << >>
      BY <1>4
    <3>2. Last(s).kind \in BaseKinds
      BY <3>1 DEF BaseKinds, MayCall
    <3>3. CASE j = n
      BY <1>5, <3>1, <3>2, <3>3
    <3>4. CASE j # n
      <4>1. j \in 1 .. n - 1 /\ n \in 1 .. n
        BY <1>2, <3>4
      <4> QED BY <1>3, <1>5, <3>1, <3>2, <4>1 DEF PlaceOK
    <3> QED BY <3>3, <3>4
  <2>5. g.kind \in {"scope", "chain", "macro"} =>
          /\ i # 1 /\ t[i - 1].kind = "finish"
          /\ t[i - 1].stage = CASE g.kind = "scope" -> "names"
                                [] g.kind = "chain" -> "chains"
                                [] g.kind = "macro" -> "macros"
    BY <2>2 DEF MayCall
  <2>6. /\ g.kind = "start" => i = 1
        /\ g.kind = "handle" => i # 1 /\ t[i - 1].kind = "pass"
        /\ g.kind = "body" => i = 1 \/ t[i - 1].kind = "handle"
    BY <2>2 DEF MayCall
  <2>7. PlaceOK(t, i)
    BY <2>1, <2>3, <2>4, <2>5, <2>6 DEF PlaceOK
  <2> QED BY <1>6, <2>7
<1> QED BY <1>6, <1>7, <1>8

LEMMA StackPopped ==
  ASSUME NEW s \in Seq(Frame), s # << >>, NEW S \in SUBSET Decls, StackOK(s, S)
  PROVE  StackOK(Front(s), S)
<1> DEFINE n == Len(s)
<1>1. PICK t \in Seq(Frame) : t = Front(s)
  BY LastFront
<1>2. /\ n \in Nat \ {0} /\ Len(t) = n - 1
      /\ \A i \in 1 .. n - 1 : t[i] = s[i]
  BY <1>1, LastFront
<1> SUFFICES ASSUME NEW i \in 1 .. n - 1 PROVE CallOK(t[i], S) /\ PlaceOK(t, i)
  BY <1>1, <1>2 DEF StackOK
<1>3. i \in 1 .. n /\ t[i] = s[i] /\ CallOK(s[i], S) /\ PlaceOK(s, i)
  BY <1>2 DEF StackOK
<1>4. \A j \in 1 .. i - 1 : t[j] = s[j]
  BY <1>2
<1>5. i # 1 => t[i - 1] = s[i - 1]
  BY <1>2, <1>4
<1>6. t[i].kind = "finish" /\ i # Len(t) => t[i + 1].kind \in {"scope", "chain", "macro"}
  <2>1. i # Len(t) => i # Len(s) /\ t[i + 1] = s[i + 1]
    BY <1>2
  <2> QED BY <1>2, <1>3, <2>1 DEF PlaceOK
<1>7. t[i].guarded => \A j \in i + 1 .. Len(t) : t[j].kind # "pass"
  BY <1>2, <1>3 DEF PlaceOK
<1> QED BY <1>3, <1>4, <1>5, <1>6, <1>7 DEF PlaceOK

-----------------------------------------------------------------------------
(* How many calls are counted                                               *)

LEMMA CountedFinite ==
  ASSUME NEW s \in Seq(Frame)
  PROVE  IsFiniteSet(Counted(s)) /\ Cardinality(Counted(s)) \in Nat
<1>1. Len(s) \in Nat
  OBVIOUS
<1>2. IsFiniteSet(1 .. Len(s))
  BY <1>1, FS_Interval
<1>3. Counted(s) \subseteq 1 .. Len(s)
  BY DEF Counted
<1> QED BY <1>2, <1>3, FS_Subset, FS_CardinalityType

LEMMA CountedPushed ==
  ASSUME NEW s \in Seq(Frame), NEW g \in Frame, NEW t, t = Append(s, g)
  PROVE  /\ g.kind \in CountedKinds => Cardinality(Counted(t)) = Cardinality(Counted(s)) + 1
         /\ g.kind \notin CountedKinds => Cardinality(Counted(t)) = Cardinality(Counted(s))
<1> DEFINE n == Len(s)
<1>1. IsPushed(Frame, t, s, g)
  BY ElementPushed, Zenon
<1>2. /\ Len(t) = n + 1 /\ n \in Nat /\ t[n + 1] = g
      /\ \A i \in 1 .. n : t[i] = s[i]
  BY <1>1 DEF IsPushed
<1>3. \A i \in 1 .. n + 1 : i = n + 1 \/ i \in 1 .. n
  BY <1>2
<1>4. g.kind \in CountedKinds => Counted(t) = Counted(s) \cup {n + 1}
  BY <1>2, <1>3 DEF Counted
<1>5. g.kind \notin CountedKinds => Counted(t) = Counted(s)
  BY <1>2, <1>3 DEF Counted
<1>6. n + 1 \notin Counted(s)
  BY <1>2 DEF Counted
<1>7. IsFiniteSet(Counted(s))
  BY CountedFinite
<1>8. Cardinality(Counted(s) \cup {n + 1}) = Cardinality(Counted(s)) + 1
  BY <1>6, <1>7, FS_AddElement
<1> QED BY <1>4, <1>5, <1>8

LEMMA CountedPopped ==
  ASSUME NEW s \in Seq(Frame), s # << >>
  PROVE  /\ Last(s).kind \in CountedKinds =>
              Cardinality(Counted(s)) = Cardinality(Counted(Front(s))) + 1
         /\ Last(s).kind \notin CountedKinds =>
              Cardinality(Counted(s)) = Cardinality(Counted(Front(s)))
<1>1. IsPushed(Frame, s, Front(s), Last(s))
  BY ElementPopped, Zenon
<1>2. Front(s) \in Seq(Frame) /\ Last(s) \in Frame
  BY LastFront
<1>3. s = Append(Front(s), Last(s))
  <2>1. PICK f \in Seq(Frame) : f = Front(s)
    BY <1>2
  <2>2. PICK e \in Frame : e = Last(s)
    BY <1>2
  <2>3. IsPushed(Frame, s, f, e)
    BY <1>1, <2>1, <2>2
  <2>4. PICK t : t = Append(f, e)
    OBVIOUS
  <2>5. IsPushed(Frame, t, f, e)
    BY <2>4, ElementPushed, Zenon
  <2>6. Len(s) = Len(t) /\ \A i \in 1 .. Len(s) : s[i] = t[i]
    <3>1. Len(s) = Len(f) + 1 /\ Len(t) = Len(f) + 1 /\ Len(f) \in Nat
      BY <2>3, <2>5 DEF IsPushed
    <3>2. \A i \in 1 .. Len(f) + 1 : i \in 1 .. Len(f) \/ i = Len(f) + 1
      BY <3>1
    <3> QED BY <2>3, <2>5, <3>1, <3>2 DEF IsPushed
  <2>7. t \in Seq(Frame)
    BY <2>5 DEF IsPushed
  <2>8. s = t
    BY <2>6, <2>7, SeqEqual
  <2> QED BY <2>1, <2>2, <2>4, <2>8
<1> QED BY <1>2, <1>3, CountedPushed

LEMMA CountedReplaced ==
  ASSUME NEW s \in Seq(Frame), s # << >>, NEW g \in Frame, NEW t, t = Append(Front(s), g)
  PROVE  /\ (g.kind \in CountedKinds <=> Last(s).kind \in CountedKinds) =>
              Cardinality(Counted(t)) = Cardinality(Counted(s))
         /\ g.kind \notin CountedKinds /\ Last(s).kind \in CountedKinds =>
              Cardinality(Counted(s)) = Cardinality(Counted(t)) + 1
<1>1. PICK f \in Seq(Frame) : f = Front(s)
  BY LastFront
<1>2. t = Append(f, g)
  BY <1>1
<1>3. /\ g.kind \in CountedKinds => Cardinality(Counted(t)) = Cardinality(Counted(f)) + 1
      /\ g.kind \notin CountedKinds => Cardinality(Counted(t)) = Cardinality(Counted(f))
  BY <1>2, CountedPushed
<1> QED BY <1>1, <1>3, CountedPopped

(* None is counted, or only the one on top.                                 *)
LEMMA CountedNone ==
  ASSUME NEW s \in Seq(Frame)
  PROVE  Cardinality(Counted(s)) = 0 <=> \A i \in 1 .. Len(s) : s[i].kind \notin CountedKinds
<1>1. Cardinality(Counted(s)) = 0 <=> Counted(s) = {}
  BY CountedFinite, FS_EmptySet
<1> QED BY <1>1 DEF Counted

LEMMA CountedOne ==
  ASSUME NEW s \in Seq(Frame), s # << >>, Last(s).kind \in CountedKinds
  PROVE  /\ Cardinality(Counted(s)) \in Nat \ {0}
         /\ Cardinality(Counted(s)) = 1 <=>
              \A i \in 1 .. Len(s) - 1 : s[i].kind \notin CountedKinds
<1>1. PICK f \in Seq(Frame) : f = Front(s) /\ Len(f) = Len(s) - 1
                              /\ \A i \in 1 .. Len(s) - 1 : f[i] = s[i]
  BY LastFront
<1>2. Cardinality(Counted(s)) = Cardinality(Counted(f)) + 1 /\ Cardinality(Counted(f)) \in Nat
  BY <1>1, CountedPopped, CountedFinite
<1>3. Cardinality(Counted(f)) = 0 <=> \A i \in 1 .. Len(f) : f[i].kind \notin CountedKinds
  BY CountedNone
<1> QED BY <1>1, <1>2, <1>3

-----------------------------------------------------------------------------
(* The steps, by what they do to the stack                                  *)

Quiet == UNCHANGED <<program, bodiesRead, passing, interesting, handled, consumer>>

(* The call on top goes on, or nothing happens to the calls.                *)
TurnedStep ==
  /\ Quiet /\ UNCHANGED <<count, loaded, cursor>>
  /\ Turn(stack, stack', loaded')

(* It asks for a declaration, which has to be read, ...                     *)
RecordStep(t, d) ==
  /\ Quiet /\ d \in Decls \ loaded /\ d \notin Parsed
  /\ Turn(stack, t, loaded') /\ t \in Seq(Frame) /\ (t = << >> \/ Last(t).kind # "finish")
  /\ stack' = Append(t, [NewFrame("record", d) EXCEPT
                           !.stage = "first", !.place = cursor[program.file[d]]])
  /\ count' = count + 1
  /\ loaded' = loaded \cup {d}
  /\ cursor' = [cursor EXCEPT ![program.file[d]] = NoDecl]

(* ... or for an identifier.                                                *)
IdentifierStep(t) ==
  /\ Quiet /\ UNCHANGED <<loaded, cursor>>
  /\ Turn(stack, t, loaded') /\ t \in Seq(Frame) /\ (t = << >> \/ Last(t).kind # "finish")
  /\ stack' = Append(t, NewFrame("identifier", NoDecl))
  /\ count' = count + 1

(* finishPendingActions starts with what is next in a queue.                *)
CallStep(t, g) ==
  /\ Quiet /\ UNCHANGED <<count, loaded, cursor>>
  /\ Turn(stack, t, loaded') /\ t \in Seq(Frame)
  /\ g \in Frame /\ CallOK(g, loaded') /\ MayCall(t, g) /\ g.kind \in {"scope", "chain", "macro"}
  /\ g.kind = "scope" => SetGloballyVisibleDecls
  /\ stack' = Append(t, g)

ReturnStep ==
  /\ Quiet /\ UNCHANGED <<count, loaded, cursor>>
  /\ stack # << >> /\ Top.kind \in {"scope", "chain", "macro", "handle", "body"}
  /\ Turn(Below, stack', loaded')
  /\ stack' # << >> => Last(stack').stage = Last(Below).stage

Plain == \/ TurnedStep
         \/ \E t : \E d : RecordStep(t, d)
         \/ \E t : IdentifierStep(t)
         \/ \E t : \E g : CallStep(t, g)
         \/ ReturnStep

Special == \/ RecordRead \/ FinishNested \/ FinishPendingActions \/ FinishedDeserializing
           \/ PassInterestingDecl \/ AllPassed \/ ConsumerGetsBody \/ AskForBody
           \/ StartProgram \/ DefinitionsStarted

StepInv == TypeOK /\ StackInv /\ ParsedInv /\ ScopeInv

LEMMA ProgramType ==
  ASSUME TypeOK
  PROVE  program \in Program
BY DeserializationAssumption DEF TypeOK

LEMMA TopType ==
  ASSUME TypeOK, StackInv, stack # << >>
  PROVE  /\ Top \in Frame /\ Below \in Seq(Frame) /\ CallOK(Top, loaded)
         /\ Len(stack) \in Nat \ {0} /\ Top = stack[Len(stack)] /\ PlaceOK(stack, Len(stack))
         /\ Len(Below) = Len(stack) - 1
         /\ \A i \in 1 .. Len(stack) - 1 : Below[i] = stack[i]
<1>1. stack \in Seq(Frame)
  BY DEF TypeOK
<1>2. /\ Top \in Frame /\ Below \in Seq(Frame)
      /\ Len(stack) \in Nat \ {0} /\ Top = stack[Len(stack)]
      /\ Len(Below) = Len(stack) - 1
      /\ \A i \in 1 .. Len(stack) - 1 : Below[i] = stack[i]
  BY <1>1, LastFront, Zenon DEF Top, Below
<1>3. Len(stack) \in 1 .. Len(stack)
  BY <1>2
<1>4. CallOK(stack[Len(stack)], loaded) /\ PlaceOK(stack, Len(stack))
  BY <1>3 DEF StackInv, StackOK
<1> QED BY <1>2, <1>4

LEMMA TurnTop ==
  ASSUME NEW s \in Seq(Frame), s # << >>, NEW S, NEW g \in Frame, SameCall(Last(s), g), CallOK(g, S),
         NEW t, t = Append(Front(s), g)
  PROVE  Turn(s, t, S) /\ t \in Seq(Frame) /\ t # << >> /\ Last(t) = g
<1>1. IsReplaced(Frame, t, s, g)
  BY ElementReplaced, Zenon
<1>2. t \in Seq(Frame) /\ Len(t) = Len(s) /\ t[Len(s)] = g /\ Len(s) \in Nat \ {0}
  BY <1>1 DEF IsReplaced
<1>3. t # << >>
  BY <1>2
<1>4. Last(t) = t[Len(t)]
  BY <1>2, <1>3, LastFront, Zenon
<1>5. Last(t) = g
  BY <1>2, <1>4
<1>6. Turn(s, t, S)
  BY DEF Turn
<1> QED BY <1>2, <1>3, <1>5, <1>6

Kinds == {"record", "identifier", "finish", "scope", "chain", "macro", "pass", "handle", "body", "start"}

Stages == {"first", "link", "name", "type", "merge", "rest", "end", "done",
           "names", "chains", "macros", "bodies"}

LEMMA FrameType ==
  ASSUME NEW k \in Kinds, NEW x \in Stages, NEW d \in Decls \cup {NoDecl},
         NEW c \in Decls \cup {NoDecl}, NEW T \in SUBSET (Decls \cup Names), NEW C \in SUBSET Decls,
         NEW i \in Nat, NEW o \in BOOLEAN, NEW b \in BOOLEAN, NEW p \in Decls \cup {NoDecl}
  PROVE  [kind |-> k, stage |-> x, decl |-> d, current |-> c, todo |-> T, chain |-> C,
          index |-> i, owning |-> o, guarded |-> b, place |-> p] \in Frame
BY SMT DEF Frame, Kinds, Stages

LEMMA FieldTypes ==
  ASSUME NEW f \in Frame
  PROVE  /\ f.kind \in Kinds /\ f.stage \in Stages /\ f.decl \in Decls \cup {NoDecl}
         /\ f.current \in Decls \cup {NoDecl} /\ f.todo \in SUBSET (Decls \cup Names)
         /\ f.chain \in SUBSET Decls /\ f.index \in Nat
         /\ f.owning \in BOOLEAN /\ f.guarded \in BOOLEAN /\ f.place \in Decls \cup {NoDecl}
BY DEF Frame, Kinds, Stages

LEMMA SetStage ==
  ASSUME NEW f \in Frame, NEW x \in Stages
  PROVE  [f EXCEPT !.stage = x] \in Frame
<1>1. [f EXCEPT !.stage = x]
        = [kind |-> f.kind, stage |-> x, decl |-> f.decl, current |-> f.current,
           todo |-> f.todo, chain |-> f.chain, index |-> f.index, owning |-> f.owning,
           guarded |-> f.guarded, place |-> f.place]
  BY DEF Frame
<1>2. [kind |-> f.kind, stage |-> x, decl |-> f.decl, current |-> f.current,
       todo |-> f.todo, chain |-> f.chain, index |-> f.index, owning |-> f.owning,
       guarded |-> f.guarded, place |-> f.place] \in Frame
  <2>1. /\ f.kind \in Kinds /\ f.stage \in Stages /\ f.decl \in Decls \cup {NoDecl}
        /\ f.current \in Decls \cup {NoDecl} /\ f.todo \in SUBSET (Decls \cup Names)
        /\ f.chain \in SUBSET Decls /\ f.index \in Nat
        /\ f.owning \in BOOLEAN /\ f.guarded \in BOOLEAN /\ f.place \in Decls \cup {NoDecl}
    BY FieldTypes
  <2> QED BY <2>1, SMT DEF Frame, Kinds, Stages
<1> QED BY <1>1, <1>2, Zenon

LEMMA SetIndex ==
  ASSUME NEW f \in Frame, NEW i \in Nat
  PROVE  [f EXCEPT !.index = i] \in Frame
<1>1. [f EXCEPT !.index = i]
        = [kind |-> f.kind, stage |-> f.stage, decl |-> f.decl, current |-> f.current,
           todo |-> f.todo, chain |-> f.chain, index |-> i, owning |-> f.owning,
           guarded |-> f.guarded, place |-> f.place]
  BY DEF Frame
<1>2. [kind |-> f.kind, stage |-> f.stage, decl |-> f.decl, current |-> f.current,
       todo |-> f.todo, chain |-> f.chain, index |-> i, owning |-> f.owning,
       guarded |-> f.guarded, place |-> f.place] \in Frame
  <2>1. /\ f.kind \in Kinds /\ f.stage \in Stages /\ f.decl \in Decls \cup {NoDecl}
        /\ f.current \in Decls \cup {NoDecl} /\ f.todo \in SUBSET (Decls \cup Names)
        /\ f.chain \in SUBSET Decls /\ f.index \in Nat
        /\ f.owning \in BOOLEAN /\ f.guarded \in BOOLEAN /\ f.place \in Decls \cup {NoDecl}
    BY FieldTypes
  <2> QED BY <2>1, SMT DEF Frame, Kinds, Stages
<1> QED BY <1>1, <1>2, Zenon

LEMMA SetCurrent ==
  ASSUME NEW f \in Frame, NEW c \in Decls \cup {NoDecl}
  PROVE  [f EXCEPT !.current = c] \in Frame
<1>1. [f EXCEPT !.current = c]
        = [kind |-> f.kind, stage |-> f.stage, decl |-> f.decl, current |-> c,
           todo |-> f.todo, chain |-> f.chain, index |-> f.index, owning |-> f.owning,
           guarded |-> f.guarded, place |-> f.place]
  BY DEF Frame
<1>2. [kind |-> f.kind, stage |-> f.stage, decl |-> f.decl, current |-> c,
       todo |-> f.todo, chain |-> f.chain, index |-> f.index, owning |-> f.owning,
       guarded |-> f.guarded, place |-> f.place] \in Frame
  <2>1. /\ f.kind \in Kinds /\ f.stage \in Stages /\ f.decl \in Decls \cup {NoDecl}
        /\ f.current \in Decls \cup {NoDecl} /\ f.todo \in SUBSET (Decls \cup Names)
        /\ f.chain \in SUBSET Decls /\ f.index \in Nat
        /\ f.owning \in BOOLEAN /\ f.guarded \in BOOLEAN /\ f.place \in Decls \cup {NoDecl}
    BY FieldTypes
  <2> QED BY <2>1, SMT DEF Frame, Kinds, Stages
<1> QED BY <1>1, <1>2, Zenon

LEMMA SetChain ==
  ASSUME NEW f \in Frame, NEW C \in SUBSET Decls
  PROVE  [f EXCEPT !.chain = C] \in Frame
<1>1. [f EXCEPT !.chain = C]
        = [kind |-> f.kind, stage |-> f.stage, decl |-> f.decl, current |-> f.current,
           todo |-> f.todo, chain |-> C, index |-> f.index, owning |-> f.owning,
           guarded |-> f.guarded, place |-> f.place]
  BY DEF Frame
<1>2. [kind |-> f.kind, stage |-> f.stage, decl |-> f.decl, current |-> f.current,
       todo |-> f.todo, chain |-> C, index |-> f.index, owning |-> f.owning,
       guarded |-> f.guarded, place |-> f.place] \in Frame
  <2>1. /\ f.kind \in Kinds /\ f.stage \in Stages /\ f.decl \in Decls \cup {NoDecl}
        /\ f.current \in Decls \cup {NoDecl} /\ f.todo \in SUBSET (Decls \cup Names)
        /\ f.chain \in SUBSET Decls /\ f.index \in Nat
        /\ f.owning \in BOOLEAN /\ f.guarded \in BOOLEAN /\ f.place \in Decls \cup {NoDecl}
    BY FieldTypes
  <2> QED BY <2>1, SMT DEF Frame, Kinds, Stages
<1> QED BY <1>1, <1>2, Zenon

LEMMA TopWith ==
  ASSUME NEW f \in Frame, NEW x \in {"chains", "macros"}, NEW C \in SUBSET Decls
  PROVE  /\ [f EXCEPT !.stage = x, !.index = 1] \in Frame
         /\ [f EXCEPT !.index = @ + 1] \in Frame
         /\ [f EXCEPT !.current = NoDecl, !.chain = C] \in Frame
<1>1. [f EXCEPT !.stage = x, !.index = 1] \in Frame
  <2>1. x \in Stages
    BY DEF Stages
  <2>2. PICK g : g = [f EXCEPT !.stage = x]
    OBVIOUS
  <2>3. g \in Frame
    BY <2>1, <2>2, SetStage
  <2>4. [g EXCEPT !.index = 1] \in Frame
    BY <2>3, SetIndex
  <2> QED BY <2>2, <2>4, Zenon
<1>2. [f EXCEPT !.index = @ + 1] \in Frame
  <2>1. f.index + 1 \in Nat
    BY FieldTypes
  <2> QED BY <2>1, SetIndex
<1>3. [f EXCEPT !.current = NoDecl, !.chain = C] \in Frame
  <2>1. PICK g : g = [f EXCEPT !.current = NoDecl]
    OBVIOUS
  <2>2. g \in Frame
    BY <2>1, SetCurrent
  <2>3. [g EXCEPT !.chain = C] \in Frame
    BY <2>2, SetChain
  <2> QED BY <2>1, <2>3, Zenon
<1> QED BY <1>1, <1>2, <1>3

LEMMA NewFrameType ==
  ASSUME NEW k \in Kinds, NEW d \in Decls \cup {NoDecl}
  PROVE  NewFrame(k, d) \in Frame
BY DEF NewFrame, Frame, Kinds

(* GetDecl and DecodeIdentifier                                             *)
LEMMA AskedForDecl ==
  ASSUME StepInv, Quiet, NEW d \in Decls \cup {NoDecl}, NEW t \in Seq(Frame),
         Turn(stack, t, loaded \cup ({d} \ {NoDecl})), t = << >> \/ Last(t).kind # "finish",
         GetDecl(d, t)
  PROVE  Plain
<1>1. loaded \subseteq Decls /\ NoDecl \notin Decls
  BY DeserializationAssumption DEF StepInv, TypeOK
<1>2. CASE d = NoDecl \/ d \in loaded
  <2>1. loaded \cup ({d} \ {NoDecl}) = loaded
    BY <1>1, <1>2
  <2>2. stack' = t /\ UNCHANGED <<count, loaded, cursor>>
    BY <1>2 DEF GetDecl
  <2>3. TurnedStep
    BY <2>1, <2>2 DEF TurnedStep
  <2> QED BY <2>3 DEF Plain
<1>3. CASE ~(d = NoDecl \/ d \in loaded)
  <2>1. loaded \cup ({d} \ {NoDecl}) = loaded \cup {d}
    BY <1>1, <1>3
  <2>2. /\ stack' = Append(t, [NewFrame("record", d) EXCEPT
                           !.stage = "first", !.place = cursor[program.file[d]]])
        /\ count' = count + 1
        /\ loaded' = loaded \cup {d}
        /\ cursor' = [cursor EXCEPT ![program.file[d]] = NoDecl]
    BY <1>3 DEF GetDecl
  <2>3. d \notin Parsed /\ d \in Decls \ loaded
    BY <1>3 DEF StepInv, ParsedInv
  <2>4. RecordStep(t, d)
    BY <2>1, <2>2, <2>3 DEF RecordStep
  <2> QED BY <2>4 DEF Plain
<1> QED BY <1>2, <1>3

LEMMA AskedForIdentifier ==
  ASSUME StepInv, Quiet, NEW n, NEW t \in Seq(Frame),
         Turn(stack, t, loaded), t = << >> \/ Last(t).kind # "finish",
         ReadIdentifier(n, t) \/ DecodeIdentifier(n, t)
  PROVE  Plain
<1>1. CASE ReadIdentifier(n, t)
  <2>1. IdentifierStep(t)
    BY <1>1 DEF ReadIdentifier, IdentifierStep
  <2> QED BY <2>1 DEF Plain
<1>2. CASE DecodeIdentifier(n, t) /\ ~ReadIdentifier(n, t)
  <2>1. stack' = t /\ UNCHANGED <<count, loaded, cursor>>
    BY <1>2 DEF DecodeIdentifier
  <2>2. TurnedStep
    BY <2>1 DEF TurnedStep
  <2> QED BY <2>2 DEF Plain
<1> QED BY <1>1, <1>2

(* The calls of ReadDeclRecord.                                             *)
LEMMA RecordSteps ==
  ASSUME StepInv,
         \/ ReadFirst \/ LinkToFirst \/ ReadDeclName \/ ReadDeclType \/ UpdateIdentifier
         \/ Merge \/ ReadRest
  PROVE  Plain
<1>1. Quiet
  BY DEF ReadFirst, LinkToFirst, ReadDeclName, ReadDeclType, UpdateIdentifier, Merge, ReadRest,
         Quiet, readVars, bodyVars, passVars
<1>2. stack # << >> /\ Top.kind = "record" /\ Top.stage # "done"
  BY DEF ReadFirst, LinkToFirst, ReadDeclName, ReadDeclType, UpdateIdentifier, Merge, ReadRest, At, Is
<1>3. stack \in Seq(Frame) /\ Top \in Frame /\ CallOK(Top, loaded) /\ loaded \subseteq Decls
  BY <1>2, TopType DEF StepInv, TypeOK
<1>4. program \in Program
  BY ProgramType DEF StepInv
<1>5. /\ Top.decl \in Decls
      /\ program.first[Top.decl] \in Decls /\ program.type[Top.decl] \in Decls \cup {NoDecl}
      /\ program.rest[Top.decl] \in Decls \cup {NoDecl}
  BY <1>2, <1>3, <1>4 DEF CallOK, Program
<1>6. ASSUME NEW S, loaded \subseteq S, NEW b \in BOOLEAN,
             NEW x \in {"link", "name", "type", "merge", "rest", "end"}
      PROVE  /\ Turn(stack, WithTop([Top EXCEPT !.stage = x]), S)
             /\ WithTop([Top EXCEPT !.stage = x]) \in Seq(Frame)
             /\ Last(WithTop([Top EXCEPT !.stage = x])).kind # "finish"
             /\ Turn(stack, WithTop([Top EXCEPT !.stage = x, !.owning = b]), S)
             /\ WithTop([Top EXCEPT !.stage = x, !.owning = b]) \in Seq(Frame)
  <2>1. PICK g : g = [Top EXCEPT !.stage = x]
    OBVIOUS
  <2>2. PICK h : h = [Top EXCEPT !.stage = x, !.owning = b]
    OBVIOUS
  <2>3. CallOK(Top, S)
    BY <1>3, <1>6, CallOKGrows
  <2>4. g \in Frame /\ h \in Frame
    BY <1>3, <2>1, <2>2 DEF Frame
  <2>5. SameCall(Top, g) /\ SameCall(Top, h) /\ g.kind # "finish"
    BY <1>2, <1>3, <2>1, <2>2 DEF Frame, SameCall
  <2>6. CallOK(g, S) /\ CallOK(h, S)
    BY <1>3, <2>1, <2>2, <2>3 DEF Frame, CallOK
  <2>7. PICK t : t = Append(Front(stack), g)
    OBVIOUS
  <2>8. PICK u : u = Append(Front(stack), h)
    OBVIOUS
  <2>9. Turn(stack, t, S) /\ t \in Seq(Frame) /\ Last(t) = g
    <3>1. SameCall(Last(stack), g)
      BY <2>5 DEF Top
    <3> QED BY <1>2, <1>3, <2>4, <2>6, <2>7, <3>1, TurnTop
  <2>10. Turn(stack, u, S) /\ u \in Seq(Frame)
    <3>1. SameCall(Last(stack), h)
      BY <2>5 DEF Top
    <3> QED BY <1>2, <1>3, <2>4, <2>6, <2>8, <3>1, TurnTop
  <2> QED BY <2>1, <2>2, <2>5, <2>7, <2>8, <2>9, <2>10 DEF WithTop, Below
<1>7. CASE ReadFirst
  <2>1. GetDecl(program.first[Top.decl], WithTop([Top EXCEPT !.stage = "link"]))
    BY <1>7 DEF ReadFirst
  <2> QED BY <1>1, <1>5, <1>6, <2>1, AskedForDecl
<1>8. CASE LinkToFirst
  <2>1. stack' = WithTop([Top EXCEPT !.stage = "name"]) /\ UNCHANGED <<count, loaded, cursor>>
    BY <1>8 DEF LinkToFirst
  <2>2. TurnedStep
    BY <1>1, <1>6, <2>1 DEF TurnedStep
  <2> QED BY <2>2 DEF Plain
<1>9. CASE ReadDeclName
  <2>1. DecodeIdentifier(program.name[Top.decl], WithTop([Top EXCEPT !.stage = "type"]))
    BY <1>9 DEF ReadDeclName
  <2> QED BY <1>1, <1>6, <2>1, AskedForIdentifier
<1>10. CASE ReadDeclType
  <2>1. GetDecl(program.type[Top.decl], WithTop([Top EXCEPT !.stage = "merge"]))
    BY <1>10 DEF ReadDeclType
  <2> QED BY <1>1, <1>5, <1>6, <2>1, AskedForDecl
<1>11. CASE UpdateIdentifier
  <2>1. ReadIdentifier(program.name[Top.decl], stack)
    BY <1>11 DEF UpdateIdentifier
  <2>2. Turn(stack, stack, loaded)
    BY DEF Turn
  <2>3. Last(stack).kind # "finish"
    BY <1>2 DEF Top
  <2> QED BY <1>1, <1>3, <2>1, <2>2, <2>3, AskedForIdentifier
<1>12. CASE Merge
  <2>1. /\ \/ stack' = WithTop([Top EXCEPT !.stage = "rest"])
           \/ stack' = WithTop([Top EXCEPT !.stage = "rest", !.owning = FALSE])
        /\ UNCHANGED <<count, loaded, cursor>>
    BY <1>12 DEF Merge, MergeWith
  <2>2. TurnedStep
    BY <1>1, <1>6, <2>1 DEF TurnedStep
  <2> QED BY <2>2 DEF Plain
<1>13. CASE ReadRest
  <2>1. GetDecl(program.rest[Top.decl], WithTop([Top EXCEPT !.stage = "end"]))
    BY <1>13 DEF ReadRest
  <2> QED BY <1>1, <1>5, <1>6, <2>1, AskedForDecl
<1> QED BY <1>7, <1>8, <1>9, <1>10, <1>11, <1>12, <1>13

(* A call that has asked for one of what it has still to do.                *)
LEMMA TakenFromTodo ==
  ASSUME StepInv, stack # << >>, Top.kind \in {"scope", "chain", "start", "body", "macro"},
         NEW x \in Top.todo, NEW y, y \in {Top.current, x},
         Top.kind \in {"body", "macro", "start"} => y = Top.current,
         NEW S, loaded \subseteq S, Top.kind \in {"scope", "chain"} => x \in S,
         NEW t, t = WithTop([Top EXCEPT !.current = y, !.todo = @ \ {x}])
  PROVE  Turn(stack, t, S) /\ t \in Seq(Frame) /\ Last(t).kind # "finish"
<1>1. stack \in Seq(Frame) /\ Top \in Frame /\ CallOK(Top, loaded)
  BY TopType DEF StepInv, TypeOK
<1>2. CallOK(Top, S)
  BY <1>1, CallOKGrows
<1>3. PICK g : g = [Top EXCEPT !.current = y, !.todo = @ \ {x}]
  OBVIOUS
<1>4. /\ g.kind = Top.kind /\ g.decl = Top.decl /\ g.guarded = Top.guarded /\ g.place = Top.place
      /\ g.stage = Top.stage /\ g.chain = Top.chain /\ g.index = Top.index /\ g.owning = Top.owning
      /\ g.current = y /\ g.todo = Top.todo \ {x}
      /\ g = [kind |-> g.kind, stage |-> g.stage, decl |-> g.decl, current |-> g.current,
              todo |-> g.todo, chain |-> g.chain, index |-> g.index, owning |-> g.owning,
              guarded |-> g.guarded, place |-> g.place]
  BY <1>1, <1>3 DEF Frame
<1>5. y = Top.current \/ (Top.kind \in {"scope", "chain"} /\ y = x)
  OBVIOUS
<1>6. y \in Decls \cup {NoDecl}
  BY <1>1, <1>5 DEF Frame, CallOK
<1>7. g \in Frame
  BY <1>1, <1>4, <1>6 DEF Frame
<1>8. SameCall(Last(stack), g)
  BY <1>4 DEF SameCall, Top
<1>9. CallOK(g, S)
  BY <1>2, <1>4, <1>5 DEF CallOK
<1>10. t = Append(Front(stack), g)
  BY <1>3 DEF WithTop, Below
<1>11. Turn(stack, t, S) /\ t \in Seq(Frame) /\ Last(t) = g
  BY <1>1, <1>7, <1>8, <1>9, <1>10, TurnTop
<1> QED BY <1>4, <1>11

LEMMA AskingSteps ==
  ASSUME StepInv, AskForNext \/ ReadMacroToken \/ ReadInBody \/ StartNextDefinition
  PROVE  Plain
<1>1. Quiet
  BY DEF AskForNext, ReadMacroToken, ReadInBody, StartNextDefinition,
         Quiet, readVars, bodyVars, passVars
<1>2. stack # << >> /\ Top.kind \in {"scope", "chain", "start", "body", "macro"}
  BY DEF AskForNext, ReadMacroToken, ReadInBody, StartNextDefinition, Is
<1>3. Top \in Frame /\ CallOK(Top, loaded) /\ NoDecl \notin Decls
  BY <1>2, TopType, DeserializationAssumption DEF StepInv
<1>4. [Top EXCEPT !.current = Top.current] = Top
  BY <1>3 DEF Frame
<1>5. ASSUME NEW x
      PROVE  [Top EXCEPT !.todo = @ \ {x}] = [Top EXCEPT !.current = Top.current, !.todo = @ \ {x}]
  BY <1>3 DEF Frame
<1>6. CASE AskForNext
  <2>1. PICK d \in Top.todo : GetDecl(d, WithTop([Top EXCEPT !.current = d, !.todo = @ \ {d}]))
    BY <1>6 DEF AskForNext
  <2>2. Top.kind \in {"scope", "chain"} /\ d \in Decls
    BY <1>3, <1>6, <2>1 DEF AskForNext, Is, CallOK
  <2>3. PICK t : t = WithTop([Top EXCEPT !.current = d, !.todo = @ \ {d}])
    OBVIOUS
  <2>4. PICK S : S = loaded \cup ({d} \ {NoDecl})
    OBVIOUS
  <2>5. loaded \subseteq S /\ d \in S
    BY <1>3, <2>2, <2>4
  <2>6. Turn(stack, t, S) /\ t \in Seq(Frame) /\ Last(t).kind # "finish"
    BY <1>2, <2>1, <2>2, <2>3, <2>5, TakenFromTodo
  <2> QED BY <1>1, <2>1, <2>2, <2>3, <2>4, <2>6, AskedForDecl
<1>7. ASSUME Top.kind \in {"start", "body", "macro"}, NEW x \in Top.todo, NEW S, loaded \subseteq S,
             NEW t, t = WithTop([Top EXCEPT !.todo = @ \ {x}])
      PROVE  Turn(stack, t, S) /\ t \in Seq(Frame) /\ Last(t).kind # "finish"
  <2>1. PICK y : y = Top.current
    OBVIOUS
  <2>2. t = WithTop([Top EXCEPT !.current = y, !.todo = @ \ {x}])
    BY <1>5, <1>7, <2>1
  <2> QED BY <1>2, <1>7, <2>1, <2>2, TakenFromTodo
<1>8. CASE ReadMacroToken
  <2>1. PICK n \in Top.todo : DecodeIdentifier(n, WithTop([Top EXCEPT !.todo = @ \ {n}]))
    BY <1>8 DEF ReadMacroToken
  <2>2. PICK t : t = WithTop([Top EXCEPT !.todo = @ \ {n}])
    OBVIOUS
  <2>3. Turn(stack, t, loaded) /\ t \in Seq(Frame) /\ Last(t).kind # "finish"
    BY <1>7, <1>8, <2>1, <2>2 DEF ReadMacroToken, Is
  <2> QED BY <1>1, <2>1, <2>2, <2>3, AskedForIdentifier
<1>9. CASE ReadInBody
  <2>1. PICK x \in Top.todo : LET s == WithTop([Top EXCEPT !.todo = @ \ {x}]) IN
         IF x \in Decls THEN GetDecl(x, s) /\ UNCHANGED idVars ELSE DecodeIdentifier(x, s)
    BY <1>9 DEF ReadInBody
  <2>2. PICK t : t = WithTop([Top EXCEPT !.todo = @ \ {x}])
    OBVIOUS
  <2>3. PICK S : S = loaded \cup ({x} \ {NoDecl})
    OBVIOUS
  <2>4. /\ Turn(stack, t, loaded) /\ t \in Seq(Frame) /\ Last(t).kind # "finish"
        /\ Turn(stack, t, S)
    BY <1>7, <1>9, <2>1, <2>2, <2>3 DEF ReadInBody, Is
  <2>5. CASE x \in Decls
    <3>1. GetDecl(x, t)
      BY <2>1, <2>2, <2>5
    <3> QED BY <1>1, <2>3, <2>4, <2>5, <3>1, AskedForDecl
  <2>6. CASE x \notin Decls
    <3>1. DecodeIdentifier(x, t)
      BY <2>1, <2>2, <2>6
    <3> QED BY <1>1, <2>4, <3>1, AskedForIdentifier
  <2> QED BY <2>5, <2>6
<1>10. CASE StartNextDefinition
  <2>1. PICK d \in Top.todo : GetDecl(d, WithTop([Top EXCEPT !.todo = @ \ {d}]))
    BY <1>10 DEF StartNextDefinition
  <2>2. PICK t : t = WithTop([Top EXCEPT !.todo = @ \ {d}])
    OBVIOUS
  <2>3. PICK S : S = loaded \cup ({d} \ {NoDecl})
    OBVIOUS
  <2>4. Turn(stack, t, S) /\ t \in Seq(Frame) /\ Last(t).kind # "finish"
    BY <1>7, <1>10, <2>1, <2>2, <2>3 DEF StartNextDefinition, Is
  <2>5. d \in Decls
    BY <1>3, <1>10, <2>1 DEF StartNextDefinition, Is, CallOK
  <2> QED BY <1>1, <2>1, <2>2, <2>3, <2>4, <2>5, AskedForDecl
<1> QED BY <1>6, <1>8, <1>9, <1>10

LEMMA ClientSteps ==
  ASSUME StepInv, AskForDecl \/ LookUp \/ InitializeSema \/ ImportFile
  PROVE  Plain
<1>1. Quiet
  BY DEF AskForDecl, LookUp, InitializeSema, ImportFile, Quiet, readVars, bodyVars, passVars
<1>2. stack = << >> /\ stack \in Seq(Frame) /\ \A S : Turn(stack, stack, S)
  BY DEF AskForDecl, LookUp, InitializeSema, ImportFile, Idle, Turn, StepInv, TypeOK
<1>3. CASE AskForDecl
  <2>1. PICK d \in InFiles(files) \ loaded : GetDecl(d, stack)
    BY <1>3 DEF AskForDecl
  <2>2. d \in Decls
    BY <2>1 DEF InFiles
  <2> QED BY <1>1, <1>2, <2>1, <2>2, AskedForDecl
<1>4. CASE LookUp
  <2>1. PICK n : ReadIdentifier(n, stack)
    BY <1>4 DEF LookUp
  <2> QED BY <1>1, <1>2, <2>1, AskedForIdentifier
<1>5. CASE InitializeSema \/ ImportFile
  <2>1. TurnedStep
    BY <1>1, <1>2, <1>5 DEF TurnedStep, InitializeSema, ImportFile, loadVars
  <2> QED BY <2>1 DEF Plain
<1> QED BY <1>3, <1>4, <1>5

(* The calls of finishPendingActions that are on top go on.                 *)
LEMMA FinishGoesOn ==
  ASSUME StepInv,
         PushIntoScope \/ AddToChain \/ NamesAreDone \/ ChainsAreDone \/ MacrosAreDone \/ SetLazyBody
  PROVE  Plain
<1>1. Quiet
  BY DEF PushIntoScope, AddToChain, NamesAreDone, ChainsAreDone, MacrosAreDone, SetLazyBody,
         Quiet, readVars, bodyVars, passVars
<1>2. UNCHANGED <<count, loaded, cursor>>
  BY DEF PushIntoScope, AddToChain, NamesAreDone, ChainsAreDone, MacrosAreDone, SetLazyBody, loadVars
<1>3. stack # << >>
  BY DEF PushIntoScope, AddToChain, NamesAreDone, ChainsAreDone, MacrosAreDone, SetLazyBody, At, Is
<1>4. stack \in Seq(Frame) /\ Top \in Frame /\ CallOK(Top, loaded) /\ redecls \subseteq loaded
  BY <1>3, TopType DEF StepInv, TypeOK
<1>5. ASSUME NEW g \in Frame, SameCall(Top, g), CallOK(g, loaded), stack' = WithTop(g)
      PROVE  Plain
  <2>1. PICK t : t = Append(Front(stack), g)
    OBVIOUS
  <2>2. SameCall(Last(stack), g)
    BY <1>5 DEF Top
  <2>3. Turn(stack, t, loaded)
    BY <1>3, <1>4, <1>5, <2>1, <2>2, TurnTop
  <2>4. TurnedStep
    BY <1>1, <1>2, <1>5, <2>1, <2>3 DEF TurnedStep, WithTop, Below
  <2> QED BY <2>4 DEF Plain
<1>6. CASE PushIntoScope
  <2>1. PICK g : g = [Top EXCEPT !.current = NoDecl]
    OBVIOUS
  <2>2. g \in Frame /\ SameCall(Top, g) /\ CallOK(g, loaded)
    BY <1>4, <2>1 DEF Frame, SameCall, CallOK
  <2> QED BY <1>5, <1>6, <2>1, <2>2 DEF PushIntoScope
<1>7. CASE AddToChain
  <2>1. PICK g : g = [Top EXCEPT !.current = NoDecl, !.chain = @ \cup ({Top.current} \cap redecls)]
    OBVIOUS
  <2>2. /\ g.kind = Top.kind /\ g.decl = Top.decl /\ g.guarded = Top.guarded /\ g.place = Top.place
        /\ g.stage = Top.stage /\ g.todo = Top.todo /\ g.index = Top.index
        /\ g.current = NoDecl /\ g.chain = Top.chain \cup ({Top.current} \cap redecls)
    BY <1>4, <2>1 DEF Frame
  <2>3. g.chain \subseteq loaded /\ loaded \subseteq Decls
    BY <1>4, <2>2 DEF CallOK, StepInv, TypeOK
  <2>4. g \in Frame
    <3>1. PICK C \in SUBSET Decls : C = Top.chain \cup ({Top.current} \cap redecls)
      BY <2>2, <2>3
    <3>2. [Top EXCEPT !.current = NoDecl, !.chain = C] \in Frame
      BY <1>4, TopWith
    <3> QED BY <2>1, <3>1, <3>2
  <2>5. SameCall(Top, g)
    BY <2>2 DEF SameCall
  <2>6. CallOK(g, loaded)
    BY <1>4, <2>2, <2>3 DEF CallOK
  <2> QED BY <1>5, <1>7, <2>1, <2>4, <2>5, <2>6 DEF AddToChain
<1>8. CASE NamesAreDone \/ ChainsAreDone
  <2>1. PICK x \in {"chains", "macros"} : stack' = WithTop([Top EXCEPT !.stage = x, !.index = 1])
    BY <1>8 DEF NamesAreDone, ChainsAreDone
  <2>2. PICK g : g = [Top EXCEPT !.stage = x, !.index = 1]
    OBVIOUS
  <2>3. Top.stage # "done"
    BY <1>8 DEF NamesAreDone, ChainsAreDone, At
  <2>4. g \in Frame
    BY <1>4, <2>2, TopWith
  <2>5. SameCall(Top, g) /\ CallOK(g, loaded)
    BY <1>4, <2>2, <2>3 DEF Frame, SameCall, CallOK
  <2> QED BY <1>5, <2>1, <2>2, <2>4, <2>5
<1>9. CASE MacrosAreDone
  <2>1. PICK x \in {"names", "bodies"} : stack' = WithTop([Top EXCEPT !.stage = x])
    BY <1>9 DEF MacrosAreDone
  <2>2. PICK g : g = [Top EXCEPT !.stage = x]
    OBVIOUS
  <2>3. Top.stage # "done"
    BY <1>9 DEF MacrosAreDone, At
  <2>4. g \in Frame /\ SameCall(Top, g) /\ CallOK(g, loaded)
    BY <1>4, <2>2, <2>3 DEF Frame, SameCall, CallOK
  <2> QED BY <1>5, <2>1, <2>2, <2>4
<1>10. CASE SetLazyBody
  <2>1. TurnedStep
    BY <1>1, <1>2, <1>10 DEF TurnedStep, Turn, SetLazyBody, loadVars
  <2> QED BY <2>1 DEF Plain
<1> QED BY <1>6, <1>7, <1>8, <1>9, <1>10

LEMMA RangeType ==
  ASSUME NEW S, NEW s \in Seq(S)
  PROVE  Range(s) \subseteq S
BY DEF Range

LEMMA CallWithTodo ==
  ASSUME NEW k \in {"scope", "chain", "macro"}, NEW d \in Decls \cup {NoDecl}, NEW T,
         k \in {"scope", "chain"} => T \in SUBSET Decls,
         k = "macro" => T \in SUBSET Names,
         NEW g, g = [NewFrame(k, d) EXCEPT !.todo = T], NEW S
  PROVE  g \in Frame /\ CallOK(g, S)
<1>1. T \in SUBSET (Decls \cup Names)
  OBVIOUS
<1>2. g = [kind |-> k, stage |-> "done", decl |-> d, current |-> NoDecl, todo |-> T, chain |-> {},
           index |-> 1, owning |-> TRUE, guarded |-> FALSE, place |-> NoDecl]
  BY DEF NewFrame
<1>3. g \in Frame
  <2>1. /\ {} \in SUBSET Decls /\ k \in Kinds /\ "done" \in Stages /\ NoDecl \in Decls \cup {NoDecl}
        /\ 1 \in Nat /\ TRUE \in BOOLEAN /\ FALSE \in BOOLEAN
    BY DEF Kinds, Stages
  <2>2. [kind |-> k, stage |-> "done", decl |-> d, current |-> NoDecl, todo |-> T, chain |-> {},
         index |-> 1, owning |-> TRUE, guarded |-> FALSE, place |-> NoDecl] \in Frame
    BY <1>1, <2>1, FrameType, Zenon
  <2> QED BY <1>2, <2>2, Zenon
<1>4. CallOK(g, S)
  BY <1>2 DEF CallOK
<1> QED BY <1>3, <1>4

(* ... or start another.                                                    *)
LEMMA FinishCalls ==
  ASSUME StepInv, SetGloballyVisibleDecls \/ LoadPendingDeclChain \/ LoadPendingMacro
  PROVE  Plain
<1>1. Quiet
  BY DEF SetGloballyVisibleDecls, LoadPendingDeclChain, LoadPendingMacro,
         Quiet, readVars, bodyVars, passVars
<1>2. UNCHANGED <<count, loaded, cursor>>
  BY DEF SetGloballyVisibleDecls, LoadPendingDeclChain, LoadPendingMacro
<1>3. stack # << >> /\ Top.kind = "finish"
  BY DEF SetGloballyVisibleDecls, LoadPendingDeclChain, LoadPendingMacro, At, Is
<1>4. stack \in Seq(Frame) /\ Top \in Frame /\ CallOK(Top, loaded) /\ program \in Program
  BY <1>3, TopType, ProgramType DEF StepInv, TypeOK
<1>5. Turn(stack, stack, loaded)
  BY DEF Turn
<1>6. CASE SetGloballyVisibleDecls
  <2>1. PICK g : g = [NewFrame("scope", NoDecl) EXCEPT !.todo = Head(pendingNames).decls]
    OBVIOUS
  <2>2. Head(pendingNames).decls \in SUBSET Decls
    <3>1. PICK E : E = [name : Names, decls : SUBSET Decls]
      OBVIOUS
    <3>2. pendingNames \in Seq(E) /\ pendingNames # << >>
      BY <1>6, <3>1 DEF SetGloballyVisibleDecls, StepInv, TypeOK
    <3>3. Head(pendingNames) \in E
      BY <3>2
    <3> QED BY <3>1, <3>3
  <2>3. g \in Frame /\ CallOK(g, loaded)
    BY <2>1, <2>2, CallWithTodo
  <2>4. MayCall(stack, g) /\ g.kind = "scope"
    BY <1>3, <1>6, <2>1 DEF NewFrame, MayCall, Top, SetGloballyVisibleDecls, At
  <2>5. CallStep(stack, g)
    BY <1>1, <1>2, <1>4, <1>5, <1>6, <2>1, <2>3, <2>4 DEF CallStep, SetGloballyVisibleDecls
  <2> QED BY <2>5 DEF Plain
<1>7. CASE LoadPendingDeclChain
  <2>1. PICK id : id = pendingChains[Top.index]
    OBVIOUS
  <2>2. id \in Decls
    <3>1. Top.index \in Nat /\ pendingChains \in Seq(Decls)
      BY <1>4 DEF Frame, StepInv, TypeOK
    <3>2. CASE Top.index \in 1 .. Len(pendingChains)
      BY <2>1, <3>1, <3>2
    <3>3. Top.index <= Len(pendingChains)
      BY <1>7 DEF LoadPendingDeclChain
    <3>4. Top.index # 0
      BY <1>3, <1>4 DEF CallOK
    <3> QED BY <3>1, <3>2, <3>3, <3>4
  <2>3. Canon(id) \in Decls
    BY <2>2 DEF Canon, StepInv, TypeOK
  <2>4. Range(merged[Canon(id)]) \subseteq Decls
    BY <2>3, RangeType DEF StepInv, TypeOK
  <2>5. SearchDecls(id) \subseteq Decls /\ LocalRedeclarations(SearchDecls(id)) \subseteq Decls
    BY <2>2, <2>4 DEF SearchDecls, LocalRedeclarations, InFiles
  <2>6. PICK T : T = SearchDecls(id) \cup LocalRedeclarations(SearchDecls(id))
    OBVIOUS
  <2>7. PICK g : g = [NewFrame("chain", id) EXCEPT !.todo = T]
    OBVIOUS
  <2>8. stack' = Append(stack, g)
    BY <1>7, <2>1, <2>6, <2>7 DEF LoadPendingDeclChain
  <2>9. T \subseteq Decls
    BY <2>5, <2>6
  <2>10. g \in Frame /\ CallOK(g, loaded)
    BY <2>2, <2>7, <2>9, CallWithTodo
  <2>11. MayCall(stack, g) /\ g.kind = "chain"
    BY <1>3, <1>7, <2>7 DEF NewFrame, MayCall, Top, LoadPendingDeclChain, At
  <2>12. CallStep(stack, g)
    BY <1>1, <1>2, <1>4, <1>5, <2>8, <2>10, <2>11 DEF CallStep
  <2> QED BY <2>12 DEF Plain
<1>8. CASE LoadPendingMacro
  <2>1. PICK T : T = UNION program.macros[pendingMacros[Top.index]]
    OBVIOUS
  <2>2. T \subseteq Names
    <3>1. Top.index \in Nat /\ pendingMacros \in Seq(Names)
      BY <1>4 DEF Frame, StepInv, TypeOK
    <3>2. Top.index <= Len(pendingMacros) /\ Top.index # 0
      BY <1>3, <1>4, <1>8 DEF LoadPendingMacro, CallOK
    <3>3. pendingMacros[Top.index] \in Names
      BY <3>1, <3>2
    <3> QED BY <1>4, <2>1, <3>3 DEF Program
  <2>3. PICK h : h = [Top EXCEPT !.index = @ + 1]
    OBVIOUS
  <2>4. PICK g : g = [NewFrame("macro", NoDecl) EXCEPT !.todo = T]
    OBVIOUS
  <2>5. PICK t : t = Append(Front(stack), h)
    OBVIOUS
  <2>6. h \in Frame /\ SameCall(Last(stack), h) /\ CallOK(h, loaded) /\ h.kind = "finish" /\ h.stage = "macros"
    <3>1. Top.stage = "macros"
      BY <1>8 DEF LoadPendingMacro, At
    <3>2. h \in Frame /\ SameCall(Top, h) /\ CallOK(h, loaded)
      <4>1. Top.index + 1 \in Nat \ {0}
        BY <1>4 DEF Frame
      <4> QED BY <1>4, <2>3, <4>1 DEF Frame, SameCall, CallOK
    <3>3. h.kind = "finish" /\ h.stage = "macros"
      BY <1>3, <1>4, <2>3, <3>1 DEF Frame
    <3> QED BY <3>2, <3>3 DEF Top
  <2>7. Turn(stack, t, loaded) /\ t \in Seq(Frame) /\ t # << >> /\ Last(t) = h
    BY <1>3, <1>4, <2>5, <2>6, TurnTop
  <2>8. stack' = Append(t, g)
    BY <1>8, <2>1, <2>3, <2>4, <2>5 DEF LoadPendingMacro, WithTop, Below
  <2>9. g \in Frame /\ CallOK(g, loaded)
    BY <2>2, <2>4, CallWithTodo
  <2>10. MayCall(t, g) /\ g.kind = "macro"
    BY <2>4, <2>6, <2>7 DEF NewFrame, MayCall
  <2>11. CallStep(t, g)
    BY <1>1, <1>2, <2>7, <2>8, <2>9, <2>10 DEF CallStep
  <2> QED BY <2>11 DEF Plain
<1> QED BY <1>6, <1>7, <1>8

LEMMA ReturnSteps ==
  ASSUME StepInv, PopPendingName \/ HookUpChain \/ MacroIsRead \/ ConsumerReturns \/ BodyIsRead
  PROVE  ReturnStep
<1>1. Quiet /\ UNCHANGED <<count, loaded, cursor>>
  BY DEF PopPendingName, HookUpChain, MacroIsRead, ConsumerReturns, BodyIsRead,
         Quiet, readVars, bodyVars, passVars
<1>2. stack # << >> /\ Top.kind \in {"scope", "chain", "macro", "handle", "body"}
  BY DEF PopPendingName, HookUpChain, MacroIsRead, ConsumerReturns, BodyIsRead, Is
<1>3. CASE PopPendingName \/ MacroIsRead \/ ConsumerReturns \/ BodyIsRead
  <2>1. stack' = Below
    BY <1>3 DEF PopPendingName, MacroIsRead, ConsumerReturns, BodyIsRead
  <2> QED BY <1>1, <1>2, <2>1 DEF ReturnStep, Turn
<1>4. CASE HookUpChain
  <2>1. Top.kind = "chain"
    BY <1>4 DEF HookUpChain, Is
  <2>2. /\ Top \in Frame /\ Below \in Seq(Frame) /\ Len(stack) \in Nat \ {0} /\ Top = stack[Len(stack)]
        /\ PlaceOK(stack, Len(stack)) /\ Len(Below) = Len(stack) - 1
        /\ \A i \in 1 .. Len(stack) - 1 : Below[i] = stack[i]
    BY <1>2, TopType DEF StepInv
  <2>3. Len(stack) # 1 /\ stack[Len(stack) - 1].kind = "finish"
    BY <2>1, <2>2 DEF PlaceOK
  <2>4. PICK n \in Nat : n = Len(stack) - 1 /\ n # 0
    BY <2>2, <2>3
  <2>5. Below # << >> /\ n \in 1 .. Len(stack) - 1
    BY <2>2, <2>4
  <2>6. Last(Below) = Below[n]
    BY <2>2, <2>4, <2>5, LastFront, Zenon
  <2>7. Last(Below) = stack[n] /\ stack[n] \in Frame /\ CallOK(stack[n], loaded) /\ stack[n].kind = "finish"
    <3>1. n \in 1 .. Len(stack)
      BY <2>2, <2>4
    <3> QED BY <2>2, <2>3, <2>4, <2>5, <2>6, <3>1 DEF StepInv, StackInv, StackOK, TypeOK
  <2>8. PICK g : g = [Last(Below) EXCEPT !.index = @ + 1]
    OBVIOUS
  <2>9. g \in Frame /\ SameCall(Last(Below), g) /\ CallOK(g, loaded)
    BY <2>7, <2>8 DEF Frame, SameCall, CallOK
  <2>10. stack' = Append(Front(Below), g)
    BY <1>4, <2>8 DEF HookUpChain
  <2>11. Turn(Below, stack', loaded) /\ Last(stack') = g
    <3>1. PICK u : u = Append(Front(Below), g)
      OBVIOUS
    <3>2. Turn(Below, u, loaded) /\ Last(u) = g
      BY <2>2, <2>5, <2>9, <3>1, TurnTop
    <3> QED BY <2>10, <3>1, <3>2
  <2>12. g.stage = Last(Below).stage
    BY <2>7, <2>8 DEF Frame
  <2> QED BY <1>1, <1>2, <2>11, <2>12 DEF ReturnStep
<1> QED BY <1>3, <1>4

LEMMA StepForms ==
  ASSUME StepInv, Next
  PROVE  Plain \/ Special
<1>1. \/ \/ ReadFirst \/ LinkToFirst \/ ReadDeclName \/ ReadDeclType \/ UpdateIdentifier
         \/ Merge \/ ReadRest
      \/ AskForNext \/ ReadMacroToken \/ ReadInBody \/ StartNextDefinition
      \/ AskForDecl \/ LookUp \/ InitializeSema \/ ImportFile
      \/ PushIntoScope \/ AddToChain \/ NamesAreDone \/ ChainsAreDone \/ MacrosAreDone \/ SetLazyBody
      \/ SetGloballyVisibleDecls \/ LoadPendingDeclChain \/ LoadPendingMacro
      \/ PopPendingName \/ HookUpChain \/ MacroIsRead \/ ConsumerReturns \/ BodyIsRead
      \/ Special
  BY DEF Next, ClientStep, ReadStep, FinishStep, ConsumerStep, Special
<1>2. ReturnStep => Plain
  BY DEF Plain
<1> QED BY <1>1, <1>2, RecordSteps, AskingSteps, ClientSteps, FinishGoesOn, FinishCalls, ReturnSteps, Zenon

-----------------------------------------------------------------------------
(* The calls stay as they should be                                         *)

PassingOK(s, b) == b <=> \E i \in 1 .. Len(s) : s[i].guarded

Fine(s, S, n, b) ==
  /\ s \in Seq(Frame) /\ S \subseteq Decls /\ StackOK(s, S)
  /\ n = Cardinality(Counted(s)) /\ PassingOK(s, b)

(* s and t have the same calls.                                             *)
SameCalls(s, t) ==
  /\ t \in Seq(Frame) /\ Len(t) = Len(s)
  /\ \A i \in 1 .. Len(s) : SameCall(s[i], t[i])

LEMMA TurnedCalls ==
  ASSUME NEW s \in Seq(Frame), NEW S, NEW t, Turn(s, t, S)
  PROVE  SameCalls(s, t)
<1>1. \A f : SameCall(f, f)
  BY DEF SameCall
<1>2. CASE t = s
  BY <1>1, <1>2 DEF SameCalls
<1>3. CASE t # s
  <2>1. PICK g \in Frame : SameCall(Last(s), g) /\ t = Append(Front(s), g) /\ s # << >>
    BY <1>3 DEF Turn
  <2>2. IsReplaced(Frame, t, s, g)
    BY <2>1, ElementReplaced, Zenon
  <2>3. Last(s) = s[Len(s)] /\ Len(s) \in Nat \ {0}
    BY <2>1, LastFront, Zenon
  <2>4. /\ t \in Seq(Frame) /\ Len(t) = Len(s) /\ t[Len(s)] = g
        /\ \A i \in 1 .. Len(s) : i # Len(s) => t[i] = s[i]
    BY <2>2, <2>3 DEF IsReplaced
  <2> SUFFICES ASSUME NEW i \in 1 .. Len(s) PROVE SameCall(s[i], t[i])
    BY <2>4 DEF SameCalls
  <2>5. CASE i = Len(s)
    BY <2>1, <2>3, <2>4, <2>5
  <2>6. CASE i # Len(s)
    BY <1>1, <2>4, <2>6
  <2> QED BY <2>5, <2>6
<1> QED BY <1>2, <1>3

LEMMA StackGrows ==
  ASSUME NEW s, NEW S, NEW T, S \subseteq T, StackOK(s, S)
  PROVE  StackOK(s, T)
BY CallOKGrows DEF StackOK

LEMMA FineTurned ==
  ASSUME NEW s, NEW S, NEW n, NEW b, Fine(s, S, n, b),
         NEW T \in SUBSET Decls, S \subseteq T, NEW t, Turn(s, t, T)
  PROVE  Fine(t, T, n, b)
<1>1. s \in Seq(Frame) /\ StackOK(s, S) /\ n = Cardinality(Counted(s)) /\ PassingOK(s, b)
  BY DEF Fine
<1>2. StackOK(s, T)
  BY <1>1, StackGrows
<1>3. SameCalls(s, t)
  BY <1>1, TurnedCalls
<1>4. /\ t \in Seq(Frame) /\ Len(t) = Len(s)
      /\ \A i \in 1 .. Len(s) : t[i].kind = s[i].kind /\ t[i].guarded = s[i].guarded
  BY <1>3 DEF SameCalls, SameCall
<1>5. StackOK(t, T)
  <2>1. CASE t = s
    BY <1>2, <2>1
  <2>2. CASE t # s
    <3>1. PICK g \in Frame : /\ SameCall(Last(s), g) /\ CallOK(g, T)
                             /\ t = Append(Front(s), g) /\ s # << >>
      BY <2>2 DEF Turn
    <3>2. g.kind = Last(s).kind /\ g.guarded = Last(s).guarded
      BY <3>1 DEF SameCall
    <3> QED BY <1>1, <1>2, <3>1, <3>2, StackReplaced
  <2> QED BY <2>1, <2>2
<1>6. Counted(t) = Counted(s)
  BY <1>4 DEF Counted
<1>7. PassingOK(t, b)
  BY <1>1, <1>4 DEF PassingOK
<1> QED BY <1>1, <1>4, <1>5, <1>6, <1>7 DEF Fine

LEMMA FinePushed ==
  ASSUME NEW s, NEW S, NEW n, NEW b, Fine(s, S, n, b),
         NEW T \in SUBSET Decls, S \subseteq T, NEW g \in Frame, CallOK(g, T), MayCall(s, g),
         NEW t, t = Append(s, g)
  PROVE  /\ g.kind \in CountedKinds => Fine(t, T, n + 1, b)
         /\ g.kind \notin CountedKinds => Fine(t, T, n, b)
<1>1. s \in Seq(Frame) /\ StackOK(s, S) /\ n = Cardinality(Counted(s)) /\ PassingOK(s, b)
      /\ S \in SUBSET Decls
  BY DEF Fine
<1>2. StackOK(t, T)
  BY <1>1, StackPushed
<1>3. IsPushed(Frame, t, s, g)
  BY <1>1, ElementPushed, Zenon
<1>4. /\ t \in Seq(Frame) /\ Len(t) = Len(s) + 1 /\ Len(s) \in Nat /\ t[Len(s) + 1] = g
      /\ \A i \in 1 .. Len(s) : t[i] = s[i]
  BY <1>3 DEF IsPushed
<1>5. PassingOK(t, b)
  <2>1. ~g.guarded
    BY DEF MayCall
  <2>2. \A i \in 1 .. Len(t) : i \in 1 .. Len(s) \/ i = Len(s) + 1
    BY <1>4
  <2>3. \A i \in 1 .. Len(s) : i \in 1 .. Len(t)
    BY <1>4
  <2> QED BY <1>1, <1>4, <2>1, <2>2, <2>3 DEF PassingOK
<1> QED BY <1>1, <1>2, <1>4, <1>5, CountedPushed DEF Fine

LEMMA FinePopped ==
  ASSUME NEW s, NEW S, NEW n, NEW b, Fine(s, S, n, b), s # << >>
  PROVE  /\ Last(s).kind \in CountedKinds => Fine(Front(s), S, n - 1, b) /\ n \in Nat \ {0}
         /\ Last(s).kind \notin CountedKinds \cup {"pass"} => Fine(Front(s), S, n, b)
         /\ Last(s).kind = "pass" => Fine(Front(s), S, n, b /\ ~Last(s).guarded)
<1>1. s \in Seq(Frame) /\ StackOK(s, S) /\ n = Cardinality(Counted(s)) /\ PassingOK(s, b)
      /\ S \in SUBSET Decls
  BY DEF Fine
<1>2. PICK t \in Seq(Frame) : t = Front(s)
  BY <1>1, LastFront
<1>3. /\ Len(s) \in Nat \ {0} /\ Len(t) = Len(s) - 1 /\ Last(s) = s[Len(s)]
      /\ \A i \in 1 .. Len(s) - 1 : t[i] = s[i]
  BY <1>1, <1>2, LastFront
<1>4. StackOK(t, S)
  BY <1>1, <1>2, StackPopped
<1>5. \A i \in 1 .. Len(s) : CallOK(s[i], S) /\ PlaceOK(s, i)
  BY <1>1 DEF StackOK
<1>6. PICK m \in Nat : m = Cardinality(Counted(t))
  BY CountedFinite
<1>7. /\ Last(s).kind \in CountedKinds => n = m + 1
      /\ Last(s).kind \notin CountedKinds => n = m
  BY <1>1, <1>2, <1>6, CountedPopped
<1>8. \A i \in 1 .. Len(s) : i \in 1 .. Len(t) \/ i = Len(s)
  BY <1>3
<1>9. \A i \in 1 .. Len(t) : i \in 1 .. Len(s) /\ t[i] = s[i]
  BY <1>3
<1>10. ~Last(s).guarded => PassingOK(t, b)
  BY <1>1, <1>3, <1>8, <1>9 DEF PassingOK
<1>11. Last(s).kind # "pass" => ~Last(s).guarded
  <2>1. CallOK(s[Len(s)], S)
    BY <1>3, <1>5
  <2> QED BY <1>3, <2>1 DEF CallOK
<1>12. Last(s).kind = "pass" /\ Last(s).guarded => PassingOK(t, FALSE)
  <2> SUFFICES ASSUME Last(s).kind = "pass", NEW i \in 1 .. Len(t), t[i].guarded PROVE FALSE
    BY DEF PassingOK
  <2>1. PlaceOK(s, i) /\ s[i].guarded
    BY <1>5, <1>9
  <2>2. Len(s) \in i + 1 .. Len(s)
    BY <1>3
  <2> QED BY <1>3, <2>1, <2>2 DEF PlaceOK
<1>13. Last(s).kind \in CountedKinds => Last(s).kind # "pass"
  BY DEF CountedKinds
<1>14. Last(s).kind \in CountedKinds => Fine(t, S, n - 1, b) /\ n \in Nat \ {0}
  BY <1>1, <1>2, <1>4, <1>6, <1>7, <1>10, <1>11, <1>13 DEF Fine
<1>15. Last(s).kind \notin CountedKinds \cup {"pass"} => Fine(t, S, n, b)
  BY <1>1, <1>2, <1>4, <1>6, <1>7, <1>10, <1>11 DEF Fine
<1>16. Last(s).kind = "pass" => Fine(t, S, n, b /\ ~Last(s).guarded)
  <2>1. CASE Last(s).guarded
    BY <1>1, <1>2, <1>4, <1>6, <1>7, <1>12, <1>13, <2>1 DEF Fine
  <2>2. CASE ~Last(s).guarded
    <3>1. PassingOK(t, b /\ ~Last(s).guarded)
      BY <1>10, <2>2 DEF PassingOK
    <3> QED BY <1>1, <1>2, <1>4, <1>6, <1>7, <1>13, <3>1 DEF Fine
  <2> QED BY <2>1, <2>2
<1> QED BY <1>2, <1>14, <1>15, <1>16

(* The top of the stack becomes another call.                               *)
LEMMA FineReplaced ==
  ASSUME NEW s, NEW S, NEW n, NEW b \in BOOLEAN, Fine(s, S, n, b), s # << >>,
         NEW g \in Frame, CallOK(g, S), NEW t, t = Append(Front(s), g),
         \/ g.kind = Last(s).kind /\ g.guarded = Last(s).guarded
         \/ /\ g.kind \in {"finish", "pass"} /\ ~Last(s).guarded
            /\ \A i \in 1 .. Len(s) - 1 : s[i].kind \in BaseKinds
            /\ g.kind = "pass" => \A i \in 1 .. Len(s) - 1 : ~s[i].guarded
  PROVE  /\ (g.kind \in CountedKinds <=> Last(s).kind \in CountedKinds) => Fine(t, S, n, b \/ g.guarded)
         /\ g.kind \notin CountedKinds /\ Last(s).kind \in CountedKinds => Fine(t, S, n - 1, b \/ g.guarded)
<1>1. s \in Seq(Frame) /\ StackOK(s, S) /\ n = Cardinality(Counted(s)) /\ PassingOK(s, b)
      /\ S \in SUBSET Decls
  BY DEF Fine
<1>2. IsReplaced(Frame, t, s, g)
  BY <1>1, ElementReplaced, Zenon
<1>3. /\ t \in Seq(Frame) /\ Len(t) = Len(s) /\ Len(s) \in Nat \ {0} /\ t[Len(s)] = g /\ Last(s) = s[Len(s)]
      /\ \A i \in 1 .. Len(s) : i # Len(s) => t[i] = s[i]
  BY <1>2 DEF IsReplaced
<1>4. StackOK(t, S)
  BY <1>1, StackReplaced
<1>5. Cardinality(Counted(t)) \in Nat /\ Cardinality(Counted(s)) \in Nat
  BY <1>1, <1>3, CountedFinite
<1>6. PICK c \in BOOLEAN : c <=> (b \/ g.guarded)
  OBVIOUS
<1>7. PassingOK(t, c)
  <2>1. b <=> \E i \in 1 .. Len(s) : s[i].guarded
    BY <1>1 DEF PassingOK
  <2>2. Len(s) \in 1 .. Len(s)
    BY <1>3
  <2>3. g.guarded = Last(s).guarded \/ ~Last(s).guarded
    OBVIOUS
  <2>4. c => \E i \in 1 .. Len(s) : t[i].guarded
    <3>1. CASE g.guarded
      BY <1>3, <2>2, <3>1
    <3>2. CASE ~g.guarded /\ b
      <4>1. PICK i \in 1 .. Len(s) : s[i].guarded
        BY <2>1, <3>2
      <4>2. i # Len(s)
        BY <1>3, <2>3, <3>2, <4>1
      <4> QED BY <1>3, <4>1, <4>2
    <3> QED BY <1>6, <3>1, <3>2
  <2>5. (\E i \in 1 .. Len(s) : t[i].guarded) => c
    <3> SUFFICES ASSUME NEW i \in 1 .. Len(s), t[i].guarded PROVE c
      OBVIOUS
    <3>1. CASE i = Len(s)
      BY <1>3, <1>6, <3>1
    <3>2. CASE i # Len(s)
      <4>1. s[i].guarded
        BY <1>3, <3>2
      <4> QED BY <1>6, <2>1, <4>1
    <3> QED BY <3>1, <3>2
  <2> QED BY <1>3, <2>4, <2>5 DEF PassingOK
<1>8. PassingOK(t, b \/ g.guarded)
  BY <1>6, <1>7 DEF PassingOK
<1>9. (g.kind \in CountedKinds <=> Last(s).kind \in CountedKinds) => n = Cardinality(Counted(t))
  BY <1>1, CountedReplaced
<1>10. g.kind \notin CountedKinds /\ Last(s).kind \in CountedKinds => n - 1 = Cardinality(Counted(t))
  <2> SUFFICES ASSUME g.kind \notin CountedKinds, Last(s).kind \in CountedKinds
               PROVE  n - 1 = Cardinality(Counted(t))
    OBVIOUS
  <2>1. Cardinality(Counted(s)) = Cardinality(Counted(t)) + 1
    BY <1>1, CountedReplaced
  <2> QED BY <1>1, <1>5, <2>1
<1> QED BY <1>1, <1>3, <1>4, <1>8, <1>9, <1>10 DEF Fine

LEMMA StackFineIs ==
  ASSUME TypeOK
  PROVE  StackInv <=> Fine(stack, loaded, count, passing)
BY DEF TypeOK, StackInv, Fine, PassingOK

LEMMA StackFineNext ==
  ASSUME Fine(stack', loaded', count', passing'), UNCHANGED program
  PROVE  StackInv' /\ stack' \in Seq(Frame) /\ count' \in Nat
<1>1. /\ stack' \in Seq(Frame) /\ StackOK(stack', loaded')
      /\ count' = Cardinality(Counted(stack')) /\ PassingOK(stack', passing')
  BY DEF Fine
<1>2. Parsed' = Parsed
  BY DEF Parsed
<1>3. StackOK(stack, loaded)'
  BY <1>1, <1>2 DEF StackOK, CallOK, PlaceOK, BaseKinds
<1>4. (count = Cardinality(Counted(stack)))'
  BY <1>1 DEF Counted, CountedKinds
<1>5. (passing <=> \E i \in 1 .. Len(stack) : stack[i].guarded)'
  BY <1>1 DEF PassingOK
<1>6. count' \in Nat
  BY <1>1, CountedFinite
<1> QED BY <1>1, <1>3, <1>4, <1>5, <1>6 DEF StackInv

LEMMA LastAppend ==
  ASSUME NEW S, NEW s \in Seq(S), NEW e \in S
  PROVE  Append(s, e) # << >> /\ Last(Append(s, e)) = e /\ Front(Append(s, e)) = s
<1>1. PICK t : t = Append(s, e)
  OBVIOUS
<1>2. IsPushed(S, t, s, e)
  BY <1>1, ElementPushed, Zenon
<1>3. t \in Seq(S) /\ Len(t) = Len(s) + 1 /\ t[Len(s) + 1] = e /\ Len(s) \in Nat
      /\ \A i \in 1 .. Len(s) : t[i] = s[i]
  BY <1>2 DEF IsPushed
<1>4. t # << >>
  BY <1>3
<1>5. PICK f \in Seq(S) : f = Front(t) /\ Last(t) = t[Len(t)] /\ Len(f) = Len(t) - 1
                          /\ \A i \in 1 .. Len(t) - 1 : f[i] = t[i]
  BY <1>3, <1>4, LastFront
<1>6. Last(t) = e
  BY <1>3, <1>5
<1>7. f = s
  <2>1. Len(f) = Len(s) /\ \A i \in 1 .. Len(f) : f[i] = s[i]
    BY <1>3, <1>5
  <2> QED BY <2>1, SeqEqual
<1> QED BY <1>1, <1>4, <1>5, <1>6, <1>7

LEMMA FinePlain ==
  ASSUME TypeOK, StackInv, Plain, loaded \subseteq loaded', loaded' \subseteq Decls
  PROVE  Fine(stack', loaded', count', passing')
<1>1. /\ stack \in Seq(Frame) /\ loaded \subseteq Decls
      /\ cursor \in [Files -> Decls \cup {NoDecl}]
      /\ program \in Program
  BY ProgramType DEF TypeOK
<1>2. loaded' \in SUBSET Decls
  OBVIOUS
<1> Fine(stack, loaded, count, passing)
  BY StackFineIs
<1>3. passing' = passing
  BY DEF Plain, TurnedStep, RecordStep, IdentifierStep, CallStep, ReturnStep, Quiet
<1>4. CASE TurnedStep
  <2>1. Turn(stack, stack', loaded') /\ count' = count
    BY <1>4 DEF TurnedStep
  <2>2. Fine(stack', loaded', count, passing)
    BY <1>2, <2>1, FineTurned
  <2> QED BY <1>3, <2>1, <2>2
<1>5. ASSUME NEW t, Turn(stack, t, loaded')
      PROVE  Fine(t, loaded', count, passing)
  BY <1>2, <1>5, FineTurned
<1>6. ASSUME NEW t, NEW d, RecordStep(t, d)
      PROVE  Fine(stack', loaded', count', passing')
  <2>1. PICK f : f = program.file[d]
    OBVIOUS
  <2>2. /\ d \in Decls /\ d \notin Parsed /\ d \in loaded' /\ f \in Files
        /\ t = << >> \/ Last(t).kind # "finish"
        /\ count' = count + 1
    BY <1>1, <1>6, <2>1 DEF RecordStep, Parsed, Program
  <2>3. PICK p \in Decls \cup {NoDecl} : p = cursor[f]
    BY <1>1, <2>2
  <2>4. PICK g : g = [NewFrame("record", d) EXCEPT !.stage = "first", !.place = p]
    OBVIOUS
  <2>5. g \in Frame
    BY <2>2, <2>3, <2>4 DEF NewFrame, Frame
  <2>6. CallOK(g, loaded') /\ MayCall(t, g) /\ g.kind \in CountedKinds
    BY <2>2, <2>4 DEF NewFrame, CallOK, MayCall, CountedKinds
  <2>7. stack' = Append(t, g)
    BY <1>6, <2>1, <2>3, <2>4 DEF RecordStep
  <2>8. Fine(t, loaded', count, passing)
    BY <1>5, <1>6 DEF RecordStep
  <2>9. Fine(stack', loaded', count + 1, passing)
    BY <1>2, <2>5, <2>6, <2>7, <2>8, FinePushed
  <2> QED BY <1>3, <2>2, <2>9
<1>7. ASSUME NEW t, IdentifierStep(t)
      PROVE  Fine(stack', loaded', count', passing')
  <2>1. PICK g : g = NewFrame("identifier", NoDecl)
    OBVIOUS
  <2>2. g \in Frame
    BY <2>1 DEF NewFrame, Frame
  <2>3. t = << >> \/ Last(t).kind # "finish"
    BY <1>7 DEF IdentifierStep
  <2>4. CallOK(g, loaded') /\ MayCall(t, g) /\ g.kind \in CountedKinds
    BY <2>1, <2>3 DEF NewFrame, CallOK, MayCall, CountedKinds
  <2>5. stack' = Append(t, g) /\ count' = count + 1
    BY <1>7, <2>1 DEF IdentifierStep
  <2>6. Fine(t, loaded', count, passing)
    BY <1>5, <1>7 DEF IdentifierStep
  <2>7. Fine(stack', loaded', count + 1, passing)
    BY <1>2, <2>2, <2>4, <2>5, <2>6, FinePushed
  <2> QED BY <1>3, <2>5, <2>7
<1>8. ASSUME NEW t, NEW g, CallStep(t, g)
      PROVE  Fine(stack', loaded', count', passing')
  <2>1. /\ g \in Frame /\ CallOK(g, loaded') /\ MayCall(t, g) /\ g.kind \in {"scope", "chain", "macro"}
        /\ stack' = Append(t, g) /\ count' = count /\ Turn(stack, t, loaded')
    BY <1>8 DEF CallStep
  <2>2. g.kind \notin CountedKinds
    BY <2>1 DEF CountedKinds
  <2>3. Fine(t, loaded', count, passing)
    BY <1>5, <2>1
  <2>4. Fine(stack', loaded', count, passing)
    BY <1>2, <2>1, <2>2, <2>3, FinePushed
  <2> QED BY <1>3, <2>1, <2>4
<1>9. CASE ReturnStep
  <2>1. /\ stack # << >> /\ Last(stack).kind \in {"scope", "chain", "macro", "handle", "body"}
        /\ Turn(Below, stack', loaded') /\ count' = count
    BY <1>9 DEF ReturnStep, Top
  <2>2. Last(stack).kind \notin CountedKinds \cup {"pass"}
    BY <2>1 DEF CountedKinds
  <2>3. Fine(Below, loaded, count, passing)
    BY <2>1, <2>2, FinePopped DEF Below
  <2>4. Fine(stack', loaded', count, passing)
    BY <1>2, <2>1, <2>3, FineTurned
  <2> QED BY <1>3, <2>1, <2>4
<1> QED BY <1>4, <1>6, <1>7, <1>8, <1>9 DEF Plain

(* When the outermost call ends, everything below it is a base call.        *)
LEMMA OutermostIsAlone ==
  ASSUME StepInv, stack # << >>, Top.kind \in CountedKinds, count = 1
  PROVE  \A i \in 1 .. Len(stack) - 1 : stack[i].kind \in BaseKinds
<1>1. stack \in Seq(Frame) /\ Len(stack) \in Nat \ {0} /\ Last(stack).kind \in CountedKinds
  BY TopType DEF StepInv, TypeOK, Top
<1>2. Cardinality(Counted(stack)) = 1
  BY DEF StepInv, StackInv
<1>3. \A i \in 1 .. Len(stack) - 1 : stack[i].kind \notin CountedKinds
  BY <1>1, <1>2, CountedOne
<1> SUFFICES ASSUME NEW i \in 1 .. Len(stack) - 1 PROVE stack[i].kind \in BaseKinds
  OBVIOUS
<1>4. i \in 1 .. Len(stack)
  BY <1>1
<1>5. PlaceOK(stack, i) /\ stack[i] \in Frame
  BY <1>1, <1>4 DEF StepInv, StackInv, StackOK
<1>6. stack[i].kind \notin {"scope", "chain", "macro"}
  <2> SUFFICES ASSUME stack[i].kind \in {"scope", "chain", "macro"} PROVE FALSE
    OBVIOUS
  <2>1. i # 1 /\ stack[i - 1].kind = "finish"
    BY <1>5 DEF PlaceOK
  <2>2. i - 1 \in 1 .. Len(stack) - 1
    BY <1>1, <1>4, <2>1
  <2> QED BY <1>3, <2>1, <2>2 DEF CountedKinds
<1>7. stack[i].kind \notin CountedKinds
  BY <1>3
<1> QED BY <1>5, <1>6, <1>7 DEF BaseKinds, CountedKinds, Frame

LEMMA FineSpecial ==
  ASSUME StepInv, Special
  PROVE  Fine(stack', loaded', count', passing')
<1>1. /\ stack \in Seq(Frame) /\ loaded \in SUBSET Decls /\ passing \in BOOLEAN
      /\ program \in Program /\ count \in Nat /\ bodies \subseteq loaded
      /\ interesting \in Seq(Decls)
  BY ProgramType DEF StepInv, TypeOK
<1>2. Fine(stack, loaded, count, passing)
  BY StackFineIs DEF StepInv
<1>3. stack # << >> =>
        /\ Top \in Frame /\ Below \in Seq(Frame) /\ CallOK(Top, loaded)
        /\ Len(stack) \in Nat \ {0} /\ Top = stack[Len(stack)] /\ PlaceOK(stack, Len(stack))
  BY TopType DEF StepInv
<1>4. \A i \in 1 .. Len(stack) : CallOK(stack[i], loaded) /\ PlaceOK(stack, i)
  BY DEF StepInv, StackInv, StackOK
<1>5. passing <=> \E i \in 1 .. Len(stack) : stack[i].guarded
  BY DEF StepInv, StackInv
<1>6. CASE RecordRead
  <2>1. PICK g : g = [Top EXCEPT !.stage = "done"]
    OBVIOUS
  <2>2. stack # << >> /\ stack' = Append(Front(stack), g)
    BY <1>6, <2>1 DEF RecordRead, At, Is, WithTop, Below
  <2>3. loaded' = loaded /\ count' = count /\ passing' = passing
    BY <1>6 DEF RecordRead
  <2>4. g \in Frame /\ CallOK(g, loaded)
    BY <1>3, <2>1, <2>2 DEF Frame, CallOK
  <2>5. g.kind = Last(stack).kind /\ g.guarded = Last(stack).guarded /\ ~g.guarded
    <3>1. Top.kind = "record"
      BY <1>6 DEF RecordRead, At, Is
    <3> QED BY <1>3, <2>1, <2>2, <3>1 DEF Frame, Top, CallOK
  <2>6. Fine(stack', loaded, count, passing \/ g.guarded)
    BY <1>1, <1>2, <2>2, <2>4, <2>5, FineReplaced
  <2>7. (passing \/ g.guarded) = passing
    BY <1>1, <2>5
  <2> QED BY <2>3, <2>6, <2>7
<1>7. CASE FinishNested
  <2>1. stack # << >> /\ stack' = Front(stack) /\ Last(stack).kind \in CountedKinds
    BY <1>7 DEF FinishNested, GuardEnds, At, Is, Below, Top, CountedKinds
  <2>2. loaded' = loaded /\ count' = count - 1 /\ passing' = passing
    BY <1>7 DEF FinishNested, passVars
  <2> QED BY <1>2, <2>1, <2>2, FinePopped
<1>8. CASE FinishPendingActions
  <2>1. PICK g : g = [Top EXCEPT !.kind = "finish", !.stage = "names"]
    OBVIOUS
  <2>2. /\ stack # << >> /\ stack' = Append(Front(stack), g) /\ Last(stack).kind \in CountedKinds
        /\ Top.kind \in {"record", "identifier"} /\ count = 1
    BY <1>8, <2>1
       DEF FinishPendingActions, GuardEnds, IsOutermost, At, Is, WithTop, Below, Top, CountedKinds
  <2>3. loaded' = loaded /\ count' = count /\ passing' = passing
    BY <1>8 DEF FinishPendingActions, passVars
  <2>4. g \in Frame /\ g.kind = "finish" /\ g.guarded = Top.guarded /\ ~Top.guarded
        /\ g.decl = Top.decl /\ g.todo = Top.todo /\ g.current = Top.current /\ g.chain = Top.chain
        /\ g.index = Top.index
    BY <1>3, <2>1, <2>2 DEF Frame, CallOK
  <2>5. CallOK(g, loaded)
    <3>1. Top.decl \notin Parsed
      BY <1>3, <2>2, DeserializationAssumption DEF CallOK, Parsed
    <3> QED BY <1>3, <2>2, <2>4, <3>1 DEF CallOK
  <2>6. \A i \in 1 .. Len(stack) - 1 : stack[i].kind \in BaseKinds
    BY <2>2, OutermostIsAlone DEF Top
  <2>7. Fine(stack', loaded, count, passing \/ g.guarded)
    BY <1>1, <1>2, <2>2, <2>4, <2>5, <2>6, FineReplaced DEF CountedKinds, Top
  <2>8. (passing \/ g.guarded) = passing
    BY <1>1, <2>4
  <2> QED BY <2>3, <2>7, <2>8
<1>9. CASE FinishedDeserializing
  <2>1. /\ stack # << >> /\ Last(stack).kind \in CountedKinds /\ Top.kind = "finish"
        /\ count' = count - 1 /\ loaded' = loaded
    BY <1>9 DEF FinishedDeserializing, At, Is, CountedKinds, Top
  <2>2. CASE MayPass(count - 1)
    <3>1. PICK g : g = [Top EXCEPT !.kind = "pass", !.guarded = TRUE]
      OBVIOUS
    <3>2. stack' = Append(Front(stack), g) /\ passing' = TRUE /\ ~passing
      BY <1>9, <2>2, <3>1 DEF FinishedDeserializing, MayPass, WithTop, Below
    <3>3. g \in Frame /\ g.kind = "pass" /\ g.guarded = TRUE
          /\ g.decl = Top.decl /\ g.todo = Top.todo /\ g.current = Top.current /\ g.chain = Top.chain
          /\ g.index = Top.index
      BY <1>3, <2>1, <3>1 DEF Frame
    <3>4. CallOK(g, loaded)
      BY <1>3, <2>1, <3>3 DEF CallOK
    <3>5. \A i \in 1 .. Len(stack) - 1 : stack[i].kind \in BaseKinds
      BY <1>3, <2>1 DEF PlaceOK
    <3>6. \A i \in 1 .. Len(stack) : ~stack[i].guarded
      BY <1>5, <3>2
    <3>7. ~Last(stack).guarded /\ \A i \in 1 .. Len(stack) - 1 : ~stack[i].guarded
      BY <1>3, <2>1, <3>6 DEF Top
    <3>8. g.kind \notin CountedKinds
      BY <3>3 DEF CountedKinds
    <3>9. Fine(stack', loaded, count - 1, passing \/ g.guarded)
      BY <1>1, <1>2, <2>1, <3>2, <3>3, <3>4, <3>5, <3>7, <3>8, FineReplaced
    <3>10. (passing \/ g.guarded) = TRUE
      BY <3>3
    <3> QED BY <2>1, <3>2, <3>9, <3>10
  <2>3. CASE ~MayPass(count - 1)
    <3>1. stack' = Front(stack) /\ passing' = passing
      BY <1>9, <2>3 DEF FinishedDeserializing, Below
    <3> QED BY <1>2, <2>1, <3>1, FinePopped
  <2> QED BY <2>2, <2>3
<1>10. CASE PassInterestingDecl
  <2>1. PICK d \in Decls : d = Head(interesting)
    BY <1>1, <1>10 DEF PassInterestingDecl
  <2>2. d \in loaded \ Parsed
    <3>1. interesting # << >> /\ interesting[1] = d
      BY <1>1, <1>10, <2>1 DEF PassInterestingDecl
    <3>2. d \in Range(interesting)
      BY <1>1, <3>1 DEF Range
    <3> QED BY <3>2 DEF StepInv, ParsedInv
  <2>3. PICK g : g = NewFrame("handle", d)
    OBVIOUS
  <2>4. g \in Frame
    BY <2>3 DEF NewFrame, Frame
  <2>5. CallOK(g, loaded) /\ g.kind \notin CountedKinds
    BY <2>2, <2>3 DEF NewFrame, CallOK, CountedKinds
  <2>6. /\ stack # << >> /\ stack' = Append(stack, g) /\ loaded' = loaded /\ count' = count
        /\ passing' = passing /\ Top.kind = "pass"
    BY <1>10, <2>1, <2>3 DEF PassInterestingDecl, Is
  <2>7. MayCall(stack, g)
    BY <2>3, <2>6 DEF NewFrame, MayCall, Top
  <2> QED BY <1>1, <1>2, <2>4, <2>5, <2>6, <2>7, FinePushed
<1>11. CASE AllPassed
  <2>1. /\ stack # << >> /\ Last(stack).kind = "pass" /\ stack' = Front(stack)
        /\ passing' = (passing /\ ~Last(stack).guarded)
        /\ count' = count /\ loaded' = loaded
    BY <1>11 DEF AllPassed, Is, Top, Below, PassingAfter
  <2> QED BY <1>2, <2>1, FinePopped
<1>12. ASSUME NEW d, GetBody(d, stack), stack = << >> \/ Last(stack).kind = "handle"
       PROVE  Fine(stack', loaded', count', passing')
  <2>1. d \in loaded \ Parsed /\ d \in Decls
    BY <1>1, <1>12 DEF GetBody, StepInv, ParsedInv
  <2>2. program.uses[d] \in SUBSET (Decls \cup Names)
    BY <1>1, <2>1 DEF Program
  <2>3. PICK g : g = [NewFrame("body", d) EXCEPT !.todo = program.uses[d]]
    OBVIOUS
  <2>4. g \in Frame
    BY <2>1, <2>2, <2>3 DEF NewFrame, Frame
  <2>5. CallOK(g, loaded) /\ g.kind \notin CountedKinds
    BY <2>1, <2>3 DEF NewFrame, CallOK, CountedKinds
  <2>6. MayCall(stack, g)
    BY <1>12, <2>3 DEF NewFrame, MayCall
  <2>7. stack' = Append(stack, g) /\ loaded' = loaded /\ count' = count /\ passing' = passing
    BY <1>12, <2>3 DEF GetBody, passVars
  <2> QED BY <1>1, <1>2, <2>4, <2>5, <2>6, <2>7, FinePushed
<1>13. CASE ConsumerGetsBody
  BY <1>12, <1>13 DEF ConsumerGetsBody, Is, Top
<1>14. CASE AskForBody
  BY <1>12, <1>14 DEF AskForBody, Idle
<1>15. CASE StartProgram
  <2>1. PICK g : g = [NewFrame("start", NoDecl) EXCEPT !.todo = externalDefinitions]
    OBVIOUS
  <2>2. externalDefinitions \in SUBSET Decls
    BY DEF StepInv, TypeOK
  <2>3. g \in Frame
    BY <2>1, <2>2 DEF NewFrame, Frame
  <2>4. CallOK(g, loaded) /\ g.kind \notin CountedKinds
    BY <2>1, <2>2 DEF NewFrame, CallOK, CountedKinds
  <2>5. stack = << >> /\ stack' = <<g>> /\ loaded' = loaded /\ count' = count /\ passing' = passing
    BY <1>15, <2>1 DEF StartProgram, Idle, passVars
  <2>6. MayCall(stack, g)
    BY <2>1, <2>5 DEF NewFrame, MayCall
  <2>7. stack' = Append(stack, g)
    BY <2>5
  <2> QED BY <1>1, <1>2, <2>3, <2>4, <2>5, <2>6, <2>7, FinePushed
<1>16. CASE DefinitionsStarted
  <2>1. PICK g : g = [Top EXCEPT !.kind = "pass"]
    OBVIOUS
  <2>2. /\ stack # << >> /\ Top.kind = "start" /\ stack' = Append(Front(stack), g)
        /\ loaded' = loaded /\ count' = count /\ passing' = passing
    BY <1>16, <2>1 DEF DefinitionsStarted, Is, WithTop, Below, passVars
  <2>3. Len(stack) = 1 /\ Top.decl = NoDecl /\ ~Top.guarded
    BY <1>3, <2>2 DEF PlaceOK, CallOK
  <2>4. g \in Frame /\ g.kind = "pass" /\ g.guarded = Top.guarded
        /\ g.decl = Top.decl /\ g.todo = Top.todo /\ g.current = Top.current /\ g.chain = Top.chain
        /\ g.index = Top.index
    BY <1>3, <2>1, <2>2 DEF Frame
  <2>5. NoDecl \notin Parsed
    BY DeserializationAssumption DEF Parsed
  <2>6. CallOK(g, loaded)
    BY <1>3, <2>2, <2>3, <2>4, <2>5 DEF CallOK
  <2>7. (passing \/ g.guarded) = passing
    BY <1>1, <2>3, <2>4
  <2>8. \A i \in 1 .. Len(stack) - 1 : FALSE
    BY <2>3
  <2>9. g.kind \notin CountedKinds /\ Last(stack).kind \notin CountedKinds /\ ~Last(stack).guarded
    BY <2>2, <2>3, <2>4 DEF CountedKinds, Top
  <2>10. Fine(stack', loaded, count, passing \/ g.guarded)
    BY <1>1, <1>2, <2>2, <2>4, <2>6, <2>8, <2>9, FineReplaced
  <2> QED BY <2>2, <2>7, <2>10
<1> QED BY <1>6, <1>7, <1>8, <1>9, <1>10, <1>11, <1>13, <1>14, <1>15, <1>16 DEF Special

-----------------------------------------------------------------------------
(* What each group of variables is changed by                               *)

ReadOK ==
  /\ program \in Programs /\ files \subseteq Files /\ {sema, consumer} \subseteq BOOLEAN
  /\ externalDefinitions \subseteq Decls

IdsOK ==
  /\ outOfDate \subseteq namesRead /\ namesRead \subseteq Names
  /\ pendingNames \in Seq([name : Names, decls : SUBSET Decls])
  /\ pendingMacros \in Seq(Names)

ChainsOK ==
  /\ pendingChains \in Seq(Decls) /\ known \subseteq Decls /\ redecls \subseteq loaded
  /\ canonical \in [Decls -> Decls] /\ merged \in [Decls -> Seq(Decls)]
  /\ dug \subseteq Files \X Decls /\ wired \subseteq loaded

PassOK == passing \in BOOLEAN /\ interesting \in Seq(Decls) /\ handled \in [Decls -> Nat]

ScopesOK == preloaded \subseteq loaded /\ resolver \subseteq loaded

CursorOK == cursor \in [Files -> Decls \cup {NoDecl}]

BodySetsOK == pendingBodies \subseteq loaded /\ bodies \subseteq loaded /\ bodiesRead \subseteq bodies

LEMMA TypeOKIs ==
  TypeOK <=> /\ ReadOK /\ IdsOK /\ ChainsOK /\ PassOK /\ ScopesOK /\ CursorOK /\ BodySetsOK
             /\ stack \in Seq(Frame) /\ count \in Nat /\ loaded \subseteq Decls
BY DEF TypeOK, ReadOK, IdsOK, ChainsOK, PassOK, ScopesOK, CursorOK, BodySetsOK

IdentifierRead(n) ==
  /\ namesRead' = namesRead \cup {n}
  /\ outOfDate' = outOfDate \ {n}
  /\ pendingNames' = Append(pendingNames,
       [name |-> n, decls |-> {d \in program.visible \cap InFiles(files) : program.name[d] = n}])
  /\ pendingMacros' = IF program.macros[n] = {} \/ Contains(pendingMacros, n)
                        THEN pendingMacros ELSE Append(pendingMacros, n)
  /\ count' = count + 1 /\ UNCHANGED <<loaded, readVars, scopeVars>>
  /\ \E s : stack' = Append(s, NewFrame("identifier", NoDecl))

LEMMA WhatChangesFiles ==
  ASSUME Next
  PROVE  /\ program' = program
         /\ UNCHANGED readVars \/ StartProgram \/ DefinitionsStarted \/ ImportFile \/ InitializeSema
BY DEF Next, ClientStep, ReadStep, FinishStep, ConsumerStep, readVars,
       AskForDecl, LookUp, AskForBody, GetBody, InitializeSema, StartProgram, ImportFile,
       ReadFirst, LinkToFirst, ReadDeclName, ReadDeclType, UpdateIdentifier, Merge, ReadRest,
       RecordRead, AskForNext, ReadMacroToken, ReadInBody, BodyIsRead,
       FinishNested, FinishPendingActions, SetGloballyVisibleDecls, PushIntoScope, PopPendingName,
       NamesAreDone, LoadPendingDeclChain, AddToChain, HookUpChain, ChainsAreDone, LoadPendingMacro,
       MacroIsRead, MacrosAreDone, SetLazyBody, FinishedDeserializing,
       PassInterestingDecl, AllPassed, ConsumerGetsBody, ConsumerReturns, StartNextDefinition,
       DefinitionsStarted

LEMMA WhatChangesChains ==
  ASSUME Next
  PROVE  \/ UNCHANGED chainVars
         \/ LinkToFirst \/ Merge \/ RecordRead \/ LoadPendingDeclChain \/ AddToChain
         \/ HookUpChain \/ ChainsAreDone
BY DEF Next, ClientStep, ReadStep, FinishStep, ConsumerStep, chainVars,
       AskForDecl, LookUp, AskForBody, GetBody, InitializeSema, StartProgram, ImportFile,
       ReadFirst, ReadDeclName, ReadDeclType, UpdateIdentifier, ReadRest,
       AskForNext, ReadMacroToken, ReadInBody, BodyIsRead,
       FinishNested, FinishPendingActions, SetGloballyVisibleDecls, PushIntoScope, PopPendingName,
       NamesAreDone, LoadPendingMacro, MacroIsRead, MacrosAreDone, SetLazyBody, FinishedDeserializing,
       PassInterestingDecl, AllPassed, ConsumerGetsBody, ConsumerReturns, StartNextDefinition,
       DefinitionsStarted

LEMMA WhatChangesBodies ==
  ASSUME Next
  PROVE  UNCHANGED bodyVars \/ RecordRead \/ SetLazyBody \/ \E d : GetBody(d, stack)
BY DEF Next, ClientStep, ReadStep, FinishStep, ConsumerStep, bodyVars,
       AskForDecl, LookUp, AskForBody, InitializeSema, StartProgram, ImportFile,
       ReadFirst, LinkToFirst, ReadDeclName, ReadDeclType, UpdateIdentifier, Merge, ReadRest,
       AskForNext, ReadMacroToken, ReadInBody, BodyIsRead,
       FinishNested, FinishPendingActions, SetGloballyVisibleDecls, PushIntoScope, PopPendingName,
       NamesAreDone, LoadPendingDeclChain, AddToChain, HookUpChain, ChainsAreDone, LoadPendingMacro,
       MacroIsRead, MacrosAreDone, FinishedDeserializing,
       PassInterestingDecl, AllPassed, ConsumerGetsBody, ConsumerReturns, StartNextDefinition,
       DefinitionsStarted

LEMMA WhatChangesPassing ==
  ASSUME Next
  PROVE  \/ UNCHANGED passVars
         \/ RecordRead \/ FinishedDeserializing \/ PassInterestingDecl \/ AllPassed
BY DEF Next, ClientStep, ReadStep, FinishStep, ConsumerStep, passVars,
       AskForDecl, LookUp, AskForBody, GetBody, InitializeSema, StartProgram, ImportFile,
       ReadFirst, LinkToFirst, ReadDeclName, ReadDeclType, UpdateIdentifier, Merge, ReadRest,
       AskForNext, ReadMacroToken, ReadInBody, BodyIsRead,
       FinishNested, FinishPendingActions, SetGloballyVisibleDecls, PushIntoScope, PopPendingName,
       NamesAreDone, LoadPendingDeclChain, AddToChain, HookUpChain, ChainsAreDone, LoadPendingMacro,
       MacroIsRead, MacrosAreDone, SetLazyBody,
       ConsumerGetsBody, ConsumerReturns, StartNextDefinition, DefinitionsStarted

LEMMA WhatChangesScopes ==
  ASSUME Next
  PROVE  UNCHANGED scopeVars \/ PushIntoScope \/ Merge \/ InitializeSema
BY DEF Next, ClientStep, ReadStep, FinishStep, ConsumerStep, scopeVars,
       AskForDecl, LookUp, AskForBody, GetBody, StartProgram, ImportFile,
       ReadFirst, LinkToFirst, ReadDeclName, ReadDeclType, UpdateIdentifier, ReadRest,
       RecordRead, AskForNext, ReadMacroToken, ReadInBody, BodyIsRead,
       FinishNested, FinishPendingActions, SetGloballyVisibleDecls, PopPendingName,
       NamesAreDone, LoadPendingDeclChain, AddToChain, HookUpChain, ChainsAreDone, LoadPendingMacro,
       MacroIsRead, MacrosAreDone, SetLazyBody, FinishedDeserializing,
       PassInterestingDecl, AllPassed, ConsumerGetsBody, ConsumerReturns, StartNextDefinition,
       DefinitionsStarted

LEMMA WhatChangesCursors ==
  ASSUME StepInv, Next
  PROVE  \/ UNCHANGED cursor
         \/ \E t : \E d : RecordStep(t, d)
         \/ FinishNested \/ FinishedDeserializing \/ AllPassed \/ \E d : GetBody(d, stack)
<1>1. CASE Plain
  BY <1>1 DEF Plain, TurnedStep, IdentifierStep, CallStep, ReturnStep
<1>2. CASE Special
  BY <1>2 DEF Special, RecordRead, FinishPendingActions, PassInterestingDecl, ConsumerGetsBody,
              AskForBody, StartProgram, DefinitionsStarted
<1> QED BY <1>1, <1>2, StepForms

LEMMA LoadedGrows ==
  ASSUME StepInv, Next
  PROVE  loaded \subseteq loaded' /\ loaded' \subseteq Decls
<1>1. loaded \subseteq Decls
  BY DEF StepInv, TypeOK
<1>2. CASE Plain
  BY <1>1, <1>2 DEF Plain, TurnedStep, RecordStep, IdentifierStep, CallStep, ReturnStep
<1>3. CASE Special
  <2>1. loaded' = loaded
    BY <1>3 DEF Special, RecordRead, FinishNested, FinishPendingActions, FinishedDeserializing,
              PassInterestingDecl, AllPassed, ConsumerGetsBody, AskForBody, GetBody,
              StartProgram, DefinitionsStarted
  <2> QED BY <1>1, <2>1
<1> QED BY <1>2, <1>3, StepForms

LEMMA StackNext ==
  ASSUME StepInv, Next
  PROVE  StackInv' /\ stack' \in Seq(Frame) /\ count' \in Nat
<1>1. loaded \subseteq loaded' /\ loaded' \subseteq Decls
  BY LoadedGrows
<1>2. Fine(stack', loaded', count', passing')
  BY <1>1, StepForms, FinePlain, FineSpecial DEF StepInv
<1> QED BY <1>2, WhatChangesFiles, StackFineNext

LEMMA WhatChangesNames ==
  ASSUME StepInv, Next
  PROVE  \/ UNCHANGED idVars
         \/ \E n \in Names : IdentifierRead(n)
         \/ PopPendingName \/ MacrosAreDone \/ ImportFile
<1> DEFINE Read == \E n \in Names : IdentifierRead(n)
<1>1. program \in Program /\ outOfDate \subseteq Names
  BY ProgramType DEF StepInv, TypeOK
<1>2. stack # << >> => Top \in Frame /\ CallOK(Top, loaded)
  BY TopType DEF StepInv
<1>3. ASSUME NEW n \in Names, NEW s, ReadIdentifier(n, s) \/ DecodeIdentifier(n, s),
             UNCHANGED <<readVars, scopeVars>>
      PROVE  UNCHANGED idVars \/ Read
  <2>1. CASE ReadIdentifier(n, s)
    <3>1. IdentifierRead(n)
      BY <1>3, <2>1 DEF ReadIdentifier, IdentifierRead, readVars
    <3> QED BY <3>1
  <2>2. CASE DecodeIdentifier(n, s) /\ ~ReadIdentifier(n, s)
    BY <2>2 DEF DecodeIdentifier
  <2> QED BY <1>3, <2>1, <2>2
<1>4. CASE ReadDeclName \/ UpdateIdentifier
  <2>1. stack # << >> /\ Top.kind = "record"
    BY <1>4 DEF ReadDeclName, UpdateIdentifier, At, Is
  <2>2. program.name[Top.decl] \in Names
    BY <1>1, <1>2, <2>1 DEF CallOK, Program
  <2>3. PICK s : \/ DecodeIdentifier(program.name[Top.decl], s)
                 \/ ReadIdentifier(program.name[Top.decl], s)
    BY <1>4 DEF ReadDeclName, UpdateIdentifier
  <2>4. UNCHANGED <<readVars, scopeVars>>
    BY <1>4 DEF ReadDeclName, UpdateIdentifier
  <2> QED BY <1>3, <2>2, <2>3, <2>4
<1>5. CASE LookUp
  <2>1. PICK n \in Names : ReadIdentifier(n, stack)
    BY <1>1, <1>5 DEF LookUp
  <2>2. UNCHANGED <<readVars, scopeVars>>
    BY <1>5 DEF LookUp
  <2> QED BY <1>3, <2>1, <2>2
<1>6. CASE ReadMacroToken
  <2>1. PICK n \in Top.todo : \E s : DecodeIdentifier(n, s)
    BY <1>6 DEF ReadMacroToken
  <2>2. n \in Names
    BY <1>2, <1>6, <2>1 DEF ReadMacroToken, Is, CallOK
  <2>3. PICK s : DecodeIdentifier(n, s)
    BY <2>1
  <2>4. UNCHANGED <<readVars, scopeVars>>
    BY <1>6 DEF ReadMacroToken
  <2> QED BY <1>3, <2>2, <2>3, <2>4
<1>7. CASE ReadInBody
  <2>1. PICK x \in Top.todo : LET s == WithTop([Top EXCEPT !.todo = @ \ {x}]) IN
         IF x \in Decls THEN GetDecl(x, s) /\ UNCHANGED idVars ELSE DecodeIdentifier(x, s)
    BY <1>7 DEF ReadInBody
  <2>2. CASE x \in Decls
    BY <2>1, <2>2
  <2>3. CASE x \notin Decls
    <3>1. x \in Names
      BY <1>2, <1>7, <2>1, <2>3 DEF ReadInBody, Is, Frame
    <3>2. PICK s : DecodeIdentifier(x, s)
      BY <2>1, <2>3
    <3>3. UNCHANGED <<readVars, scopeVars>>
      BY <1>7 DEF ReadInBody
    <3> QED BY <1>3, <3>1, <3>2, <3>3
  <2> QED BY <2>2, <2>3
<1>8. \/ UNCHANGED idVars
      \/ ReadDeclName \/ UpdateIdentifier \/ LookUp \/ ReadMacroToken \/ ReadInBody
      \/ PopPendingName \/ MacrosAreDone \/ ImportFile
  BY DEF Next, ClientStep, ReadStep, FinishStep, ConsumerStep, idVars,
       AskForDecl, AskForBody, GetBody, InitializeSema, StartProgram,
       ReadFirst, LinkToFirst, ReadDeclType, Merge, ReadRest,
       RecordRead, AskForNext, BodyIsRead,
       FinishNested, FinishPendingActions, SetGloballyVisibleDecls, PushIntoScope,
       NamesAreDone, LoadPendingDeclChain, AddToChain, HookUpChain, ChainsAreDone, LoadPendingMacro,
       MacroIsRead, SetLazyBody, FinishedDeserializing,
       PassInterestingDecl, AllPassed, ConsumerGetsBody, ConsumerReturns, StartNextDefinition,
       DefinitionsStarted
<1> QED BY <1>4, <1>5, <1>6, <1>7, <1>8

-----------------------------------------------------------------------------
(* Type correctness                                                         *)

LEMMA ReadOKNext ==
  ASSUME StepInv, Next
  PROVE  ReadOK'
<1>1. ReadOK /\ program \in Program
  BY TypeOKIs, ProgramType DEF StepInv
<1>2. CASE UNCHANGED readVars
  BY <1>1, <1>2 DEF ReadOK, readVars
<1>3. CASE StartProgram \/ DefinitionsStarted \/ InitializeSema
  BY <1>1, <1>3 DEF ReadOK, StartProgram, DefinitionsStarted, InitializeSema
<1>4. CASE ImportFile
  <2>1. PICK f \in Files \ files : LET new == ({f} \cup program.imports[f]) \ files IN
       /\ files' = files \cup new
       /\ externalDefinitions' = externalDefinitions \cup Definitions(new)
    BY <1>4 DEF ImportFile
  <2>2. PICK N : N = ({f} \cup program.imports[f]) \ files
    OBVIOUS
  <2>3. N \subseteq Files
    BY <1>1, <2>1, <2>2 DEF Program
  <2>4. Definitions(N) \subseteq Decls
    BY <1>1, <2>3 DEF Definitions, Program
  <2>5. files' = files \cup N /\ externalDefinitions' = externalDefinitions \cup Definitions(N)
    BY <2>1, <2>2
  <2> QED BY <1>1, <1>4, <2>3, <2>4, <2>5 DEF ReadOK, ImportFile
<1> QED BY <1>2, <1>3, <1>4, WhatChangesFiles

LEMMA IdsOKNext ==
  ASSUME StepInv, Next
  PROVE  IdsOK'
<1>1. IdsOK /\ program \in Program
  BY TypeOKIs, ProgramType DEF StepInv
<1>2. PICK E : E = [name : Names, decls : SUBSET Decls]
  OBVIOUS
<1>3. pendingNames \in Seq(E) /\ pendingMacros \in Seq(Names)
  BY <1>1, <1>2 DEF IdsOK
<1>4. CASE UNCHANGED idVars
  BY <1>1, <1>4 DEF IdsOK, idVars
<1>5. ASSUME NEW n \in Names, IdentifierRead(n)
      PROVE  IdsOK'
  <2>1. PICK e : e = [name |-> n, decls |-> {d \in program.visible \cap InFiles(files) : program.name[d] = n}]
    OBVIOUS
  <2>2. e \in E
    BY <1>2, <2>1 DEF InFiles
  <2>3. pendingNames' \in Seq(E)
    BY <1>3, <1>5, <2>1, <2>2 DEF IdentifierRead
  <2>4. pendingMacros' \in Seq(Names)
    BY <1>3, <1>5 DEF IdentifierRead
  <2> QED BY <1>1, <1>2, <1>5, <2>3, <2>4 DEF IdsOK, IdentifierRead
<1>6. CASE PopPendingName
  <2>1. pendingNames # << >>
    <3>1. stack # << >> /\ Top.kind = "scope"
      BY <1>6 DEF PopPendingName, Is
    <3>2. Len(stack) \in 1 .. Len(stack) /\ Top = stack[Len(stack)]
      <4>1. Len(stack) \in Nat \ {0} /\ Top = stack[Len(stack)]
        BY <3>1, TopType DEF StepInv
      <4> QED BY <4>1
    <3> QED BY <3>1, <3>2 DEF StepInv, ScopeInv
  <2> QED BY <1>1, <1>2, <1>3, <1>6, <2>1 DEF IdsOK, PopPendingName, NamesAfter
<1>7. CASE MacrosAreDone
  BY <1>1, <1>7 DEF IdsOK, MacrosAreDone
<1>8. CASE ImportFile
  BY <1>1, <1>8 DEF IdsOK, ImportFile
<1> QED BY <1>4, <1>5, <1>6, <1>7, <1>8, WhatChangesNames

(* What mergeRedeclarable loads for a parsed declaration exists.            *)
LEMMA ChainToLoadType ==
  ASSUME TypeOK, NEW d \in Decls, NEW c \in Decls
  PROVE  /\ MergedInto(d, c) \in Seq(Decls)
         /\ ~(ChainToKnow(d, c) \subseteq known) => ChainToLoad(d, c) \in Decls
         /\ ChainToKnow(d, c) \subseteq Decls
<1>1. merged[c] \in Seq(Decls) /\ program \in Program
  BY ProgramType DEF TypeOK
<1>2. MergedInto(d, c) \in Seq(Decls)
  BY <1>1 DEF MergedInto
<1>3. ChainToKnow(d, c) \subseteq Decls
  BY <1>1 DEF ChainToKnow, Program
<1>4. ASSUME ~(ChainToKnow(d, c) \subseteq known), c \in Parsed
      PROVE  MergedInto(d, c)[1] \in Decls
  <2>1. Canon(d) = d
    BY <1>4 DEF ChainToKnow
  <2>2. Len(MergedInto(d, c)) \in Nat \ {0}
    <3>1. CASE Contains(merged[c], d)
      <4>1. MergedInto(d, c) = merged[c] /\ \E i \in 1 .. Len(merged[c]) : merged[c][i] = d
        BY <3>1 DEF MergedInto, Contains
      <4> QED BY <1>1, <4>1
    <3>2. CASE ~Contains(merged[c], d)
      <4>1. MergedInto(d, c) = Append(merged[c], d)
        BY <2>1, <3>2 DEF MergedInto
      <4> QED BY <1>1, <4>1
    <3> QED BY <3>1, <3>2
  <2>3. 1 \in 1 .. Len(MergedInto(d, c))
    BY <2>2
  <2> QED BY <1>2, <2>3
<1> QED BY <1>2, <1>3, <1>4 DEF ChainToLoad

LEMMA ChainsOKNext ==
  ASSUME StepInv, Next
  PROVE  ChainsOK'
<1>1. ChainsOK /\ program \in Program /\ program' = program /\ TypeOK /\ resolver \subseteq Decls
      /\ files \subseteq Files
  BY TypeOKIs, ProgramType, WhatChangesFiles DEF StepInv, TypeOK
<1>2. loaded \subseteq loaded' /\ loaded \subseteq Decls
  BY LoadedGrows
<1>3. stack # << >> => Top \in Frame /\ CallOK(Top, loaded)
  BY TopType DEF StepInv
<1>4. CASE UNCHANGED chainVars
  BY <1>1, <1>2, <1>4 DEF ChainsOK, chainVars
<1>5. CASE LinkToFirst
  <2>1. Top.decl \in loaded /\ Top.decl \in Decls
    BY <1>3, <1>5 DEF LinkToFirst, At, Is, CallOK
  <2>2. program.first[Top.decl] \in Decls
    BY <1>1, <2>1 DEF Program
  <2> QED BY <1>1, <1>2, <1>5, <2>1, <2>2 DEF ChainsOK, LinkToFirst
<1>6. CASE Merge
  <2>1. Top.decl \in Decls
    BY <1>3, <1>6 DEF Merge, At, Is, CallOK
  <2>2. PICK d \in Decls : d = Top.decl
    BY <2>1
  <2>3. CASE UNCHANGED <<canonical, merged, known, pendingChains>>
    BY <1>1, <1>2, <1>6, <2>3 DEF ChainsOK, Merge
  <2>4. ASSUME NEW e \in Existing(d), MergeWith(d, Canon(e))
        PROVE  ChainsOK'
    <3>1. e \in Decls
      BY <1>1, <2>4 DEF Existing
    <3>2. Canon(e) \in Decls
      BY <1>1, <3>1 DEF Canon, ChainsOK
    <3>3. PICK c \in Decls : c = Canon(e)
      BY <3>2
    <3>4. /\ MergedInto(d, c) \in Seq(Decls)
          /\ ~(ChainToKnow(d, c) \subseteq known) => ChainToLoad(d, c) \in Decls
          /\ ChainToKnow(d, c) \subseteq Decls
      BY <1>1, ChainToLoadType
    <3>5. /\ canonical' = [canonical EXCEPT ![d] = c]
          /\ merged' = [merged EXCEPT ![c] = MergedInto(d, c)]
          /\ known' = known \cup ChainToKnow(d, c)
          /\ pendingChains' = IF ChainToKnow(d, c) \subseteq known
                                THEN pendingChains ELSE Append(pendingChains, ChainToLoad(d, c))
      BY <2>4, <3>3 DEF MergeWith
    <3>6. pendingChains' \in Seq(Decls)
      BY <1>1, <3>4, <3>5 DEF ChainsOK
    <3>7. canonical' \in [Decls -> Decls] /\ merged' \in [Decls -> Seq(Decls)] /\ known' \subseteq Decls
      BY <1>1, <3>4, <3>5 DEF ChainsOK
    <3> QED BY <1>1, <1>2, <1>6, <3>6, <3>7 DEF ChainsOK, Merge
  <2>5. \/ UNCHANGED <<canonical, merged, known, pendingChains>>
        \/ \E e \in Existing(d) : MergeWith(d, Canon(e))
    BY <1>6, <2>2 DEF Merge
  <2> QED BY <2>3, <2>4, <2>5
<1>7. CASE RecordRead
  <2>1. Top.decl \in Decls
    BY <1>3, <1>7 DEF RecordRead, At, Is, CallOK
  <2>2. PICK f \in Decls : f = program.first[Top.decl]
    BY <1>1, <2>1 DEF Program
  <2>3. /\ pendingChains' \in {pendingChains, Append(pendingChains, f)}
        /\ known' \in {known, known \cup {f}}
    BY <1>7, <2>2 DEF RecordRead
  <2>4. pendingChains' \in Seq(Decls) /\ known' \subseteq Decls
    <3>1. PICK q : q = Append(pendingChains, f)
      OBVIOUS
    <3>2. pendingChains \in Seq(Decls) /\ q \in Seq(Decls) /\ known \subseteq Decls
      BY <1>1, <3>1 DEF ChainsOK
    <3>3. pendingChains' = pendingChains \/ pendingChains' = q
      BY <2>3, <3>1
    <3>4. pendingChains' \in Seq(Decls)
      BY <3>2, <3>3
    <3> QED BY <2>3, <3>2, <3>4
  <2> QED BY <1>1, <1>2, <1>7, <2>4 DEF ChainsOK, RecordRead
<1>8. CASE LoadPendingDeclChain
  <2>1. PICK S : dug' = dug \cup {<<program.file[d], program.first[d]>> : d \in LocalRedeclarations(S)}
    BY <1>8 DEF LoadPendingDeclChain
  <2>2. \A d \in LocalRedeclarations(S) : program.file[d] \in Files /\ program.first[d] \in Decls
    BY <1>1 DEF LocalRedeclarations, InFiles, Program
  <2>3. dug' \subseteq Files \X Decls
    BY <1>1, <2>1, <2>2 DEF ChainsOK
  <2> QED BY <1>1, <1>2, <1>8, <2>3 DEF ChainsOK, LoadPendingDeclChain
<1>9. CASE AddToChain
  BY <1>1, <1>2, <1>9 DEF ChainsOK, AddToChain
<1>10. CASE HookUpChain
  <2>1. Top.chain \subseteq loaded
    BY <1>3, <1>10 DEF HookUpChain, Is, CallOK
  <2> QED BY <1>1, <1>2, <1>10, <2>1 DEF ChainsOK, HookUpChain, KnownAfter
<1>11. CASE ChainsAreDone
  BY <1>1, <1>2, <1>11 DEF ChainsOK, ChainsAreDone
<1> QED BY <1>4, <1>5, <1>6, <1>7, <1>8, <1>9, <1>10, <1>11, WhatChangesChains

LEMMA PassOKNext ==
  ASSUME StepInv, Next
  PROVE  PassOK'
<1>1. PassOK
  BY TypeOKIs DEF StepInv
<1>2. stack # << >> => Top \in Frame /\ CallOK(Top, loaded)
  BY TopType DEF StepInv
<1>3. CASE UNCHANGED passVars
  BY <1>1, <1>3 DEF PassOK, passVars
<1>4. CASE RecordRead
  <2>1. Top.decl \in Decls
    BY <1>2, <1>4 DEF RecordRead, At, Is, CallOK
  <2>2. interesting' \in {interesting, Append(interesting, Top.decl)}
    BY <1>4 DEF RecordRead
  <2>3. interesting' \in Seq(Decls)
    BY <1>1, <2>1, <2>2 DEF PassOK
  <2> QED BY <1>1, <1>4, <2>3 DEF PassOK, RecordRead
<1>5. CASE FinishedDeserializing
  BY <1>1, <1>5 DEF PassOK, FinishedDeserializing
<1>6. CASE PassInterestingDecl
  <2>1. Head(interesting) \in Decls /\ Tail(interesting) \in Seq(Decls)
    BY <1>1, <1>6 DEF PassOK, PassInterestingDecl
  <2>2. handled' = [handled EXCEPT ![Head(interesting)] = @ + 1] /\ handled[Head(interesting)] \in Nat
    BY <1>1, <1>6, <2>1 DEF PassOK, PassInterestingDecl
  <2>3. handled' \in [Decls -> Nat]
    BY <1>1, <2>1, <2>2 DEF PassOK
  <2> QED BY <1>1, <1>6, <2>1, <2>3 DEF PassOK, PassInterestingDecl
<1>7. CASE AllPassed
  <2>1. Top.guarded \in BOOLEAN
    BY <1>2, <1>7 DEF AllPassed, Is, Frame
  <2> QED BY <1>1, <1>7, <2>1 DEF PassOK, AllPassed, PassingAfter
<1> QED BY <1>3, <1>4, <1>5, <1>6, <1>7, WhatChangesPassing

LEMMA ScopesOKNext ==
  ASSUME StepInv, Next
  PROVE  ScopesOK'
<1>1. ScopesOK
  BY TypeOKIs DEF StepInv
<1>2. loaded \subseteq loaded'
  BY LoadedGrows
<1>3. stack # << >> => CallOK(Top, loaded)
  BY TopType DEF StepInv
<1>4. CASE UNCHANGED scopeVars
  BY <1>1, <1>2, <1>4 DEF ScopesOK, scopeVars
<1>5. CASE PushIntoScope
  <2>1. Top.current \in loaded
    BY <1>3, <1>5 DEF PushIntoScope, Is, CallOK
  <2> QED BY <1>1, <1>2, <1>5, <2>1 DEF ScopesOK, PushIntoScope
<1>6. CASE Merge
  <2>1. Top.decl \in loaded
    BY <1>3, <1>6 DEF Merge, At, Is, CallOK
  <2>2. resolver' \in {resolver, resolver \cup {Top.decl}} /\ preloaded' = preloaded
    BY <1>6 DEF Merge, MergeWith
  <2> QED BY <1>1, <1>2, <2>1, <2>2 DEF ScopesOK
<1>7. CASE InitializeSema
  BY <1>1, <1>2, <1>7 DEF ScopesOK, InitializeSema
<1> QED BY <1>4, <1>5, <1>6, <1>7, WhatChangesScopes

LEMMA CursorOKNext ==
  ASSUME StepInv, Next
  PROVE  CursorOK'
<1>1. CursorOK /\ program \in Program
  BY TypeOKIs, ProgramType DEF StepInv
<1>2. stack # << >> => Top \in Frame
  BY TopType DEF StepInv
<1>3. \A f \in Frame : CursorAfter(f) \in [Files -> Decls \cup {NoDecl}]
  BY <1>1 DEF CursorAfter, CursorOK, Frame
<1>4. CASE UNCHANGED cursor
  BY <1>1, <1>4 DEF CursorOK
<1>5. ASSUME NEW t, NEW d, RecordStep(t, d)
      PROVE  CursorOK'
  BY <1>1, <1>5 DEF CursorOK, RecordStep
<1>6. CASE FinishNested \/ FinishedDeserializing \/ AllPassed
  <2>1. cursor' \in {cursor, CursorAfter(Top)} /\ stack # << >>
    BY <1>6 DEF FinishNested, GuardEnds, FinishedDeserializing, AllPassed, At, Is
  <2> QED BY <1>1, <1>2, <1>3, <2>1 DEF CursorOK
<1>7. ASSUME NEW d, GetBody(d, stack)
      PROVE  CursorOK'
  <2>1. d \in Decls
    BY <1>7 DEF GetBody, StepInv, TypeOK
  <2> QED BY <1>1, <1>7, <2>1 DEF CursorOK, GetBody
<1> QED BY <1>4, <1>5, <1>6, <1>7, WhatChangesCursors

LEMMA BodySetsOKNext ==
  ASSUME StepInv, Next
  PROVE  BodySetsOK'
<1>1. BodySetsOK
  BY TypeOKIs DEF StepInv
<1>2. loaded \subseteq loaded'
  BY LoadedGrows
<1>3. stack # << >> => CallOK(Top, loaded)
  BY TopType DEF StepInv
<1>4. CASE UNCHANGED bodyVars
  BY <1>1, <1>2, <1>4 DEF BodySetsOK, bodyVars
<1>5. CASE RecordRead
  <2>1. Top.decl \in loaded
    BY <1>3, <1>5 DEF RecordRead, At, Is, CallOK
  <2> QED BY <1>1, <1>2, <1>5, <2>1 DEF BodySetsOK, RecordRead
<1>6. CASE SetLazyBody
  BY <1>1, <1>2, <1>6 DEF BodySetsOK, SetLazyBody
<1>7. ASSUME NEW d, GetBody(d, stack)
      PROVE  BodySetsOK'
  BY <1>1, <1>2, <1>7 DEF BodySetsOK, GetBody
<1> QED BY <1>4, <1>5, <1>6, <1>7, WhatChangesBodies

LEMMA TypeNext ==
  ASSUME StepInv, Next
  PROVE  TypeOK'
<1>1. loaded' \subseteq Decls /\ stack' \in Seq(Frame) /\ count' \in Nat
  BY LoadedGrows, StackNext
<1>2. /\ program \in Programs /\ files \subseteq Files /\ {sema, consumer} \subseteq BOOLEAN
      /\ externalDefinitions \subseteq Decls
      => ReadOK
  BY DEF ReadOK
<1>3. (ReadOK /\ IdsOK /\ ChainsOK /\ PassOK /\ ScopesOK /\ CursorOK /\ BodySetsOK
        /\ stack \in Seq(Frame) /\ count \in Nat /\ loaded \subseteq Decls => TypeOK)'
  BY DEF TypeOK, ReadOK, IdsOK, ChainsOK, PassOK, ScopesOK, CursorOK, BodySetsOK
<1> QED BY <1>1, <1>3, ReadOKNext, IdsOKNext, ChainsOKNext, PassOKNext, ScopesOKNext, CursorOKNext,
           BodySetsOKNext

-----------------------------------------------------------------------------
(* The shape of a step                                                      *)

Grown(s, t, g) ==
  /\ t \in Seq(Frame) /\ Len(t) = Len(s) + 1 /\ t[Len(s) + 1] = g
  /\ \A i \in 1 .. Len(s) : SameCall(s[i], t[i])

Shrunk(s, t) ==
  /\ t \in Seq(Frame) /\ Len(s) = Len(t) + 1
  /\ \A i \in 1 .. Len(t) : SameCall(s[i], t[i])

TopBecomes(s, t, g) ==
  /\ t \in Seq(Frame) /\ Len(t) = Len(s) /\ t[Len(s)] = g
  /\ \A i \in 1 .. Len(s) - 1 : t[i] = s[i]

LEMMA TurnedPushed ==
  ASSUME NEW s \in Seq(Frame), NEW S, NEW t, Turn(s, t, S), NEW g \in Frame, NEW u, u = Append(t, g)
  PROVE  Grown(s, u, g)
<1>1. SameCalls(s, t)
  BY TurnedCalls
<1>2. t \in Seq(Frame) /\ Len(t) = Len(s) /\ \A i \in 1 .. Len(s) : SameCall(s[i], t[i])
  BY <1>1 DEF SameCalls
<1>3. IsPushed(Frame, u, t, g)
  BY <1>2, ElementPushed, Zenon
<1>4. u \in Seq(Frame) /\ Len(u) = Len(t) + 1 /\ u[Len(t) + 1] = g /\ \A i \in 1 .. Len(t) : u[i] = t[i]
  BY <1>3 DEF IsPushed
<1> QED BY <1>2, <1>4 DEF Grown

LEMMA PoppedTurned ==
  ASSUME NEW s \in Seq(Frame), s # << >>, NEW S, NEW t, Turn(Front(s), t, S)
  PROVE  Shrunk(s, t)
<1>1. PICK f \in Seq(Frame) : f = Front(s)
  BY LastFront
<1>2. Len(s) \in Nat \ {0} /\ Len(f) = Len(s) - 1 /\ \A i \in 1 .. Len(s) - 1 : f[i] = s[i]
  BY <1>1, LastFront
<1>3. SameCalls(f, t)
  BY <1>1, TurnedCalls
<1> QED BY <1>2, <1>3 DEF SameCalls, Shrunk

LEMMA TopReplaced ==
  ASSUME NEW s \in Seq(Frame), s # << >>, NEW g \in Frame, NEW t, t = Append(Front(s), g)
  PROVE  TopBecomes(s, t, g)
<1>1. IsReplaced(Frame, t, s, g)
  BY ElementReplaced, Zenon
<1>2. Len(s) \in Nat \ {0}
  BY LastFront
<1>3. \A i \in 1 .. Len(s) - 1 : i \in 1 .. Len(s) /\ i # Len(s)
  BY <1>2
<1> QED BY <1>1, <1>3 DEF IsReplaced, TopBecomes

LEMMA RecordShape ==
  ASSUME StepInv, NEW t, NEW d, RecordStep(t, d)
  PROVE  \E g \in Frame : /\ Grown(stack, stack', g) /\ g.kind = "record" /\ g.stage = "first"
                          /\ g.decl = d /\ g.place = cursor[program.file[d]] /\ ~g.guarded
<1>1. stack \in Seq(Frame) /\ program \in Program /\ cursor \in [Files -> Decls \cup {NoDecl}]
  BY ProgramType DEF StepInv, TypeOK
<1>2. program.file[d] \in Files /\ d \in Decls
  BY <1>1 DEF RecordStep, Parsed, Program
<1>3. PICK p \in Decls \cup {NoDecl} : p = cursor[program.file[d]]
  BY <1>1, <1>2
<1>4. PICK g : g = [NewFrame("record", d) EXCEPT !.stage = "first", !.place = p]
  OBVIOUS
<1>5. g \in Frame
  BY <1>2, <1>3, <1>4 DEF NewFrame, Frame
<1>6. g.kind = "record" /\ g.stage = "first" /\ g.decl = d /\ g.place = p /\ ~g.guarded
  BY <1>4 DEF NewFrame
<1>7. Grown(stack, stack', g)
  BY <1>1, <1>3, <1>4, <1>5, TurnedPushed DEF RecordStep
<1> QED BY <1>3, <1>5, <1>6, <1>7

LEMMA IdentifierShape ==
  ASSUME StepInv, NEW t, IdentifierStep(t)
  PROVE  \E g \in Frame : Grown(stack, stack', g) /\ g.kind = "identifier" /\ g.decl = NoDecl /\ ~g.guarded
<1>1. PICK g : g = NewFrame("identifier", NoDecl)
  OBVIOUS
<1>2. g \in Frame /\ g.kind = "identifier" /\ g.decl = NoDecl /\ ~g.guarded
  BY <1>1 DEF NewFrame, Frame
<1>3. Grown(stack, stack', g)
  BY <1>1, <1>2, TurnedPushed DEF StepInv, TypeOK, IdentifierStep
<1> QED BY <1>2, <1>3

LEMMA CallShape ==
  ASSUME StepInv, NEW t, NEW g, CallStep(t, g)
  PROVE  Grown(stack, stack', g) /\ g.kind \in {"scope", "chain", "macro"} /\ ~g.guarded
<1>1. g \in Frame /\ g.kind \in {"scope", "chain", "macro"} /\ ~g.guarded
  BY DEF CallStep, MayCall
<1>2. Grown(stack, stack', g)
  BY <1>1, TurnedPushed DEF StepInv, TypeOK, CallStep
<1> QED BY <1>1, <1>2

LEMMA ReturnShape ==
  ASSUME StepInv, ReturnStep
  PROVE  /\ Shrunk(stack, stack') /\ Len(stack) \in Nat \ {0}
         /\ stack[Len(stack)].kind \in {"scope", "chain", "macro", "handle", "body"}
<1>1. stack \in Seq(Frame) /\ stack # << >>
  BY DEF StepInv, TypeOK, ReturnStep
<1>2. Shrunk(stack, stack')
  BY <1>1, PoppedTurned DEF ReturnStep, Below
<1>3. Len(stack) \in Nat \ {0} /\ Top = stack[Len(stack)]
  BY <1>1, TopType DEF StepInv
<1> QED BY <1>2, <1>3 DEF ReturnStep

(* Each special step.                                                       *)
PassFrame(g) == g.kind = "pass" /\ g.decl = Top.decl /\ g.place = Top.place

LEMMA SpecialShape ==
  ASSUME StepInv, Special
  PROVE  \/ /\ RecordRead /\ stack # << >> /\ Top.kind = "record" /\ Top.stage = "end"
            /\ \E g \in Frame : /\ TopBecomes(stack, stack', g) /\ g.kind = "record" /\ g.stage = "done"
                                /\ g.decl = Top.decl /\ g.place = Top.place
         \/ /\ FinishNested /\ stack # << >> /\ Top.kind \in {"record", "identifier"}
            /\ Top.stage = "done" /\ Shrunk(stack, stack')
         \/ /\ FinishPendingActions /\ stack # << >> /\ Top.kind \in {"record", "identifier"}
            /\ Top.stage = "done"
            /\ \E g \in Frame : /\ TopBecomes(stack, stack', g) /\ g.kind = "finish" /\ ~g.guarded
                                /\ g.decl = Top.decl /\ g.place = Top.place
         \/ /\ FinishedDeserializing /\ stack # << >> /\ Top.kind = "finish" /\ MayPass(count - 1)
            /\ \E g \in Frame : TopBecomes(stack, stack', g) /\ g.guarded /\ PassFrame(g)
         \/ /\ FinishedDeserializing /\ stack # << >> /\ Top.kind = "finish" /\ ~MayPass(count - 1)
            /\ Shrunk(stack, stack')
         \/ /\ PassInterestingDecl /\ stack # << >> /\ Top.kind = "pass"
            /\ \E g \in Frame : /\ Grown(stack, stack', g) /\ g.kind = "handle" /\ ~g.guarded
                                /\ g.decl = Head(interesting)
         \/ AllPassed /\ stack # << >> /\ Top.kind = "pass" /\ Shrunk(stack, stack')
         \/ /\ stack = << >> \/ Top.kind = "handle"
            /\ \E d : /\ GetBody(d, stack)
                      /\ \E g \in Frame : Grown(stack, stack', g) /\ g.kind = "body" /\ g.decl = d /\ ~g.guarded
         \/ /\ StartProgram /\ stack = << >>
            /\ \E g \in Frame : Grown(stack, stack', g) /\ g.kind = "start" /\ ~g.guarded
         \/ /\ DefinitionsStarted /\ stack # << >> /\ Top.kind = "start"
            /\ \E g \in Frame : TopBecomes(stack, stack', g) /\ g.guarded = Top.guarded /\ PassFrame(g)
<1>1. /\ stack \in Seq(Frame) /\ loaded \subseteq Decls /\ program \in Program
      /\ interesting \in Seq(Decls) /\ bodies \subseteq loaded /\ externalDefinitions \in SUBSET Decls
  BY ProgramType DEF StepInv, TypeOK
<1>2. stack # << >> => Top \in Frame /\ CallOK(Top, loaded)
  BY TopType DEF StepInv
<1>3. ASSUME stack # << >>, stack' = Below PROVE Shrunk(stack, stack')
  <2>1. Turn(Front(stack), stack', {})
    BY <1>3 DEF Turn, Below
  <2> QED BY <1>1, <1>3, <2>1, PoppedTurned
<1>4. ASSUME stack # << >>, NEW g \in Frame, stack' = WithTop(g) PROVE TopBecomes(stack, stack', g)
  BY <1>1, <1>4, TopReplaced DEF WithTop, Below
<1>5. ASSUME NEW g \in Frame, stack' = Append(stack, g) PROVE Grown(stack, stack', g)
  <2>1. Turn(stack, stack, {})
    BY DEF Turn
  <2> QED BY <1>1, <1>5, <2>1, TurnedPushed
<1>6. CASE RecordRead
  <2>1. stack # << >> /\ Top.kind = "record" /\ Top.stage = "end"
    BY <1>6 DEF RecordRead, At, Is
  <2>2. PICK g : g = [Top EXCEPT !.stage = "done"]
    OBVIOUS
  <2>3. g \in Frame /\ g.kind = "record" /\ g.stage = "done" /\ g.decl = Top.decl /\ g.place = Top.place
    BY <1>2, <2>1, <2>2 DEF Frame
  <2>4. TopBecomes(stack, stack', g)
    BY <1>4, <1>6, <2>1, <2>2, <2>3 DEF RecordRead
  <2> QED BY <1>6, <2>1, <2>3, <2>4
<1>7. CASE FinishNested
  <2>1. stack # << >> /\ Top.kind \in {"record", "identifier"} /\ Top.stage = "done" /\ stack' = Below
    BY <1>7 DEF FinishNested, GuardEnds, At, Is
  <2> QED BY <1>3, <1>7, <2>1
<1>8. CASE FinishPendingActions
  <2>1. stack # << >> /\ Top.kind \in {"record", "identifier"} /\ Top.stage = "done"
    BY <1>8 DEF FinishPendingActions, GuardEnds, At, Is
  <2>2. PICK g : g = [Top EXCEPT !.kind = "finish", !.stage = "names"]
    OBVIOUS
  <2>3. /\ g \in Frame /\ g.kind = "finish" /\ g.decl = Top.decl /\ g.place = Top.place
        /\ ~g.guarded
    BY <1>2, <2>1, <2>2 DEF Frame, CallOK
  <2>4. TopBecomes(stack, stack', g)
    BY <1>4, <1>8, <2>1, <2>2, <2>3 DEF FinishPendingActions
  <2> QED BY <1>8, <2>1, <2>3, <2>4
<1>9. CASE FinishedDeserializing /\ MayPass(count - 1)
  <2>1. stack # << >> /\ Top.kind = "finish"
    BY <1>9 DEF FinishedDeserializing, At, Is
  <2>2. PICK g : g = [Top EXCEPT !.kind = "pass", !.guarded = TRUE]
    OBVIOUS
  <2>3. g \in Frame /\ g.guarded /\ PassFrame(g)
    BY <1>2, <2>1, <2>2 DEF Frame, PassFrame
  <2>4. TopBecomes(stack, stack', g)
    BY <1>4, <1>9, <2>1, <2>2, <2>3 DEF FinishedDeserializing
  <2> QED BY <1>9, <2>1, <2>3, <2>4
<1>10. CASE FinishedDeserializing /\ ~MayPass(count - 1)
  <2>1. stack # << >> /\ Top.kind = "finish" /\ stack' = Below
    BY <1>10 DEF FinishedDeserializing, At, Is
  <2> QED BY <1>3, <1>10, <2>1
<1>11. CASE PassInterestingDecl
  <2>1. stack # << >> /\ Top.kind = "pass" /\ interesting # << >>
    BY <1>11 DEF PassInterestingDecl, Is
  <2>2. PICK d \in Decls : d = Head(interesting)
    BY <1>1, <2>1
  <2>3. PICK g : g = NewFrame("handle", d)
    OBVIOUS
  <2>4. g \in Frame /\ g.kind = "handle" /\ ~g.guarded /\ g.decl = d
    BY <2>2, <2>3 DEF NewFrame, Frame
  <2>5. Grown(stack, stack', g)
    BY <1>5, <1>11, <2>2, <2>3, <2>4 DEF PassInterestingDecl
  <2> QED BY <1>11, <2>1, <2>2, <2>4, <2>5
<1>12. CASE AllPassed
  <2>1. stack # << >> /\ Top.kind = "pass" /\ stack' = Below
    BY <1>12 DEF AllPassed, Is
  <2> QED BY <1>3, <1>12, <2>1
<1>13. ASSUME NEW d, GetBody(d, stack)
       PROVE  \E g \in Frame : Grown(stack, stack', g) /\ g.kind = "body" /\ g.decl = d /\ ~g.guarded
  <2>1. d \in Decls /\ program.uses[d] \in SUBSET (Decls \cup Names)
    BY <1>1, <1>13 DEF GetBody, Program
  <2>2. PICK g : g = [NewFrame("body", d) EXCEPT !.todo = program.uses[d]]
    OBVIOUS
  <2>3. g \in Frame /\ g.kind = "body" /\ ~g.guarded /\ g.decl = d
    BY <2>1, <2>2 DEF NewFrame, Frame
  <2>4. Grown(stack, stack', g)
    BY <1>5, <1>13, <2>2, <2>3 DEF GetBody
  <2> QED BY <2>3, <2>4
<1>14. CASE ConsumerGetsBody
  <2>1. Top.kind = "handle" /\ GetBody(Top.decl, stack)
    BY <1>14 DEF ConsumerGetsBody, Is
  <2> QED BY <1>13, <2>1
<1>15. CASE AskForBody
  <2>1. stack = << >> /\ \E d : GetBody(d, stack)
    BY <1>15 DEF AskForBody, Idle
  <2> QED BY <1>13, <2>1
<1>16. CASE StartProgram
  <2>1. PICK g : g = [NewFrame("start", NoDecl) EXCEPT !.todo = externalDefinitions]
    OBVIOUS
  <2>2. g \in Frame /\ g.kind = "start" /\ ~g.guarded
    BY <1>1, <2>1 DEF NewFrame, Frame
  <2>3. stack = << >> /\ stack' = <<g>>
    BY <1>16, <2>1 DEF StartProgram, Idle
  <2>4. stack' = Append(stack, g)
    BY <2>3
  <2>5. Grown(stack, stack', g)
    BY <1>5, <2>2, <2>4
  <2> QED BY <1>16, <2>2, <2>3, <2>5
<1>17. CASE DefinitionsStarted
  <2>1. stack # << >> /\ Top.kind = "start"
    BY <1>17 DEF DefinitionsStarted, Is
  <2>2. PICK g : g = [Top EXCEPT !.kind = "pass"]
    OBVIOUS
  <2>3. g \in Frame /\ g.guarded = Top.guarded /\ PassFrame(g)
    BY <1>2, <2>1, <2>2 DEF Frame, PassFrame
  <2>4. TopBecomes(stack, stack', g)
    BY <1>4, <1>17, <2>1, <2>2, <2>3 DEF DefinitionsStarted
  <2> QED BY <1>17, <2>1, <2>3, <2>4
<1> QED BY <1>6, <1>7, <1>8, <1>9, <1>10, <1>11, <1>12, <1>14, <1>15, <1>16, <1>17 DEF Special

-----------------------------------------------------------------------------
(* The queues                                                               *)

LEMMA OneScope ==
  ASSUME NEW s \in Seq(Frame), NEW S, StackOK(s, S),
         NEW i \in 1 .. Len(s), NEW j \in 1 .. Len(s),
         s[i].kind \in {"scope", "chain", "macro"}, s[j].kind \in {"scope", "chain", "macro"}
  PROVE  i = j /\ i # 1 /\ s[i - 1].kind = "finish"
<1>1. \A k \in 1 .. Len(s) : PlaceOK(s, k)
  BY DEF StackOK
<1>2. ASSUME NEW k \in 1 .. Len(s), NEW l \in 1 .. Len(s), k < l,
             s[k].kind \in {"scope", "chain", "macro"}, s[l].kind \in {"scope", "chain", "macro"}
      PROVE  FALSE
  <2>1. l # 1 /\ s[l - 1].kind = "finish"
    BY <1>1, <1>2 DEF PlaceOK
  <2>2. l - 1 \in 1 .. Len(s) /\ k \in 1 .. l - 1
    BY <1>2, <2>1
  <2>3. k # l - 1
    BY <1>2, <2>1
  <2>4. k \in 1 .. (l - 1) - 1
    BY <2>2, <2>3
  <2>5. s[k].kind \in BaseKinds
    BY <1>1, <2>1, <2>2, <2>4 DEF PlaceOK
  <2> QED BY <1>2, <2>5 DEF BaseKinds
<1>3. i = j
  BY <1>2
<1>4. i # 1 /\ s[i - 1].kind = "finish"
  BY <1>1 DEF PlaceOK
<1> QED BY <1>3, <1>4

LEMMA ScopeNext ==
  ASSUME StepInv, Next
  PROVE  ScopeInv'
<1>1. stack \in Seq(Frame) /\ StackOK(stack, loaded)
  BY DEF StepInv, TypeOK, StackInv
<1>2. PICK E : pendingNames \in Seq(E)
  BY DEF StepInv, TypeOK
<1>3. stack # << >> => Len(stack) \in Nat \ {0} /\ Top = stack[Len(stack)]
  BY TopType DEF StepInv
<1>4. CASE \E n \in Names : IdentifierRead(n)
  <2>1. PICK e : pendingNames' = Append(pendingNames, e)
    BY <1>4 DEF IdentifierRead
  <2>2. pendingNames' # << >>
    BY <1>2, <2>1
  <2> QED BY <2>2 DEF ScopeInv
<1>5. CASE PopPendingName
  <2>1. stack # << >> /\ Top.kind = "scope" /\ stack' = Below
    BY <1>5 DEF PopPendingName, Is
  <2>2. /\ Len(stack') = Len(stack) - 1
        /\ \A i \in 1 .. Len(stack) - 1 : stack'[i] = stack[i]
    BY <2>1, TopType DEF StepInv
  <2>3. ASSUME NEW i \in 1 .. Len(stack) - 1, stack[i].kind = "scope" PROVE FALSE
    <3>1. i \in 1 .. Len(stack) /\ Len(stack) \in 1 .. Len(stack) /\ i # Len(stack)
      BY <1>3, <2>1
    <3> QED BY <1>1, <1>3, <2>1, <2>3, <3>1, OneScope
  <2> QED BY <2>2, <2>3 DEF ScopeInv
<1>6. CASE pendingNames' = pendingNames
  <2> SUFFICES ASSUME pendingNames = << >>, NEW i \in 1 .. Len(stack'), stack'[i].kind = "scope" PROVE FALSE
    BY <1>6 DEF ScopeInv
  <2>1. \A j \in 1 .. Len(stack) : stack[j].kind # "scope"
    BY DEF StepInv, ScopeInv
  <2>2. Len(stack) \in Nat
    BY <1>1
  <2>3. ASSUME NEW g, Grown(stack, stack', g) PROVE g.kind = "scope"
    <3>1. CASE i = Len(stack) + 1
      BY <2>3, <3>1 DEF Grown
    <3>2. CASE i # Len(stack) + 1
      <4>1. i \in 1 .. Len(stack)
        BY <2>2, <2>3, <3>2 DEF Grown
      <4> QED BY <2>1, <2>3, <4>1 DEF Grown, SameCall
    <3> QED BY <3>1, <3>2
  <2>4. ~SameCalls(stack, stack')
    BY <2>1 DEF SameCalls, SameCall
  <2>5. ~Shrunk(stack, stack')
    <3> SUFFICES ASSUME Shrunk(stack, stack') PROVE FALSE
      OBVIOUS
    <3>1. i \in 1 .. Len(stack) /\ SameCall(stack[i], stack'[i])
      BY <2>2 DEF Shrunk
    <3> QED BY <2>1, <3>1 DEF SameCall
  <2>6. ASSUME NEW g, TopBecomes(stack, stack', g) PROVE g.kind = "scope"
    <3>1. CASE i = Len(stack)
      BY <2>6, <3>1 DEF TopBecomes
    <3>2. CASE i # Len(stack)
      <4>1. i \in 1 .. Len(stack) - 1 /\ i \in 1 .. Len(stack)
        BY <2>2, <2>6, <3>2 DEF TopBecomes
      <4> QED BY <2>1, <2>6, <4>1 DEF TopBecomes
    <3> QED BY <3>1, <3>2
  <2>7. ~TurnedStep
    BY <1>1, <2>4, TurnedCalls DEF TurnedStep
  <2>8. ~\E t : \E d : RecordStep(t, d)
    BY <2>3, RecordShape
  <2>9. ~\E t : IdentifierStep(t)
    BY <2>3, IdentifierShape
  <2>10. ~\E t : \E g : CallStep(t, g)
    BY <2>3, CallShape DEF CallStep, SetGloballyVisibleDecls
  <2>11. ~ReturnStep
    BY <2>5, ReturnShape
  <2>12. ~Special
    BY <2>3, <2>5, <2>6, SpecialShape DEF PassFrame
  <2> QED BY <2>7, <2>8, <2>9, <2>10, <2>11, <2>12, StepForms DEF Plain
<1>7. pendingNames' = pendingNames \/ PopPendingName \/ \E n \in Names : IdentifierRead(n)
  BY WhatChangesNames DEF idVars, MacrosAreDone, ImportFile
<1> QED BY <1>4, <1>5, <1>6, <1>7

LEMMA ParsedNext ==
  ASSUME StepInv, Next
  PROVE  ParsedInv'
<1>1. Parsed' = Parsed
  BY WhatChangesFiles DEF Parsed
<1>2. ParsedInv /\ loaded \subseteq loaded' /\ interesting \in Seq(Decls)
  BY LoadedGrows DEF StepInv, TypeOK
<1>3. stack # << >> => CallOK(Top, loaded)
  BY TopType DEF StepInv
<1>4. Parsed \cap (bodies' \ bodiesRead') = {} /\ Parsed \cap pendingBodies' = {}
  <2>1. CASE UNCHANGED bodyVars
    BY <1>2, <2>1 DEF ParsedInv, bodyVars
  <2>2. CASE RecordRead
    <3>1. Top.decl \notin Parsed
      BY <1>3, <2>2 DEF RecordRead, At, Is, CallOK
    <3> QED BY <1>2, <2>2, <3>1 DEF ParsedInv, RecordRead
  <2>3. CASE SetLazyBody
    BY <1>2, <2>3 DEF ParsedInv, SetLazyBody
  <2>4. CASE \E d : GetBody(d, stack)
    BY <1>2, <2>4 DEF ParsedInv, GetBody
  <2> QED BY <2>1, <2>2, <2>3, <2>4, WhatChangesBodies
<1>5. Range(interesting') \subseteq loaded' \ Parsed
  <2>1. Range(interesting) \subseteq loaded \ Parsed
    BY <1>2 DEF ParsedInv
  <2>2. CASE interesting' = interesting
    BY <1>2, <2>1, <2>2
  <2>3. CASE RecordRead
    <3>1. Top.decl \in loaded \ Parsed /\ Top.decl \in Decls
      BY <1>3, <2>3 DEF RecordRead, At, Is, CallOK
    <3>2. Range(Append(interesting, Top.decl)) \subseteq Range(interesting) \cup {Top.decl}
      BY <1>2, <3>1 DEF Range
    <3>3. interesting' \in {interesting, Append(interesting, Top.decl)}
      BY <2>3 DEF RecordRead
    <3> QED BY <1>2, <2>1, <3>1, <3>2, <3>3
  <2>4. CASE PassInterestingDecl
    <3>1. interesting # << >> /\ interesting' = Tail(interesting)
      BY <2>4 DEF PassInterestingDecl
    <3>2. Range(Tail(interesting)) \subseteq Range(interesting)
      BY <1>2, <3>1 DEF Range
    <3> QED BY <1>2, <2>1, <3>1, <3>2
  <2>5. \/ interesting' = interesting \/ RecordRead \/ PassInterestingDecl
    BY WhatChangesPassing DEF passVars, FinishedDeserializing, AllPassed
  <2> QED BY <2>2, <2>3, <2>4, <2>5
<1> QED BY <1>1, <1>2, <1>4, <1>5 DEF ParsedInv

LEMMA StepInvNext ==
  ASSUME StepInv, Next
  PROVE  StepInv'
BY TypeNext, StackNext, ParsedNext, ScopeNext DEF StepInv

LEMMA StepInvInit ==
  ASSUME Init
  PROVE  StepInv
<1>1. program \in Program
  BY DeserializationAssumption DEF Init
<1>2. Parsed \subseteq Decls
  BY DEF Parsed
<1>3. Definitions(program.initial) \subseteq Decls /\ program.initial \subseteq Files
  BY <1>1 DEF Definitions, Program
<1>4. canonical \in [Decls -> Decls]
  BY <1>1 DEF Init, Program
<1>5. merged \in [Decls -> Seq(Decls)]
  <2>1. << >> \in Seq(Decls)
    OBVIOUS
  <2> QED BY <2>1 DEF Init
<1>6. cursor \in [Files -> Decls \cup {NoDecl}] /\ handled \in [Decls -> Nat]
  BY DEF Init
<1>7. << >> \in Seq(Frame) /\ << >> \in Seq([name : Names, decls : SUBSET Decls]) /\ << >> \in Seq(Names)
      /\ << >> \in Seq(Decls)
  OBVIOUS
<1>8. program.pcmodules \in BOOLEAN
  BY <1>1 DEF Program
<1>9. TypeOK
  BY <1>1, <1>2, <1>3, <1>4, <1>5, <1>6, <1>7, <1>8 DEF Init, TypeOK
<1>10. Cardinality(Counted(<< >>)) = 0
  <2>1. Len(<< >>) = 0
    OBVIOUS
  <2>2. Counted(<< >>) = {}
    BY <2>1 DEF Counted
  <2> QED BY <2>2, FS_EmptySet
<1>11. StackInv
  BY <1>10 DEF Init, StackInv, StackOK
<1>12. ParsedInv
  <2>1. Range(<< >>) = {}
    BY DEF Range
  <2> QED BY <2>1 DEF Init, ParsedInv
<1>13. ScopeInv
  BY DEF Init, ScopeInv
<1> QED BY <1>9, <1>11, <1>12, <1>13 DEF StepInv

LEMMA StepInvInvariant ==
  Spec => []StepInv
<1>1. StepInv /\ UNCHANGED vars => StepInv'
  <2> SUFFICES ASSUME StepInv, UNCHANGED vars PROVE StepInv'
    OBVIOUS
  <2> USE DEF vars, readVars, idVars, chainVars, bodyVars, passVars, scopeVars, loadVars
  <2>1. Parsed' = Parsed
    BY DEF Parsed
  <2>2. TypeOK'
    BY DEF StepInv, TypeOK
  <2>3. StackInv'
    BY <2>1 DEF StepInv, StackInv, StackOK, CallOK, PlaceOK, BaseKinds, Counted, CountedKinds
  <2>4. ParsedInv' /\ ScopeInv'
    BY <2>1 DEF StepInv, ParsedInv, ScopeInv
  <2> QED BY <2>2, <2>3, <2>4 DEF StepInv
<1> QED BY <1>1, StepInvInit, StepInvNext, PTL DEF Spec

(* Only loaded declarations are linked, visible, or have bodies, only       *)
(* bodies that were set have been read, identifiers that are out of date    *)
(* have been read, and every queue and cursor holds what it should.         *)
THEOREM TypeCorrect ==
  Spec => []TypeOK
BY StepInvInvariant, PTL DEF StepInv

LEMMA CountedTop ==
  ASSUME StepInv, stack # << >>, Top.kind \in CountedKinds \cup {"scope", "chain", "macro"}
  PROVE  count \in Nat \ {0}
<1>1. /\ stack \in Seq(Frame) /\ StackOK(stack, loaded) /\ count = Cardinality(Counted(stack)) /\ count \in Nat
      /\ Len(stack) \in Nat \ {0} /\ Top = stack[Len(stack)]
  BY TopType DEF StepInv, StackInv, TypeOK
<1>2. \E i \in 1 .. Len(stack) : stack[i].kind \in CountedKinds
  <2>1. CASE Top.kind \in CountedKinds
    <3>1. Len(stack) \in 1 .. Len(stack)
      BY <1>1
    <3> QED BY <1>1, <2>1, <3>1
  <2>2. CASE Top.kind \in {"scope", "chain", "macro"}
    <3>1. Len(stack) \in 1 .. Len(stack)
      BY <1>1
    <3>2. Len(stack) # 1 /\ stack[Len(stack) - 1].kind = "finish"
      BY <1>1, <2>2, <3>1 DEF StackOK, PlaceOK
    <3>3. PICK n \in Nat \ {0} : n = Len(stack) /\ n # 1
      BY <1>1, <3>2
    <3>4. n - 1 \in 1 .. n
      BY <3>3
    <3> QED BY <3>2, <3>3, <3>4 DEF CountedKinds
  <2> QED BY <2>1, <2>2
<1>3. Cardinality(Counted(stack)) # 0
  BY <1>1, <1>2, CountedNone
<1> QED BY <1>1, <1>3

(* The loops over bodies begin when the queues are empty.                   *)
LEMMA BodiesComeLast ==
  ASSUME StepInv, Next, stack' # << >>, Last(stack').kind = "finish", Last(stack').stage = "bodies"
  PROVE  SetLazyBody \/ (MacrosAreDone /\ ~AnyPending)
<1>1. stack \in Seq(Frame) /\ StackOK(stack, loaded) /\ stack' \in Seq(Frame)
  BY StackNext DEF StepInv, StackInv, TypeOK
<1>2. Len(stack') \in Nat \ {0} /\ Last(stack') = stack'[Len(stack')]
  BY <1>1, LastFront, Zenon
<1>3. stack # << >> =>
        /\ Top \in Frame /\ Below \in Seq(Frame) /\ Top = Last(stack) /\ CallOK(Top, loaded)
        /\ Len(stack) \in Nat \ {0} /\ Top = stack[Len(stack)]
        /\ Len(Below) = Len(stack) - 1
        /\ \A i \in 1 .. Len(stack) - 1 : Below[i] = stack[i]
  BY TopType DEF StepInv, Top
<1>4. ASSUME NEW g, Grown(stack, stack', g) PROVE Last(stack') = g
  BY <1>2, <1>4 DEF Grown
<1>5. ASSUME NEW g, stack # << >>, TopBecomes(stack, stack', g) PROVE Last(stack') = g
  BY <1>2, <1>5 DEF TopBecomes
<1>6. ASSUME stack # << >>, Shrunk(stack, stack'), Last(stack').stage = Last(Below).stage
      PROVE  FALSE
  <2>1. PICK n \in Nat : n = Len(stack) - 1 /\ n = Len(stack') /\ n \in 1 .. Len(stack) - 1
    BY <1>2, <1>3, <1>6 DEF Shrunk
  <2>2. n \in 1 .. Len(stack) /\ n + 1 = Len(stack) /\ n # Len(stack) /\ n + 1 \in 1 .. Len(stack)
        /\ (n + 1) - 1 = n
    BY <1>3, <1>6, <2>1
  <2>3. stack[n].kind = "finish"
    BY <1>2, <1>6, <2>1 DEF Shrunk, SameCall
  <2>4. Last(Below) = stack[n]
    <3>1. Below # << >>
      BY <1>3, <1>6, <2>1
    <3>2. Last(Below) = Below[Len(Below)]
      BY <1>3, <1>6, <3>1, LastFront, Zenon
    <3> QED BY <1>3, <1>6, <2>1, <3>2
  <2>5. stack[n + 1].kind \in {"scope", "chain", "macro"}
    BY <1>1, <2>2, <2>3 DEF StackOK, PlaceOK
  <2>6. stack[n].stage \in {"names", "chains", "macros"}
    <3>1. PlaceOK(stack, n + 1)
      BY <1>1, <2>2 DEF StackOK
    <3> QED BY <2>2, <2>5, <3>1 DEF PlaceOK
  <2> QED BY <1>6, <2>4, <2>6
<1>7. ASSUME stack # << >>, stack' = Below PROVE Last(stack').stage = Last(Below).stage
  BY <1>7
<1>8. CASE stack = << >> \/ Top.kind # "finish"
  <2>1. ~TurnedStep
    <3> SUFFICES ASSUME TurnedStep PROVE FALSE
      OBVIOUS
    <3>1. SameCalls(stack, stack')
      BY <1>1, TurnedCalls DEF TurnedStep
    <3>2. stack # << >>
      BY <1>2, <3>1 DEF SameCalls
    <3> QED BY <1>2, <1>3, <1>8, <3>1, <3>2 DEF SameCalls, SameCall
  <2>2. ~\E t : \E d : RecordStep(t, d)
    BY <1>4, RecordShape
  <2>3. ~\E t : IdentifierStep(t)
    BY <1>4, IdentifierShape
  <2>4. ~\E t : \E g : CallStep(t, g)
    BY <1>4, CallShape
  <2>5. ~ReturnStep
    BY <1>6, ReturnShape DEF ReturnStep
  <2>6. ~Special
    <3> SUFFICES ASSUME Special PROVE FALSE
      OBVIOUS
    <3>1. ~FinishPendingActions
      <4> SUFFICES ASSUME FinishPendingActions PROVE FALSE
        OBVIOUS
      <4>1. stack # << >> /\ stack' = Append(Front(stack), [Top EXCEPT !.kind = "finish", !.stage = "names"])
        BY DEF FinishPendingActions, GuardEnds, At, Is, WithTop, Below
      <4>2. PICK g : g = [Top EXCEPT !.kind = "finish", !.stage = "names"]
        OBVIOUS
      <4>3. g \in Frame /\ g.stage = "names"
        BY <1>3, <4>1, <4>2 DEF Frame
      <4>4. TopBecomes(stack, stack', g)
        BY <1>1, <4>1, <4>2, <4>3, TopReplaced
      <4>5. Last(stack') = g
        BY <1>5, <4>1, <4>4
      <4> QED BY <4>3, <4>5
    <3>2. FinishNested \/ AllPassed => stack' = Below
      BY DEF FinishNested, AllPassed
    <3> QED BY <1>4, <1>5, <1>6, <1>7, <1>8, <3>1, <3>2, SpecialShape DEF PassFrame
  <2> QED BY <2>1, <2>2, <2>3, <2>4, <2>5, <2>6, StepForms DEF Plain
<1>9. CASE stack # << >> /\ Top.kind = "finish"
  <2>1. \/ FinishedDeserializing \/ SetGloballyVisibleDecls \/ NamesAreDone \/ LoadPendingDeclChain
        \/ ChainsAreDone \/ LoadPendingMacro \/ MacrosAreDone \/ SetLazyBody
    BY <1>9 DEF Next, ClientStep, ReadStep, FinishStep, ConsumerStep, Is, At, Idle,
       AskForDecl, LookUp, AskForBody, InitializeSema, StartProgram, ImportFile,
       ReadFirst, LinkToFirst, ReadDeclName, ReadDeclType, UpdateIdentifier, Merge, ReadRest,
       RecordRead, AskForNext, ReadMacroToken, ReadInBody, BodyIsRead,
       FinishNested, FinishPendingActions, GuardEnds, PushIntoScope, PopPendingName,
       AddToChain, HookUpChain, MacroIsRead,
       PassInterestingDecl, AllPassed, ConsumerGetsBody, ConsumerReturns, StartNextDefinition,
       DefinitionsStarted
  <2>2. ASSUME NEW x, NEW n, stack' = WithTop([Top EXCEPT !.stage = x, !.index = n]), x # "bodies", x \in Stages,
               n \in Nat
        PROVE  FALSE
    <3>1. PICK g : g = [Top EXCEPT !.stage = x, !.index = n]
      OBVIOUS
    <3>2. g \in Frame /\ g.stage = x
      BY <1>3, <1>9, <2>2, <3>1 DEF Frame, Stages
    <3>3. TopBecomes(stack, stack', g)
      BY <1>1, <1>9, <2>2, <3>1, <3>2, TopReplaced DEF WithTop, Below
    <3> QED BY <1>5, <1>9, <2>2, <3>2, <3>3
  <2>3. ~NamesAreDone /\ ~ChainsAreDone
    BY <2>2 DEF NamesAreDone, ChainsAreDone, Stages
  <2>4. ASSUME NEW s \in Seq(Frame), NEW g, g.kind # "finish", stack' = Append(s, g)
        PROVE  FALSE
    <3>1. s \in Seq(Frame \cup {g})
      BY SeqMonotonic
    <3>2. Last(stack') = g
      BY <2>4, <3>1, LastAppend
    <3> QED BY <2>4, <3>2
  <2>5. ~SetGloballyVisibleDecls
    <3>1. PICK g : g = [NewFrame("scope", NoDecl) EXCEPT !.todo = Head(pendingNames).decls]
      OBVIOUS
    <3>2. g.kind # "finish"
      BY <3>1 DEF NewFrame
    <3> QED BY <1>1, <2>4, <3>1, <3>2 DEF SetGloballyVisibleDecls
  <2>6. ~LoadPendingDeclChain
    <3> SUFFICES ASSUME LoadPendingDeclChain PROVE FALSE
      OBVIOUS
    <3>1. PICK id, T : stack' = Append(stack, [NewFrame("chain", id) EXCEPT !.todo = T])
      BY DEF LoadPendingDeclChain
    <3>2. PICK g : g = [NewFrame("chain", id) EXCEPT !.todo = T]
      OBVIOUS
    <3>3. g.kind # "finish"
      BY <3>2 DEF NewFrame
    <3> QED BY <1>1, <2>4, <3>1, <3>2, <3>3
  <2>7. ~LoadPendingMacro
    <3> SUFFICES ASSUME LoadPendingMacro PROVE FALSE
      OBVIOUS
    <3>1. PICK T : stack' = Append(WithTop([Top EXCEPT !.index = @ + 1]), [NewFrame("macro", NoDecl) EXCEPT !.todo = T])
      BY DEF LoadPendingMacro
    <3>2. PICK g : g = [NewFrame("macro", NoDecl) EXCEPT !.todo = T]
      OBVIOUS
    <3>3. g.kind # "finish"
      BY <3>2 DEF NewFrame
    <3>4. PICK h : h = [Top EXCEPT !.index = @ + 1]
      OBVIOUS
    <3>5. h \in Frame
      <4>1. [Top EXCEPT !.index = @ + 1] \in Frame
        BY <1>3, <1>9, TopWith
      <4> QED BY <3>4, <4>1
    <3>6. WithTop(h) \in Seq(Frame)
      BY <1>3, <1>9, <3>5 DEF WithTop
    <3> QED BY <2>4, <3>1, <3>2, <3>3, <3>4, <3>6
  <2>8. ~FinishedDeserializing
    <3> SUFFICES ASSUME FinishedDeserializing PROVE FALSE
      OBVIOUS
    <3>1. CASE MayPass(count - 1)
      <4>1. stack' = WithTop([Top EXCEPT !.kind = "pass", !.guarded = TRUE])
        BY <3>1 DEF FinishedDeserializing
      <4>2. PICK g : g = [Top EXCEPT !.kind = "pass", !.guarded = TRUE]
        OBVIOUS
      <4>3. g.kind # "finish"
        BY <1>3, <1>9, <4>2 DEF Frame
      <4> QED BY <1>3, <1>9, <2>4, <4>1, <4>2, <4>3 DEF WithTop
    <3>2. CASE ~MayPass(count - 1)
      <4>1. stack' = Below
        BY <3>2 DEF FinishedDeserializing
      <4>2. Turn(Front(stack), stack', {})
        BY <4>1 DEF Turn, Below
      <4>3. Shrunk(stack, stack')
        BY <1>1, <1>9, <4>2, PoppedTurned
      <4> QED BY <1>6, <1>9, <4>1, <4>3
    <3> QED BY <3>1, <3>2
  <2>9. MacrosAreDone => ~AnyPending
    <3> SUFFICES ASSUME MacrosAreDone, AnyPending PROVE FALSE
      OBVIOUS
    <3>1. stack' = WithTop([Top EXCEPT !.stage = "names"])
      BY DEF MacrosAreDone
    <3>2. PICK g : g = [Top EXCEPT !.stage = "names"]
      OBVIOUS
    <3>3. g \in Frame /\ g.stage = "names"
      BY <1>3, <1>9, <3>2 DEF Frame
    <3>4. TopBecomes(stack, stack', g)
      BY <1>1, <1>9, <3>1, <3>2, <3>3, TopReplaced DEF WithTop, Below
    <3> QED BY <1>5, <1>9, <3>3, <3>4
  <2> QED BY <2>1, <2>3, <2>5, <2>6, <2>7, <2>8, <2>9
<1> QED BY <1>8, <1>9

LEMMA QueuesNext ==
  ASSUME StepInv, QueuesInv, Next
  PROVE  QueuesInv'
<1>2. count \in Nat
  BY DEF StepInv, TypeOK
<1>4. FinishNested => count' # 0
  <2> SUFFICES ASSUME FinishNested PROVE count' # 0
    OBVIOUS
  <2>1. stack # << >> /\ Top.kind \in CountedKinds /\ count # 1 /\ count' = count - 1
    BY DEF FinishNested, GuardEnds, IsOutermost, At, Is, CountedKinds
  <2> QED BY <2>1, CountedTop
<1>5. count' = 0 => count = 0 \/ FinishedDeserializing
  <2>1. Plain => count' \in {count, count + 1}
    BY DEF Plain, TurnedStep, RecordStep, IdentifierStep, CallStep, ReturnStep
  <2>2. Special => count' = count \/ FinishNested \/ FinishedDeserializing
    BY DEF Special, RecordRead, FinishPendingActions, PassInterestingDecl, AllPassed,
           ConsumerGetsBody, AskForBody, GetBody, StartProgram, DefinitionsStarted
  <2> QED BY <1>2, <1>4, <2>1, <2>2, StepForms
<1>6. count = 0 =>
        ~(LinkToFirst \/ Merge \/ RecordRead \/ LoadPendingDeclChain \/ AddToChain
          \/ HookUpChain \/ ChainsAreDone \/ PopPendingName \/ MacrosAreDone \/ SetLazyBody)
  <2>1. count = 0 /\ stack # << >> => Top.kind \notin CountedKinds \cup {"scope", "chain", "macro"}
    BY CountedTop
  <2> QED BY <2>1 DEF LinkToFirst, Merge, RecordRead, LoadPendingDeclChain, AddToChain,
                      HookUpChain, ChainsAreDone, PopPendingName, MacrosAreDone, SetLazyBody,
                      At, Is, CountedKinds
<1>7. FinishedDeserializing =>
        /\ At("finish", "bodies") /\ pendingBodies = {}
        /\ UNCHANGED <<pendingNames, pendingMacros, pendingChains, pendingBodies>>
  BY DEF FinishedDeserializing, idVars, chainVars, bodyVars
<1>8. ASSUME count' = 0 PROVE pendingBodies' = {} /\ UNCHANGED <<pendingNames, pendingMacros, pendingChains>>
  <2>1. CASE FinishedDeserializing
    BY <1>7, <2>1
  <2>2. CASE count = 0
    <3>1. pendingBodies = {}
      BY <2>2 DEF QueuesInv
    <3>2. pendingBodies' = pendingBodies
      BY <1>6, <2>2, WhatChangesBodies DEF bodyVars, GetBody
    <3>3. pendingChains' = pendingChains
      BY <1>6, <2>2, WhatChangesChains DEF chainVars
    <3>4. UNCHANGED <<pendingNames, pendingMacros>>
      <4>1. \A n \in Names : ~IdentifierRead(n)
        BY <1>2, <1>8, <2>2 DEF IdentifierRead
      <4> QED BY <1>6, <2>2, <4>1, WhatChangesNames DEF idVars, ImportFile
    <3> QED BY <3>1, <3>2, <3>3, <3>4
  <2> QED BY <1>5, <1>8, <2>1, <2>2
<1>9. count' = 0 => pendingBodies' = {} /\ pendingNames' = << >> /\ pendingMacros' = << >> /\ pendingChains' = << >>
  BY <1>5, <1>7, <1>8 DEF QueuesInv
<1>10. At("finish", "bodies")' => pendingNames' = << >> /\ pendingMacros' = << >> /\ pendingChains' = << >>
  <2> SUFFICES ASSUME At("finish", "bodies")'
               PROVE  pendingNames' = << >> /\ pendingMacros' = << >> /\ pendingChains' = << >>
    OBVIOUS
  <2>1. stack' # << >> /\ Last(stack').kind = "finish" /\ Last(stack').stage = "bodies"
    BY DEF At, Is, Top
  <2>2. SetLazyBody \/ (MacrosAreDone /\ ~AnyPending)
    BY <2>1, BodiesComeLast
  <2>3. CASE SetLazyBody
    BY <2>3 DEF SetLazyBody, QueuesInv, idVars, chainVars
  <2>4. CASE MacrosAreDone /\ ~AnyPending
    BY <2>4 DEF MacrosAreDone, AnyPending, chainVars
  <2> QED BY <2>2, <2>3, <2>4
<1> QED BY <1>9, <1>10 DEF QueuesInv

-----------------------------------------------------------------------------
(* What may interest the consumer                                           *)

(* The same declarations are being read in the calls of s and of t.         *)
ReadingSame(s, t) ==
  \A d : /\ \A i \in 1 .. Len(s) : IsReading(s[i], d) => i \in 1 .. Len(t) /\ IsReading(t[i], d)
         /\ \A i \in 1 .. Len(t) : IsReading(t[i], d) => i \in 1 .. Len(s) /\ IsReading(s[i], d)

LEMMA SameReading ==
  ASSUME NEW f, NEW g, SameCall(f, g), NEW d
  PROVE  IsReading(f, d) <=> IsReading(g, d)
BY DEF SameCall, IsReading

LEMMA ReadingSameCalls ==
  ASSUME NEW s \in Seq(Frame), NEW t, SameCalls(s, t)
  PROVE  ReadingSame(s, t)
BY SameReading DEF SameCalls, ReadingSame

LEMMA ReadingGrown ==
  ASSUME NEW s \in Seq(Frame), NEW t, NEW g, Grown(s, t, g), g.kind # "record"
  PROVE  ReadingSame(s, t)
<1>1. Len(s) \in Nat /\ Len(t) = Len(s) + 1 /\ t[Len(s) + 1] = g
      /\ \A i \in 1 .. Len(s) : SameCall(s[i], t[i])
  BY DEF Grown
<1>2. \A i \in 1 .. Len(s) : i \in 1 .. Len(t) /\ \A d : IsReading(s[i], d) <=> IsReading(t[i], d)
  BY <1>1, SameReading
<1>3. \A i \in 1 .. Len(t) : i \in 1 .. Len(s) \/ t[i] = g
  BY <1>1
<1>4. \A d : ~IsReading(g, d)
  BY DEF IsReading
<1> QED BY <1>2, <1>3, <1>4 DEF ReadingSame

LEMMA ReadingShrunk ==
  ASSUME NEW s \in Seq(Frame), NEW t, Shrunk(s, t), \A d : ~IsReading(s[Len(s)], d)
  PROVE  ReadingSame(s, t)
<1>1. t \in Seq(Frame) /\ Len(t) \in Nat /\ Len(s) = Len(t) + 1
      /\ \A i \in 1 .. Len(t) : SameCall(s[i], t[i])
  BY DEF Shrunk
<1>2. \A i \in 1 .. Len(t) : i \in 1 .. Len(s) /\ \A d : IsReading(s[i], d) <=> IsReading(t[i], d)
  BY <1>1, SameReading
<1>3. \A i \in 1 .. Len(s) : i \in 1 .. Len(t) \/ s[i] = s[Len(s)]
  BY <1>1
<1> QED BY <1>2, <1>3 DEF ReadingSame

LEMMA ReadingTop ==
  ASSUME NEW s \in Seq(Frame), NEW t, NEW g, TopBecomes(s, t, g), s # << >>,
         \A d : ~IsReading(s[Len(s)], d), \A d : ~IsReading(g, d)
  PROVE  ReadingSame(s, t)
<1>1. Len(s) \in Nat \ {0} /\ Len(t) = Len(s) /\ t[Len(s)] = g
      /\ \A i \in 1 .. Len(s) - 1 : t[i] = s[i]
  BY DEF TopBecomes
<1>2. \A i \in 1 .. Len(s) : i \in 1 .. Len(s) - 1 \/ i = Len(s)
  BY <1>1
<1> QED BY <1>1, <1>2 DEF ReadingSame

(* All steps but two leave what is being read alone.                        *)
LEMMA WhatIsRead ==
  ASSUME StepInv, Next
  PROVE  \/ ReadingSame(stack, stack') /\ loaded' = loaded
         \/ \E t : \E d : RecordStep(t, d)
         \/ RecordRead
<1>1. stack \in Seq(Frame)
  BY DEF StepInv, TypeOK
<1>2. stack # << >> => Top = stack[Len(stack)]
  BY TopType DEF StepInv
<1>3. CASE TurnedStep
  BY <1>1, <1>3, TurnedCalls, ReadingSameCalls DEF TurnedStep
<1>4. ASSUME NEW t, IdentifierStep(t) PROVE ReadingSame(stack, stack') /\ loaded' = loaded
  <2>1. \E g : Grown(stack, stack', g) /\ g.kind = "identifier"
    BY <1>4, IdentifierShape
  <2> QED BY <1>1, <1>4, <2>1, ReadingGrown DEF IdentifierStep
<1>5. ASSUME NEW t, NEW g, CallStep(t, g) PROVE ReadingSame(stack, stack') /\ loaded' = loaded
  <2>1. Grown(stack, stack', g) /\ g.kind \in {"scope", "chain", "macro"}
    BY <1>5, CallShape
  <2> QED BY <1>1, <1>5, <2>1, ReadingGrown DEF CallStep
<1>6. CASE ReturnStep
  <2>1. Shrunk(stack, stack') /\ stack[Len(stack)].kind \in {"scope", "chain", "macro", "handle", "body"}
    BY <1>6, ReturnShape
  <2>2. \A d : ~IsReading(stack[Len(stack)], d)
    BY <2>1 DEF IsReading
  <2> QED BY <1>1, <1>6, <2>1, <2>2, ReadingShrunk DEF ReturnStep
<1>7. CASE Special /\ ~RecordRead
  <2>1. loaded' = loaded
    BY <1>7 DEF Special, FinishNested, FinishPendingActions, FinishedDeserializing,
              PassInterestingDecl, AllPassed, ConsumerGetsBody, AskForBody, GetBody,
              StartProgram, DefinitionsStarted
  <2>2. \A g : g.kind # "record" => \A d : ~IsReading(g, d)
    BY DEF IsReading
  <2>3. \A g : g.stage = "done" => \A d : ~IsReading(g, d)
    BY DEF IsReading
  <2>4. \A g : PassFrame(g) => g.kind = "pass"
    BY DEF PassFrame
  <2>5. ASSUME NEW g, TopBecomes(stack, stack', g), stack # << >>, Top.kind # "record" \/ Top.stage = "done",
               g.kind # "record"
        PROVE  ReadingSame(stack, stack')
    BY <1>1, <1>2, <2>2, <2>3, <2>5, ReadingTop
  <2>6. ASSUME Shrunk(stack, stack'), stack # << >>, Top.kind # "record" \/ Top.stage = "done"
        PROVE  ReadingSame(stack, stack')
    BY <1>1, <1>2, <2>2, <2>3, <2>6, ReadingShrunk
  <2>7. ASSUME NEW g, Grown(stack, stack', g), g.kind # "record"
        PROVE  ReadingSame(stack, stack')
    BY <1>1, <2>7, ReadingGrown
  <2>8. ReadingSame(stack, stack')
    BY <1>7, <2>4, <2>5, <2>6, <2>7, SpecialShape
  <2> QED BY <2>1, <2>8
<1> QED BY <1>3, <1>4, <1>5, <1>6, <1>7, StepForms DEF Plain

LEMMA PassedLaterNext ==
  ASSUME StepInv, PassedLater, Next
  PROVE  PassedLater'
<1> DEFINE K == CountedKinds \cup {"pass", "start"}
<1>1. stack \in Seq(Frame) /\ Len(stack) \in Nat /\ count \in Nat /\ StackOK(stack, loaded)
      /\ stack' \in Seq(Frame) /\ Len(stack') \in Nat
  BY StackNext DEF StepInv, TypeOK, StackInv
<1>2. stack # << >> => Top = stack[Len(stack)] /\ Len(stack) \in 1 .. Len(stack) /\ Top = Last(stack)
  <2>1. stack # << >> => Top = stack[Len(stack)] /\ Len(stack) \in Nat \ {0}
    BY TopType DEF StepInv
  <2> QED BY <2>1 DEF Top
<1>3. ASSUME NEW i \in 1 .. Len(stack'), stack'[i].kind \in K PROVE PassedLater'
  BY <1>3 DEF PassedLater, CountedKinds
<1>4. ASSUME consumer' = consumer, interesting' = interesting, SameCalls(stack, stack') PROVE PassedLater'
  <2>1. consumer /\ interesting # << >> => \E i \in 1 .. Len(stack') : stack'[i].kind \in K
    BY <1>4 DEF PassedLater, SameCalls, SameCall
  <2> QED BY <1>3, <1>4, <2>1 DEF PassedLater
<1>5. ASSUME consumer' = consumer, interesting' = interesting \/ interesting # << >>,
             NEW g, Grown(stack, stack', g)
      PROVE  PassedLater'
  <2>1. \A i \in 1 .. Len(stack) : i \in 1 .. Len(stack') /\ stack'[i].kind = stack[i].kind
    BY <1>1, <1>5 DEF Grown, SameCall
  <2>2. consumer /\ interesting # << >> => \E i \in 1 .. Len(stack') : stack'[i].kind \in K
    BY <2>1 DEF PassedLater
  <2>3. consumer' /\ interesting' # << >> => consumer /\ interesting # << >>
    BY <1>5
  <2> QED BY <1>3, <2>2, <2>3 DEF PassedLater
<1>6. ASSUME consumer' = consumer, interesting' = interesting, Shrunk(stack, stack'),
             \/ stack[Len(stack)].kind \notin K
             \/ \E i \in 1 .. Len(stack) - 1 : stack[i].kind \in K
      PROVE  PassedLater'
  <2>1. \A i \in 1 .. Len(stack) - 1 : i \in 1 .. Len(stack') /\ stack'[i].kind = stack[i].kind
    BY <1>1, <1>6 DEF Shrunk, SameCall
  <2>2. \A i \in 1 .. Len(stack) : i \in 1 .. Len(stack) - 1 \/ i = Len(stack)
    BY <1>1
  <2> QED BY <1>3, <1>6, <2>1, <2>2 DEF PassedLater
<1>7. ASSUME NEW g, stack # << >>, TopBecomes(stack, stack', g), g.kind \in K PROVE PassedLater'
  BY <1>1, <1>2, <1>3, <1>7 DEF TopBecomes
<1>8. CASE Plain
  <2>1. consumer' = consumer /\ interesting' = interesting
    BY <1>8 DEF Plain, TurnedStep, RecordStep, IdentifierStep, CallStep, ReturnStep, Quiet
  <2>2. TurnedStep => PassedLater'
    BY <1>1, <1>4, <2>1, TurnedCalls DEF TurnedStep
  <2>3. (\E t : \E d : RecordStep(t, d)) => PassedLater'
    BY <1>5, <2>1, RecordShape
  <2>4. (\E t : IdentifierStep(t)) => PassedLater'
    BY <1>5, <2>1, IdentifierShape
  <2>5. (\E t : \E g : CallStep(t, g)) => PassedLater'
    BY <1>5, <2>1, CallShape
  <2>6. ReturnStep => PassedLater'
    BY <1>6, <2>1, ReturnShape DEF CountedKinds
  <2> QED BY <1>8, <2>2, <2>3, <2>4, <2>5, <2>6 DEF Plain
<1>9. ASSUME count # 1, stack # << >>, Top.kind \in CountedKinds
      PROVE  \E i \in 1 .. Len(stack) - 1 : stack[i].kind \in K
  <2>1. Cardinality(Counted(stack)) # 1
    BY <1>9 DEF StepInv, StackInv
  <2>2. ~\A i \in 1 .. Len(stack) - 1 : stack[i].kind \notin CountedKinds
    BY <1>1, <1>2, <1>9, <2>1, CountedOne
  <2> QED BY <2>2
<1>10. CASE FinishNested /\ Shrunk(stack, stack') /\ stack # << >> /\ Top.kind \in {"record", "identifier"}
  <2>1. count # 1 /\ consumer' = consumer /\ interesting' = interesting
    BY <1>10 DEF FinishNested, IsOutermost, readVars, passVars
  <2> QED BY <1>6, <1>9, <1>10, <2>1 DEF CountedKinds
<1>11. CASE FinishedDeserializing /\ Shrunk(stack, stack') /\ stack # << >> /\ Top.kind = "finish"
            /\ ~MayPass(count - 1)
  <2>1. consumer' = consumer /\ interesting' = interesting
    BY <1>11 DEF FinishedDeserializing, readVars
  <2>2. CASE count # 1
    BY <1>6, <1>9, <1>11, <2>1, <2>2 DEF CountedKinds
  <2>3. CASE ~consumer
    BY <2>1, <2>3 DEF PassedLater
  <2>4. CASE passing
    <3>1. PICK i \in 1 .. Len(stack) : stack[i].guarded
      BY <2>4 DEF StepInv, StackInv
    <3>2. stack[i].kind = "pass"
      BY <1>1, <3>1 DEF StackOK, CallOK
    <3>3. i \in 1 .. Len(stack) - 1
      BY <1>1, <1>2, <1>11, <3>2
    <3> QED BY <1>6, <1>11, <2>1, <3>2, <3>3
  <2>5. count # 1 \/ ~consumer \/ passing
    BY <1>1, <1>11 DEF MayPass
  <2> QED BY <2>2, <2>3, <2>4, <2>5
<1>12. CASE AllPassed
  <2>1. interesting' = << >>
    BY <1>12 DEF AllPassed
  <2> QED BY <2>1 DEF PassedLater
<1>13. CASE Special
  <2>1. \A g : PassFrame(g) => g.kind = "pass"
    BY DEF PassFrame
  <2>2. ASSUME StartProgram, stack = << >>, NEW g, Grown(stack, stack', g), g.kind = "start" PROVE PassedLater'
    <3>1. Len(stack) + 1 \in 1 .. Len(stack') /\ stack'[Len(stack) + 1] = g
      BY <1>1, <2>2 DEF Grown
    <3> QED BY <1>3, <2>2, <3>1
  <2>3. /\ PassInterestingDecl => consumer' = consumer /\ interesting # << >>
        /\ (\E d : GetBody(d, stack)) => consumer' = consumer /\ interesting' = interesting
    BY DEF PassInterestingDecl, GetBody, readVars, passVars
  <2> QED BY <1>5, <1>7, <1>10, <1>11, <1>12, <1>13, <2>1, <2>2, <2>3, SpecialShape DEF CountedKinds
<1> QED BY <1>8, <1>13, StepForms

LEMMA ReadingIsSame ==
  ASSUME NEW s, NEW t, ReadingSame(s, t)
  PROVE  /\ \A d : Reading(s, d) <=> Reading(t, d)
         /\ (\A i, j \in 1 .. Len(s) : \A d \in Decls : IsReading(s[i], d) /\ IsReading(s[j], d) => i = j)
            => (\A i, j \in 1 .. Len(t) : \A d \in Decls : IsReading(t[i], d) /\ IsReading(t[j], d) => i = j)
<1>1. \A d : Reading(s, d) <=> Reading(t, d)
  BY DEF Reading, ReadingSame
<1>2. ASSUME \A i, j \in 1 .. Len(s) : \A d \in Decls : IsReading(s[i], d) /\ IsReading(s[j], d) => i = j,
             NEW i \in 1 .. Len(t), NEW j \in 1 .. Len(t), NEW d \in Decls,
             IsReading(t[i], d), IsReading(t[j], d)
      PROVE  i = j
  BY <1>2 DEF ReadingSame
<1> QED BY <1>1, <1>2

LEMMA TailFacts ==
  ASSUME NEW S, NEW s \in Seq(S), s # << >>
  PROVE  /\ Tail(s) \in Seq(S) /\ Len(Tail(s)) = Len(s) - 1 /\ Len(s) \in Nat \ {0} /\ Head(s) = s[1]
         /\ \A i \in 1 .. Len(s) - 1 : Tail(s)[i] = s[i + 1]
OBVIOUS

LEMMA InterestingNext ==
  ASSUME StepInv, InterestingInv, Next
  PROVE  InterestingInv'
<1> DEFINE Once(s) == \A i, j \in 1 .. Len(s) : \A d \in Decls : IsReading(s[i], d) /\ IsReading(s[j], d) => i = j
           Distinct(q) == \A i, j \in 1 .. Len(q) : q[i] = q[j] => i = j
<1>1. /\ stack \in Seq(Frame) /\ stack' \in Seq(Frame) /\ Len(stack) \in Nat /\ StackOK(stack, loaded)
      /\ interesting \in Seq(Decls) /\ handled \in [Decls -> Nat] /\ Range(interesting) \subseteq loaded
      /\ loaded \subseteq loaded' /\ loaded' \subseteq Decls
  <2>1. stack \in Seq(Frame) /\ interesting \in Seq(Decls) /\ handled \in [Decls -> Nat]
    BY DEF StepInv, TypeOK
  <2>2. Len(stack) \in Nat
    BY <2>1
  <2>3. StackOK(stack, loaded)
    BY DEF StepInv, StackInv
  <2>4. Range(interesting) \subseteq loaded
    BY DEF StepInv, ParsedInv
  <2>5. stack' \in Seq(Frame)
    BY StackNext
  <2>6. loaded \subseteq loaded' /\ loaded' \subseteq Decls
    BY LoadedGrows
  <2> QED BY <2>1, <2>2, <2>3, <2>4, <2>5, <2>6
<1>2. program' = program /\ Parsed' = Parsed
  BY WhatChangesFiles DEF Parsed
<1>3. PassedLater'
  BY PassedLaterNext DEF InterestingInv
<1>4. /\ \A d \in Decls : handled[d] <= 1
      /\ \A d \in Decls : d \in Range(interesting) => handled[d] = 0
      /\ \A d \in Decls : Reading(stack, d) => handled[d] = 0 /\ d \notin Range(interesting)
      /\ \A d \in Decls : handled[d] # 0 => d \in loaded
      /\ Distinct(interesting) /\ Once(stack)
      /\ \A d \in (loaded \ Parsed) \cap program.interesting :
           handled[d] = 1 \/ d \in Range(interesting) \/ Reading(stack, d)
  BY DEF InterestingInv, FromFiles
<1>5. ASSUME /\ \A d \in Decls : handled'[d] <= 1
             /\ \A d \in Decls : d \in Range(interesting') => handled'[d] = 0
             /\ \A d \in Decls : Reading(stack', d) => handled'[d] = 0 /\ d \notin Range(interesting')
             /\ \A d \in Decls : handled'[d] # 0 => d \in loaded'
             /\ Distinct(interesting') /\ Once(stack')
             /\ \A d \in (loaded' \ Parsed) \cap program.interesting :
                  handled'[d] = 1 \/ d \in Range(interesting') \/ Reading(stack', d)
      PROVE  InterestingInv'
  <2>1. FromFiles' = loaded' \ Parsed
    BY <1>2 DEF FromFiles
  <2> QED BY <1>2, <1>3, <1>5, <2>1 DEF InterestingInv, Reading, IsReading
<1>6. CASE handled' = handled /\ interesting' = interesting /\ ReadingSame(stack, stack') /\ loaded' = loaded
  <2>1. (\A d : Reading(stack, d) <=> Reading(stack', d)) /\ Once(stack')
    BY <1>4, <1>6, ReadingIsSame
  <2> QED BY <1>4, <1>5, <1>6, <2>1
<1>7. CASE PassInterestingDecl /\ ReadingSame(stack, stack') /\ loaded' = loaded
  <2>1. (\A d : Reading(stack, d) <=> Reading(stack', d)) /\ Once(stack')
    BY <1>4, <1>7, ReadingIsSame
  <2>2. /\ interesting # << >> /\ interesting' = Tail(interesting)
        /\ handled' = [handled EXCEPT ![Head(interesting)] = @ + 1]
    BY <1>7 DEF PassInterestingDecl
  <2>3. PICK n \in Nat \ {0} : n = Len(interesting)
    BY <1>1, <2>2, TailFacts
  <2>4. /\ Len(interesting') = n - 1 /\ Head(interesting) = interesting[1]
        /\ \A i \in 1 .. n - 1 : interesting'[i] = interesting[i + 1]
        /\ interesting' \in Seq(Decls)
    BY <1>1, <2>2, <2>3, TailFacts
  <2>5. PICK h \in Decls : h = interesting[1] /\ h \in Range(interesting)
    BY <1>1, <2>3 DEF Range
  <2>6. \A x : x \in Range(interesting') <=> \E i \in 1 .. n - 1 : x = interesting[i + 1]
    <3>1. \A x : x \in Range(interesting') <=> \E i \in 1 .. n - 1 : x = interesting'[i]
      BY <2>4 DEF Range
    <3> QED BY <2>4, <3>1
  <2>7. \A x : x \in Range(interesting) <=> \E i \in 1 .. n : x = interesting[i]
    <3>1. DOMAIN interesting = 1 .. n
      BY <1>1, <2>3
    <3> QED BY <3>1 DEF Range
  <2>8. h \notin Range(interesting')
    <3> SUFFICES ASSUME NEW i \in 1 .. n - 1, h = interesting[i + 1] PROVE FALSE
      BY <2>6
    <3>1. i + 1 \in 1 .. n /\ 1 \in 1 .. n /\ i + 1 # 1
      OBVIOUS
    <3> QED BY <1>4, <2>3, <2>5, <3>1
  <2>9. \A x : x \in Range(interesting') => x \in Range(interesting)
    <3>1. \A i \in 1 .. n - 1 : i + 1 \in 1 .. n
      OBVIOUS
    <3> QED BY <2>6, <2>7, <3>1
  <2>10. \A x : x \in Range(interesting) => x = h \/ x \in Range(interesting')
    <3> SUFFICES ASSUME NEW i \in 1 .. n PROVE interesting[i] = h \/ interesting[i] \in Range(interesting')
      BY <2>7
    <3>1. CASE i = 1
      BY <2>5, <3>1
    <3>2. CASE i # 1
      <4>1. i - 1 \in 1 .. n - 1 /\ (i - 1) + 1 = i
        BY <3>2
      <4> QED BY <2>6, <4>1
    <3> QED BY <3>1, <3>2
  <2>11. handled[h] = 0 /\ handled'[h] = 1 /\ \A d \in Decls : d # h => handled'[d] = handled[d]
    BY <1>1, <1>4, <2>2, <2>4, <2>5
  <2>12. h \in loaded
    BY <1>1, <2>5
  <2>13. Distinct(interesting')
    <3> SUFFICES ASSUME NEW i \in 1 .. n - 1, NEW j \in 1 .. n - 1, interesting'[i] = interesting'[j] PROVE i = j
      BY <2>4
    <3>1. i + 1 \in 1 .. n /\ j + 1 \in 1 .. n /\ interesting[i + 1] = interesting[j + 1]
      BY <2>4
    <3>2. i + 1 = j + 1
      BY <1>4, <2>3, <3>1
    <3> QED BY <3>2
  <2>14. \A d \in Decls : handled'[d] <= 1
    BY <1>4, <2>11
  <2>15. \A d \in Decls : d \in Range(interesting') => handled'[d] = 0
    BY <1>4, <2>8, <2>9, <2>11
  <2>16. \A d \in Decls : Reading(stack', d) => handled'[d] = 0 /\ d \notin Range(interesting')
    BY <1>4, <2>1, <2>5, <2>9, <2>11
  <2>17. \A d \in Decls : handled'[d] # 0 => d \in loaded'
    BY <1>4, <1>7, <2>11, <2>12
  <2>18. \A d \in (loaded' \ Parsed) \cap program.interesting :
                  handled'[d] = 1 \/ d \in Range(interesting') \/ Reading(stack', d)
    BY <1>1, <1>4, <1>7, <2>1, <2>10, <2>11
  <2> QED BY <1>5, <2>1, <2>13, <2>14, <2>15, <2>16, <2>17, <2>18
<1>8. ASSUME NEW t, NEW d, RecordStep(t, d)
      PROVE  InterestingInv'
  <2>1. PICK g \in Frame : Grown(stack, stack', g) /\ g.kind = "record" /\ g.stage = "first" /\ g.decl = d
    BY <1>8, RecordShape
  <2>2. /\ handled' = handled /\ interesting' = interesting /\ loaded' = loaded \cup {d}
        /\ d \in Decls /\ d \notin loaded
    BY <1>8 DEF RecordStep, Quiet
  <2>3. /\ Len(stack') = Len(stack) + 1 /\ stack'[Len(stack) + 1] = g
        /\ \A i \in 1 .. Len(stack) : \A e : IsReading(stack[i], e) <=> IsReading(stack'[i], e)
    BY <2>1, SameReading DEF Grown
  <2>4. \A e : IsReading(g, e) <=> e = d
    BY <2>1 DEF IsReading
  <2>5. \A i \in 1 .. Len(stack') : i \in 1 .. Len(stack) \/ i = Len(stack) + 1
    BY <1>1, <2>3
  <2>6. \A i \in 1 .. Len(stack) : i \in 1 .. Len(stack') /\ i # Len(stack) + 1
    BY <1>1, <2>3
  <2>7. Len(stack) + 1 \in 1 .. Len(stack')
    BY <1>1, <2>3
  <2>8. \A e : Reading(stack', e) <=> Reading(stack, e) \/ e = d
    BY <2>3, <2>4, <2>5, <2>6, <2>7 DEF Reading
  <2>9. ~Reading(stack, d)
    BY <1>1, <2>2 DEF StackOK, CallOK, Reading, IsReading
  <2>10. Once(stack')
    <3> SUFFICES ASSUME NEW i \in 1 .. Len(stack'), NEW j \in 1 .. Len(stack'), NEW e \in Decls,
                        IsReading(stack'[i], e), IsReading(stack'[j], e)
                 PROVE  i = j
      OBVIOUS
    <3>1. CASE i \in 1 .. Len(stack) /\ j \in 1 .. Len(stack)
      BY <1>4, <2>3, <3>1
    <3>2. CASE i \in 1 .. Len(stack) /\ j = Len(stack) + 1
      BY <2>3, <2>4, <2>9, <3>2 DEF Reading
    <3>3. CASE i = Len(stack) + 1 /\ j \in 1 .. Len(stack)
      BY <2>3, <2>4, <2>9, <3>3 DEF Reading
    <3> QED BY <2>5, <3>1, <3>2, <3>3
  <2>11. handled[d] = 0 /\ d \notin Range(interesting)
    BY <1>1, <1>4, <2>2
  <2> QED BY <1>4, <1>5, <2>2, <2>8, <2>10, <2>11
<1>9. CASE RecordRead
  <2>1. PICK n \in Nat \ {0} : n = Len(stack) /\ Top = stack[n]
    BY <1>9, TopType DEF StepInv, RecordRead, At, Is
  <2>2. PICK d : d = Top.decl
    OBVIOUS
  <2>3. stack # << >> /\ Top.kind = "record" /\ Top.stage = "end" /\ n \in 1 .. Len(stack) /\ IsReading(stack[n], d)
    BY <1>9, <2>1, <2>2 DEF RecordRead, At, Is, IsReading
  <2>4. d \in loaded /\ d \in Decls
    BY <1>1, <2>1, <2>2, <2>3 DEF StackOK, CallOK
  <2>5. PICK g \in Frame : TopBecomes(stack, stack', g) /\ g.stage = "done"
    BY <1>9, <2>3, SpecialShape DEF Special, FinishNested, FinishPendingActions, FinishedDeserializing,
       GuardEnds, PassInterestingDecl, AllPassed, StartProgram, DefinitionsStarted, At, Is, Idle
  <2>6. handled' = handled /\ loaded' = loaded
        /\ interesting' = IF d \in program.interesting THEN Append(interesting, d) ELSE interesting
    BY <1>9, <2>2 DEF RecordRead
  <2>7. /\ Len(stack') = n /\ \A i \in 1 .. n - 1 : stack'[i] = stack[i]
        /\ \A e : ~IsReading(stack'[n], e)
    BY <2>1, <2>5 DEF TopBecomes, IsReading
  <2>8. \A i \in 1 .. n : i \in 1 .. n - 1 \/ i = n
    OBVIOUS
  <2>9. \A i \in 1 .. n - 1 : i \in 1 .. n /\ i # n
    OBVIOUS
  <2>10. \A e : Reading(stack', e) => Reading(stack, e)
    BY <2>1, <2>7, <2>8, <2>9 DEF Reading
  <2>11. \A e : Reading(stack, e) => Reading(stack', e) \/ e = d
    <3>1. \A e : IsReading(stack[n], e) => e = d
      BY <2>1, <2>2 DEF IsReading
    <3> QED BY <2>1, <2>7, <2>8, <2>9, <3>1 DEF Reading
  <2>12. Reading(stack, d)
    BY <2>3 DEF Reading
  <2>13. ~Reading(stack', d)
    <3> SUFFICES ASSUME NEW i \in 1 .. n - 1, IsReading(stack[i], d) PROVE FALSE
      BY <2>1, <2>7, <2>8 DEF Reading
    <3> QED BY <1>4, <2>1, <2>3, <2>4, <2>9
  <2>14. Once(stack')
    BY <1>4, <2>1, <2>7, <2>8, <2>9
  <2>15. handled[d] = 0 /\ d \notin Range(interesting)
    BY <1>4, <2>4, <2>12
  <2>16. CASE d \notin program.interesting
    BY <1>4, <1>5, <2>6, <2>10, <2>11, <2>13, <2>14, <2>16
  <2>17. CASE d \in program.interesting
    <3>1. PICK q : q = Append(interesting, d)
      OBVIOUS
    <3>2. IsPushed(Decls, q, interesting, d)
      BY <1>1, <2>4, <3>1, ElementPushed, Zenon
    <3>3. /\ q \in Seq(Decls) /\ Len(q) = Len(interesting) + 1 /\ q[Len(interesting) + 1] = d
          /\ \A i \in 1 .. Len(interesting) : q[i] = interesting[i]
      BY <3>2 DEF IsPushed
    <3>4. Len(interesting) \in Nat
      BY <1>1
    <3>5. \A i \in 1 .. Len(q) : i \in 1 .. Len(interesting) \/ i = Len(interesting) + 1
      BY <3>3, <3>4
    <3>6. \A i \in 1 .. Len(interesting) : i \in 1 .. Len(q) /\ interesting[i] \in Range(interesting)
      BY <1>1, <3>3, <3>4 DEF Range
    <3>7. Len(interesting) + 1 \in 1 .. Len(q)
      BY <3>3, <3>4
    <3>8. \A x : x \in Range(q) <=> \E i \in 1 .. Len(q) : x = q[i]
      BY <3>3 DEF Range
    <3>9. \A x : x \in Range(interesting) <=> \E i \in 1 .. Len(interesting) : x = interesting[i]
      BY <1>1 DEF Range
    <3>10. \A x : x \in Range(q) <=> x \in Range(interesting) \/ x = d
      BY <3>3, <3>5, <3>6, <3>7, <3>8, <3>9
    <3>11. Distinct(q)
      <4> SUFFICES ASSUME NEW i \in 1 .. Len(q), NEW j \in 1 .. Len(q), q[i] = q[j] PROVE i = j
        OBVIOUS
      <4>1. CASE i \in 1 .. Len(interesting) /\ j \in 1 .. Len(interesting)
        BY <1>4, <3>3, <4>1
      <4>2. CASE i \in 1 .. Len(interesting) /\ j = Len(interesting) + 1
        BY <2>15, <3>3, <3>6, <4>2
      <4>3. CASE j \in 1 .. Len(interesting) /\ i = Len(interesting) + 1
        BY <2>15, <3>3, <3>6, <4>3
      <4> QED BY <3>5, <4>1, <4>2, <4>3
    <3>12. interesting' = q
      BY <2>6, <2>17, <3>1
    <3>13. Distinct(interesting')
      BY <3>11, <3>12
    <3>14. \A x : x \in Range(interesting') <=> x \in Range(interesting) \/ x = d
      BY <3>10, <3>12
    <3>15. \A e \in Decls : e \in Range(interesting') => handled'[e] = 0
      BY <1>4, <2>6, <2>15, <3>14
    <3>16. \A e \in Decls : Reading(stack', e) => handled'[e] = 0 /\ e \notin Range(interesting')
      BY <1>4, <2>6, <2>10, <2>13, <3>14
    <3>17. \A e \in (loaded' \ Parsed) \cap program.interesting :
                  handled'[e] = 1 \/ e \in Range(interesting') \/ Reading(stack', e)
      BY <1>4, <2>6, <2>11, <3>14
    <3> QED BY <1>4, <1>5, <2>6, <2>14, <3>13, <3>15, <3>16, <3>17
  <2> QED BY <2>16, <2>17
<1>10. \/ handled' = handled /\ interesting' = interesting
       \/ PassInterestingDecl \/ RecordRead
  <2>1. AllPassed => handled' = handled /\ interesting' = interesting
    BY DEF AllPassed
  <2>2. FinishedDeserializing => handled' = handled /\ interesting' = interesting
    BY DEF FinishedDeserializing
  <2> QED BY <2>1, <2>2, WhatChangesPassing DEF passVars
<1> QED BY <1>6, <1>7, <1>8, <1>9, <1>10, WhatIsRead

LEMMA InterestingInit ==
  ASSUME Init
  PROVE  InterestingInv
<1>1. Range(interesting) = {} /\ interesting = << >> /\ Len(<< >>) = 0
  BY DEF Init, Range
<1>2. stack = << >> /\ loaded = Parsed /\ handled = [d \in Decls |-> 0]
  BY DEF Init
<1>3. FromFiles = {}
  BY <1>2 DEF FromFiles
<1>4. \A d : ~Reading(stack, d)
  BY <1>1, <1>2 DEF Reading
<1> QED BY <1>1, <1>2, <1>3, <1>4 DEF InterestingInv, PassedLater

LEMMA InterestingInvariant ==
  Spec => []InterestingInv
<1>1. InterestingInv /\ UNCHANGED vars => InterestingInv'
  <2> SUFFICES ASSUME InterestingInv, UNCHANGED vars PROVE InterestingInv'
    OBVIOUS
  <2> USE DEF vars, readVars, idVars, chainVars, bodyVars, passVars, scopeVars, loadVars
  <2>1. FromFiles' = FromFiles
    BY DEF FromFiles, Parsed
  <2> QED BY <2>1 DEF InterestingInv, PassedLater, Reading, IsReading, CountedKinds
<1> QED BY <1>1, StepInvInvariant, InterestingInit, InterestingNext, PTL DEF Spec

(* What is loaded from a file and may have to be emitted gets to the        *)
(* consumer once, whatever files there are and whatever is asked for: also  *)
(* when it is loaded before there is a consumer (StartTranslationUnit), by  *)
(* the consumer itself, or while others are passed.                         *)
THEOREM InterestingOnce ==
  Spec => []InterestingPassedOnce
<1>1. StepInv /\ InterestingInv => InterestingPassedOnce
  <2> SUFFICES ASSUME StepInv, InterestingInv PROVE InterestingPassedOnce
    OBVIOUS
  <2>1. \A d \in Decls : handled[d] <= 1
    BY DEF InterestingInv
  <2>2. ASSUME Idle, consumer, NEW d \in FromFiles \cap program.interesting PROVE handled[d] = 1
    <3>1. stack = << >> /\ Len(<< >>) = 0
      BY <2>2 DEF Idle
    <3>2. interesting = << >>
      BY <2>2, <3>1 DEF InterestingInv, PassedLater
    <3>3. Range(interesting) = {} /\ ~Reading(stack, d)
      BY <3>1, <3>2 DEF Range, Reading
    <3> QED BY <3>3 DEF InterestingInv
  <2> QED BY <2>1, <2>2 DEF InterestingPassedOnce
<1> QED BY <1>1, StepInvInvariant, InterestingInvariant, PTL

-----------------------------------------------------------------------------
(* The queues are empty when nothing is being loaded                        *)

LEMMA QueuesInvariant ==
  Spec => []QueuesInv
<1>1. Init => QueuesInv
  BY DEF Init, QueuesInv, At, Is
<1>2. QueuesInv /\ UNCHANGED vars => QueuesInv'
  BY DEF vars, readVars, idVars, chainVars, bodyVars, passVars, scopeVars, loadVars,
         QueuesInv, At, Is, Top
<1> QED BY <1>1, <1>2, StepInvInvariant, QueuesNext, PTL DEF Spec

-----------------------------------------------------------------------------
(* The cursors                                                              *)

LEMMA GoodPlaceKept ==
  ASSUME NEW p, NEW s, NEW t, NEW R, NEW S, R \subseteq S, NEW i, NEW d, GoodPlace(p, s, R, i, d),
         t[i].decl = s[i].decl, \A j \in 1 .. i : t[j].guarded => s[j].guarded
  PROVE  GoodPlace(p, t, S, i, d)
BY DEF GoodPlace

(* The calls above the body i that save, and what they save, stay the same. *)
SameSavers(p, s, t, i) ==
  LET f == p.file[s[i].decl] IN
  /\ t[i].decl = s[i].decl /\ \A j \in 1 .. i : t[j].guarded => s[j].guarded
  /\ Savers(p, t, i, f) = Savers(p, s, i, f)
  /\ \A j \in Savers(p, s, i, f) : t[j].place = s[j].place

(* The cursor may change when it is saved, or to another good place.        *)
CursorMayBe(p, s, S, c, e, i) ==
  LET f == p.file[s[i].decl] IN
  e[f] = c[f] \/ Savers(p, s, i, f) # {} \/ GoodPlace(p, s, S, i, e[f])

LEMMA PlacesKept ==
  ASSUME NEW p, NEW s, NEW t, NEW R, NEW S, R \subseteq S, NEW c, NEW e, NEW i,
         PlacesOK(p, s, R, c, i), SameSavers(p, s, t, i), CursorMayBe(p, s, S, c, e, i)
  PROVE  PlacesOK(p, t, S, e, i)
<1> PICK f : f = p.file[s[i].decl]
  OBVIOUS
<1>0. /\ t[i].decl = s[i].decl /\ \A j \in 1 .. i : t[j].guarded => s[j].guarded
      /\ Savers(p, t, i, f) = Savers(p, s, i, f)
      /\ \A j \in Savers(p, s, i, f) : t[j].place = s[j].place
      /\ e[f] = c[f] \/ Savers(p, s, i, f) # {} \/ GoodPlace(p, s, S, i, e[f])
  BY DEF SameSavers, CursorMayBe
<1>1. /\ Savers(p, s, i, f) = {} => GoodPlace(p, s, R, i, c[f])
      /\ \A j \in Savers(p, s, i, f) :
           (\A k \in Savers(p, s, i, f) : j <= k) => GoodPlace(p, s, R, i, s[j].place)
  BY DEF PlacesOK
<1>2. \A d : GoodPlace(p, s, R, i, d) \/ GoodPlace(p, s, S, i, d) => GoodPlace(p, t, S, i, d)
  BY <1>0, GoodPlaceKept
<1>3. Savers(p, t, i, f) = {} => GoodPlace(p, t, S, i, e[f])
  BY <1>0, <1>1, <1>2
<1>4. ASSUME NEW j \in Savers(p, t, i, f), \A k \in Savers(p, t, i, f) : j <= k
      PROVE  GoodPlace(p, t, S, i, t[j].place)
  <2>1. GoodPlace(p, s, R, i, s[j].place)
    BY <1>0, <1>1, <1>4
  <2> QED BY <1>0, <1>2, <1>4, <2>1
<1> QED BY <1>0, <1>3, <1>4 DEF PlacesOK

LEMMA SameSaves ==
  ASSUME NEW g, NEW h, SameCall(g, h), NEW p, NEW f
  PROVE  Saves(p, h, f) <=> Saves(p, g, f)
BY DEF SameCall, Saves

LEMMA PlacesTurned ==
  ASSUME NEW s \in Seq(Frame), NEW t, SameCalls(s, t), NEW p, NEW R, NEW c, NEW i \in 1 .. Len(s),
         PlacesOK(p, s, R, c, i)
  PROVE  PlacesOK(p, t, R, c, i)
<1>1. Len(s) \in Nat /\ Len(t) = Len(s) /\ \A j \in 1 .. Len(s) : SameCall(s[j], t[j])
  BY DEF SameCalls
<1>2. PICK f : f = p.file[s[i].decl]
  OBVIOUS
<1>3. t[i].decl = s[i].decl
  BY <1>1 DEF SameCall
<1>4. \A j \in 1 .. i : t[j].guarded => s[j].guarded
  BY <1>1 DEF SameCall
<1>5. \A j \in i + 1 .. Len(s) : t[j].place = s[j].place /\ (Saves(p, t[j], f) <=> Saves(p, s[j], f))
  <2>1. \A j \in i + 1 .. Len(s) : j \in 1 .. Len(s)
    BY <1>1
  <2> QED BY <1>1, <2>1, SameSaves DEF SameCall
<1>6. /\ Savers(p, t, i, f) = Savers(p, s, i, f)
      /\ \A j \in Savers(p, s, i, f) : t[j].place = s[j].place
  BY <1>1, <1>5 DEF Savers
<1>7. SameSavers(p, s, t, i) /\ CursorMayBe(p, s, R, c, c, i)
  BY <1>2, <1>3, <1>4, <1>6 DEF SameSavers, CursorMayBe
<1> QED BY <1>7, PlacesKept

(* The call g saves the cursor, or leaves it at a good place.               *)
SavedBy(p, s, g, S, c, e, i) ==
  LET f == p.file[s[i].decl] IN
  \/ Saves(p, g, f) /\ g.place = c[f]
  \/ ~Saves(p, g, f) /\ (e[f] = c[f] \/ GoodPlace(p, s, S, i, e[f]))

LEMMA PlacesGrown ==
  ASSUME NEW s \in Seq(Frame), NEW t, NEW g, Grown(s, t, g), NEW p, NEW R, NEW S, R \subseteq S,
         NEW c, NEW e, NEW i \in 1 .. Len(s), PlacesOK(p, s, R, c, i), SavedBy(p, s, g, S, c, e, i)
  PROVE  PlacesOK(p, t, S, e, i)
<1> PICK f : f = p.file[s[i].decl]
  OBVIOUS
<1>0. \/ Saves(p, g, f) /\ g.place = c[f]
      \/ ~Saves(p, g, f) /\ (e[f] = c[f] \/ GoodPlace(p, s, S, i, e[f]))
  BY DEF SavedBy
<1>1. Len(s) \in Nat /\ Len(t) = Len(s) + 1 /\ t[Len(s) + 1] = g
      /\ \A j \in 1 .. Len(s) : SameCall(s[j], t[j])
  BY DEF Grown
<1>2. PICK n \in Nat : n = Len(s)
  BY <1>1
<1>3. t[i].decl = s[i].decl
  BY <1>1 DEF SameCall
<1>4. \A j \in 1 .. i : t[j].guarded <=> s[j].guarded
  BY <1>1 DEF SameCall
<1>5. \A j \in i + 1 .. n : t[j].place = s[j].place /\ (Saves(p, t[j], f) <=> Saves(p, s[j], f))
  <2>1. \A j \in i + 1 .. n : j \in 1 .. Len(s)
    BY <1>2
  <2> QED BY <1>1, <2>1, SameSaves DEF SameCall
<1>6. n + 1 \in i + 1 .. n + 1 /\ n + 1 \notin i + 1 .. n
      /\ \A j : j \in i + 1 .. n + 1 <=> j \in i + 1 .. n \/ j = n + 1
  BY <1>2
<1>7. \A j : j \in Savers(p, s, i, f) <=> j \in i + 1 .. n /\ Saves(p, s[j], f)
  BY <1>2 DEF Savers
<1>8. \A j : j \in Savers(p, t, i, f) <=> j \in i + 1 .. n + 1 /\ Saves(p, t[j], f)
  BY <1>1, <1>2 DEF Savers
<1>9. \A d : GoodPlace(p, s, R, i, d) => GoodPlace(p, t, S, i, d)
  BY <1>3, <1>4, GoodPlaceKept
<1>10. CASE ~Saves(p, g, f)
  <2>1. Savers(p, t, i, f) = Savers(p, s, i, f)
    BY <1>1, <1>2, <1>5, <1>6, <1>7, <1>8, <1>10
  <2>2. \A j \in Savers(p, s, i, f) : t[j].place = s[j].place
    BY <1>5, <1>7
  <2>3. SameSavers(p, s, t, i)
    BY <1>3, <1>4, <2>1, <2>2 DEF SameSavers
  <2>4. CursorMayBe(p, s, S, c, e, i)
    BY <1>0, <1>10 DEF CursorMayBe
  <2> QED BY <2>3, <2>4, PlacesKept
<1>11. CASE Saves(p, g, f)
  <2>1. g.place = c[f]
    BY <1>0, <1>11
  <2>2. n + 1 \in Savers(p, t, i, f)
    BY <1>1, <1>2, <1>6, <1>8, <1>11
  <2>3. /\ Savers(p, s, i, f) = {} => GoodPlace(p, s, R, i, c[f])
        /\ \A j \in Savers(p, s, i, f) :
             (\A k \in Savers(p, s, i, f) : j <= k) => GoodPlace(p, s, R, i, s[j].place)
    BY DEF PlacesOK
  <2>4. ASSUME NEW j \in Savers(p, t, i, f), \A k \in Savers(p, t, i, f) : j <= k
        PROVE  GoodPlace(p, t, S, i, t[j].place)
    <3>1. CASE Savers(p, s, i, f) = {}
      <4>1. j = n + 1
        BY <1>5, <1>6, <1>7, <1>8, <3>1
      <4> QED BY <1>1, <1>2, <1>9, <2>1, <2>3, <3>1, <4>1
    <3>2. CASE Savers(p, s, i, f) # {}
      <4>1. PICK k : k \in Savers(p, s, i, f)
        BY <3>2
      <4>2. k \in i + 1 .. n /\ Saves(p, t[k], f)
        BY <1>5, <1>7, <4>1
      <4>3. k \in Savers(p, t, i, f)
        BY <1>6, <1>8, <4>2
      <4>4. j <= k
        BY <2>4, <4>3
      <4>5. j # n + 1
        BY <1>2, <4>2, <4>4
      <4>6. j \in i + 1 .. n
        BY <1>6, <1>8, <4>5
      <4>7. j \in Savers(p, s, i, f) /\ t[j].place = s[j].place
        BY <1>5, <1>7, <1>8, <4>6
      <4>8. \A l \in Savers(p, s, i, f) : l \in Savers(p, t, i, f)
        BY <1>5, <1>6, <1>7, <1>8
      <4>9. GoodPlace(p, s, R, i, s[j].place)
        BY <2>3, <2>4, <4>7, <4>8
      <4> QED BY <1>9, <4>7, <4>9
    <3> QED BY <3>1, <3>2
  <2>5. Savers(p, t, i, f) # {}
    BY <2>2
  <2> QED BY <1>3, <2>4, <2>5 DEF PlacesOK
<1> QED BY <1>10, <1>11

LEMMA PlacesShrunk ==
  ASSUME NEW s \in Seq(Frame), NEW t, Shrunk(s, t), NEW p, NEW R,
         NEW c, NEW e, NEW i \in 1 .. Len(t), PlacesOK(p, s, R, c, i), NEW f, f = p.file[s[i].decl],
         e[f] = IF Saves(p, s[Len(s)], f) THEN s[Len(s)].place ELSE c[f]
  PROVE  PlacesOK(p, t, R, e, i)
<1>1. t \in Seq(Frame) /\ Len(t) \in Nat /\ Len(s) = Len(t) + 1
      /\ \A j \in 1 .. Len(t) : SameCall(s[j], t[j])
  BY DEF Shrunk
<1>2. PICK n \in Nat : n = Len(t) /\ n + 1 = Len(s)
  BY <1>1
<1>3. t[i].decl = s[i].decl
  BY <1>1 DEF SameCall
<1>4. \A j \in 1 .. i : t[j].guarded <=> s[j].guarded
  BY <1>1 DEF SameCall
<1>5. \A j \in i + 1 .. n : t[j].place = s[j].place /\ (Saves(p, t[j], f) <=> Saves(p, s[j], f))
  <2>1. \A j \in i + 1 .. n : j \in 1 .. Len(t)
    BY <1>2
  <2> QED BY <1>1, <2>1, SameSaves DEF SameCall
<1>6. n + 1 \in i + 1 .. n + 1 /\ n + 1 \notin i + 1 .. n
      /\ \A j : j \in i + 1 .. n + 1 <=> j \in i + 1 .. n \/ j = n + 1
  BY <1>2
<1>7. \A j : j \in Savers(p, t, i, f) <=> j \in i + 1 .. n /\ Saves(p, t[j], f)
  BY <1>2 DEF Savers
<1>8. \A j : j \in Savers(p, s, i, f) <=> j \in i + 1 .. n + 1 /\ Saves(p, s[j], f)
  BY <1>2 DEF Savers
<1>9. \A d : GoodPlace(p, s, R, i, d) => GoodPlace(p, t, R, i, d)
  BY <1>3, <1>4, GoodPlaceKept
<1>10. CASE ~Saves(p, s[Len(s)], f)
  <2>1. Savers(p, t, i, f) = Savers(p, s, i, f)
    BY <1>2, <1>5, <1>6, <1>7, <1>8, <1>10
  <2>2. \A j \in Savers(p, s, i, f) : t[j].place = s[j].place
    BY <1>5, <1>7, <2>1
  <2>3. e[f] = c[f]
    BY <1>10
  <2>4. SameSavers(p, s, t, i) /\ CursorMayBe(p, s, R, c, e, i)
    BY <1>3, <1>4, <2>1, <2>2, <2>3 DEF SameSavers, CursorMayBe
  <2> QED BY <2>4, PlacesKept
<1>11. CASE Saves(p, s[Len(s)], f)
  <2>1. e[f] = s[n + 1].place
    BY <1>2, <1>11
  <2>2. n + 1 \in Savers(p, s, i, f)
    BY <1>2, <1>6, <1>8, <1>11
  <2>3. \A j \in Savers(p, s, i, f) :
             (\A k \in Savers(p, s, i, f) : j <= k) => GoodPlace(p, s, R, i, s[j].place)
    BY DEF PlacesOK
  <2>4. \A j \in Savers(p, s, i, f) : j = n + 1 \/ (j \in Savers(p, t, i, f) /\ t[j].place = s[j].place)
    BY <1>5, <1>6, <1>7, <1>8
  <2>5. Savers(p, t, i, f) = {} => GoodPlace(p, t, R, i, e[f])
    <3> SUFFICES ASSUME Savers(p, t, i, f) = {} PROVE GoodPlace(p, t, R, i, e[f])
      OBVIOUS
    <3>1. \A k \in Savers(p, s, i, f) : n + 1 <= k
      BY <2>4
    <3>2. GoodPlace(p, s, R, i, s[n + 1].place)
      BY <2>2, <2>3, <3>1
    <3> QED BY <1>9, <2>1, <3>2
  <2>6. ASSUME NEW j \in Savers(p, t, i, f), \A k \in Savers(p, t, i, f) : j <= k
        PROVE  GoodPlace(p, t, R, i, t[j].place)
    <3>1. j \in i + 1 .. n /\ Saves(p, s[j], f) /\ t[j].place = s[j].place
      BY <1>5, <1>7, <2>6
    <3>2. j \in Savers(p, s, i, f)
      BY <1>6, <1>8, <3>1
    <3>3. j <= n + 1
      BY <3>1
    <3>4. \A k \in Savers(p, s, i, f) : j <= k
      BY <2>4, <2>6, <3>3
    <3>5. GoodPlace(p, s, R, i, s[j].place)
      BY <2>3, <3>2, <3>4
    <3> QED BY <1>9, <3>1, <3>5
  <2> QED BY <1>3, <2>5, <2>6 DEF PlacesOK
<1> QED BY <1>10, <1>11

LEMMA PlacesTop ==
  ASSUME NEW s \in Seq(Frame), NEW t, NEW g, TopBecomes(s, t, g), NEW p, NEW R,
         NEW c, NEW i \in 1 .. Len(s) - 1, PlacesOK(p, s, R, c, i),
         \A f : Saves(p, g, f) <=> Saves(p, s[Len(s)], f), g.place = s[Len(s)].place
  PROVE  PlacesOK(p, t, R, c, i)
<1>1. Len(s) \in Nat /\ Len(t) = Len(s) /\ t[Len(s)] = g
      /\ \A j \in 1 .. Len(s) - 1 : t[j] = s[j]
  BY DEF TopBecomes
<1>2. PICK f : f = p.file[s[i].decl]
  OBVIOUS
<1>3. t[i].decl = s[i].decl
  BY <1>1
<1>4. \A j \in 1 .. i : t[j].guarded => s[j].guarded
  BY <1>1
<1>5. \A j \in i + 1 .. Len(s) : t[j].place = s[j].place /\ (Saves(p, t[j], f) <=> Saves(p, s[j], f))
  <2>1. \A j \in i + 1 .. Len(s) : j \in 1 .. Len(s) - 1 \/ j = Len(s)
    BY <1>1
  <2> QED BY <1>1, <2>1
<1>6. /\ Savers(p, t, i, f) = Savers(p, s, i, f)
      /\ \A j \in Savers(p, s, i, f) : t[j].place = s[j].place
  BY <1>1, <1>5 DEF Savers
<1>7. SameSavers(p, s, t, i) /\ CursorMayBe(p, s, R, c, c, i)
  BY <1>2, <1>3, <1>4, <1>6 DEF SameSavers, CursorMayBe
<1> QED BY <1>7, PlacesKept

(* The body of a declaration is asked for by a client or by the consumer,   *)
(* which has just got the declaration: a body that is being read below      *)
(* finds that of a declaration that is wanted at once, and nothing keeps    *)
(* the consumer from getting one.                                           *)
LEMMA BodyOnBody ==
  ASSUME StepInv, NEW d, GetBody(d, stack), Next, stack # << >>, Top.kind = "handle",
         NEW i \in 1 .. Len(stack), stack[i].kind = "body"
  PROVE  d \in program.eager /\ \A j \in 1 .. i : ~stack[j].guarded
<1>1. /\ Len(stack) \in Nat \ {0} /\ Top = stack[Len(stack)] /\ PlaceOK(stack, Len(stack))
      /\ \A j \in 1 .. Len(stack) : PlaceOK(stack, j)
  BY TopType DEF StepInv, StackInv, StackOK
<1>2. d \in program.eager
  <2>1. d \in bodies \ bodiesRead /\ bodiesRead' = bodiesRead \cup {d}
    BY DEF GetBody
  <2>2. ~AskForBody /\ ~RecordRead /\ ~SetLazyBody
    BY <2>1 DEF AskForBody, Idle, RecordRead, SetLazyBody
  <2>3. ConsumerGetsBody
    BY <2>1, <2>2 DEF Next, ClientStep, ReadStep, FinishStep, ConsumerStep, bodyVars,
       AskForDecl, LookUp, InitializeSema, StartProgram, ImportFile,
       ReadFirst, LinkToFirst, ReadDeclName, ReadDeclType, UpdateIdentifier, Merge, ReadRest,
       AskForNext, ReadMacroToken, ReadInBody, BodyIsRead,
       FinishNested, FinishPendingActions, SetGloballyVisibleDecls, PushIntoScope, PopPendingName,
       NamesAreDone, LoadPendingDeclChain, AddToChain, HookUpChain, ChainsAreDone, LoadPendingMacro,
       MacroIsRead, MacrosAreDone, FinishedDeserializing,
       PassInterestingDecl, AllPassed, ConsumerReturns, StartNextDefinition, DefinitionsStarted
  <2>4. Top.decl \in program.eager /\ bodiesRead' = bodiesRead \cup {Top.decl}
    BY <2>3 DEF ConsumerGetsBody, GetBody
  <2> QED BY <2>1, <2>4
<1>3. PICK n \in Nat \ {0} : n = Len(stack)
  BY <1>1
<1>4. n # 1 /\ stack[n - 1].kind = "pass" /\ stack[n].kind = "handle"
  BY <1>1, <1>3 DEF PlaceOK
<1>5. i # n /\ i # n - 1
  BY <1>4
<1>6. ASSUME NEW j \in 1 .. i, stack[j].guarded PROVE FALSE
  <2>1. n - 1 \in j + 1 .. n /\ j \in 1 .. n
    BY <1>3, <1>5
  <2> QED BY <1>1, <1>3, <1>4, <1>6, <2>1 DEF PlaceOK
<1> QED BY <1>2, <1>6

LEMMA CursorsNext ==
  ASSUME StepInv, CursorsInv, Next
  PROVE  CursorsInv'
<1>1. stack \in Seq(Frame) /\ stack' \in Seq(Frame) /\ Len(stack) \in Nat /\ StackOK(stack, loaded)
  <2>1. stack \in Seq(Frame) /\ StackOK(stack, loaded)
    BY DEF StepInv, TypeOK, StackInv
  <2> QED BY <2>1, StackNext
<1>2. program' = program /\ program \in Program /\ cursor \in [Files -> Decls \cup {NoDecl}]
  BY WhatChangesFiles, ProgramType DEF StepInv, TypeOK
<1>3. ASSUME NEW i \in 1 .. Len(stack), stack[i].kind = "body"
      PROVE  /\ PlacesOK(program, stack, bodiesRead, cursor, i)
             /\ program.file[stack[i].decl] \in Files
  <2>1. stack[i].decl \in Decls \ Parsed
    BY <1>1, <1>3 DEF StackOK, CallOK
  <2>2. program.file[stack[i].decl] \in Files
    BY <1>2, <2>1 DEF Parsed, Program
  <2> QED BY <1>3, <2>2 DEF CursorsInv
<1>4. stack # << >> => /\ Len(stack) \in Nat \ {0} /\ Top = stack[Len(stack)] /\ CallOK(Top, loaded)
                       /\ Len(stack) \in 1 .. Len(stack)
  <2> SUFFICES ASSUME stack # << >> PROVE /\ Len(stack) \in Nat \ {0} /\ Top = stack[Len(stack)]
                                          /\ CallOK(Top, loaded) /\ Len(stack) \in 1 .. Len(stack)
    OBVIOUS
  <2>1. Len(stack) \in Nat \ {0} /\ Top = stack[Len(stack)] /\ CallOK(Top, loaded)
    BY TopType DEF StepInv
  <2> QED BY <2>1
<1>5. ASSUME \A i \in 1 .. Len(stack') :
               stack'[i].kind = "body" => PlacesOK(program, stack', bodiesRead', cursor', i)
      PROVE  CursorsInv'
  BY <1>2, <1>5 DEF CursorsInv
<1>6. CASE SameCalls(stack, stack') /\ cursor' = cursor /\ bodiesRead' = bodiesRead
  <2> SUFFICES ASSUME NEW i \in 1 .. Len(stack'), stack'[i].kind = "body"
               PROVE  PlacesOK(program, stack', bodiesRead', cursor', i)
    BY <1>5
  <2>1. i \in 1 .. Len(stack) /\ stack[i].kind = "body"
    BY <1>6 DEF SameCalls, SameCall
  <2> QED BY <1>1, <1>3, <1>6, <2>1, PlacesTurned
<1>7. ASSUME NEW g, Grown(stack, stack', g), g.kind # "body", bodiesRead' = bodiesRead,
             \A i \in 1 .. Len(stack) : stack[i].kind = "body" =>
               LET f == program.file[stack[i].decl] IN
               \/ Saves(program, g, f) /\ g.place = cursor[f]
               \/ ~Saves(program, g, f) /\ cursor'[f] = cursor[f]
      PROVE  CursorsInv'
  <2> SUFFICES ASSUME NEW i \in 1 .. Len(stack'), stack'[i].kind = "body"
               PROVE  PlacesOK(program, stack', bodiesRead', cursor', i)
    BY <1>5
  <2>1. i \in 1 .. Len(stack) /\ stack[i].kind = "body"
    <3>1. i \in 1 .. Len(stack) \/ i = Len(stack) + 1
      BY <1>1, <1>7 DEF Grown
    <3> QED BY <1>7, <3>1 DEF Grown, SameCall
  <2>2. PICK f : f = program.file[stack[i].decl]
    OBVIOUS
  <2>3. \/ Saves(program, g, f) /\ g.place = cursor[f]
        \/ ~Saves(program, g, f) /\ cursor'[f] = cursor[f]
    BY <1>7, <2>1, <2>2
  <2>4. PlacesOK(program, stack, bodiesRead, cursor, i)
    BY <1>3, <2>1
  <2>5. SavedBy(program, stack, g, bodiesRead', cursor, cursor', i)
    BY <2>2, <2>3 DEF SavedBy
  <2> QED BY <1>1, <1>7, <2>1, <2>4, <2>5, PlacesGrown
<1>8. ASSUME NEW g, Grown(stack, stack', g), g.kind \in {"identifier", "scope", "chain", "macro", "handle", "start"},
             bodiesRead' = bodiesRead, cursor' = cursor
      PROVE  CursorsInv'
  <2>1. \A f : ~Saves(program, g, f)
    BY <1>8 DEF Saves
  <2> QED BY <1>7, <1>8, <2>1
<1>9. ASSUME Shrunk(stack, stack'), bodiesRead' = bodiesRead,
             \A i \in 1 .. Len(stack) : stack[i].kind = "body" =>
               LET f == program.file[stack[i].decl] IN
               cursor'[f] = IF Saves(program, stack[Len(stack)], f) THEN stack[Len(stack)].place ELSE cursor[f]
      PROVE  CursorsInv'
  <2> SUFFICES ASSUME NEW i \in 1 .. Len(stack'), stack'[i].kind = "body"
               PROVE  PlacesOK(program, stack', bodiesRead', cursor', i)
    BY <1>5
  <2>1. i \in 1 .. Len(stack) /\ stack[i].kind = "body"
    <3>1. i \in 1 .. Len(stack)
      BY <1>1, <1>9 DEF Shrunk
    <3> QED BY <1>9, <3>1 DEF Shrunk, SameCall
  <2>2. PICK f : f = program.file[stack[i].decl]
    OBVIOUS
  <2>3. cursor'[f] = IF Saves(program, stack[Len(stack)], f) THEN stack[Len(stack)].place ELSE cursor[f]
    BY <1>9, <2>1, <2>2
  <2>4. PlacesOK(program, stack, bodiesRead, cursor, i)
    BY <1>3, <2>1
  <2> QED BY <1>1, <1>9, <2>2, <2>3, <2>4, PlacesShrunk
<1>10. ASSUME NEW g, stack # << >>, TopBecomes(stack, stack', g), g.kind # "body",
              bodiesRead' = bodiesRead, cursor' = cursor,
              g.place = Top.place, \A f : Saves(program, g, f) <=> Saves(program, Top, f)
       PROVE  CursorsInv'
  <2> SUFFICES ASSUME NEW i \in 1 .. Len(stack'), stack'[i].kind = "body"
               PROVE  PlacesOK(program, stack', bodiesRead', cursor', i)
    BY <1>5
  <2>1. i \in 1 .. Len(stack) - 1 /\ stack[i].kind = "body" /\ i \in 1 .. Len(stack)
    <3>1. i \in 1 .. Len(stack) - 1 \/ i = Len(stack)
      BY <1>1, <1>10 DEF TopBecomes
    <3> QED BY <1>10, <3>1 DEF TopBecomes
  <2>2. PlacesOK(program, stack, bodiesRead, cursor, i)
    BY <1>3, <2>1
  <2> QED BY <1>1, <1>4, <1>10, <2>1, <2>2, PlacesTop
<1>11. CASE TurnedStep
  <2>1. SameCalls(stack, stack') /\ cursor' = cursor /\ bodiesRead' = bodiesRead
    BY <1>1, <1>11, TurnedCalls DEF TurnedStep, Quiet
  <2> QED BY <1>6, <2>1
<1>12. ASSUME NEW t, NEW d, RecordStep(t, d) PROVE CursorsInv'
  <2>1. PICK g \in Frame : /\ Grown(stack, stack', g) /\ g.kind = "record"
                           /\ g.decl = d /\ g.place = cursor[program.file[d]]
    BY <1>12, RecordShape
  <2>2. /\ d \in Decls /\ bodiesRead' = bodiesRead /\ d # NoDecl
        /\ cursor' = [cursor EXCEPT ![program.file[d]] = NoDecl]
    BY <1>12, DeserializationAssumption DEF RecordStep, Quiet
  <2>3. \A f : Saves(program, g, f) <=> program.file[d] = f
    BY <2>1, <2>2 DEF Saves
  <2>4. \A i \in 1 .. Len(stack) : stack[i].kind = "body" =>
               LET f == program.file[stack[i].decl] IN
               \/ Saves(program, g, f) /\ g.place = cursor[f]
               \/ ~Saves(program, g, f) /\ cursor'[f] = cursor[f]
    <3> SUFFICES ASSUME NEW i \in 1 .. Len(stack), stack[i].kind = "body", NEW f,
                        f = program.file[stack[i].decl], f \in Files, program.file[d] # f
                 PROVE  cursor'[f] = cursor[f]
      BY <1>3, <2>1, <2>3
    <3> QED BY <1>2, <2>2
  <2> QED BY <1>7, <2>1, <2>2, <2>4
<1>13. CASE \E t : IdentifierStep(t)
  <2>1. PICK g : Grown(stack, stack', g) /\ g.kind = "identifier"
    BY <1>13, IdentifierShape
  <2> QED BY <1>8, <1>13, <2>1 DEF IdentifierStep, Quiet
<1>14. CASE \E t : \E g : CallStep(t, g)
  <2>1. PICK g : Grown(stack, stack', g) /\ g.kind \in {"scope", "chain", "macro"}
    BY <1>14, CallShape
  <2> QED BY <1>8, <1>14, <2>1 DEF CallStep, Quiet
<1>15. CASE ReturnStep
  <2>1. /\ Shrunk(stack, stack')
        /\ stack[Len(stack)].kind \in {"scope", "chain", "macro", "handle", "body"}
    BY <1>15, ReturnShape
  <2>2. \A f : ~Saves(program, stack[Len(stack)], f)
    BY <2>1 DEF Saves
  <2> QED BY <1>9, <1>15, <2>1, <2>2 DEF ReturnStep, Quiet
<1>16. ASSUME stack # << >>, Shrunk(stack, stack'), bodiesRead' = bodiesRead, cursor' = CursorAfter(Top),
              Top.kind \in {"record", "identifier", "finish", "pass"}
       PROVE  CursorsInv'
  <2>1. \A f \in Files : cursor'[f] = IF Saves(program, Top, f) THEN Top.place ELSE cursor[f]
    <3>1. CASE Top.decl = NoDecl
      BY <1>16, <3>1 DEF CursorAfter, Saves
    <3>2. CASE Top.decl # NoDecl
      <4>1. Top.kind # "identifier"
        BY <1>4, <1>16, <3>2 DEF CallOK
      <4>2. \A f : Saves(program, Top, f) <=> program.file[Top.decl] = f
        BY <1>16, <3>2, <4>1 DEF Saves
      <4>3. cursor' = [cursor EXCEPT ![program.file[Top.decl]] = Top.place]
        BY <1>16, <3>2 DEF CursorAfter
      <4> QED BY <1>2, <4>2, <4>3
    <3> QED BY <3>1, <3>2
  <2>2. \A i \in 1 .. Len(stack) : stack[i].kind = "body" =>
               LET f == program.file[stack[i].decl] IN
               cursor'[f] = IF Saves(program, stack[Len(stack)], f) THEN stack[Len(stack)].place ELSE cursor[f]
    BY <1>3, <1>4, <1>16, <2>1
  <2> QED BY <1>9, <1>16, <2>2
<1>17. ASSUME NEW d, GetBody(d, stack), stack = << >> \/ Top.kind = "handle",
              NEW g, Grown(stack, stack', g), g.kind = "body", g.decl = d
       PROVE  CursorsInv'
  <2>1. /\ bodiesRead' = bodiesRead \cup {d} /\ d \in bodies
        /\ cursor' = [cursor EXCEPT ![program.file[d]] = d]
    BY <1>17 DEF GetBody
  <2>2. \A f : ~Saves(program, g, f)
    BY <1>17 DEF Saves
  <2>3. Len(stack') = Len(stack) + 1 /\ stack'[Len(stack) + 1] = g
        /\ \A i \in 1 .. Len(stack) : SameCall(stack[i], stack'[i])
    BY <1>17 DEF Grown
  <2>4. program.file[d] \in Files
    <3>1. d \in Decls /\ d \notin Parsed
      <4>1. d \in bodies \ bodiesRead /\ bodies \subseteq loaded /\ loaded \subseteq Decls
        BY <1>17 DEF GetBody, StepInv, TypeOK
      <4> QED BY <4>1 DEF StepInv, ParsedInv
    <3> QED BY <1>2, <3>1 DEF Parsed, Program
  <2>5. ASSUME NEW i \in 1 .. Len(stack), stack[i].kind = "body"
        PROVE  PlacesOK(program, stack', bodiesRead', cursor', i)
    <3>1. stack # << >> /\ Top.kind = "handle"
      <4>1. stack # << >>
        BY <2>5
      <4> QED BY <1>17, <4>1
    <3>2. d \in program.eager /\ \A j \in 1 .. i : ~stack[j].guarded
      BY <1>17, <2>5, <3>1, BodyOnBody
    <3>3. GoodPlace(program, stack, bodiesRead', i, d)
      BY <2>1, <3>2 DEF GoodPlace
    <3>4. PICK f : f = program.file[stack[i].decl] /\ f \in Files
      BY <1>3, <2>5
    <3>5. cursor'[f] = cursor[f] \/ GoodPlace(program, stack, bodiesRead', i, cursor'[f])
      BY <1>2, <2>1, <2>4, <3>3, <3>4
    <3>6. PlacesOK(program, stack, bodiesRead, cursor, i) /\ bodiesRead \subseteq bodiesRead'
      BY <1>3, <2>1, <2>5
    <3>7. SavedBy(program, stack, g, bodiesRead', cursor, cursor', i)
      BY <2>2, <3>4, <3>5 DEF SavedBy
    <3> QED BY <1>1, <1>17, <3>6, <3>7, PlacesGrown
  <2>6. PlacesOK(program, stack', bodiesRead', cursor', Len(stack) + 1)
    <3>1. cursor'[program.file[d]] = d
      BY <1>2, <2>1, <2>4
    <3>2. \A f : Savers(program, stack', Len(stack) + 1, f) = {}
      <4>1. (Len(stack) + 1) + 1 .. Len(stack') = {}
        BY <1>1, <2>3
      <4> QED BY <4>1 DEF Savers
    <3> QED BY <1>17, <2>3, <3>1, <3>2 DEF PlacesOK, GoodPlace
  <2>7. \A i \in 1 .. Len(stack') : i \in 1 .. Len(stack) \/ i = Len(stack) + 1
    BY <1>1, <2>3
  <2> QED BY <1>5, <2>3, <2>5, <2>6, <2>7 DEF SameCall
<1>18. CASE Special
  <2>1. /\ FinishPendingActions \/ DefinitionsStarted \/ RecordRead \/ PassInterestingDecl \/ StartProgram
           => bodiesRead' = bodiesRead /\ cursor' = cursor
        /\ FinishedDeserializing /\ MayPass(count - 1) => bodiesRead' = bodiesRead /\ cursor' = cursor
        /\ FinishedDeserializing /\ ~MayPass(count - 1)
             => bodiesRead' = bodiesRead /\ cursor' = CursorAfter(Top)
        /\ FinishNested \/ AllPassed => bodiesRead' = bodiesRead /\ cursor' = CursorAfter(Top)
    BY DEF FinishPendingActions, DefinitionsStarted, RecordRead, PassInterestingDecl, StartProgram,
           FinishedDeserializing, FinishNested, AllPassed, bodyVars
  <2>2. ASSUME NEW g, stack # << >>, g.decl = Top.decl,
               g.kind \in {"record", "finish", "pass"}, Top.kind \in {"record", "finish", "pass"} \/ Top.decl = NoDecl
        PROVE  \A f : Saves(program, g, f) <=> Saves(program, Top, f)
    BY <2>2 DEF Saves
  <2>3. stack # << >> /\ Top.kind \in {"identifier", "start"} => Top.decl = NoDecl
    BY <1>4 DEF CallOK
  <2>4. ASSUME NEW g, stack # << >>, TopBecomes(stack, stack', g), g.decl = Top.decl, g.place = Top.place,
               g.kind \in {"record", "finish", "pass"}, Top.kind \in {"record", "finish", "identifier", "start"},
               bodiesRead' = bodiesRead, cursor' = cursor
        PROVE  CursorsInv'
    <3>1. \A f : Saves(program, g, f) <=> Saves(program, Top, f)
      BY <2>2, <2>3, <2>4
    <3> QED BY <1>10, <2>4, <3>1
  <2>5. CASE FinishNested /\ stack # << >> /\ Top.kind \in {"record", "identifier"} /\ Shrunk(stack, stack')
    BY <1>16, <2>1, <2>5
  <2>6. CASE FinishedDeserializing /\ ~MayPass(count - 1) /\ stack # << >> /\ Top.kind = "finish"
             /\ Shrunk(stack, stack')
    BY <1>16, <2>1, <2>6
  <2>7. CASE AllPassed /\ stack # << >> /\ Top.kind = "pass" /\ Shrunk(stack, stack')
    BY <1>16, <2>1, <2>7
  <2>8. CASE RecordRead /\ stack # << >> /\ Top.kind = "record"
             /\ \E g \in Frame : /\ TopBecomes(stack, stack', g) /\ g.kind = "record"
                                 /\ g.decl = Top.decl /\ g.place = Top.place
    BY <2>1, <2>4, <2>8
  <2>9. CASE FinishPendingActions /\ stack # << >> /\ Top.kind \in {"record", "identifier"}
             /\ \E g \in Frame : /\ TopBecomes(stack, stack', g) /\ g.kind = "finish"
                                 /\ g.decl = Top.decl /\ g.place = Top.place
    BY <2>1, <2>4, <2>9
  <2>10. CASE FinishedDeserializing /\ MayPass(count - 1) /\ stack # << >> /\ Top.kind = "finish"
              /\ \E g \in Frame : TopBecomes(stack, stack', g) /\ PassFrame(g)
    BY <2>1, <2>4, <2>10 DEF PassFrame
  <2>11. CASE DefinitionsStarted /\ stack # << >> /\ Top.kind = "start"
              /\ \E g \in Frame : TopBecomes(stack, stack', g) /\ PassFrame(g)
    BY <2>1, <2>4, <2>11 DEF PassFrame
  <2>12. CASE PassInterestingDecl /\ \E g \in Frame : Grown(stack, stack', g) /\ g.kind = "handle"
    BY <1>8, <2>1, <2>12
  <2>13. CASE StartProgram /\ \E g \in Frame : Grown(stack, stack', g) /\ g.kind = "start"
    BY <1>8, <2>1, <2>13
  <2>14. CASE /\ stack = << >> \/ Top.kind = "handle"
              /\ \E d : /\ GetBody(d, stack)
                        /\ \E g \in Frame : Grown(stack, stack', g) /\ g.kind = "body" /\ g.decl = d
    BY <1>17, <2>14
  <2> QED BY <1>18, <2>5, <2>6, <2>7, <2>8, <2>9, <2>10, <2>11, <2>12, <2>13, <2>14, SpecialShape
<1> QED BY <1>11, <1>12, <1>13, <1>14, <1>15, <1>18, StepForms DEF Plain

LEMMA CursorsInvariant ==
  Spec => []CursorsInv
<1>1. Init => CursorsInv
  <2> SUFFICES ASSUME Init PROVE CursorsInv
    OBVIOUS
  <2>1. stack = << >> /\ Len(<< >>) = 0
    BY DEF Init
  <2> QED BY <2>1 DEF CursorsInv
<1>2. CursorsInv /\ UNCHANGED vars => CursorsInv'
  BY DEF vars, readVars, idVars, chainVars, bodyVars, passVars, scopeVars, loadVars,
         CursorsInv, PlacesOK, GoodPlace, Savers, Saves
<1> QED BY <1>1, <1>2, StepInvInvariant, CursorsNext, PTL DEF Spec

(* Reading the body of a declaration may load other declarations of its     *)
(* file, and the consumer, given one of these, may read further bodies.     *)
(* However deep that goes, each statement of the body is read where the     *)
(* last one ended, except behind a body that the consumer has read while    *)
(* nothing prevented it.                                                    *)
THEOREM BodiesAreReadInPlace ==
  Spec => []BodiesKeepTheirPlace
<1>1. StepInv /\ CursorsInv => BodiesKeepTheirPlace
  <2> SUFFICES ASSUME StepInv, CursorsInv, stack # << >>, Top.kind = "body"
               PROVE  \/ cursor[program.file[Top.decl]] = Top.decl
                      \/ ~passing /\ cursor[program.file[Top.decl]] \in program.eager \cap bodiesRead
    BY DEF BodiesKeepTheirPlace, Is
  <2>1. Len(stack) \in Nat \ {0} /\ Top = stack[Len(stack)] /\ Len(stack) \in 1 .. Len(stack)
    <3>1. Len(stack) \in Nat \ {0} /\ Top = stack[Len(stack)]
      BY TopType DEF StepInv
    <3> QED BY <3>1
  <2>2. PlacesOK(program, stack, bodiesRead, cursor, Len(stack))
    BY <2>1 DEF CursorsInv
  <2>3. \A f : Savers(program, stack, Len(stack), f) = {}
    <3>1. Len(stack) + 1 .. Len(stack) = {}
      BY <2>1
    <3> QED BY <3>1 DEF Savers
  <2>4. GoodPlace(program, stack, bodiesRead, Len(stack), cursor[program.file[Top.decl]])
    BY <2>1, <2>2, <2>3 DEF PlacesOK
  <2>5. passing <=> \E i \in 1 .. Len(stack) : stack[i].guarded
    BY DEF StepInv, StackInv
  <2> QED BY <2>1, <2>4, <2>5 DEF GoodPlace
<1> QED BY <1>1, StepInvInvariant, CursorsInvariant, PTL

-----------------------------------------------------------------------------
(* What lookup finds                                                        *)

(* The same declarations are being made visible.                            *)
ScopesSame(s, t) ==
  /\ \A i \in 1 .. Len(s) : s[i].kind = "scope" =>
       i \in 1 .. Len(t) /\ t[i].kind = "scope" /\ t[i].todo = s[i].todo /\ t[i].current = s[i].current
  /\ \A i \in 1 .. Len(t) : t[i].kind = "scope" => i \in 1 .. Len(s) /\ s[i].kind = "scope"

LEMMA ScopesTurned ==
  ASSUME NEW s \in Seq(Frame), NEW S, NEW t, Turn(s, t, S), s = << >> \/ Last(s).kind # "scope"
  PROVE  ScopesSame(s, t)
<1>1. CASE t = s
  BY <1>1 DEF ScopesSame
<1>2. CASE t # s
  <2>1. PICK g \in Frame : s # << >> /\ SameCall(Last(s), g) /\ t = Append(Front(s), g)
    BY <1>2 DEF Turn
  <2>2. TopBecomes(s, t, g)
    BY <2>1, TopReplaced
  <2>3. Len(s) \in Nat \ {0} /\ Last(s) = s[Len(s)]
    BY <2>1, LastFront, Zenon
  <2>4. Len(t) = Len(s) /\ t[Len(s)].kind # "scope" /\ s[Len(s)].kind # "scope"
    BY <2>1, <2>2, <2>3 DEF TopBecomes, SameCall
  <2>5. \A i \in 1 .. Len(s) : i \in 1 .. Len(s) - 1 \/ i = Len(s)
    BY <2>3
  <2> QED BY <2>2, <2>4, <2>5 DEF TopBecomes, ScopesSame
<1> QED BY <1>1, <1>2

LEMMA ScopesPushed ==
  ASSUME NEW s \in Seq(Frame), NEW g \in Frame, g.kind # "scope", NEW t, t = Append(s, g)
  PROVE  ScopesSame(s, t)
<1>1. IsPushed(Frame, t, s, g)
  BY ElementPushed, Zenon
<1>2. Len(s) \in Nat /\ Len(t) = Len(s) + 1 /\ t[Len(s) + 1] = g /\ \A i \in 1 .. Len(s) : t[i] = s[i]
  BY <1>1 DEF IsPushed
<1>3. \A i \in 1 .. Len(t) : i \in 1 .. Len(s) \/ i = Len(s) + 1
  BY <1>2
<1>4. \A i \in 1 .. Len(s) : i \in 1 .. Len(t)
  BY <1>2
<1> QED BY <1>2, <1>3, <1>4 DEF ScopesSame

LEMMA ScopesPopped ==
  ASSUME NEW s \in Seq(Frame), s # << >>, Last(s).kind # "scope", NEW t, t = Front(s)
  PROVE  ScopesSame(s, t)
<1>1. Len(s) \in Nat \ {0} /\ Last(s) = s[Len(s)] /\ Len(t) = Len(s) - 1
      /\ \A i \in 1 .. Len(s) - 1 : t[i] = s[i]
  BY LastFront, Zenon
<1>2. \A i \in 1 .. Len(s) : i \in 1 .. Len(t) \/ i = Len(s)
  BY <1>1
<1>3. \A i \in 1 .. Len(t) : i \in 1 .. Len(s) /\ t[i] = s[i]
  BY <1>1
<1> QED BY <1>1, <1>2, <1>3 DEF ScopesSame

LEMMA ScopesTop ==
  ASSUME NEW s \in Seq(Frame), s # << >>, Last(s).kind # "scope", NEW t, NEW g, TopBecomes(s, t, g),
         g.kind # "scope"
  PROVE  ScopesSame(s, t)
<1>1. Len(s) \in Nat \ {0} /\ Last(s) = s[Len(s)]
  BY LastFront, Zenon
<1>2. \A i \in 1 .. Len(s) : i \in 1 .. Len(s) - 1 \/ i = Len(s)
  BY <1>1
<1> QED BY <1>1, <1>2 DEF TopBecomes, ScopesSame

LEMMA ScopesJoined ==
  ASSUME NEW s, NEW t, NEW u, ScopesSame(s, t), ScopesSame(t, u)
  PROVE  ScopesSame(s, u)
BY DEF ScopesSame

LEMMA WhatScopesDo ==
  ASSUME StepInv, Next
  PROVE  \/ ScopesSame(stack, stack')
         \/ SetGloballyVisibleDecls
         \/ stack # << >> /\ Top.kind = "scope" /\ (AskForNext \/ PushIntoScope \/ PopPendingName)
<1>1. stack \in Seq(Frame) /\ StackOK(stack, loaded)
  BY DEF StepInv, TypeOK, StackInv
<1>2. stack # << >> =>
        /\ Below \in Seq(Frame) /\ PlaceOK(stack, Len(stack)) /\ Top = Last(stack) /\ Below = Front(stack)
        /\ Len(stack) \in Nat \ {0} /\ Top = stack[Len(stack)] /\ Len(Below) = Len(stack) - 1
        /\ \A i \in 1 .. Len(stack) - 1 : Below[i] = stack[i]
  BY TopType DEF StepInv, Top, Below
<1>3. CASE stack # << >> /\ Top.kind = "scope"
  BY <1>3 DEF Next, ClientStep, ReadStep, FinishStep, ConsumerStep, Is, At, Idle,
       AskForDecl, LookUp, AskForBody, InitializeSema, StartProgram, ImportFile,
       ReadFirst, LinkToFirst, ReadDeclName, ReadDeclType, UpdateIdentifier, Merge, ReadRest,
       RecordRead, ReadMacroToken, ReadInBody, BodyIsRead,
       FinishNested, FinishPendingActions, GuardEnds, SetGloballyVisibleDecls, NamesAreDone,
       LoadPendingDeclChain, AddToChain, HookUpChain, ChainsAreDone, LoadPendingMacro,
       MacroIsRead, MacrosAreDone, SetLazyBody, FinishedDeserializing,
       PassInterestingDecl, AllPassed, ConsumerGetsBody, ConsumerReturns, StartNextDefinition,
       DefinitionsStarted
<1>4. CASE stack = << >> \/ Top.kind # "scope"
  <2>1. stack = << >> \/ Last(stack).kind # "scope"
    BY <1>2, <1>4
  <2>2. CASE TurnedStep
    BY <1>1, <2>1, <2>2, ScopesTurned DEF TurnedStep
  <2>3. ASSUME NEW t \in Seq(Frame), Turn(stack, t, loaded'), NEW g \in Frame, g.kind # "scope",
               stack' = Append(t, g)
        PROVE  ScopesSame(stack, stack')
    <3>1. ScopesSame(stack, t)
      BY <1>1, <2>1, <2>3, ScopesTurned
    <3>2. ScopesSame(t, stack')
      BY <2>3, ScopesPushed
    <3> QED BY <3>1, <3>2, ScopesJoined
  <2>4. ASSUME NEW t, NEW d, RecordStep(t, d) PROVE ScopesSame(stack, stack')
    <3>1. program \in Program /\ cursor \in [Files -> Decls \cup {NoDecl}]
      BY ProgramType DEF StepInv, TypeOK
    <3>2. program.file[d] \in Files /\ d \in Decls
      BY <2>4, <3>1 DEF RecordStep, Parsed, Program
    <3>3. PICK p \in Decls \cup {NoDecl} : p = cursor[program.file[d]]
      BY <3>1, <3>2
    <3>4. PICK g : g = [NewFrame("record", d) EXCEPT !.stage = "first", !.place = p]
      OBVIOUS
    <3>5. g \in Frame
      BY <3>2, <3>3, <3>4 DEF NewFrame, Frame
    <3>6. g.kind = "record"
      BY <3>4 DEF NewFrame
    <3> QED BY <2>3, <2>4, <3>3, <3>4, <3>5, <3>6 DEF RecordStep
  <2>5. ASSUME NEW t, IdentifierStep(t) PROVE ScopesSame(stack, stack')
    <3>1. PICK g : g = NewFrame("identifier", NoDecl)
      OBVIOUS
    <3>2. g \in Frame /\ g.kind = "identifier"
      BY <3>1 DEF NewFrame, Frame
    <3> QED BY <2>3, <2>5, <3>1, <3>2 DEF IdentifierStep
  <2>6. ASSUME NEW t, NEW g, CallStep(t, g) PROVE ScopesSame(stack, stack') \/ SetGloballyVisibleDecls
    BY <2>3, <2>6 DEF CallStep
  <2>7. CASE ReturnStep
    <3>1. stack # << >> /\ Turn(Below, stack', loaded') /\ Top.kind \in {"chain", "macro", "handle", "body"}
      BY <1>4, <2>7 DEF ReturnStep
    <3>2. Below = << >> \/ Last(Below).kind # "scope"
      <4> SUFFICES ASSUME Below # << >> PROVE Last(Below).kind # "scope"
        OBVIOUS
      <4>1. Last(Below) = Below[Len(Below)]
        BY <1>2, <3>1, LastFront, Zenon
      <4>2. PICK n \in Nat \ {0} : n = Len(stack) /\ Len(Below) = n - 1 /\ n # 1
        <5>1. Len(Below) # 0
          BY <1>2, <3>1
        <5> QED BY <1>2, <3>1, <5>1
      <4>3. Last(Below) = stack[n - 1]
        <5>1. n - 1 \in 1 .. n - 1
          BY <4>2
        <5> QED BY <1>2, <3>1, <4>1, <4>2, <5>1
      <4>4. stack[n - 1].kind \in {"finish", "pass", "handle"}
        BY <1>2, <3>1, <4>2 DEF PlaceOK
      <4> QED BY <4>3, <4>4
    <3>3. ScopesSame(stack, Below)
      BY <1>1, <1>2, <2>1, <3>1, ScopesPopped
    <3>4. ScopesSame(Below, stack')
      BY <1>2, <3>1, <3>2, ScopesTurned
    <3> QED BY <3>3, <3>4, ScopesJoined
  <2>8. CASE Special
    <3>1. ASSUME stack # << >>, stack' = Below PROVE ScopesSame(stack, stack')
      BY <1>1, <1>2, <2>1, <3>1, ScopesPopped
    <3>2. ASSUME NEW g, stack # << >>, TopBecomes(stack, stack', g), g.kind # "scope"
          PROVE  ScopesSame(stack, stack')
      BY <1>1, <2>1, <3>2, ScopesTop
    <3>3. ASSUME NEW g, Grown(stack, stack', g), stack' = Append(stack, g), g.kind # "scope"
          PROVE  ScopesSame(stack, stack')
      <4>1. stack'[Len(stack) + 1] = g /\ Len(stack) + 1 \in 1 .. Len(stack') /\ stack' \in Seq(Frame)
        BY <1>1, <3>3 DEF Grown
      <4>2. g \in Frame
        BY <4>1
      <4> QED BY <1>1, <3>3, <4>2, ScopesPushed
    <3>4. FinishNested \/ AllPassed \/ (FinishedDeserializing /\ ~MayPass(count - 1)) => stack' = Below
      BY DEF FinishNested, AllPassed, FinishedDeserializing
    <3>5. \A g : Grown(stack, stack', g) => stack'[Len(stack) + 1] = g
      BY DEF Grown
    <3>6. ASSUME NEW x, x.kind # "scope", stack' = Append(stack, x), \E g : Grown(stack, stack', g)
          PROVE  ScopesSame(stack, stack')
      <4>1. PICK g : Grown(stack, stack', g)
        BY <3>6
      <4>2. stack'[Len(stack) + 1] = x
        BY <1>1, <3>6
      <4> QED BY <3>3, <3>5, <3>6, <4>1, <4>2
    <3>7. \A d, e : NewFrame("handle", d).kind = "handle" /\ [NewFrame("body", d) EXCEPT !.todo = e].kind = "body"
                    /\ [NewFrame("start", d) EXCEPT !.todo = e].kind = "start"
      BY DEF NewFrame
    <3>8. CASE PassInterestingDecl /\ \E g : Grown(stack, stack', g)
      BY <3>6, <3>7, <3>8 DEF PassInterestingDecl
    <3>9. CASE \E d : GetBody(d, stack) /\ \E g : Grown(stack, stack', g)
      BY <3>6, <3>7, <3>9 DEF GetBody
    <3>10. CASE StartProgram /\ stack = << >> /\ \E g : Grown(stack, stack', g) /\ g.kind = "start"
      <4>1. PICK g : Grown(stack, stack', g) /\ g.kind = "start"
        BY <3>10
      <4>2. \A i \in 1 .. Len(stack') : stack'[i].kind # "scope"
        <5>1. Len(stack) = 0
          BY <3>10
        <5> QED BY <4>1, <5>1 DEF Grown
      <4>3. Len(stack) = 0
        BY <3>10
      <4> QED BY <4>2, <4>3 DEF ScopesSame
    <3> QED BY <2>8, <3>1, <3>2, <3>4, <3>8, <3>9, <3>10, SpecialShape DEF PassFrame
  <2> QED BY <2>2, <2>4, <2>5, <2>6, <2>7, <2>8, StepForms DEF Plain
<1> QED BY <1>3, <1>4

LEMMA AwaitedSame ==
  ASSUME NEW s, NEW t, ScopesSame(s, t), NEW q, NEW d, Awaited(s, q, d)
  PROVE  Awaited(t, q, d)
<1>1. CASE \E i \in 1 .. Len(s) : s[i].kind = "scope" /\ d \in s[i].todo \cup {s[i].current}
  BY <1>1 DEF ScopesSame, Awaited
<1>2. CASE \E k \in 1 .. Len(q) :
             /\ d \in q[k].decls
             /\ k = 1 => \A i \in 1 .. Len(s) : s[i].kind # "scope"
  <2>1. (\A i \in 1 .. Len(s) : s[i].kind # "scope") => (\A i \in 1 .. Len(t) : t[i].kind # "scope")
    BY DEF ScopesSame
  <2> QED BY <1>2, <2>1 DEF Awaited
<1> QED BY <1>1, <1>2 DEF Awaited

LEMMA NamesKept ==
  ASSUME NamesInv, UNCHANGED <<namesRead, outOfDate, files, program>>,
         \A d \in Decls : Findable(d) => Findable(d)',
         \A d \in Decls : Awaited(stack, pendingNames, d) =>
                            Awaited(stack', pendingNames', d) \/ Findable(d)'
  PROVE  NamesInv'
<1>1. \A n : Listed(n)' = Listed(n)
  BY DEF Listed, InFiles
<1>2. \A n : Listed(n) \subseteq Decls
  BY DEF Listed, InFiles
<1> QED BY <1>1, <1>2 DEF NamesInv

LEMMA FindableGrows ==
  ASSUME sema' = sema, resolver \subseteq resolver', preloaded \subseteq preloaded'
  PROVE  \A d : Findable(d) => Findable(d)'
BY DEF Findable

LEMMA NamesNext ==
  ASSUME StepInv, NamesInv, Next
  PROVE  NamesInv'
<1>1. /\ stack \in Seq(Frame) /\ Len(stack) \in Nat /\ StackOK(stack, loaded) /\ sema \in BOOLEAN
      /\ program' = program
  <2>1. stack \in Seq(Frame) /\ StackOK(stack, loaded) /\ sema \in BOOLEAN
    BY DEF StepInv, TypeOK, StackInv
  <2> QED BY <2>1, WhatChangesFiles
<1>2. PICK E : E = [name : Names, decls : SUBSET Decls]
  OBVIOUS
<1>3. pendingNames \in Seq(E) /\ Len(pendingNames) \in Nat
  <2>1. pendingNames \in Seq(E)
    BY <1>2 DEF StepInv, TypeOK
  <2> QED BY <2>1
<1>4. stack # << >> =>
        /\ Top \in Frame /\ Below \in Seq(Frame) /\ Below = Front(stack)
        /\ Len(stack) \in Nat \ {0} /\ Top = stack[Len(stack)] /\ Len(Below) = Len(stack) - 1
        /\ \A i \in 1 .. Len(stack) - 1 : Below[i] = stack[i]
  BY TopType DEF StepInv, Below
<1>5. ASSUME stack # << >>, Top.kind = "scope", NEW i \in 1 .. Len(stack), stack[i].kind = "scope"
      PROVE  i = Len(stack)
  <2>1. Len(stack) \in 1 .. Len(stack)
    BY <1>4, <1>5
  <2> QED BY <1>1, <1>4, <1>5, <2>1, OneScope
<1>6. NoDecl \notin Decls
  BY DeserializationAssumption
<1>7. CASE SetGloballyVisibleDecls
  <2>1. PICK g : g = [NewFrame("scope", NoDecl) EXCEPT !.todo = Head(pendingNames).decls]
    OBVIOUS
  <2>2. stack' = Append(stack, g) /\ g.kind = "scope" /\ g.todo = Head(pendingNames).decls /\ pendingNames # << >>
    BY <1>7, <2>1 DEF SetGloballyVisibleDecls, NewFrame
  <2>3. Head(pendingNames) = pendingNames[1]
    BY <1>3, <2>2
  <2>4. Len(stack') = Len(stack) + 1 /\ stack'[Len(stack) + 1] = g
        /\ \A i \in 1 .. Len(stack) : stack'[i] = stack[i]
    BY <1>1, <2>2
  <2>5. Len(stack) + 1 \in 1 .. Len(stack') /\ \A i \in 1 .. Len(stack) : i \in 1 .. Len(stack')
    BY <1>1, <2>4
  <2>6. /\ UNCHANGED <<namesRead, outOfDate, files, program, pendingNames>>
        /\ UNCHANGED <<sema, resolver, preloaded>>
    BY <1>7 DEF SetGloballyVisibleDecls, readVars, idVars, scopeVars
  <2>7. ASSUME NEW d \in Decls, Awaited(stack, pendingNames, d) PROVE Awaited(stack', pendingNames', d)
    <3>1. CASE \E i \in 1 .. Len(stack) : stack[i].kind = "scope" /\ d \in stack[i].todo \cup {stack[i].current}
      BY <2>4, <2>5, <3>1 DEF Awaited
    <3>2. CASE \E k \in 1 .. Len(pendingNames) : d \in pendingNames[k].decls /\ k # 1
      BY <2>6, <3>2 DEF Awaited
    <3>3. CASE d \in pendingNames[1].decls
      BY <2>2, <2>3, <2>4, <2>5, <3>3 DEF Awaited
    <3> QED BY <2>7, <3>1, <3>2, <3>3 DEF Awaited
  <2>8. \A d \in Decls : Findable(d) => Findable(d)'
    BY <2>6, FindableGrows
  <2> QED BY <2>6, <2>7, <2>8, NamesKept
<1>8. ASSUME stack # << >>, Top.kind = "scope", NEW d \in Decls, Awaited(stack, pendingNames, d)
      PROVE  \/ d \in Top.todo \cup {Top.current}
             \/ \E k \in 1 .. Len(pendingNames) : d \in pendingNames[k].decls /\ k # 1
  <2>1. \E i \in 1 .. Len(stack) : stack[i].kind = "scope"
    <3>1. Len(stack) \in 1 .. Len(stack)
      BY <1>4, <1>8
    <3> QED BY <1>4, <1>8, <3>1
  <2>2. CASE \E i \in 1 .. Len(stack) : stack[i].kind = "scope" /\ d \in stack[i].todo \cup {stack[i].current}
    BY <1>4, <1>5, <1>8, <2>2
  <2>3. CASE \E k \in 1 .. Len(pendingNames) : d \in pendingNames[k].decls /\ k # 1
    BY <2>3
  <2> QED BY <1>8, <2>1, <2>2, <2>3 DEF Awaited
<1>9. ASSUME stack # << >>, NEW g \in Frame, g.kind = "scope", stack' = WithTop(g), NEW d \in g.todo \cup {g.current}
      PROVE  Awaited(stack', pendingNames', d)
  <2>1. TopBecomes(stack, stack', g)
    BY <1>1, <1>9, TopReplaced DEF WithTop, Below
  <2>2. Len(stack) \in 1 .. Len(stack') /\ stack'[Len(stack)] = g
    BY <1>4, <1>9, <2>1 DEF TopBecomes
  <2> QED BY <1>9, <2>2 DEF Awaited
<1>10. ASSUME NEW d, NEW k \in 1 .. Len(pendingNames), k # 1, d \in pendingNames[k].decls, pendingNames' = pendingNames
       PROVE  Awaited(stack', pendingNames', d)
  BY <1>10 DEF Awaited
<1>11. CASE stack # << >> /\ Top.kind = "scope" /\ AskForNext
  <2>1. PICK e \in Top.todo :
          /\ Top.current = NoDecl
          /\ GetDecl(e, WithTop([Top EXCEPT !.current = e, !.todo = @ \ {e}]))
    BY <1>11 DEF AskForNext
  <2>2. PICK g : g = [Top EXCEPT !.current = e, !.todo = @ \ {e}]
    OBVIOUS
  <2>3. e \in Decls
    <3>1. CallOK(Top, loaded)
      BY <1>11, TopType DEF StepInv
    <3> QED BY <1>11, <3>1 DEF CallOK
  <2>4. g \in Frame /\ g.kind = "scope" /\ g.current = e /\ g.todo = Top.todo \ {e}
    <3>1. Top \in Frame
      BY <1>4, <1>11
    <3>2. g \in Frame
      BY <2>2, <2>3, <3>1 DEF Frame
    <3> QED BY <1>11, <2>2, <3>1, <3>2 DEF Frame
  <2>5. /\ UNCHANGED <<namesRead, outOfDate, files, program, pendingNames>>
        /\ UNCHANGED <<sema, resolver, preloaded>>
    BY <1>11 DEF AskForNext, readVars, idVars, scopeVars
  <2>6. PICK s : s = WithTop(g) /\ s \in Seq(Frame)
    <3>1. Below \in Seq(Frame)
      BY <1>4, <1>11
    <3>2. Append(Below, g) \in Seq(Frame)
      BY <2>4, <3>1
    <3> QED BY <3>2 DEF WithTop
  <2>7. TopBecomes(stack, s, g)
    BY <1>1, <1>11, <2>4, <2>6, TopReplaced DEF WithTop, Below
  <2>8. /\ Len(stack) \in 1 .. Len(stack') /\ stack'[Len(stack)] = g
    <3>1. Len(stack) \in 1 .. Len(s) /\ s[Len(stack)] = g
      BY <1>4, <1>11, <2>7 DEF TopBecomes
    <3>2. stack' = s \/ \E h : stack' = Append(s, h)
      BY <2>1, <2>2, <2>6 DEF GetDecl
    <3> QED BY <2>6, <3>1, <3>2
  <2>9. ASSUME NEW d \in Decls, Awaited(stack, pendingNames, d) PROVE Awaited(stack', pendingNames', d)
    <3>1. CASE d \in Top.todo \cup {Top.current}
      <4>1. d \in g.todo \cup {g.current}
        BY <1>6, <2>1, <2>4, <2>9, <3>1
      <4> QED BY <2>4, <2>8, <4>1 DEF Awaited
    <3>2. CASE \E k \in 1 .. Len(pendingNames) : d \in pendingNames[k].decls /\ k # 1
      BY <1>10, <2>5, <3>2
    <3> QED BY <1>8, <1>11, <2>9, <3>1, <3>2
  <2>10. \A d \in Decls : Findable(d) => Findable(d)'
    BY <2>5, FindableGrows
  <2> QED BY <2>5, <2>9, <2>10, NamesKept
<1>12. CASE stack # << >> /\ Top.kind = "scope" /\ PushIntoScope
  <2>1. PICK g : g = [Top EXCEPT !.current = NoDecl]
    OBVIOUS
  <2>2. g \in Frame /\ g.kind = "scope" /\ g.todo = Top.todo
    <3>1. Top \in Frame
      BY <1>4, <1>12
    <3>2. g \in Frame
      BY <2>1, <3>1 DEF Frame
    <3> QED BY <1>12, <2>1, <3>1, <3>2 DEF Frame
  <2>3. /\ stack' = WithTop(g) /\ UNCHANGED <<namesRead, outOfDate, files, program, pendingNames, sema>>
        /\ resolver' = IF sema THEN resolver \cup {Top.current} ELSE resolver
        /\ preloaded' = IF sema THEN preloaded ELSE preloaded \cup {Top.current}
    BY <1>12, <2>1 DEF PushIntoScope, readVars, idVars
  <2>4. \A d \in Decls : Findable(d) => Findable(d)'
    BY <1>1, <2>3, FindableGrows
  <2>5. ASSUME NEW d \in Decls, Awaited(stack, pendingNames, d)
        PROVE  Awaited(stack', pendingNames', d) \/ Findable(d)'
    <3>1. CASE d \in Top.todo
      BY <1>9, <1>12, <2>2, <2>3, <3>1
    <3>2. CASE d = Top.current
      BY <2>3, <3>2 DEF Findable
    <3>3. CASE \E k \in 1 .. Len(pendingNames) : d \in pendingNames[k].decls /\ k # 1
      BY <1>10, <2>3, <3>3
    <3> QED BY <1>8, <1>12, <2>5, <3>1, <3>2, <3>3
  <2> QED BY <2>3, <2>4, <2>5, NamesKept
<1>13. CASE stack # << >> /\ Top.kind = "scope" /\ PopPendingName
  <2>1. /\ stack' = Below /\ pendingNames' = Tail(pendingNames) /\ Top.current = NoDecl /\ Top.todo = {}
        /\ UNCHANGED <<namesRead, outOfDate, files, program, sema, resolver, preloaded>>
    BY <1>13 DEF PopPendingName, NamesAfter, readVars, scopeVars
  <2>2. \A i \in 1 .. Len(stack') : stack'[i].kind # "scope"
    <3> SUFFICES ASSUME NEW i \in 1 .. Len(stack'), stack'[i].kind = "scope" PROVE FALSE
      OBVIOUS
    <3>1. i \in 1 .. Len(stack) - 1 /\ i \in 1 .. Len(stack) /\ i # Len(stack)
      BY <1>4, <1>13, <2>1
    <3>2. stack[i].kind = "scope"
      BY <1>4, <1>13, <2>1, <3>1
    <3> QED BY <1>5, <1>13, <3>1, <3>2
  <2>3. ASSUME NEW d \in Decls, Awaited(stack, pendingNames, d) PROVE Awaited(stack', pendingNames', d)
    <3>1. PICK k \in 1 .. Len(pendingNames) : d \in pendingNames[k].decls /\ k # 1
      BY <1>6, <1>8, <1>13, <2>1, <2>3
    <3>2. pendingNames # << >>
      BY <1>3, <3>1
    <3>3. /\ Len(pendingNames') = Len(pendingNames) - 1
          /\ \A i \in 1 .. Len(pendingNames) - 1 : pendingNames'[i] = pendingNames[i + 1]
      BY <1>3, <2>1, <3>2, TailFacts
    <3>4. k - 1 \in 1 .. Len(pendingNames) - 1 /\ (k - 1) + 1 = k
      BY <1>3, <3>1
    <3>5. k - 1 \in 1 .. Len(pendingNames') /\ d \in pendingNames'[k - 1].decls
      BY <3>1, <3>3, <3>4
    <3> QED BY <2>2, <3>5 DEF Awaited
  <2>4. \A d \in Decls : Findable(d) => Findable(d)'
    BY <2>1, FindableGrows
  <2> QED BY <2>1, <2>3, <2>4, NamesKept
<1>14. CASE ScopesSame(stack, stack')
  <2>1. \A d \in Decls : Awaited(stack, pendingNames, d) => Awaited(stack', pendingNames, d)
    BY <1>14, AwaitedSame
  <2>2. CASE ImportFile
    <3>1. namesRead' \ outOfDate' = {}
      BY <2>2 DEF ImportFile
    <3> QED BY <3>1 DEF NamesInv
  <2>3. CASE \E n \in Names : IdentifierRead(n)
    <3>1. PICK n \in Names : IdentifierRead(n)
      BY <2>3
    <3>2. /\ namesRead' = namesRead \cup {n} /\ outOfDate' = outOfDate \ {n}
          /\ pendingNames' = Append(pendingNames, [name |-> n, decls |-> Listed(n)])
          /\ UNCHANGED <<files, program, sema, resolver, preloaded>>
      BY <3>1 DEF IdentifierRead, readVars, scopeVars, Listed
    <3>3. PICK e \in E : e = [name |-> n, decls |-> Listed(n)] /\ e.decls = Listed(n)
      <4>1. PICK S \in SUBSET Decls : S = Listed(n)
        BY DEF Listed, InFiles
      <4>2. [name |-> n, decls |-> S] \in E /\ [name |-> n, decls |-> S].decls = S
        BY <1>2
      <4> QED BY <4>1, <4>2
    <3>4. /\ Len(pendingNames') = Len(pendingNames) + 1 /\ pendingNames'[Len(pendingNames) + 1] = e
          /\ \A k \in 1 .. Len(pendingNames) : pendingNames'[k] = pendingNames[k]
      BY <1>3, <3>2, <3>3
    <3>5. /\ Len(pendingNames) + 1 \in 1 .. Len(pendingNames')
          /\ \A k \in 1 .. Len(pendingNames) : k \in 1 .. Len(pendingNames')
      BY <1>3, <3>4
    <3>6. \A m : Listed(m)' = Listed(m)
      BY <3>2 DEF Listed, InFiles
    <3>7. \A m : Listed(m) \subseteq Decls
      BY DEF Listed, InFiles
    <3>8. \A d : Findable(d) => Findable(d)'
      BY <3>2, FindableGrows
    <3>9. ASSUME NEW d \in Listed(n) PROVE Awaited(stack', pendingNames', d)
      <4>1. Len(pendingNames) + 1 = 1 => \A i \in 1 .. Len(stack') : stack'[i].kind # "scope"
        <5> SUFFICES ASSUME Len(pendingNames) = 0, NEW i \in 1 .. Len(stack'), stack'[i].kind = "scope" PROVE FALSE
          BY <1>3
        <5>1. pendingNames = << >>
          BY <1>3
        <5>2. i \in 1 .. Len(stack) /\ stack[i].kind = "scope"
          BY <1>14 DEF ScopesSame
        <5> QED BY <5>1, <5>2 DEF StepInv, ScopeInv
      <4>2. d \in pendingNames'[Len(pendingNames) + 1].decls
        BY <3>3, <3>4
      <4> QED BY <3>5, <4>1, <4>2 DEF Awaited
    <3>10. ASSUME NEW d \in Decls, Awaited(stack, pendingNames, d) PROVE Awaited(stack', pendingNames', d)
      <4>1. Awaited(stack', pendingNames, d)
        BY <2>1, <3>10
      <4> QED BY <3>4, <3>5, <4>1 DEF Awaited
    <3> QED BY <3>2, <3>6, <3>7, <3>8, <3>9, <3>10 DEF NamesInv
  <2>4. CASE /\ UNCHANGED <<namesRead, outOfDate, pendingNames, files>>
             /\ \A d \in Decls : Findable(d) => Findable(d)'
    BY <1>1, <2>1, <2>4, NamesKept
  <2>5. CASE InitializeSema
    <3>1. \A d \in Decls : Findable(d) => Findable(d)'
      BY <2>5 DEF InitializeSema, Findable
    <3> QED BY <2>4, <2>5, <3>1 DEF InitializeSema, idVars
  <2>6. CASE Merge
    <3>1. resolver \subseteq resolver' /\ preloaded' = preloaded /\ sema' = sema
      BY <2>6 DEF Merge, MergeWith, readVars
    <3>2. \A d \in Decls : Findable(d) => Findable(d)'
      BY <3>1, FindableGrows
    <3> QED BY <2>4, <2>6, <3>2 DEF Merge, idVars, readVars
  <2>7. CASE PushIntoScope
    <3>1. \A d \in Decls : Findable(d) => Findable(d)'
      BY <1>1, <2>7 DEF PushIntoScope, readVars, Findable
    <3> QED BY <2>4, <2>7, <3>1 DEF PushIntoScope, idVars, readVars
  <2>8. CASE UNCHANGED scopeVars /\ ~ImportFile /\ ~InitializeSema /\ ~\E n \in Names : IdentifierRead(n)
    <3>1. sema' = sema /\ files' = files
      BY <2>8, WhatChangesFiles DEF readVars, StartProgram, DefinitionsStarted
    <3>2. \A d \in Decls : Findable(d) => Findable(d)'
      BY <2>8, <3>1, FindableGrows DEF scopeVars
    <3>3. CASE PopPendingName
      <4>1. stack # << >> /\ Top.kind = "scope"
        BY <3>3 DEF PopPendingName, Is
      <4> QED BY <1>13, <3>3, <4>1
    <3>4. UNCHANGED idVars \/ MacrosAreDone \/ PopPendingName
      BY <2>8, WhatChangesNames
    <3>5. MacrosAreDone => UNCHANGED <<namesRead, outOfDate, pendingNames>>
      BY DEF MacrosAreDone
    <3> QED BY <2>4, <3>1, <3>2, <3>3, <3>4, <3>5 DEF idVars
  <2> QED BY <2>2, <2>3, <2>5, <2>6, <2>7, <2>8, WhatChangesScopes
<1> QED BY <1>7, <1>11, <1>12, <1>13, <1>14, WhatScopesDo

LEMMA NamesInvariant ==
  Spec => []NamesInv
<1>1. Init => NamesInv
  BY DEF Init, NamesInv
<1>2. NamesInv /\ UNCHANGED vars => NamesInv'
  BY DEF vars, readVars, idVars, chainVars, bodyVars, passVars, scopeVars, loadVars,
         NamesInv, Listed, InFiles, Findable, Awaited
<1> QED BY <1>1, <1>2, StepInvInvariant, NamesNext, PTL DEF Spec

(* When nothing is being loaded, lookup finds the declarations of each      *)
(* identifier that has been read and is up to date: an identifier that was  *)
(* read in the middle of something else, or while others were being made    *)
(* visible, is not forgotten in the queue.                                  *)
THEOREM LookupFindsNames ==
  Spec => []NamesBringDecls
<1>1. StepInv /\ QueuesInv /\ NamesInv => NamesBringDecls
  <2> SUFFICES ASSUME StepInv, QueuesInv, NamesInv, stack = << >>,
                      NEW n \in namesRead \ outOfDate, NEW d \in Listed(n)
               PROVE  d \in (IF sema THEN resolver ELSE preloaded)
    BY DEF NamesBringDecls, Idle, Listed
  <2>1. Len(stack) = 0
    OBVIOUS
  <2>2. count = 0
    <3>1. Counted(stack) = {}
      BY <2>1 DEF Counted
    <3> QED BY <3>1, FS_EmptySet DEF StepInv, StackInv
  <2>3. pendingNames = << >> /\ Len(<< >>) = 0
    BY <2>2 DEF QueuesInv
  <2>4. ~Awaited(stack, pendingNames, d)
    BY <2>1, <2>3 DEF Awaited
  <2> QED BY <2>4 DEF NamesInv, Findable
<1> QED BY <1>1, StepInvInvariant, QueuesInvariant, NamesInvariant, PTL

-----------------------------------------------------------------------------
(* Redeclaration chains without modules                                     *)

InChain(s, d) == \E i \in 1 .. Len(s) : s[i].kind = "chain" /\ d \in s[i].todo \cup {s[i].current}

Hooking(s, d) == \E i \in 1 .. Len(s) : s[i].kind = "chain" /\ d \in s[i].chain

(* The loop over the pending chains has not come to the entry k.            *)
IsLoop(f) == f.kind = "finish" /\ f.stage = "chains"

Untaken(s, k) ==
  \A i \in 1 .. Len(s) : IsLoop(s[i]) =>
    k >= s[i].index /\ (k = s[i].index => \A j \in 1 .. Len(s) : s[j].kind # "chain")

PendingFor(s, q, f) == \E k \in 1 .. Len(q) : q[k] = f /\ Untaken(s, k)

IsFirst(d) == program.first[d] = d

IsDug(D, d) == <<program.file[d], program.first[d]>> \in D

(* How far the reading of a record is.                                      *)
RecordOK(f, L, R) ==
  f.kind = "record" =>
    /\ f.owning
    /\ f.stage # "first" => program.first[f.decl] \in L
    /\ f.stage \notin {"first", "link", "done"} => f.decl \in R

AllRecords(s, L, R) == \A i \in 1 .. Len(s) : RecordOK(s[i], L, R)

RecordsInv == AllRecords(stack, loaded, redecls)

(* The loop over the pending chains.                                        *)
LoopInv ==
  /\ \A k \in 1 .. Len(pendingChains) : pendingChains[k] \in Decls \ Parsed /\ IsFirst(pendingChains[k])
  /\ \A i \in 1 .. Len(stack) : IsLoop(stack[i]) =>
       /\ stack[i].index <= Len(pendingChains) + 1
       /\ (\E j \in 1 .. Len(stack) : stack[j].kind = "chain") => stack[i].index <= Len(pendingChains)
  /\ \A f \in known : \/ PendingFor(stack, pendingChains, f)
                      \/ \E i \in 1 .. Len(stack) : stack[i].kind = "chain" /\ stack[i].decl = f

Settled(d) == d \in loaded /\ ~Reading(stack, d) /\ d \notin redecls

(* A chain that has been dug out is in the list of a call, or linked.       *)
DugInv ==
  /\ \A d \in Decls \ Parsed : ~IsFirst(d) /\ IsDug(dug, d) => InChain(stack, d) \/ Settled(d)
  /\ \A i \in 1 .. Len(stack) : stack[i].kind = "chain" =>
       /\ stack[i].decl \in Decls \ Parsed /\ IsFirst(stack[i].decl)
       /\ \A d \in (stack[i].todo \cup {stack[i].current}) \cap Decls : program.first[d] = stack[i].decl
       /\ \A d \in Decls \ Parsed : program.first[d] = stack[i].decl =>
            IF IsFirst(d) THEN InChain(stack, d) \/ Settled(d) ELSE IsDug(dug, d)

(* What has been deserialized is linked or will be.                         *)
LinkInv ==
  /\ redecls \cap Parsed = {}
  /\ \A d \in redecls : \/ Reading(stack, d) \/ InChain(stack, d)
                        \/ PendingFor(stack, pendingChains, program.first[d]) /\ (IsFirst(d) \/ ~IsDug(dug, d))
  /\ \A d \in loaded : d \in wired \cup redecls \/ Reading(stack, d) \/ Hooking(stack, d)
  /\ \A d \in loaded \ Parsed : Reading(stack, d) \/ program.first[d] \in loaded
  /\ \A d \in loaded \ Parsed : \/ Reading(stack, d) \/ d \in redecls
                                \/ \A e \in Decls \ Parsed :
                                     program.first[e] = program.first[d] /\ ~IsFirst(e) => IsDug(dug, e)

WithoutModules ==
  /\ files = program.initial
  /\ merged = [d \in Decls |-> << >>]
  /\ \A d \in Decls \ Parsed : IsFirst(d) => canonical[d] = d
  /\ \A d \in (loaded \ Parsed) \cap program.body : Reading(stack, d) \/ d \in pendingBodies \cup bodies

(* The same chains are being linked, by a loop that is where it was, if it  *)
(* is not over.                                                             *)
LoopsSame(s, t) ==
  /\ \A i \in 1 .. Len(s) : s[i].kind = "chain" =>
       /\ i \in 1 .. Len(t) /\ t[i].kind = "chain" /\ t[i].decl = s[i].decl
       /\ t[i].todo = s[i].todo /\ t[i].current = s[i].current /\ t[i].chain = s[i].chain
  /\ \A i \in 1 .. Len(t) : t[i].kind = "chain" => i \in 1 .. Len(s) /\ s[i].kind = "chain"
  /\ \A i \in 1 .. Len(t) : IsLoop(t[i]) =>
       i \in 1 .. Len(s) /\ IsLoop(s[i]) /\ t[i].index = s[i].index

LEMMA LoopsTurned ==
  ASSUME NEW s \in Seq(Frame), NEW S, NEW t, Turn(s, t, S),
         s = << >> \/ Last(s).kind \notin {"chain", "finish"}
  PROVE  LoopsSame(s, t)
<1>1. CASE t = s
  BY <1>1 DEF LoopsSame
<1>2. CASE t # s
  <2>1. PICK g \in Frame : s # << >> /\ SameCall(Last(s), g) /\ t = Append(Front(s), g)
    BY <1>2 DEF Turn
  <2>2. TopBecomes(s, t, g)
    BY <2>1, TopReplaced
  <2>3. Len(s) \in Nat \ {0} /\ Last(s) = s[Len(s)]
    BY <2>1, LastFront, Zenon
  <2>4. /\ Len(t) = Len(s) /\ t[Len(s)].kind \notin {"chain", "finish"}
        /\ s[Len(s)].kind \notin {"chain", "finish"}
    BY <2>1, <2>2, <2>3 DEF TopBecomes, SameCall
  <2>5. \A i \in 1 .. Len(s) : i \in 1 .. Len(s) - 1 \/ i = Len(s)
    BY <2>3
  <2> QED BY <2>2, <2>4, <2>5 DEF TopBecomes, LoopsSame, IsLoop
<1> QED BY <1>1, <1>2

LEMMA LoopsPushed ==
  ASSUME NEW s \in Seq(Frame), NEW g, g.kind \notin {"chain", "finish"}, NEW t, t = Append(s, g)
  PROVE  LoopsSame(s, t)
<1>1. Len(s) \in Nat /\ Len(t) = Len(s) + 1 /\ t[Len(s) + 1] = g /\ \A i \in 1 .. Len(s) : t[i] = s[i]
  OBVIOUS
<1>2. \A i \in 1 .. Len(t) : i \in 1 .. Len(s) \/ i = Len(s) + 1
  BY <1>1
<1>3. \A i \in 1 .. Len(s) : i \in 1 .. Len(t)
  BY <1>1
<1> QED BY <1>1, <1>2, <1>3 DEF LoopsSame, IsLoop

LEMMA LoopsPopped ==
  ASSUME NEW s \in Seq(Frame), s # << >>, Last(s).kind # "chain", NEW t, t = Front(s)
  PROVE  LoopsSame(s, t)
<1>1. Len(s) \in Nat \ {0} /\ Last(s) = s[Len(s)] /\ Len(t) = Len(s) - 1
      /\ \A i \in 1 .. Len(s) - 1 : t[i] = s[i]
  BY LastFront, Zenon
<1>2. \A i \in 1 .. Len(s) : i \in 1 .. Len(t) \/ i = Len(s)
  BY <1>1
<1>3. \A i \in 1 .. Len(t) : i \in 1 .. Len(s) /\ t[i] = s[i]
  BY <1>1
<1> QED BY <1>1, <1>2, <1>3 DEF LoopsSame

LEMMA LoopsTop ==
  ASSUME NEW s \in Seq(Frame), s # << >>, Last(s).kind # "chain", NEW t, NEW g, TopBecomes(s, t, g),
         g.kind # "chain", ~IsLoop(g)
  PROVE  LoopsSame(s, t)
<1>1. Len(s) \in Nat \ {0} /\ Last(s) = s[Len(s)]
  BY LastFront, Zenon
<1>2. \A i \in 1 .. Len(s) : i \in 1 .. Len(s) - 1 \/ i = Len(s)
  BY <1>1
<1> QED BY <1>1, <1>2 DEF TopBecomes, LoopsSame

LEMMA LoopsJoined ==
  ASSUME NEW s, NEW t, NEW u, LoopsSame(s, t), LoopsSame(t, u)
  PROVE  LoopsSame(s, u)
BY DEF LoopsSame

LEMMA LoopsAreSame ==
  ASSUME NEW s, NEW t, LoopsSame(s, t)
  PROVE  /\ \A d : InChain(s, d) <=> InChain(t, d)
         /\ \A d : Hooking(s, d) <=> Hooking(t, d)
         /\ \A k : Untaken(s, k) => Untaken(t, k)
         /\ \A f : (\E i \in 1 .. Len(s) : s[i].kind = "chain" /\ s[i].decl = f) =>
                     \E i \in 1 .. Len(t) : t[i].kind = "chain" /\ t[i].decl = f
<1>1. \A d : InChain(s, d) <=> InChain(t, d)
  BY DEF InChain, LoopsSame
<1>2. \A d : Hooking(s, d) <=> Hooking(t, d)
  BY DEF Hooking, LoopsSame
<1>3. ASSUME NEW k, Untaken(s, k) PROVE Untaken(t, k)
  <2> SUFFICES ASSUME NEW i \in 1 .. Len(t), IsLoop(t[i])
               PROVE  k >= t[i].index /\ (k = t[i].index => \A j \in 1 .. Len(t) : t[j].kind # "chain")
    BY DEF Untaken
  <2>1. i \in 1 .. Len(s) /\ IsLoop(s[i]) /\ t[i].index = s[i].index
    BY DEF LoopsSame
  <2>2. k >= s[i].index /\ (k = s[i].index => \A j \in 1 .. Len(s) : s[j].kind # "chain")
    BY <1>3, <2>1 DEF Untaken
  <2> QED BY <2>1, <2>2 DEF LoopsSame
<1>4. \A f : (\E i \in 1 .. Len(s) : s[i].kind = "chain" /\ s[i].decl = f) =>
                     \E i \in 1 .. Len(t) : t[i].kind = "chain" /\ t[i].decl = f
  BY DEF LoopsSame
<1> QED BY <1>1, <1>2, <1>3, <1>4

LEMMA WhatLoopsDo ==
  ASSUME StepInv, Next
  PROVE  \/ LoopsSame(stack, stack')
         \/ NamesAreDone \/ LoadPendingDeclChain
         \/ Is("chain") /\ (AskForNext \/ AddToChain \/ HookUpChain)
<1>1. stack \in Seq(Frame) /\ StackOK(stack, loaded)
  BY DEF StepInv, TypeOK, StackInv
<1>2. stack # << >> =>
        /\ Below \in Seq(Frame) /\ PlaceOK(stack, Len(stack)) /\ Top = Last(stack) /\ Below = Front(stack)
        /\ Top \in Frame
        /\ Len(stack) \in Nat \ {0} /\ Top = stack[Len(stack)] /\ Len(Below) = Len(stack) - 1
        /\ \A i \in 1 .. Len(stack) - 1 : Below[i] = stack[i]
  BY TopType DEF StepInv, Top, Below
<1>3. CASE stack # << >> /\ Top.kind = "chain"
  BY <1>3 DEF Next, ClientStep, ReadStep, FinishStep, ConsumerStep, Is, At, Idle,
       AskForDecl, LookUp, AskForBody, InitializeSema, StartProgram, ImportFile,
       ReadFirst, LinkToFirst, ReadDeclName, ReadDeclType, UpdateIdentifier, Merge, ReadRest,
       RecordRead, ReadMacroToken, ReadInBody, BodyIsRead,
       FinishNested, FinishPendingActions, GuardEnds, SetGloballyVisibleDecls, PushIntoScope,
       PopPendingName, NamesAreDone, LoadPendingDeclChain, ChainsAreDone, LoadPendingMacro,
       MacroIsRead, MacrosAreDone, SetLazyBody, FinishedDeserializing,
       PassInterestingDecl, AllPassed, ConsumerGetsBody, ConsumerReturns, StartNextDefinition,
       DefinitionsStarted
<1>4. ASSUME stack # << >>, Top.kind # "chain", NEW g \in Frame, g.kind # "chain", ~IsLoop(g)
      PROVE  LoopsSame(stack, WithTop(g)) /\ WithTop(g) \in Seq(Frame)
  <2>1. PICK t : t = Append(Front(stack), g)
    OBVIOUS
  <2>2. TopBecomes(stack, t, g)
    BY <1>1, <1>4, <2>1, TopReplaced
  <2>3. LoopsSame(stack, t) /\ t \in Seq(Frame)
    BY <1>1, <1>2, <1>4, <2>2, LoopsTop DEF TopBecomes
  <2> QED BY <2>1, <2>3 DEF WithTop, Below
<1>5. CASE stack # << >> /\ Top.kind = "finish"
  <2>1. \/ SetGloballyVisibleDecls \/ NamesAreDone \/ LoadPendingDeclChain \/ ChainsAreDone
        \/ LoadPendingMacro \/ MacrosAreDone \/ SetLazyBody \/ FinishedDeserializing
    BY <1>5 DEF Next, ClientStep, ReadStep, FinishStep, ConsumerStep, Is, At, Idle,
       AskForDecl, LookUp, AskForBody, InitializeSema, StartProgram, ImportFile,
       ReadFirst, LinkToFirst, ReadDeclName, ReadDeclType, UpdateIdentifier, Merge, ReadRest,
       RecordRead, AskForNext, ReadMacroToken, ReadInBody, BodyIsRead,
       FinishNested, FinishPendingActions, GuardEnds, PushIntoScope,
       PopPendingName, AddToChain, HookUpChain,
       MacroIsRead, PassInterestingDecl, AllPassed, ConsumerGetsBody, ConsumerReturns, StartNextDefinition,
       DefinitionsStarted
  <2>2. CASE SetGloballyVisibleDecls
    <3>1. PICK g : g = [NewFrame("scope", NoDecl) EXCEPT !.todo = Head(pendingNames).decls]
      OBVIOUS
    <3>2. g.kind = "scope" /\ stack' = Append(stack, g)
      BY <2>2, <3>1 DEF SetGloballyVisibleDecls, NewFrame
    <3> QED BY <1>1, <3>2, LoopsPushed
  <2>3. CASE ChainsAreDone
    <3>1. PICK g : g = [Top EXCEPT !.stage = "macros", !.index = 1]
      OBVIOUS
    <3>2. g \in Frame
      BY <1>2, <1>5, <3>1, TopWith
    <3>3. g.kind # "chain" /\ ~IsLoop(g)
      BY <1>2, <1>5, <3>1 DEF Frame, IsLoop
    <3>4. stack' = WithTop(g)
      BY <2>3, <3>1 DEF ChainsAreDone
    <3> QED BY <1>4, <1>5, <3>2, <3>3, <3>4
  <2>4. CASE MacrosAreDone
    <3>1. PICK x \in {"names", "bodies"} : stack' = WithTop([Top EXCEPT !.stage = x])
      BY <2>4 DEF MacrosAreDone
    <3>2. PICK g : g = [Top EXCEPT !.stage = x]
      OBVIOUS
    <3>3. x \in Stages
      BY DEF Stages
    <3>4. g \in Frame
      BY <1>2, <1>5, <3>2, <3>3, SetStage
    <3>5. g.kind # "chain" /\ ~IsLoop(g)
      BY <1>2, <1>5, <3>2 DEF Frame, IsLoop
    <3> QED BY <1>4, <1>5, <3>1, <3>2, <3>4, <3>5
  <2>5. CASE LoadPendingMacro
    <3>1. PICK g : g = [Top EXCEPT !.index = @ + 1]
      OBVIOUS
    <3>2. PICK h : h = [NewFrame("macro", NoDecl) EXCEPT
                        !.todo = UNION program.macros[pendingMacros[Top.index]]]
      OBVIOUS
    <3>3. At("finish", "macros") /\ stack' = Append(WithTop(g), h)
      BY <2>5, <3>1, <3>2 DEF LoadPendingMacro
    <3>4. g \in Frame
      BY <1>2, <1>5, <3>1, TopWith
    <3>5. g.kind # "chain" /\ ~IsLoop(g) /\ h.kind = "macro"
      BY <1>2, <1>5, <3>1, <3>2, <3>3 DEF Frame, IsLoop, At, NewFrame
    <3>6. LoopsSame(stack, WithTop(g)) /\ WithTop(g) \in Seq(Frame)
      BY <1>4, <1>5, <3>4, <3>5
    <3>7. LoopsSame(WithTop(g), stack')
      BY <3>3, <3>5, <3>6, LoopsPushed
    <3> QED BY <3>6, <3>7, LoopsJoined
  <2>6. CASE SetLazyBody
    BY <2>6 DEF SetLazyBody, loadVars, LoopsSame
  <2>7. CASE FinishedDeserializing
    <3>1. CASE stack' = Below
      BY <1>1, <1>2, <1>5, <3>1, LoopsPopped
    <3>2. CASE stack' = WithTop([Top EXCEPT !.kind = "pass", !.guarded = TRUE])
      <4>1. PICK g : g = [Top EXCEPT !.kind = "pass", !.guarded = TRUE]
        OBVIOUS
      <4>2. g \in Frame /\ g.kind = "pass"
        BY <1>2, <1>5, <4>1 DEF Frame
      <4>3. ~IsLoop(g)
        BY <4>2 DEF IsLoop
      <4> QED BY <1>4, <1>5, <3>2, <4>1, <4>2, <4>3
    <3> QED BY <2>7, <3>1, <3>2 DEF FinishedDeserializing
  <2> QED BY <2>1, <2>2, <2>3, <2>4, <2>5, <2>6, <2>7
<1>6. CASE stack # << >> /\ Top.kind \in {"scope", "macro"}
  <2>1. \/ PopPendingName \/ MacroIsRead \/ PushIntoScope \/ AskForNext \/ ReadMacroToken
    BY <1>6 DEF Next, ClientStep, ReadStep, FinishStep, ConsumerStep, Is, At, Idle,
       AskForDecl, LookUp, AskForBody, InitializeSema, StartProgram, ImportFile,
       ReadFirst, LinkToFirst, ReadDeclName, ReadDeclType, UpdateIdentifier, Merge, ReadRest,
       RecordRead, ReadInBody, BodyIsRead,
       FinishNested, FinishPendingActions, GuardEnds, SetGloballyVisibleDecls,
       NamesAreDone, LoadPendingDeclChain, AddToChain, HookUpChain, ChainsAreDone, LoadPendingMacro,
       MacrosAreDone, SetLazyBody, FinishedDeserializing,
       PassInterestingDecl, AllPassed, ConsumerGetsBody, ConsumerReturns, StartNextDefinition,
       DefinitionsStarted
  <2>2. CASE PopPendingName \/ MacroIsRead
    <3>1. stack' = Below
      BY <2>2 DEF PopPendingName, MacroIsRead
    <3> QED BY <1>1, <1>2, <1>6, <3>1, LoopsPopped
  <2>3. CASE PushIntoScope
    <3>1. PICK g : g = [Top EXCEPT !.current = NoDecl]
      OBVIOUS
    <3>2. g \in Frame
      BY <1>2, <1>6, <3>1, SetCurrent
    <3>3. g.kind # "chain" /\ ~IsLoop(g)
      BY <1>2, <1>6, <3>1 DEF Frame, IsLoop
    <3>4. stack' = WithTop(g)
      BY <2>3, <3>1 DEF PushIntoScope
    <3> QED BY <1>4, <1>6, <3>2, <3>3, <3>4
  <2>4. CASE AskForNext \/ ReadMacroToken
    <3>1. PICK x, y, t :
            /\ x \in Top.todo /\ y \in {Top.current, x}
            /\ t = WithTop([Top EXCEPT !.current = y, !.todo = @ \ {x}])
            /\ Top.kind = "macro" => y = Top.current
            /\ GetDecl(x, t) \/ DecodeIdentifier(x, t)
      <4>1. CASE AskForNext
        BY <1>6, <2>4, <4>1 DEF AskForNext, Is
      <4>2. CASE ReadMacroToken
        <5>1. \A x : [Top EXCEPT !.current = Top.current, !.todo = @ \ {x}] = [Top EXCEPT !.todo = @ \ {x}]
          BY <1>2, <1>6 DEF Frame
        <5>2. PICK x \in Top.todo : DecodeIdentifier(x, WithTop([Top EXCEPT !.todo = @ \ {x}]))
          BY <4>2 DEF ReadMacroToken
        <5>3. DecodeIdentifier(x, WithTop([Top EXCEPT !.current = Top.current, !.todo = @ \ {x}]))
          BY <5>1, <5>2
        <5> QED BY <5>3
      <4> QED BY <2>4, <4>1, <4>2
    <3>2. PICK S : loaded \subseteq S /\ x \in S
      <4>1. loaded \subseteq loaded \cup {x} /\ x \in loaded \cup {x}
        OBVIOUS
      <4> QED BY <4>1
    <3>3. Turn(stack, t, S) /\ t \in Seq(Frame)
      <4>1. Top.kind \in {"scope", "chain", "start", "body", "macro"}
            /\ (Top.kind \in {"body", "macro", "start"} => y = Top.current)
        BY <1>6, <3>1
      <4> QED BY <1>6, <3>1, <3>2, <4>1, TakenFromTodo
    <3>4. LoopsSame(stack, t)
      BY <1>1, <1>2, <1>6, <3>3, LoopsTurned
    <3>5. stack' = t \/ \E g : g.kind \in {"record", "identifier"} /\ stack' = Append(t, g)
      <4>1. PICK g, h : /\ g = NewFrame("identifier", NoDecl)
                        /\ h = [NewFrame("record", x) EXCEPT
                                  !.stage = "first", !.place = cursor[program.file[x]]]
        OBVIOUS
      <4>2. g.kind = "identifier" /\ h.kind = "record"
        BY <4>1 DEF NewFrame
      <4>3. stack' = t \/ stack' = Append(t, g) \/ stack' = Append(t, h)
        BY <3>1, <4>1 DEF GetDecl, DecodeIdentifier, ReadIdentifier
      <4> QED BY <4>2, <4>3
    <3>6. LoopsSame(t, stack')
      <4>1. CASE stack' = t
        BY <4>1 DEF LoopsSame
      <4>2. CASE stack' # t
        BY <3>3, <3>5, <4>2, LoopsPushed
      <4> QED BY <4>1, <4>2
    <3> QED BY <3>4, <3>6, LoopsJoined
  <2> QED BY <2>1, <2>2, <2>3, <2>4
<1>7. CASE stack = << >> \/ Top.kind \notin {"chain", "finish", "scope", "macro"}
  <2>1. stack = << >> \/ Last(stack).kind \notin {"chain", "finish"}
    BY <1>2, <1>7
  <2>2. CASE TurnedStep
    BY <1>1, <2>1, <2>2, LoopsTurned DEF TurnedStep
  <2>3. ASSUME NEW t \in Seq(Frame), Turn(stack, t, loaded'), NEW g, g.kind \notin {"chain", "finish"},
               stack' = Append(t, g)
        PROVE  LoopsSame(stack, stack')
    <3>1. LoopsSame(stack, t)
      BY <1>1, <2>1, <2>3, LoopsTurned
    <3>2. LoopsSame(t, stack')
      BY <2>3, LoopsPushed
    <3> QED BY <3>1, <3>2, LoopsJoined
  <2>4. ASSUME NEW t, NEW d, RecordStep(t, d) PROVE LoopsSame(stack, stack')
    <3>1. PICK g : g = [NewFrame("record", d) EXCEPT !.stage = "first", !.place = cursor[program.file[d]]]
      OBVIOUS
    <3>2. g.kind = "record"
      BY <3>1 DEF NewFrame
    <3> QED BY <2>3, <2>4, <3>1, <3>2 DEF RecordStep
  <2>5. ASSUME NEW t, IdentifierStep(t) PROVE LoopsSame(stack, stack')
    <3>1. PICK g : g = NewFrame("identifier", NoDecl)
      OBVIOUS
    <3>2. g.kind = "identifier"
      BY <3>1 DEF NewFrame
    <3> QED BY <2>3, <2>5, <3>1, <3>2 DEF IdentifierStep
  <2>6. ASSUME NEW t, NEW g, CallStep(t, g) PROVE LoopsSame(stack, stack')
    <3>1. t # << >> /\ Last(t).kind = "finish"
      BY <2>6 DEF CallStep, MayCall
    <3>2. stack # << >> /\ Turn(stack, t, loaded') /\ t \in Seq(Frame)
      BY <1>1, <2>6, <3>1 DEF CallStep, Turn
    <3>3. Last(t).kind = Last(stack).kind
      <4>1. CASE t = stack
        BY <4>1
      <4>2. CASE t # stack
        <5>1. PICK g2 \in Frame : SameCall(Last(stack), g2) /\ t = Append(Front(stack), g2)
          BY <3>2, <4>2 DEF Turn
        <5>2. Last(t) = g2
          <6>1. Front(stack) \in Seq(Frame)
            BY <1>1, <3>2, LastFront
          <6> QED BY <5>1, <6>1, LastAppend
        <5> QED BY <5>1, <5>2 DEF SameCall
      <4> QED BY <4>1, <4>2
    <3> QED BY <2>1, <3>1, <3>2, <3>3
  <2>7. CASE ReturnStep
    <3>1. stack # << >> /\ Turn(Below, stack', loaded') /\ Top.kind \in {"handle", "body"}
      BY <1>7, <2>7 DEF ReturnStep
    <3>2. LoopsSame(stack, Below)
      BY <1>1, <1>2, <2>1, <3>1, LoopsPopped
    <3>3. Below = << >> \/ Last(Below).kind \notin {"chain", "finish"}
      <4> SUFFICES ASSUME Below # << >> PROVE Last(Below).kind \notin {"chain", "finish"}
        OBVIOUS
      <4>1. Last(Below) = Below[Len(Below)]
        BY <1>2, <3>1, LastFront, Zenon
      <4>2. PICK n \in Nat \ {0} : n = Len(stack) /\ Len(Below) = n - 1 /\ n # 1
        <5>1. Len(Below) # 0
          BY <1>2, <3>1
        <5> QED BY <1>2, <3>1, <5>1
      <4>3. Last(Below) = stack[n - 1]
        <5>1. n - 1 \in 1 .. n - 1
          BY <4>2
        <5> QED BY <1>2, <3>1, <4>1, <4>2, <5>1
      <4>4. stack[n - 1].kind \in {"pass", "handle"}
        BY <1>2, <3>1, <4>2 DEF PlaceOK
      <4> QED BY <4>3, <4>4
    <3>4. LoopsSame(Below, stack')
      BY <1>2, <3>1, <3>3, LoopsTurned
    <3> QED BY <3>2, <3>4, LoopsJoined
  <2>8. CASE Special
    <3>1. ASSUME stack # << >>, stack' = Below PROVE LoopsSame(stack, stack')
      BY <1>1, <1>2, <2>1, <3>1, LoopsPopped
    <3>2. ASSUME NEW g, stack # << >>, TopBecomes(stack, stack', g), g.kind # "chain", ~IsLoop(g)
          PROVE  LoopsSame(stack, stack')
      BY <1>1, <2>1, <3>2, LoopsTop
    <3>3. ASSUME NEW g, stack' = Append(stack, g), g.kind \notin {"chain", "finish"}
          PROVE  LoopsSame(stack, stack')
      BY <1>1, <3>3, LoopsPushed
    <3>4. FinishNested \/ AllPassed => stack' = Below
      BY DEF FinishNested, AllPassed
    <3>5. \A d, e : NewFrame("handle", d).kind = "handle" /\ [NewFrame("body", d) EXCEPT !.todo = e].kind = "body"
                    /\ [NewFrame("start", d) EXCEPT !.todo = e].kind = "start"
      BY DEF NewFrame
    <3>6. CASE PassInterestingDecl
      BY <3>3, <3>5, <3>6 DEF PassInterestingDecl
    <3>7. CASE \E d : GetBody(d, stack)
      BY <3>3, <3>5, <3>7 DEF GetBody
    <3>8. CASE StartProgram /\ stack = << >> /\ \E g : Grown(stack, stack', g) /\ g.kind = "start"
      <4>1. PICK g : Grown(stack, stack', g) /\ g.kind = "start"
        BY <3>8
      <4>2. Len(stack) = 0
        BY <3>8
      <4>3. \A i \in 1 .. Len(stack') : stack'[i].kind = "start"
        BY <4>1, <4>2 DEF Grown
      <4> QED BY <4>2, <4>3 DEF LoopsSame, IsLoop
    <3>9. CASE FinishPendingActions
      <4>1. PICK g : g = [Top EXCEPT !.kind = "finish", !.stage = "names"]
        OBVIOUS
      <4>2. stack # << >> /\ stack' = WithTop(g)
        BY <3>9, <4>1 DEF FinishPendingActions, GuardEnds, At, Is
      <4>3. g \in Frame /\ g.kind # "chain" /\ ~IsLoop(g)
        BY <1>2, <4>1, <4>2 DEF Frame, IsLoop
      <4> QED BY <1>4, <1>7, <4>2, <4>3
    <3>10. \A g : g.kind \in {"pass", "record"} => g.kind # "chain" /\ ~IsLoop(g)
      BY DEF IsLoop
    <3> QED BY <1>7, <2>8, <3>1, <3>2, <3>4, <3>6, <3>7, <3>8, <3>9, <3>10, SpecialShape DEF PassFrame
  <2> QED BY <2>2, <2>4, <2>5, <2>6, <2>7, <2>8, StepForms DEF Plain
<1> QED BY <1>3, <1>5, <1>6, <1>7

-----------------------------------------------------------------------------
(* Records                                                                  *)

LEMMA RecordsTurned ==
  ASSUME NEW s \in Seq(Frame), NEW S, NEW t, Turn(s, t, S), s = << >> \/ Last(s).kind # "record",
         NEW L, NEW R, AllRecords(s, L, R)
  PROVE  AllRecords(t, L, R)
<1>1. CASE t = s
  BY <1>1
<1>2. CASE t # s
  <2>1. PICK g \in Frame : s # << >> /\ SameCall(Last(s), g) /\ t = Append(Front(s), g)
    BY <1>2 DEF Turn
  <2>2. TopBecomes(s, t, g)
    BY <2>1, TopReplaced
  <2>3. Len(s) \in Nat \ {0}
    BY <2>1, LastFront, Zenon
  <2>4. g.kind # "record"
    BY <2>1 DEF SameCall
  <2>5. \A i \in 1 .. Len(s) : i \in 1 .. Len(s) - 1 \/ i = Len(s)
    BY <2>3
  <2> QED BY <2>2, <2>4, <2>5 DEF TopBecomes, AllRecords, RecordOK
<1> QED BY <1>1, <1>2

LEMMA RecordsPushed ==
  ASSUME NEW s \in Seq(Frame), NEW g, NEW t, t = Append(s, g),
         NEW L, NEW R, AllRecords(s, L, R), RecordOK(g, L, R)
  PROVE  AllRecords(t, L, R)
<1>1. Len(s) \in Nat /\ Len(t) = Len(s) + 1 /\ t[Len(s) + 1] = g /\ \A i \in 1 .. Len(s) : t[i] = s[i]
  OBVIOUS
<1>2. \A i \in 1 .. Len(t) : i \in 1 .. Len(s) \/ i = Len(s) + 1
  BY <1>1
<1> QED BY <1>1, <1>2 DEF AllRecords

LEMMA RecordsPopped ==
  ASSUME NEW s \in Seq(Frame), s # << >>, NEW L, NEW R, AllRecords(s, L, R)
  PROVE  AllRecords(Front(s), L, R) /\ Front(s) \in Seq(Frame)
<1>1. PICK t : t = Front(s)
  OBVIOUS
<1>2. Len(s) \in Nat \ {0} /\ Len(t) = Len(s) - 1 /\ t \in Seq(Frame)
      /\ \A i \in 1 .. Len(s) - 1 : t[i] = s[i]
  BY <1>1, LastFront, Zenon
<1>3. \A i \in 1 .. Len(t) : i \in 1 .. Len(s) /\ t[i] = s[i]
  BY <1>2
<1> QED BY <1>1, <1>2, <1>3 DEF AllRecords

LEMMA RecordsAsked ==
  ASSUME NEW t \in Seq(Frame), NEW d, GetDecl(d, t) \/ DecodeIdentifier(d, t) \/ ReadIdentifier(d, t),
         NEW L, NEW R, AllRecords(t, L, R)
  PROVE  AllRecords(stack', L, R)
<1>1. PICK g, h : /\ g = NewFrame("identifier", NoDecl)
                  /\ h = [NewFrame("record", d) EXCEPT !.stage = "first", !.place = cursor[program.file[d]]]
  OBVIOUS
<1>2. g.kind = "identifier" /\ h.kind = "record" /\ h.stage = "first" /\ h.owning
  BY <1>1 DEF NewFrame
<1>3. stack' = t \/ stack' = Append(t, g) \/ stack' = Append(t, h)
  BY <1>1 DEF GetDecl, DecodeIdentifier, ReadIdentifier
<1>4. RecordOK(g, L, R) /\ RecordOK(h, L, R)
  BY <1>2 DEF RecordOK
<1> QED BY <1>3, <1>4, RecordsPushed

(* While a chain is being linked, no record is being read.                  *)
LEMMA NoRecords ==
  ASSUME StepInv, stack # << >>, Top.kind \in {"finish", "chain", "scope", "macro"} \cup BaseKinds
  PROVE  \A i \in 1 .. Len(stack) : stack[i].kind # "record" /\ \A d : ~IsReading(stack[i], d)
<1>1. /\ stack \in Seq(Frame) /\ Len(stack) \in Nat \ {0} /\ Top = stack[Len(stack)]
      /\ \A i \in 1 .. Len(stack) : PlaceOK(stack, i)
  BY TopType DEF StepInv, TypeOK, StackInv, StackOK
<1>2. PICK n \in Nat \ {0} : n = Len(stack)
  BY <1>1
<1>3. CASE Top.kind \in {"finish"} \cup BaseKinds
  <2>1. \A i \in 1 .. n - 1 : stack[i].kind \in BaseKinds
    BY <1>1, <1>2, <1>3 DEF PlaceOK
  <2>2. \A i \in 1 .. n : i \in 1 .. n - 1 \/ i = n
    BY <1>2
  <2> QED BY <1>1, <1>2, <1>3, <2>1, <2>2 DEF BaseKinds, IsReading
<1>4. CASE Top.kind \in {"chain", "scope", "macro"}
  <2>1. n # 1 /\ stack[n - 1].kind = "finish"
    BY <1>1, <1>2, <1>4 DEF PlaceOK
  <2>2. n - 1 \in 1 .. n /\ \A i \in 1 .. n : i \in 1 .. (n - 1) - 1 \/ i = n - 1 \/ i = n
    BY <1>2, <2>1
  <2>3. \A i \in 1 .. (n - 1) - 1 : stack[i].kind \in BaseKinds
    BY <1>1, <1>2, <2>1, <2>2 DEF PlaceOK
  <2> QED BY <1>1, <1>2, <1>4, <2>1, <2>2, <2>3 DEF BaseKinds, IsReading
<1> QED BY <1>3, <1>4

LEMMA RecordsGrow ==
  ASSUME NEW s, NEW L, NEW M, L \subseteq M, NEW R, NEW Q, R \subseteq Q, AllRecords(s, L, R)
  PROVE  AllRecords(s, M, Q)
BY DEF AllRecords, RecordOK

LEMMA RecordsBecome ==
  ASSUME NEW s \in Seq(Frame), s # << >>, NEW t, NEW g, TopBecomes(s, t, g),
         NEW L, NEW R, AllRecords(s, L, R), RecordOK(g, L, R)
  PROVE  AllRecords(t, L, R)
<1>1. Len(s) \in Nat \ {0}
  BY LastFront, Zenon
<1>2. \A i \in 1 .. Len(s) : i \in 1 .. Len(s) - 1 \/ i = Len(s)
  BY <1>1
<1> QED BY <1>1, <1>2 DEF TopBecomes, AllRecords

(* A record that is being read goes on.                                     *)
LEMMA RecordGoesOn ==
  ASSUME StepInv, stack # << >>, NEW g \in Frame,
         NEW L, NEW R, AllRecords(stack, L, R), RecordOK(g, L, R)
  PROVE  AllRecords(WithTop(g), L, R) /\ WithTop(g) \in Seq(Frame)
<1>1. PICK t : t = Append(Front(stack), g)
  OBVIOUS
<1>2. stack \in Seq(Frame)
  BY DEF StepInv, TypeOK
<1>3. TopBecomes(stack, t, g)
  BY <1>1, <1>2, TopReplaced
<1>4. AllRecords(t, L, R) /\ t \in Seq(Frame)
  BY <1>2, <1>3, RecordsBecome DEF TopBecomes
<1> QED BY <1>1, <1>4 DEF WithTop, Below

LEMMA RecordsPrimed ==
  ASSUME Next, AllRecords(stack', loaded', redecls')
  PROVE  RecordsInv'
BY WhatChangesFiles DEF RecordsInv, AllRecords, RecordOK

LEMMA RecordsNextInRecord ==
  ASSUME StepInv, RecordsInv, Next, ~program.pcmodules, stack # << >>, Top.kind = "record"
  PROVE  RecordsInv'
<1>1. /\ stack \in Seq(Frame) /\ Top \in Frame /\ Len(stack) \in Nat \ {0} /\ Top = stack[Len(stack)]
      /\ Below = Front(stack) /\ Top.decl \in loaded
  BY TopType DEF StepInv, TypeOK, Below, CallOK
<1>2. RecordOK(Top, loaded, redecls) /\ AllRecords(stack, loaded, redecls)
  BY <1>1 DEF RecordsInv, AllRecords
<1>3. \/ ReadFirst \/ LinkToFirst \/ ReadDeclName \/ ReadDeclType \/ UpdateIdentifier \/ Merge
      \/ ReadRest \/ RecordRead \/ FinishNested \/ FinishPendingActions
  BY DEF Next, ClientStep, ReadStep, FinishStep, ConsumerStep, Is, At, Idle,
       AskForDecl, LookUp, AskForBody, InitializeSema, StartProgram, ImportFile,
       AskForNext, ReadMacroToken, ReadInBody, BodyIsRead,
       SetGloballyVisibleDecls, PushIntoScope, PopPendingName, NamesAreDone,
       LoadPendingDeclChain, AddToChain, HookUpChain, ChainsAreDone, LoadPendingMacro,
       MacroIsRead, MacrosAreDone, SetLazyBody, FinishedDeserializing,
       PassInterestingDecl, AllPassed, ConsumerGetsBody, ConsumerReturns, StartNextDefinition,
       DefinitionsStarted
<1>4. loaded \subseteq loaded' /\ program' = program
  BY LoadedGrows, WhatChangesFiles
<1>5. ASSUME NEW x \in Stages, NEW g, g = [Top EXCEPT !.stage = x]
      PROVE  g \in Frame /\ g.kind = "record" /\ g.stage = x /\ g.decl = Top.decl /\ g.owning = Top.owning
  BY <1>1, <1>5, SetStage DEF Frame
<1>6. {"link", "name", "type", "merge", "rest", "end", "done"} \subseteq Stages
  BY DEF Stages
<1>7. CASE ReadFirst
  <2>1. PICK g : g = [Top EXCEPT !.stage = "link"]
    OBVIOUS
  <2>2. g \in Frame /\ g.kind = "record" /\ g.stage = "link" /\ g.decl = Top.decl /\ g.owning = Top.owning
    BY <1>5, <1>6, <2>1
  <2>3. GetDecl(program.first[Top.decl], WithTop(g)) /\ redecls' = redecls
    BY <1>7, <2>1 DEF ReadFirst, chainVars
  <2>4. program.first[Top.decl] \in loaded'
    <3>1. program \in Program
      BY ProgramType DEF StepInv
    <3>2. program.first[Top.decl] \in Decls /\ Top.decl \in Decls
      BY <1>1, <3>1 DEF StepInv, TypeOK, Program
    <3>3. program.first[Top.decl] # NoDecl
      BY <3>2, DeserializationAssumption
    <3> QED BY <2>3, <3>3 DEF GetDecl
  <2>5. RecordOK(g, loaded', redecls')
    BY <1>2, <2>2, <2>4 DEF RecordOK
  <2>6. AllRecords(stack, loaded', redecls')
    BY <1>2, <1>4, <2>3, RecordsGrow
  <2>7. AllRecords(WithTop(g), loaded', redecls') /\ WithTop(g) \in Seq(Frame)
    BY <2>2, <2>5, <2>6, RecordGoesOn
  <2> QED BY <2>3, <2>7, RecordsAsked, RecordsPrimed
<1>8. CASE LinkToFirst
  <2>1. PICK g : g = [Top EXCEPT !.stage = "name"]
    OBVIOUS
  <2>2. g \in Frame /\ g.kind = "record" /\ g.stage = "name" /\ g.decl = Top.decl /\ g.owning = Top.owning
    BY <1>5, <1>6, <2>1
  <2>3. stack' = WithTop(g) /\ redecls' = redecls \cup {Top.decl} /\ Top.stage = "link"
    BY <1>8, <2>1 DEF LinkToFirst, At
  <2>4. RecordOK(g, loaded', redecls')
    BY <1>2, <1>4, <2>2, <2>3 DEF RecordOK
  <2>5. AllRecords(stack, loaded', redecls')
    BY <1>2, <1>4, <2>3, RecordsGrow
  <2> QED BY <2>2, <2>3, <2>4, <2>5, RecordGoesOn, RecordsPrimed
<1>9. ASSUME NEW x \in {"type", "merge", "rest", "end", "done"},
             Top.stage \in {"name", "type", "merge", "rest", "end"},
             NEW g, g = [Top EXCEPT !.stage = x], redecls' = redecls
      PROVE  AllRecords(WithTop(g), loaded', redecls') /\ WithTop(g) \in Seq(Frame)
  <2>1. g \in Frame /\ g.kind = "record" /\ g.stage = x /\ g.decl = Top.decl /\ g.owning = Top.owning
    BY <1>5, <1>6, <1>9
  <2>2. RecordOK(g, loaded', redecls')
    BY <1>2, <1>4, <1>9, <2>1 DEF RecordOK
  <2>3. AllRecords(stack, loaded', redecls')
    BY <1>2, <1>4, <1>9, RecordsGrow
  <2> QED BY <2>1, <2>2, <2>3, RecordGoesOn
<1>10. CASE ReadDeclName
  <2>1. PICK g : g = [Top EXCEPT !.stage = "type"]
    OBVIOUS
  <2>2. DecodeIdentifier(program.name[Top.decl], WithTop(g)) /\ redecls' = redecls /\ Top.stage = "name"
    BY <1>10, <2>1 DEF ReadDeclName, chainVars, At
  <2>3. AllRecords(WithTop(g), loaded', redecls') /\ WithTop(g) \in Seq(Frame)
    BY <1>9, <2>1, <2>2
  <2> QED BY <2>2, <2>3, RecordsAsked, RecordsPrimed
<1>11. CASE ReadDeclType
  <2>1. PICK g : g = [Top EXCEPT !.stage = "merge"]
    OBVIOUS
  <2>2. GetDecl(program.type[Top.decl], WithTop(g)) /\ redecls' = redecls /\ Top.stage = "type"
    BY <1>11, <2>1 DEF ReadDeclType, chainVars, At
  <2>3. AllRecords(WithTop(g), loaded', redecls') /\ WithTop(g) \in Seq(Frame)
    BY <1>9, <2>1, <2>2
  <2> QED BY <2>2, <2>3, RecordsAsked, RecordsPrimed
<1>12. ~UpdateIdentifier
  BY DEF UpdateIdentifier
<1>13. CASE Merge
  <2>1. PICK g : g = [Top EXCEPT !.stage = "rest"]
    OBVIOUS
  <2>2. stack' = WithTop(g) /\ redecls' = redecls /\ Top.stage = "merge"
    BY <1>13, <2>1 DEF Merge, At
  <2> QED BY <1>9, <2>1, <2>2, RecordsPrimed
<1>14. CASE ReadRest
  <2>1. PICK g : g = [Top EXCEPT !.stage = "end"]
    OBVIOUS
  <2>2. GetDecl(program.rest[Top.decl], WithTop(g)) /\ redecls' = redecls /\ Top.stage = "rest"
    BY <1>14, <2>1 DEF ReadRest, chainVars, At
  <2>3. AllRecords(WithTop(g), loaded', redecls') /\ WithTop(g) \in Seq(Frame)
    BY <1>9, <2>1, <2>2
  <2> QED BY <2>2, <2>3, RecordsAsked, RecordsPrimed
<1>15. CASE RecordRead
  <2>1. PICK g : g = [Top EXCEPT !.stage = "done"]
    OBVIOUS
  <2>2. stack' = WithTop(g) /\ redecls' = redecls /\ Top.stage = "end"
    BY <1>15, <2>1 DEF RecordRead, At
  <2> QED BY <1>9, <2>1, <2>2, RecordsPrimed
<1>16. CASE FinishNested
  BY <1>1, <1>2, <1>16, RecordsPopped, RecordsPrimed DEF FinishNested, chainVars
<1>17. CASE FinishPendingActions
  <2>1. PICK g : g = [Top EXCEPT !.kind = "finish", !.stage = "names"]
    OBVIOUS
  <2>2. g \in Frame /\ g.kind = "finish"
    BY <1>1, <2>1 DEF Frame
  <2>3. stack' = WithTop(g) /\ redecls' = redecls /\ loaded' = loaded
    BY <1>17, <2>1 DEF FinishPendingActions, chainVars
  <2>4. RecordOK(g, loaded, redecls)
    BY <2>2 DEF RecordOK
  <2> QED BY <1>2, <2>2, <2>3, <2>4, RecordGoesOn, RecordsPrimed
<1> QED BY <1>3, <1>7, <1>8, <1>10, <1>11, <1>12, <1>13, <1>14, <1>15, <1>16, <1>17

LEMMA RecordsNext ==
  ASSUME StepInv, RecordsInv, Next, ~program.pcmodules
  PROVE  RecordsInv'
<1>1. stack \in Seq(Frame) /\ AllRecords(stack, loaded, redecls)
  BY DEF StepInv, TypeOK, RecordsInv
<1>2. stack # << >> =>
        /\ Below \in Seq(Frame) /\ Top = Last(stack) /\ Below = Front(stack) /\ Top \in Frame
        /\ Len(stack) \in Nat \ {0} /\ Top = stack[Len(stack)] /\ Len(Below) = Len(stack) - 1
        /\ PlaceOK(stack, Len(stack)) /\ \A i \in 1 .. Len(stack) - 1 : Below[i] = stack[i]
  BY TopType DEF StepInv, Top, Below
<1>3. CASE stack # << >> /\ Top.kind = "record"
  BY <1>3, RecordsNextInRecord
<1>4. CASE AddToChain
  <2>1. \A i \in 1 .. Len(stack) : stack[i].kind # "record"
    BY <1>4, NoRecords DEF AddToChain, Is
  <2>2. PICK g : g = [Top EXCEPT !.current = NoDecl, !.chain = @ \cup ({Top.current} \cap redecls)]
    OBVIOUS
  <2>3. stack # << >> /\ g.kind = "chain" /\ stack' = WithTop(g) /\ g \in Frame
    <3>1. At("chain", Top.stage) /\ stack # << >> /\ stack' = WithTop(g)
      BY <1>4, <2>2 DEF AddToChain, Is, At
    <3>2. g.kind = "chain"
      BY <1>2, <2>2, <3>1 DEF Frame, At, Is
    <3>3. PICK C \in SUBSET Decls : C = Top.chain \cup ({Top.current} \cap redecls)
      BY <1>2, <3>1 DEF StepInv, TypeOK, Frame
    <3>4. PICK h : h = [Top EXCEPT !.current = NoDecl]
      OBVIOUS
    <3>5. h \in Frame
      BY <1>2, <3>1, <3>4, SetCurrent
    <3>6. g = [h EXCEPT !.chain = C]
      BY <1>2, <2>2, <3>1, <3>3, <3>4 DEF Frame
    <3> QED BY <3>1, <3>2, <3>5, <3>6, SetChain
  <2>4. AllRecords(stack, loaded', redecls') /\ RecordOK(g, loaded', redecls')
    BY <2>1, <2>3 DEF AllRecords, RecordOK
  <2> QED BY <2>3, <2>4, RecordGoesOn, RecordsPrimed
<1>5. CASE ~AddToChain /\ (stack = << >> \/ Top.kind # "record")
  <2>1. redecls' = redecls
    <3>1. ~LinkToFirst /\ ~Merge /\ ~RecordRead
      BY <1>5 DEF LinkToFirst, Merge, RecordRead, At, Is
    <3> QED BY <1>5, <3>1, WhatChangesChains DEF chainVars, LoadPendingDeclChain, HookUpChain, ChainsAreDone
  <2>2. stack = << >> \/ Last(stack).kind # "record"
    BY <1>2, <1>5
  <2>3. AllRecords(stack, loaded', redecls')
    BY <1>1, <2>1, LoadedGrows, RecordsGrow
  <2>4. SUFFICES AllRecords(stack', loaded', redecls')
    BY RecordsPrimed
  <2>5. \A t : Turn(stack, t, loaded') => AllRecords(t, loaded', redecls')
    BY <1>1, <2>2, <2>3, RecordsTurned
  <2>6. \A g : g.kind # "record" => RecordOK(g, loaded', redecls')
    BY DEF RecordOK
  <2>7. CASE TurnedStep
    BY <2>5, <2>7 DEF TurnedStep
  <2>8. ASSUME NEW t, NEW d, RecordStep(t, d) PROVE AllRecords(stack', loaded', redecls')
    <3>1. PICK g : g = [NewFrame("record", d) EXCEPT !.stage = "first", !.place = cursor[program.file[d]]]
      OBVIOUS
    <3>2. RecordOK(g, loaded', redecls')
      BY <3>1 DEF NewFrame, RecordOK
    <3>3. t \in Seq(Frame) /\ AllRecords(t, loaded', redecls') /\ stack' = Append(t, g)
      BY <2>5, <2>8, <3>1 DEF RecordStep
    <3> QED BY <3>2, <3>3, RecordsPushed
  <2>9. ASSUME NEW t, IdentifierStep(t) PROVE AllRecords(stack', loaded', redecls')
    <3>1. PICK g : g = NewFrame("identifier", NoDecl)
      OBVIOUS
    <3>2. RecordOK(g, loaded', redecls')
      BY <2>6, <3>1 DEF NewFrame
    <3>3. t \in Seq(Frame) /\ AllRecords(t, loaded', redecls') /\ stack' = Append(t, g)
      BY <2>5, <2>9, <3>1 DEF IdentifierStep
    <3> QED BY <3>2, <3>3, RecordsPushed
  <2>10. ASSUME NEW t, NEW g, CallStep(t, g) PROVE AllRecords(stack', loaded', redecls')
    <3>1. RecordOK(g, loaded', redecls')
      BY <2>6, <2>10 DEF CallStep
    <3>2. t \in Seq(Frame) /\ AllRecords(t, loaded', redecls') /\ stack' = Append(t, g)
      BY <2>5, <2>10 DEF CallStep
    <3> QED BY <3>1, <3>2, RecordsPushed
  <2>11. CASE ReturnStep
    <3>1. stack # << >> /\ Turn(Below, stack', loaded')
          /\ Top.kind \in {"scope", "chain", "macro", "handle", "body"}
      BY <2>11 DEF ReturnStep
    <3>2. AllRecords(Below, loaded', redecls')
      BY <1>1, <1>2, <2>3, <3>1, RecordsPopped
    <3>3. Below = << >> \/ Last(Below).kind # "record"
      <4> SUFFICES ASSUME Below # << >> PROVE Last(Below).kind # "record"
        OBVIOUS
      <4>1. Last(Below) = Below[Len(Below)]
        BY <1>2, <3>1, LastFront, Zenon
      <4>2. PICK n \in Nat \ {0} : n = Len(stack) /\ Len(Below) = n - 1 /\ n # 1
        <5>1. Len(Below) # 0
          BY <1>2, <3>1
        <5> QED BY <1>2, <3>1, <5>1
      <4>3. Last(Below) = stack[n - 1]
        <5>1. n - 1 \in 1 .. n - 1
          BY <4>2
        <5> QED BY <1>2, <3>1, <4>1, <4>2, <5>1
      <4>4. stack[n - 1].kind \in {"pass", "handle", "finish"}
        BY <1>2, <3>1, <4>2 DEF PlaceOK
      <4> QED BY <4>3, <4>4
    <3> QED BY <1>2, <3>1, <3>2, <3>3, RecordsTurned
  <2>12. CASE Special
    <3>1. ASSUME stack # << >>, stack' = Below PROVE AllRecords(stack', loaded', redecls')
      BY <1>1, <1>2, <2>3, <3>1, RecordsPopped
    <3>2. ASSUME NEW g, stack # << >>, TopBecomes(stack, stack', g), g.kind # "record"
          PROVE  AllRecords(stack', loaded', redecls')
      BY <1>1, <2>3, <2>6, <3>2, RecordsBecome
    <3>3. ASSUME NEW g, stack' = Append(stack, g), g.kind # "record"
          PROVE  AllRecords(stack', loaded', redecls')
      BY <1>1, <2>3, <2>6, <3>3, RecordsPushed
    <3>4. FinishNested \/ AllPassed => stack' = Below
      BY DEF FinishNested, AllPassed
    <3>5. \A d, e : NewFrame("handle", d).kind = "handle" /\ [NewFrame("body", d) EXCEPT !.todo = e].kind = "body"
                    /\ [NewFrame("start", d) EXCEPT !.todo = e].kind = "start"
      BY DEF NewFrame
    <3>6. CASE PassInterestingDecl
      BY <3>3, <3>5, <3>6 DEF PassInterestingDecl
    <3>7. CASE \E d : GetBody(d, stack)
      BY <3>3, <3>5, <3>7 DEF GetBody
    <3>8. CASE StartProgram /\ stack = << >> /\ \E g : Grown(stack, stack', g) /\ g.kind = "start"
      <4>1. PICK g : Grown(stack, stack', g) /\ g.kind = "start"
        BY <3>8
      <4>2. Len(stack) = 0
        BY <3>8
      <4>3. \A i \in 1 .. Len(stack') : stack'[i].kind = "start"
        BY <4>1, <4>2 DEF Grown
      <4> QED BY <4>3 DEF AllRecords, RecordOK
    <3>9. ~MayPass(count - 1) /\ FinishedDeserializing => stack' = Below
      BY DEF FinishedDeserializing
    <3> QED BY <1>5, <2>12, <3>1, <3>2, <3>4, <3>6, <3>7, <3>8, <3>9, SpecialShape DEF PassFrame
  <2> QED BY <2>7, <2>8, <2>9, <2>10, <2>11, <2>12, StepForms DEF Plain
<1> QED BY <1>3, <1>4, <1>5

-----------------------------------------------------------------------------
(* The loop over the pending chains                                         *)

(* The chain that is being linked is g now; it may have asked for a record. *)
ChainBecomes(s, t, g) ==
  /\ t \in Seq(Frame) /\ Len(t) \in {Len(s), Len(s) + 1} /\ t[Len(s)] = g
  /\ \A i \in 1 .. Len(s) - 1 : t[i] = s[i]
  /\ Len(t) = Len(s) + 1 => t[Len(t)].kind = "record"
  /\ g.kind = "chain" /\ g.decl = s[Len(s)].decl

LEMMA ChainAsks ==
  ASSUME StepInv, Is("chain"), AskForNext
  PROVE  \E d \in Top.todo : \E g \in Frame :
           /\ Top.current = NoDecl /\ d \in Decls
           /\ g.current = d /\ g.todo = Top.todo \ {d} /\ g.chain = Top.chain
           /\ ChainBecomes(stack, stack', g)
           /\ loaded' = loaded \cup {d}
           /\ d \in loaded => Len(stack') = Len(stack)
           /\ d \notin loaded => Len(stack') = Len(stack) + 1 /\ IsReading(stack'[Len(stack')], d)
<1>1. /\ stack \in Seq(Frame) /\ Len(stack) \in Nat \ {0} /\ Top = stack[Len(stack)] /\ Top \in Frame
      /\ Top.todo \subseteq Decls /\ stack # << >> /\ Top.kind = "chain" /\ Top = Last(stack)
  BY TopType DEF StepInv, TypeOK, Is, CallOK, Top
<1>2. PICK d \in Top.todo : GetDecl(d, WithTop([Top EXCEPT !.current = d, !.todo = @ \ {d}]))
  BY DEF AskForNext
<1>3. Top.current = NoDecl /\ d \in Decls /\ d # NoDecl
  BY <1>1, <1>2, DeserializationAssumption DEF AskForNext
<1>4. PICK g : g = [Top EXCEPT !.current = d, !.todo = @ \ {d}]
  OBVIOUS
<1>5. /\ g \in Frame /\ g.kind = "chain" /\ g.decl = Top.decl /\ g.current = d
      /\ g.todo = Top.todo \ {d} /\ g.chain = Top.chain
  <2>1. g.kind = "chain" /\ g.decl = Top.decl /\ g.current = d /\ g.todo = Top.todo \ {d}
        /\ g.chain = Top.chain
    BY <1>1, <1>4 DEF Frame
  <2>2. PICK h : h = [Top EXCEPT !.current = d]
    OBVIOUS
  <2>3. h \in Frame
    BY <1>1, <1>3, <2>2, SetCurrent
  <2>4. PICK T \in SUBSET (Decls \cup Names) : T = Top.todo \ {d}
    BY <1>1
  <2>5. g = [h EXCEPT !.todo = T]
    BY <1>1, <1>4, <2>2, <2>4 DEF Frame
  <2>6. g \in Frame
    BY <2>3, <2>5 DEF Frame
  <2> QED BY <2>1, <2>6
<1>6. PICK t : t = WithTop(g)
  OBVIOUS
<1>7. TopBecomes(stack, t, g)
  BY <1>1, <1>5, <1>6, TopReplaced DEF WithTop, Below
<1>8. CASE d \in loaded
  <2>1. stack' = t /\ loaded' = loaded
    BY <1>2, <1>4, <1>6, <1>8 DEF GetDecl
  <2>2. ChainBecomes(stack, stack', g)
    BY <1>1, <1>5, <1>7, <2>1 DEF TopBecomes, ChainBecomes
  <2>3. loaded' = loaded \cup {d} /\ Len(stack') = Len(stack)
    BY <1>7, <1>8, <2>1 DEF TopBecomes
  <2> QED BY <1>3, <1>5, <1>8, <2>2, <2>3
<1>9. CASE d \notin loaded
  <2>1. PICK h : h = [NewFrame("record", d) EXCEPT !.stage = "first", !.place = cursor[program.file[d]]]
    OBVIOUS
  <2>2. h.kind = "record" /\ h.stage = "first" /\ h.decl = d
    BY <2>1 DEF NewFrame
  <2>3. stack' = Append(t, h) /\ loaded' = loaded \cup {d}
    BY <1>2, <1>3, <1>4, <1>6, <1>9, <2>1 DEF GetDecl
  <2>4. stack' \in Seq(Frame)
    BY StackNext DEF Next, ReadStep
  <2>5. t \in Seq(Frame) /\ Len(t) = Len(stack) /\ t[Len(stack)] = g
        /\ \A i \in 1 .. Len(stack) - 1 : t[i] = stack[i]
    BY <1>7 DEF TopBecomes
  <2>6. Len(stack') = Len(stack) + 1 /\ stack'[Len(stack) + 1] = h /\ stack'[Len(stack)] = g
        /\ \A i \in 1 .. Len(stack) - 1 : stack'[i] = stack[i]
    BY <1>1, <2>3, <2>5
  <2>7. ChainBecomes(stack, stack', g)
    BY <1>1, <1>5, <2>2, <2>4, <2>6 DEF ChainBecomes
  <2>8. IsReading(stack'[Len(stack')], d)
    BY <2>2, <2>6 DEF IsReading
  <2> QED BY <1>3, <1>5, <1>9, <2>3, <2>6, <2>7, <2>8
<1> QED BY <1>8, <1>9

LEMMA ChainAdds ==
  ASSUME StepInv, AddToChain
  PROVE  \E g \in Frame :
           /\ g.current = NoDecl /\ g.todo = Top.todo
           /\ g.chain = Top.chain \cup ({Top.current} \cap redecls)
           /\ ChainBecomes(stack, stack', g) /\ Len(stack') = Len(stack)
           /\ loaded' = loaded /\ redecls' = redecls \ {Top.current}
<1>1. /\ stack \in Seq(Frame) /\ Len(stack) \in Nat \ {0} /\ Top = stack[Len(stack)] /\ Top \in Frame
      /\ stack # << >> /\ Top.kind = "chain" /\ Top = Last(stack)
  BY TopType DEF StepInv, TypeOK, AddToChain, Is, CallOK, Top
<1>2. PICK g : g = [Top EXCEPT !.current = NoDecl, !.chain = @ \cup ({Top.current} \cap redecls)]
  OBVIOUS
<1>3. /\ g.kind = "chain" /\ g.decl = Top.decl /\ g.current = NoDecl /\ g.todo = Top.todo
      /\ g.chain = Top.chain \cup ({Top.current} \cap redecls)
  BY <1>1, <1>2 DEF Frame
<1>4. g \in Frame
  <2>1. PICK C \in SUBSET Decls : C = Top.chain \cup ({Top.current} \cap redecls)
    BY <1>1 DEF StepInv, TypeOK, Frame
  <2>2. PICK h : h = [Top EXCEPT !.current = NoDecl]
    OBVIOUS
  <2>3. h \in Frame
    BY <1>1, <2>2, SetCurrent
  <2>4. g = [h EXCEPT !.chain = C]
    BY <1>1, <1>2, <2>1, <2>2 DEF Frame
  <2> QED BY <2>3, <2>4, SetChain
<1>5. stack' = WithTop(g) /\ loaded' = loaded /\ redecls' = redecls \ {Top.current}
  BY <1>2 DEF AddToChain
<1>6. TopBecomes(stack, stack', g)
  BY <1>1, <1>4, <1>5, TopReplaced DEF WithTop, Below
<1>7. ChainBecomes(stack, stack', g) /\ Len(stack') = Len(stack)
  BY <1>1, <1>3, <1>6 DEF TopBecomes, ChainBecomes
<1> QED BY <1>3, <1>4, <1>5, <1>7

(* Above the loop, one chain at most is being linked.                       *)
LEMMA LoopOnTop ==
  ASSUME StepInv, stack # << >>, Top.kind = "finish"
  PROVE  /\ Len(stack) \in Nat \ {0} /\ Top = stack[Len(stack)]
         /\ \A i \in 1 .. Len(stack) - 1 : stack[i].kind \in BaseKinds
         /\ \A i \in 1 .. Len(stack) : stack[i].kind = "finish" => i = Len(stack)
         /\ \A i \in 1 .. Len(stack) : stack[i].kind # "chain"
<1>1. Len(stack) \in Nat \ {0} /\ Top = stack[Len(stack)] /\ PlaceOK(stack, Len(stack))
  BY TopType DEF StepInv
<1>2. PICK n \in Nat \ {0} : n = Len(stack)
  BY <1>1
<1>3. \A i \in 1 .. n - 1 : stack[i].kind \in BaseKinds
  BY <1>1, <1>2 DEF PlaceOK
<1>4. \A i \in 1 .. n : i \in 1 .. n - 1 \/ i = n
  BY <1>2
<1> QED BY <1>1, <1>2, <1>3, <1>4 DEF BaseKinds

LEMMA ChainOnTop ==
  ASSUME StepInv, Is("chain")
  PROVE  \E n \in Nat \ {0, 1} :
           /\ n = Len(stack) /\ Top = stack[n] /\ IsLoop(stack[n - 1])
           /\ \A i \in 1 .. n - 2 : stack[i].kind \in BaseKinds
           /\ \A i \in 1 .. n : i \in 1 .. n - 2 \/ i = n - 1 \/ i = n
           /\ \A i \in 1 .. n : IsLoop(stack[i]) => i = n - 1
           /\ \A i \in 1 .. n : stack[i].kind = "chain" => i = n
<1>1. /\ Len(stack) \in Nat \ {0} /\ Top = stack[Len(stack)] /\ Top.kind = "chain"
      /\ \A i \in 1 .. Len(stack) : PlaceOK(stack, i)
  BY TopType DEF StepInv, StackInv, StackOK, Is
<1>2. PICK n \in Nat \ {0} : n = Len(stack)
  BY <1>1
<1>3. n # 1 /\ IsLoop(stack[n - 1])
  BY <1>1, <1>2 DEF PlaceOK, IsLoop
<1>4. n - 1 \in 1 .. n /\ \A i \in 1 .. n : i \in 1 .. (n - 1) - 1 \/ i = n - 1 \/ i = n
  BY <1>2, <1>3
<1>5. \A i \in 1 .. (n - 1) - 1 : stack[i].kind \in BaseKinds
  BY <1>1, <1>2, <1>3, <1>4 DEF PlaceOK, IsLoop
<1>6. \A i \in 1 .. n - 2 : i \in 1 .. (n - 1) - 1
  BY <1>2, <1>3
<1>7. \A i \in 1 .. n : i \in 1 .. n - 2 \/ i = n - 1 \/ i = n
  BY <1>2, <1>3
<1>8. n \in Nat \ {0, 1} /\ n - 1 # n
  BY <1>3
<1>9. /\ \A i \in 1 .. n : IsLoop(stack[i]) => i = n - 1
      /\ \A i \in 1 .. n : stack[i].kind = "chain" => i = n
  BY <1>1, <1>2, <1>3, <1>4, <1>5, <1>8 DEF IsLoop, BaseKinds
<1> QED BY <1>1, <1>2, <1>3, <1>5, <1>6, <1>7, <1>8, <1>9

LEMMA HookShape ==
  ASSUME StepInv, HookUpChain
  PROVE  \E n \in Nat \ {0, 1} :
           /\ n = Len(stack) /\ Top = stack[n] /\ Top.kind = "chain" /\ IsLoop(stack[n - 1])
           /\ stack' \in Seq(Frame) /\ Len(stack') = n - 1
           /\ IsLoop(stack'[n - 1]) /\ stack'[n - 1].index = stack[n - 1].index + 1
           /\ \A i \in 1 .. n - 2 : stack'[i] = stack[i] /\ stack[i].kind \in BaseKinds
           /\ \A i \in 1 .. n - 1 : i \in 1 .. n - 2 \/ i = n - 1
           /\ \A i \in 1 .. n : stack[i].kind = "chain" => i = n
<1>1. Is("chain") /\ stack \in Seq(Frame)
  BY DEF HookUpChain, StepInv, TypeOK
<1>2. PICK n \in Nat \ {0, 1} :
           /\ n = Len(stack) /\ Top = stack[n] /\ IsLoop(stack[n - 1])
           /\ \A i \in 1 .. n - 2 : stack[i].kind \in BaseKinds
           /\ \A i \in 1 .. n : i \in 1 .. n - 2 \/ i = n - 1 \/ i = n
           /\ \A i \in 1 .. n : IsLoop(stack[i]) => i = n - 1
           /\ \A i \in 1 .. n : stack[i].kind = "chain" => i = n
  BY <1>1, ChainOnTop
<1>3. /\ Below \in Seq(Frame) /\ Len(Below) = n - 1 /\ \A i \in 1 .. n - 1 : Below[i] = stack[i]
      /\ stack # << >>
  BY <1>1, <1>2, TopType DEF StepInv, Is
<1>4. Below # << >> /\ Last(Below) = Below[n - 1]
  <2>1. Below # << >>
    BY <1>2, <1>3
  <2> QED BY <1>3, <2>1, LastFront, Zenon
<1>5. n - 1 \in 1 .. n - 1 /\ n - 1 \in 1 .. n
  BY <1>2
<1>6. Last(Below) = stack[n - 1] /\ stack[n - 1] \in Frame
  BY <1>1, <1>2, <1>3, <1>4, <1>5
<1>7. PICK g : g = [Last(Below) EXCEPT !.index = @ + 1]
  OBVIOUS
<1>8. g \in Frame
  BY <1>6, <1>7, TopWith
<1>9. IsLoop(g) /\ g.index = stack[n - 1].index + 1
  BY <1>2, <1>6, <1>7 DEF Frame, IsLoop
<1>10. stack' = Append(Front(Below), g)
  BY <1>7 DEF HookUpChain
<1>11. TopBecomes(Below, stack', g)
  BY <1>3, <1>4, <1>8, <1>10, TopReplaced
<1>12. \A i \in 1 .. n - 2 : i \in 1 .. (n - 1) - 1 /\ i \in 1 .. n - 1
  BY <1>2
<1>13. \A i \in 1 .. n - 2 : stack'[i] = stack[i]
  BY <1>3, <1>11, <1>12 DEF TopBecomes
<1>14. \A i \in 1 .. n - 1 : i \in 1 .. n - 2 \/ i = n - 1
  BY <1>2
<1>15. stack' \in Seq(Frame) /\ Len(stack') = n - 1 /\ stack'[n - 1] = g
  BY <1>3, <1>11 DEF TopBecomes
<1> QED BY <1>1, <1>2, <1>9, <1>13, <1>14, <1>15 DEF Is

(* The loop stays where it is, and so does what it links.                   *)
LoopsKept(s, t) ==
  /\ \A i \in 1 .. Len(s) : s[i].kind = "chain" =>
       i \in 1 .. Len(t) /\ t[i].kind = "chain" /\ t[i].decl = s[i].decl
  /\ \A i \in 1 .. Len(t) : t[i].kind = "chain" => i \in 1 .. Len(s) /\ s[i].kind = "chain"
  /\ \A i \in 1 .. Len(t) : IsLoop(t[i]) =>
       i \in 1 .. Len(s) /\ IsLoop(s[i]) /\ t[i].index = s[i].index

LEMMA ChainsKept ==
  ASSUME NEW s \in Seq(Frame), s # << >>, s[Len(s)].kind = "chain", NEW t, NEW g, ChainBecomes(s, t, g)
  PROVE  LoopsKept(s, t)
<1>1. PICK n \in Nat \ {0} : n = Len(s)
  <2>1. Len(s) \in Nat \ {0}
    BY LastFront, Zenon
  <2> QED BY <2>1
<1>2. \A i \in 1 .. n : i \in 1 .. n - 1 \/ i = n
  BY <1>1
<1>3. CASE Len(t) = n
  BY <1>1, <1>2, <1>3 DEF ChainBecomes, LoopsKept, IsLoop
<1>4. CASE Len(t) = n + 1
  <2>1. \A i \in 1 .. n + 1 : i \in 1 .. n - 1 \/ i = n \/ i = n + 1
    BY <1>1
  <2>2. n \in 1 .. n + 1 /\ \A i \in 1 .. n - 1 : i \in 1 .. n + 1
    BY <1>1
  <2> QED BY <1>1, <1>2, <1>4, <2>1, <2>2 DEF ChainBecomes, LoopsKept, IsLoop
<1> QED BY <1>1, <1>3, <1>4 DEF ChainBecomes

LEMMA LoopsAreKept ==
  ASSUME NEW s, NEW t, LoopsKept(s, t)
  PROVE  /\ \A k : Untaken(s, k) => Untaken(t, k)
         /\ \A f : (\E i \in 1 .. Len(s) : s[i].kind = "chain" /\ s[i].decl = f) =>
                     \E i \in 1 .. Len(t) : t[i].kind = "chain" /\ t[i].decl = f
<1>1. ASSUME NEW k, Untaken(s, k) PROVE Untaken(t, k)
  <2> SUFFICES ASSUME NEW i \in 1 .. Len(t), IsLoop(t[i])
               PROVE  k >= t[i].index /\ (k = t[i].index => \A j \in 1 .. Len(t) : t[j].kind # "chain")
    BY DEF Untaken
  <2>1. i \in 1 .. Len(s) /\ IsLoop(s[i]) /\ t[i].index = s[i].index
    BY DEF LoopsKept
  <2>2. k >= s[i].index /\ (k = s[i].index => \A j \in 1 .. Len(s) : s[j].kind # "chain")
    BY <1>1, <2>1 DEF Untaken
  <2> QED BY <2>1, <2>2 DEF LoopsKept
<1>2. \A f : (\E i \in 1 .. Len(s) : s[i].kind = "chain" /\ s[i].decl = f) =>
                     \E i \in 1 .. Len(t) : t[i].kind = "chain" /\ t[i].decl = f
  BY DEF LoopsKept
<1> QED BY <1>1, <1>2

LEMMA LoopsSameKept ==
  ASSUME NEW s, NEW t, LoopsSame(s, t)
  PROVE  LoopsKept(s, t)
BY DEF LoopsSame, LoopsKept

(* The record that has just been read is from a file, and so is the first   *)
(* of its redeclarations.                                                   *)
LEMMA FirstOfRecord ==
  ASSUME StepInv, NEW d \in Decls \ Parsed
  PROVE  program.first[d] \in Decls \ Parsed /\ IsFirst(program.first[d])
<1>1. program \in Program /\ program \in Programs
  BY ProgramType DEF StepInv, TypeOK
<1>2. program.first[d] \in Decls
  BY <1>1 DEF Program
<1>3. program.first[program.first[d]] = program.first[d]
  BY <1>1, FilesAssumption
<1>4. program.file[d] # Main => program.file[program.first[d]] # Main
  BY <1>1, FilesAssumption
<1> QED BY <1>2, <1>3, <1>4 DEF Parsed, IsFirst

(* How a step changes the loop and its queue.                               *)
LEMMA WhatLoopDoes ==
  ASSUME StepInv, Next, ~program.pcmodules
  PROVE  \/ LoopsKept(stack, stack') /\ UNCHANGED <<pendingChains, known, dug>>
         \/ LoopsKept(stack, stack') /\ RecordRead
         \/ NamesAreDone /\ UNCHANGED <<pendingChains, known, dug>>
         \/ LoadPendingDeclChain \/ HookUpChain \/ ChainsAreDone
<1>1. stack \in Seq(Frame)
  BY DEF StepInv, TypeOK
<1>2. CASE Is("chain") /\ (AskForNext \/ AddToChain)
  <2>1. PICK g : ChainBecomes(stack, stack', g)
    BY <1>2, ChainAsks, ChainAdds
  <2>2. stack # << >> /\ stack[Len(stack)].kind = "chain"
    BY <1>2, TopType DEF Is, StepInv
  <2>3. LoopsKept(stack, stack')
    BY <1>1, <2>1, <2>2, ChainsKept
  <2>4. UNCHANGED <<pendingChains, known, dug>>
    BY <1>2 DEF AskForNext, AddToChain, chainVars
  <2> QED BY <2>3, <2>4
<1>3. CASE LoopsSame(stack, stack')
  <2>1. LoopsKept(stack, stack')
    BY <1>3, LoopsSameKept
  <2>2. Merge => UNCHANGED <<pendingChains, known, dug>>
    BY DEF Merge
  <2> QED BY <2>1, <2>2, WhatChangesChains DEF chainVars, LinkToFirst, AddToChain
<1>4. NamesAreDone => UNCHANGED <<pendingChains, known, dug>>
  BY DEF NamesAreDone, chainVars
<1> QED BY <1>2, <1>3, <1>4, WhatLoopsDo

(* The loop starts at the first entry of the queue.                         *)
LEMMA LoopStarts ==
  ASSUME StepInv, NamesAreDone
  PROVE  \A i \in 1 .. Len(stack') : /\ stack'[i].kind # "chain" /\ stack[i].kind # "chain"
                                     /\ i \in 1 .. Len(stack)
                                     /\ IsLoop(stack'[i]) => stack'[i].index = 1
<1>1. PICK g : g = [Top EXCEPT !.stage = "chains", !.index = 1]
  OBVIOUS
<1>2. At("finish", "names") /\ stack' = WithTop(g) /\ stack \in Seq(Frame)
  BY <1>1 DEF NamesAreDone, StepInv, TypeOK
<1>3. stack # << >> /\ Top.kind = "finish" /\ Top \in Frame
  BY <1>2, TopType DEF StepInv, At, Is
<1>4. g \in Frame /\ IsLoop(g) /\ g.index = 1 /\ g.kind = "finish"
  BY <1>1, <1>3, TopWith DEF Frame, IsLoop
<1>5. TopBecomes(stack, stack', g)
  BY <1>2, <1>3, <1>4, TopReplaced DEF WithTop, Below
<1>6. PICK n \in Nat \ {0} : /\ n = Len(stack) /\ \A i \in 1 .. n - 1 : stack[i].kind \in BaseKinds
                             /\ \A i \in 1 .. n : stack[i].kind # "chain"
  BY <1>3, LoopOnTop
<1>7. /\ Len(stack') = n /\ stack'[n] = g /\ \A i \in 1 .. n - 1 : stack'[i] = stack[i]
      /\ \A i \in 1 .. n : i \in 1 .. n - 1 \/ i = n
  BY <1>5, <1>6 DEF TopBecomes
<1> QED BY <1>4, <1>6, <1>7 DEF BaseKinds, IsLoop

(* The loop takes the next entry: a chain is on top of it.                  *)
LEMMA LoopTakes ==
  ASSUME StepInv, LoadPendingDeclChain
  PROVE  LET id == pendingChains[Top.index]
             S == SearchDecls(id)
             local == LocalRedeclarations(S)
         IN  \E n \in Nat \ {0} : \E g :
               /\ n = Len(stack) /\ Top = stack[n] /\ IsLoop(stack[n]) /\ Top.index \in Nat
               /\ Top.index <= Len(pendingChains)
               /\ Len(stack') = n + 1 /\ stack'[n + 1] = g /\ \A i \in 1 .. n : stack'[i] = stack[i]
               /\ g.kind = "chain" /\ g.decl = id /\ g.todo = S \cup local /\ g.current = NoDecl
               /\ \A i \in 1 .. n : stack[i].kind # "chain"
               /\ \A i \in 1 .. n : IsLoop(stack[i]) => i = n
               /\ \A i \in 1 .. n + 1 : i \in 1 .. n \/ i = n + 1
               /\ UNCHANGED <<pendingChains, known, loaded, redecls>>
               /\ dug' = dug \cup {<<program.file[d], program.first[d]>> : d \in local}
<1> DEFINE id == pendingChains[Top.index]
           S == SearchDecls(id)
           local == LocalRedeclarations(S)
<1>1. PICK g : g = [NewFrame("chain", id) EXCEPT !.todo = S \cup local]
  OBVIOUS
<1>2. g.kind = "chain" /\ g.decl = id /\ g.todo = S \cup local /\ g.current = NoDecl
  BY <1>1 DEF NewFrame
<1>3. /\ At("finish", "chains") /\ Top.index <= Len(pendingChains)
      /\ UNCHANGED <<pendingChains, known, loaded, redecls>>
      /\ stack' = Append(stack, g)
      /\ dug' = dug \cup {<<program.file[d], program.first[d]>> : d \in local}
  BY <1>1 DEF LoadPendingDeclChain
<1>4. stack # << >> /\ Top.kind = "finish" /\ Top.stage = "chains" /\ Top.index \in Nat
      /\ stack \in Seq(Frame)
  BY <1>3, TopType, FieldTypes DEF StepInv, TypeOK, At, Is
<1>5. PICK n \in Nat \ {0} : /\ n = Len(stack) /\ \A i \in 1 .. n : stack[i].kind # "chain"
                             /\ \A i \in 1 .. n : stack[i].kind = "finish" => i = n
                             /\ Top = stack[n]
  BY <1>4, LoopOnTop
<1>6. /\ Len(stack') = n + 1 /\ stack'[n + 1] = g /\ \A i \in 1 .. n : stack'[i] = stack[i]
      /\ \A i \in 1 .. n + 1 : i \in 1 .. n \/ i = n + 1
  BY <1>3, <1>4, <1>5
<1>7. IsLoop(stack[n]) /\ \A i \in 1 .. n : IsLoop(stack[i]) => i = n
  BY <1>4, <1>5 DEF IsLoop
<1> HIDE DEF id, S, local
<1> QED BY <1>2, <1>3, <1>4, <1>5, <1>6, <1>7 DEF id, S, local

(* The loop ends when no entry is left.                                     *)
LEMMA LoopEnds ==
  ASSUME StepInv, ChainsAreDone
  PROVE  /\ \A f : ~PendingFor(stack, pendingChains, f)
         /\ \A i \in 1 .. Len(stack) : stack[i].kind # "chain"
         /\ \A i \in 1 .. Len(stack') : ~IsLoop(stack'[i])
<1>1. At("finish", "chains") /\ Top.index > Len(pendingChains) /\ stack \in Seq(Frame)
      /\ Len(pendingChains) \in Nat
  BY DEF ChainsAreDone, StepInv, TypeOK
<1>2. stack # << >> /\ Top.kind = "finish" /\ Top.stage = "chains" /\ Top \in Frame /\ Top.index \in Nat
  BY <1>1, TopType, FieldTypes DEF StepInv, At, Is
<1>3. PICK n \in Nat \ {0} : /\ n = Len(stack) /\ \A i \in 1 .. n : stack[i].kind # "chain"
                             /\ \A i \in 1 .. n : stack[i].kind = "finish" => i = n
                             /\ Top = stack[n]
  BY <1>2, LoopOnTop
<1>4. ASSUME NEW f, PendingFor(stack, pendingChains, f) PROVE FALSE
  <2>1. PICK k \in 1 .. Len(pendingChains) : Untaken(stack, k)
    BY <1>4 DEF PendingFor
  <2>2. n \in 1 .. Len(stack) /\ IsLoop(stack[n])
    BY <1>2, <1>3 DEF IsLoop
  <2>3. k >= Top.index
    BY <1>3, <2>1, <2>2 DEF Untaken
  <2> QED BY <1>1, <1>2, <2>1, <2>3
<1>5. \A i \in 1 .. Len(stack') : ~IsLoop(stack'[i])
  <2>1. PICK g : g = [Top EXCEPT !.stage = "macros", !.index = 1]
    OBVIOUS
  <2>2. g \in Frame /\ ~IsLoop(g)
    BY <1>2, <2>1, TopWith DEF Frame, IsLoop
  <2>3. TopBecomes(stack, stack', g)
    BY <1>1, <1>2, <2>1, <2>2, TopReplaced DEF ChainsAreDone, WithTop, Below
  <2>4. \A i \in 1 .. n : i \in 1 .. n - 1 \/ i = n
    BY <1>3
  <2>5. \A i \in 1 .. n - 1 : i \in 1 .. n /\ i # n
    BY <1>3
  <2> QED BY <1>3, <2>2, <2>3, <2>4, <2>5 DEF TopBecomes, IsLoop
<1> QED BY <1>3, <1>4, <1>5

(* An entry of the queue stays until the loop takes it.                     *)
LEMMA PendingStays ==
  ASSUME StepInv, LoopInv, Next, ~program.pcmodules, NEW f, PendingFor(stack, pendingChains, f)
  PROVE  \/ PendingFor(stack', pendingChains', f)
         \/ LoadPendingDeclChain /\ f = pendingChains[Top.index]
<1>1. pendingChains \in Seq(Decls) /\ Len(pendingChains) \in Nat
      /\ \A i \in 1 .. Len(stack) : stack[i] \in Frame
  BY DEF StepInv, TypeOK
<1>2. PICK k \in 1 .. Len(pendingChains) : pendingChains[k] = f /\ Untaken(stack, k)
  BY DEF PendingFor
<1>3. k \in Nat \ {0}
  BY <1>2
<1>4. CASE LoopsKept(stack, stack') /\ (UNCHANGED pendingChains \/ RecordRead)
  <2>1. Untaken(stack', k)
    BY <1>2, <1>4, LoopsAreKept
  <2>2. CASE UNCHANGED pendingChains
    BY <1>2, <2>1, <2>2 DEF PendingFor
  <2>3. CASE RecordRead
    <3>1. PICK d : UNCHANGED pendingChains \/ pendingChains' = Append(pendingChains, d)
      BY <2>3 DEF RecordRead
    <3>2. k \in 1 .. Len(pendingChains') /\ pendingChains'[k] = f
      BY <1>1, <1>2, <3>1
    <3> QED BY <2>1, <3>2 DEF PendingFor
  <2> QED BY <1>4, <2>2, <2>3
<1>5. CASE NamesAreDone /\ UNCHANGED pendingChains
  <2>1. \A i \in 1 .. Len(stack') : stack'[i].kind # "chain" /\ (IsLoop(stack'[i]) => stack'[i].index = 1)
    BY <1>5, LoopStarts
  <2>2. Untaken(stack', k)
    BY <1>3, <2>1 DEF Untaken
  <2> QED BY <1>2, <1>5, <2>2 DEF PendingFor
<1>6. CASE LoadPendingDeclChain
  <2>1. PICK n \in Nat \ {0} :
               /\ n = Len(stack) /\ Top = stack[n] /\ IsLoop(stack[n]) /\ Top.index \in Nat
               /\ Len(stack') = n + 1 /\ stack'[n + 1].kind = "chain"
               /\ \A i \in 1 .. n : stack'[i] = stack[i]
               /\ \A i \in 1 .. n : IsLoop(stack[i]) => i = n
               /\ \A i \in 1 .. n + 1 : i \in 1 .. n \/ i = n + 1
               /\ UNCHANGED pendingChains
    BY <1>6, LoopTakes
  <2>2. k >= Top.index
    BY <1>2, <2>1 DEF Untaken
  <2>3. CASE k = Top.index
    BY <1>2, <1>6, <2>3
  <2>4. CASE k # Top.index
    <3>1. \A i \in 1 .. n + 1 : IsLoop(stack'[i]) => stack'[i].index = Top.index
      BY <2>1 DEF IsLoop
    <3>2. Untaken(stack', k)
      <4> SUFFICES ASSUME NEW i \in 1 .. Len(stack'), IsLoop(stack'[i])
                   PROVE  /\ k >= stack'[i].index
                          /\ k = stack'[i].index => \A j \in 1 .. Len(stack') : stack'[j].kind # "chain"
        BY DEF Untaken
      <4>1. stack'[i].index = Top.index
        BY <2>1, <3>1
      <4> QED BY <2>2, <2>4, <4>1
    <3> QED BY <1>2, <2>1, <3>2 DEF PendingFor
  <2> QED BY <2>3, <2>4
<1>7. CASE HookUpChain
  <2>1. PICK n \in Nat \ {0, 1} :
           /\ n = Len(stack) /\ stack[n].kind = "chain" /\ IsLoop(stack[n - 1])
           /\ Len(stack') = n - 1 /\ stack'[n - 1].kind = "finish"
           /\ stack'[n - 1].index = stack[n - 1].index + 1
           /\ \A i \in 1 .. n - 2 : stack'[i] = stack[i] /\ stack[i].kind \in BaseKinds
           /\ \A i \in 1 .. n - 1 : i \in 1 .. n - 2 \/ i = n - 1
    BY <1>7, HookShape DEF IsLoop
  <2>2. n - 1 \in 1 .. n /\ n \in 1 .. n
    BY <2>1
  <2>3. PICK m \in Nat : m = stack[n - 1].index
    BY <1>1, <2>1, <2>2, FieldTypes
  <2>4. k >= m /\ k # m
    BY <1>2, <2>1, <2>2, <2>3 DEF Untaken
  <2>5. k >= m + 1
    BY <1>3, <2>3, <2>4
  <2>6. \A i \in 1 .. Len(stack') : stack'[i].kind # "chain" /\ (IsLoop(stack'[i]) => k >= stack'[i].index)
    BY <2>1, <2>3, <2>5 DEF BaseKinds, IsLoop
  <2>7. Untaken(stack', k)
    BY <2>6 DEF Untaken
  <2>8. pendingChains' = pendingChains
    BY <1>7 DEF HookUpChain
  <2> QED BY <1>2, <2>7, <2>8 DEF PendingFor
<1>8. ~ChainsAreDone
  BY LoopEnds
<1> QED BY <1>4, <1>5, <1>6, <1>7, <1>8, WhatLoopDoes

(* An entry that is appended is one that the loop will come to.             *)
LEMMA PendingAdded ==
  ASSUME StepInv, LoopInv, LoopsKept(stack, stack'), NEW f, pendingChains' = Append(pendingChains, f)
  PROVE  PendingFor(stack', pendingChains', f)
<1>1. pendingChains \in Seq(Decls) /\ \A i \in 1 .. Len(stack) : stack[i] \in Frame
  BY DEF StepInv, TypeOK
<1>2. PICK l \in Nat : l = Len(pendingChains)
  BY <1>1
<1>3. Untaken(stack', l + 1)
  <2> SUFFICES ASSUME NEW i \in 1 .. Len(stack'), IsLoop(stack'[i])
               PROVE  /\ l + 1 >= stack'[i].index
                      /\ l + 1 = stack'[i].index => \A j \in 1 .. Len(stack') : stack'[j].kind # "chain"
    BY DEF Untaken
  <2>1. i \in 1 .. Len(stack) /\ IsLoop(stack[i]) /\ stack'[i].index = stack[i].index
    BY DEF LoopsKept
  <2>2. /\ stack[i].index <= l + 1
        /\ (\E j \in 1 .. Len(stack) : stack[j].kind = "chain") => stack[i].index <= l
    BY <1>2, <2>1 DEF LoopInv
  <2>3. PICK m \in Nat : m = stack[i].index
    BY <1>1, <2>1, FieldTypes
  <2>4. l + 1 = m => ~\E j \in 1 .. Len(stack) : stack[j].kind = "chain"
    BY <2>2, <2>3
  <2>5. l + 1 = m => \A j \in 1 .. Len(stack') : stack'[j].kind # "chain"
    BY <2>4 DEF LoopsKept
  <2> QED BY <2>1, <2>2, <2>3, <2>5
<1>4. l + 1 \in 1 .. Len(pendingChains') /\ pendingChains'[l + 1] = f
  BY <1>1, <1>2
<1> QED BY <1>3, <1>4 DEF PendingFor

LEMMA QueuedNext ==
  ASSUME StepInv, LoopInv, Next, ~program.pcmodules
  PROVE  \A k \in 1 .. Len(pendingChains') : pendingChains'[k] \in Decls \ Parsed /\ IsFirst(pendingChains'[k])
<1>1. pendingChains \in Seq(Decls)
  BY DEF StepInv, TypeOK
<1>2. \A k \in 1 .. Len(pendingChains) : pendingChains[k] \in Decls \ Parsed /\ IsFirst(pendingChains[k])
  BY DEF LoopInv
<1>3. CASE RecordRead
  <2>1. stack # << >> /\ Top.decl \in Decls \ Parsed
    BY <1>3, TopType DEF StepInv, RecordRead, At, Is, CallOK
  <2>2. program.first[Top.decl] \in Decls \ Parsed /\ IsFirst(program.first[Top.decl])
    BY <2>1, FirstOfRecord
  <2>3. PICK d \in Decls \ Parsed : /\ IsFirst(d)
                                    /\ UNCHANGED pendingChains \/ pendingChains' = Append(pendingChains, d)
    BY <1>3, <2>2 DEF RecordRead
  <2>4. CASE pendingChains' = Append(pendingChains, d)
    <3>1. PICK l \in Nat : l = Len(pendingChains)
      BY <1>1
    <3>2. /\ Len(pendingChains') = l + 1 /\ pendingChains'[l + 1] = d
          /\ \A k \in 1 .. l : pendingChains'[k] = pendingChains[k]
          /\ \A k \in 1 .. l + 1 : k \in 1 .. l \/ k = l + 1
      BY <1>1, <2>4, <3>1
    <3> QED BY <1>2, <2>3, <3>1, <3>2
  <2> QED BY <1>2, <2>3, <2>4
<1>4. CASE ChainsAreDone
  BY <1>4 DEF ChainsAreDone
<1>5. CASE UNCHANGED pendingChains
  BY <1>2, <1>5
<1> QED BY <1>3, <1>4, <1>5, WhatLoopDoes DEF LoadPendingDeclChain, HookUpChain

(* The loop is nowhere behind the end of the queue.                         *)
InQueue(s, l) ==
  \A i \in 1 .. Len(s) : IsLoop(s[i]) =>
    s[i].index <= l + 1 /\ ((\E j \in 1 .. Len(s) : s[j].kind = "chain") => s[i].index <= l)

LEMMA InQueueNext ==
  ASSUME StepInv, LoopInv, Next, ~program.pcmodules
  PROVE  InQueue(stack', Len(pendingChains'))
<1>1. /\ pendingChains \in Seq(Decls) /\ InQueue(stack, Len(pendingChains))
      /\ \A i \in 1 .. Len(stack) : stack[i] \in Frame
  <2>1. pendingChains \in Seq(Decls) /\ \A i \in 1 .. Len(stack) : stack[i] \in Frame
    BY DEF StepInv, TypeOK
  <2>2. InQueue(stack, Len(pendingChains))
    BY DEF LoopInv, InQueue
  <2> QED BY <2>1, <2>2
<1>2. PICK l \in Nat : l = Len(pendingChains)
  BY <1>1
<1>3. CASE LoopsKept(stack, stack') /\ (UNCHANGED pendingChains \/ RecordRead)
  <2>1. PICK x \in Nat : x = Len(pendingChains') /\ l <= x
    <3>1. CASE RecordRead
      <4>1. \E d : UNCHANGED pendingChains \/ pendingChains' = Append(pendingChains, d)
        BY <3>1 DEF RecordRead
      <4> QED BY <1>1, <1>2, <4>1
    <3>2. CASE UNCHANGED pendingChains
      BY <1>2, <3>2
    <3> QED BY <1>3, <3>1, <3>2
  <2> SUFFICES ASSUME NEW i \in 1 .. Len(stack'), IsLoop(stack'[i])
               PROVE  /\ stack'[i].index <= x + 1
                      /\ (\E j \in 1 .. Len(stack') : stack'[j].kind = "chain") => stack'[i].index <= x
    BY <2>1 DEF InQueue
  <2>2. i \in 1 .. Len(stack) /\ IsLoop(stack[i]) /\ stack'[i].index = stack[i].index
    BY <1>3 DEF LoopsKept
  <2>3. /\ stack[i].index <= l + 1
        /\ (\E j \in 1 .. Len(stack) : stack[j].kind = "chain") => stack[i].index <= l
    BY <1>1, <1>2, <2>2 DEF InQueue
  <2>4. (\E j \in 1 .. Len(stack') : stack'[j].kind = "chain") => \E j \in 1 .. Len(stack) : stack[j].kind = "chain"
    BY <1>3 DEF LoopsKept
  <2>5. PICK m \in Nat : m = stack[i].index
    BY <1>1, <2>2, FieldTypes
  <2>6. m <= l + 1 => m <= x + 1
    BY <2>1
  <2>7. m <= l => m <= x
    BY <2>1
  <2> QED BY <2>2, <2>3, <2>4, <2>5, <2>6, <2>7
<1>4. CASE NamesAreDone /\ UNCHANGED pendingChains
  <2>1. \A i \in 1 .. Len(stack') : stack'[i].kind # "chain" /\ (IsLoop(stack'[i]) => stack'[i].index = 1)
    BY <1>4, LoopStarts
  <2> QED BY <1>2, <1>4, <2>1 DEF InQueue
<1>5. CASE LoadPendingDeclChain
  <2>1. PICK n \in Nat \ {0} :
               /\ Top = stack[n] /\ Top.index \in Nat /\ Top.index <= Len(pendingChains)
               /\ Len(stack') = n + 1 /\ stack'[n + 1].kind = "chain"
               /\ \A i \in 1 .. n : stack'[i] = stack[i]
               /\ \A i \in 1 .. n : IsLoop(stack[i]) => i = n
               /\ \A i \in 1 .. n + 1 : i \in 1 .. n \/ i = n + 1
               /\ UNCHANGED pendingChains
    BY <1>5, LoopTakes
  <2>2. \A i \in 1 .. n + 1 : IsLoop(stack'[i]) => stack'[i].index = Top.index
    BY <2>1 DEF IsLoop
  <2>3. Top.index <= l /\ Top.index <= l + 1
    BY <1>2, <2>1
  <2> QED BY <1>2, <2>1, <2>2, <2>3 DEF InQueue
<1>6. CASE HookUpChain
  <2>1. PICK n \in Nat \ {0, 1} :
           /\ n = Len(stack) /\ stack[n].kind = "chain" /\ IsLoop(stack[n - 1])
           /\ Len(stack') = n - 1 /\ stack'[n - 1].kind = "finish"
           /\ stack'[n - 1].index = stack[n - 1].index + 1
           /\ \A i \in 1 .. n - 2 : stack'[i] = stack[i] /\ stack[i].kind \in BaseKinds
           /\ \A i \in 1 .. n - 1 : i \in 1 .. n - 2 \/ i = n - 1
    BY <1>6, HookShape DEF IsLoop
  <2>2. n - 1 \in 1 .. n /\ n \in 1 .. n
    BY <2>1
  <2>3. PICK m \in Nat : m = stack[n - 1].index
    BY <1>1, <2>1, <2>2, FieldTypes
  <2>4. m <= l
    BY <1>1, <1>2, <2>1, <2>2, <2>3 DEF InQueue
  <2>5. m + 1 <= l + 1
    BY <2>3, <2>4
  <2>6. \A i \in 1 .. Len(stack') : stack'[i].kind # "chain" /\ (IsLoop(stack'[i]) => stack'[i].index = m + 1)
    BY <2>1, <2>3 DEF BaseKinds, IsLoop
  <2>7. pendingChains' = pendingChains
    BY <1>6 DEF HookUpChain
  <2> QED BY <1>2, <2>5, <2>6, <2>7 DEF InQueue
<1>7. CASE ChainsAreDone
  BY <1>7, LoopEnds DEF InQueue
<1> QED BY <1>3, <1>4, <1>5, <1>6, <1>7, WhatLoopDoes

(* An entry that has been noted is in the queue, or it is being linked.     *)
LEMMA KnownNext ==
  ASSUME StepInv, LoopInv, Next, ~program.pcmodules, NEW f \in known'
  PROVE  \/ PendingFor(stack', pendingChains', f)
         \/ \E i \in 1 .. Len(stack') : stack'[i].kind = "chain" /\ stack'[i].decl = f
<1>1. CASE f \in known /\ PendingFor(stack, pendingChains, f)
  <2>1. CASE LoadPendingDeclChain /\ f = pendingChains[Top.index]
    <3>1. PICK n \in Nat \ {0} : /\ Len(stack') = n + 1 /\ stack'[n + 1].kind = "chain"
                                 /\ stack'[n + 1].decl = f
      BY <2>1, LoopTakes
    <3> QED BY <3>1
  <2> QED BY <1>1, <2>1, PendingStays
<1>2. CASE f \in known /\ \E i \in 1 .. Len(stack) : stack[i].kind = "chain" /\ stack[i].decl = f
  <2>1. CASE LoopsKept(stack, stack')
    BY <1>2, <2>1, LoopsAreKept
  <2>2. CASE NamesAreDone
    <3>1. Is("finish")
      BY <2>2 DEF NamesAreDone, At, Is
    <3> QED BY <1>2, <3>1, LoopOnTop DEF Is
  <2>3. CASE LoadPendingDeclChain
    BY <1>2, <2>3, LoopTakes
  <2>4. CASE HookUpChain
    <3>1. f # Top.decl
      BY <2>4 DEF HookUpChain, KnownAfter
    <3> QED BY <1>2, <2>4, <3>1, HookShape
  <2>5. CASE ChainsAreDone
    BY <1>2, <2>5, LoopEnds
  <2> QED BY <2>1, <2>2, <2>3, <2>4, <2>5, WhatLoopDoes
<1>3. CASE f \notin known
  <2>1. LoopsKept(stack, stack') /\ RecordRead
    BY <1>3, WhatLoopDoes DEF LoadPendingDeclChain, HookUpChain, KnownAfter, ChainsAreDone
  <2>2. pendingChains' = Append(pendingChains, f)
    BY <1>3, <2>1 DEF RecordRead
  <2> QED BY <2>1, <2>2, PendingAdded
<1> QED BY <1>1, <1>2, <1>3 DEF LoopInv

LEMMA LoopNext ==
  ASSUME StepInv, LoopInv, Next, ~program.pcmodules
  PROVE  LoopInv'
<1>1. program' = program
  BY WhatChangesFiles
<1>2. \A k \in 1 .. Len(pendingChains') : pendingChains'[k] \in Decls \ Parsed' /\ IsFirst(pendingChains[k])'
  BY <1>1, QueuedNext DEF Parsed, IsFirst
<1>3. InQueue(stack', Len(pendingChains'))
  BY InQueueNext
<1>4. \A f \in known' : \/ PendingFor(stack', pendingChains', f)
                        \/ \E i \in 1 .. Len(stack') : stack'[i].kind = "chain" /\ stack'[i].decl = f
  BY KnownNext
<1> QED BY <1>2, <1>3, <1>4 DEF LoopInv, InQueue, PendingFor, Untaken, IsLoop, IsFirst

-----------------------------------------------------------------------------
(* Which chains have been looked for                                        *)

(* A declaration is being read from when it is loaded to the end of its     *)
(* record.                                                                  *)
LEMMA ReadingNext ==
  ASSUME StepInv, Next, NEW d
  PROVE  /\ Reading(stack', d) => Reading(stack, d) \/ d \in loaded' \ loaded
         /\ Reading(stack, d) => Reading(stack', d) \/ (RecordRead /\ d = Top.decl)
         /\ d \in loaded' \ loaded => Reading(stack', d)
<1>1. CASE ReadingSame(stack, stack') /\ loaded' = loaded
  BY <1>1, ReadingIsSame
<1>2. ASSUME NEW t, NEW e, RecordStep(t, e)
      PROVE  /\ Reading(stack', d) => Reading(stack, d) \/ d \in loaded' \ loaded
             /\ Reading(stack, d) => Reading(stack', d)
             /\ d \in loaded' \ loaded => Reading(stack', d)
  <2>1. PICK g \in Frame : Grown(stack, stack', g) /\ g.kind = "record" /\ g.stage = "first" /\ g.decl = e
    BY <1>2, RecordShape
  <2>2. PICK n \in Nat : n = Len(stack)
    BY DEF StepInv, TypeOK
  <2>3. /\ Len(stack') = n + 1 /\ stack'[n + 1] = g
        /\ \A i \in 1 .. n : IsReading(stack[i], d) <=> IsReading(stack'[i], d)
    BY <2>1, <2>2, SameReading DEF Grown
  <2>4. IsReading(stack'[n + 1], d) <=> d = e
    BY <2>1, <2>3 DEF IsReading
  <2>5. \A i \in 1 .. n + 1 : i \in 1 .. n \/ i = n + 1
    BY <2>2
  <2>6. n + 1 \in 1 .. n + 1 /\ \A i \in 1 .. n : i \in 1 .. n + 1
    BY <2>2
  <2>7. d \in loaded' \ loaded <=> d = e
    BY <1>2 DEF RecordStep
  <2> QED BY <2>2, <2>3, <2>4, <2>5, <2>6, <2>7 DEF Reading
<1>3. CASE RecordRead
  <2>1. PICK g \in Frame : TopBecomes(stack, stack', g) /\ g.stage = "done" /\ stack # << >>
    BY <1>3, SpecialShape DEF Special, RecordRead, FinishNested, GuardEnds, FinishPendingActions,
       FinishedDeserializing, PassInterestingDecl, AllPassed, StartProgram, DefinitionsStarted, At, Is,
       Idle
  <2>2. PICK n \in Nat \ {0} : n = Len(stack) /\ Top = stack[n]
    BY <2>1, TopType DEF StepInv
  <2>3. /\ Len(stack') = n /\ ~IsReading(stack'[n], d) /\ \A i \in 1 .. n - 1 : stack'[i] = stack[i]
        /\ \A i \in 1 .. n : i \in 1 .. n - 1 \/ i = n
    BY <2>1, <2>2 DEF TopBecomes, IsReading
  <2>4. IsReading(stack[n], d) => d = Top.decl
    BY <2>2 DEF IsReading
  <2>5. loaded' = loaded
    BY <1>3 DEF RecordRead
  <2>6. ASSUME Reading(stack', d) PROVE Reading(stack, d)
    <3>1. PICK i \in 1 .. n : IsReading(stack'[i], d)
      BY <2>3, <2>6 DEF Reading
    <3>2. i \in 1 .. n - 1
      BY <2>3, <3>1
    <3> QED BY <2>2, <2>3, <3>1, <3>2 DEF Reading
  <2>7. ASSUME Reading(stack, d), d # Top.decl PROVE Reading(stack', d)
    <3>1. PICK i \in 1 .. n : IsReading(stack[i], d)
      BY <2>2, <2>7 DEF Reading
    <3>2. i \in 1 .. n - 1
      BY <2>3, <2>4, <2>7, <3>1
    <3> QED BY <2>3, <3>1, <3>2 DEF Reading
  <2> QED BY <1>3, <2>5, <2>6, <2>7
<1> QED BY <1>1, <1>2, <1>3, WhatIsRead

LEMMA RedeclsChange ==
  ASSUME StepInv, Next
  PROVE  /\ \A d \in redecls' \ redecls : LinkToFirst /\ d = Top.decl /\ Reading(stack, d) /\ d \notin Parsed
         /\ \A d \in redecls \ redecls' : AddToChain /\ d = Top.current
         /\ wired \subseteq wired'
<1>1. CASE LinkToFirst
  <2>1. /\ stack # << >> /\ Top.kind = "record" /\ Top.stage = "link"
        /\ redecls' = redecls \cup {Top.decl} /\ wired' = wired
    BY <1>1 DEF LinkToFirst, At, Is
  <2>2. Len(stack) \in Nat \ {0} /\ Top = stack[Len(stack)] /\ Top.decl \notin Parsed
    BY <2>1, TopType DEF StepInv, CallOK
  <2>3. Reading(stack, Top.decl)
    BY <2>1, <2>2 DEF Reading, IsReading
  <2> QED BY <1>1, <2>1, <2>2, <2>3
<1>2. CASE ~LinkToFirst
  BY <1>2, WhatChangesChains DEF chainVars, Merge, RecordRead, LoadPendingDeclChain, AddToChain,
     HookUpChain, ChainsAreDone
<1> QED BY <1>1, <1>2

LEMMA SettledStays ==
  ASSUME StepInv, Next, NEW d, Settled(d)
  PROVE  Settled(d)'
<1>1. d \in loaded /\ ~Reading(stack, d) /\ d \notin redecls
  BY DEF Settled
<1>2. d \in loaded' /\ ~Reading(stack', d)
  BY <1>1, ReadingNext, LoadedGrows
<1>3. d \notin redecls'
  BY <1>1, RedeclsChange
<1> QED BY <1>2, <1>3 DEF Settled, Reading, IsReading

LEMMA InChainNext ==
  ASSUME StepInv, Next, NEW d \in Decls, InChain(stack, d)
  PROVE  InChain(stack', d) \/ Settled(d)'
<1>1. PICK j \in 1 .. Len(stack) : stack[j].kind = "chain" /\ d \in stack[j].todo \cup {stack[j].current}
  BY DEF InChain
<1>2. CASE LoopsSame(stack, stack')
  BY <1>2, LoopsAreSame
<1>3. ~NamesAreDone
  <2> SUFFICES ASSUME NamesAreDone PROVE FALSE
    OBVIOUS
  <2>1. Is("finish")
    BY DEF NamesAreDone, At, Is
  <2> QED BY <1>1, <2>1, LoopOnTop DEF Is
<1>4. ~LoadPendingDeclChain
  BY <1>1, LoopTakes
<1>5. CASE Is("chain") /\ (AskForNext \/ AddToChain \/ HookUpChain)
  <2>1. PICK n \in Nat \ {0, 1} : n = Len(stack) /\ Top = stack[n] /\ j = n
    BY <1>1, <1>5, ChainOnTop
  <2>2. d \in Top.todo \cup {Top.current} /\ d # NoDecl
    BY <1>1, <2>1, DeserializationAssumption
  <2>3. ~HookUpChain
    BY <2>2 DEF HookUpChain
  <2>4. ASSUME NEW g, ChainBecomes(stack, stack', g), d \in g.todo \cup {g.current}
        PROVE  InChain(stack', d)
    <3>1. stack'[n] = g /\ g.kind = "chain" /\ n \in 1 .. Len(stack')
      BY <2>1, <2>4 DEF ChainBecomes
    <3> QED BY <2>4, <3>1 DEF InChain
  <2>5. CASE AskForNext
    <3>1. PICK e \in Top.todo, g \in Frame : /\ Top.current = NoDecl /\ g.current = e
                                             /\ g.todo = Top.todo \ {e} /\ ChainBecomes(stack, stack', g)
      BY <1>5, <2>5, ChainAsks
    <3> QED BY <2>2, <2>4, <3>1
  <2>6. CASE AddToChain
    <3>1. PICK g \in Frame : /\ g.current = NoDecl /\ g.todo = Top.todo /\ ChainBecomes(stack, stack', g)
                             /\ loaded' = loaded /\ redecls' = redecls \ {Top.current}
      BY <2>6, ChainAdds
    <3>2. CASE d \in Top.todo
      BY <2>4, <3>1, <3>2
    <3>3. CASE d = Top.current
      <4>1. d \in loaded' /\ d \notin redecls'
        BY <1>5, <2>2, <3>1, <3>3, TopType DEF StepInv, CallOK, Is
      <4>2. ~Reading(stack, d)
        BY <1>5, NoRecords DEF Is, Reading
      <4>3. ~Reading(stack', d)
        BY <3>1, <4>2, ReadingNext
      <4> QED BY <4>1, <4>3 DEF Settled, Reading, IsReading
    <3> QED BY <2>2, <3>2, <3>3
  <2> QED BY <1>5, <2>3, <2>5, <2>6
<1> QED BY <1>2, <1>3, <1>4, <1>5, WhatLoopsDo

(* What is taken from the queue is searched in all files at once: all       *)
(* declarations of the chain are found, or have been found before.          *)
LEMMA WhatIsTaken ==
  ASSUME StepInv, LoopInv, WithoutModules, ~program.pcmodules, LoadPendingDeclChain
  PROVE  \E n \in Nat \ {0} : \E g :
           /\ n = Len(stack) /\ Len(stack') = n + 1 /\ stack'[n + 1] = g
           /\ \A i \in 1 .. n : stack'[i] = stack[i] /\ stack[i].kind # "chain"
           /\ \A i \in 1 .. n + 1 : i \in 1 .. n \/ i = n + 1
           /\ g.kind = "chain" /\ g.decl = pendingChains[Top.index] /\ g.current = NoDecl
           /\ g.decl \in Decls \ Parsed /\ IsFirst(g.decl)
           /\ \A d \in g.todo : program.first[d] = g.decl
           /\ \A d \in Decls \ Parsed : program.first[d] = g.decl =>
                /\ d \in g.todo \/ (~IsFirst(d) /\ IsDug(dug, d))
                /\ IsFirst(d) \/ IsDug(dug', d)
           /\ \A d \in Decls \ Parsed : IsDug(dug', d) =>
                IsDug(dug, d) \/ program.first[d] = g.decl
           /\ dug \subseteq dug'
<1> DEFINE id == pendingChains[Top.index]
           S == SearchDecls(id)
           local == LocalRedeclarations(S)
<1>1. PICK n, g :
               /\ n \in Nat \ {0}
               /\ n = Len(stack) /\ Top = stack[n] /\ IsLoop(stack[n]) /\ Top.index \in Nat
               /\ Top.index <= Len(pendingChains)
               /\ Len(stack') = n + 1 /\ stack'[n + 1] = g /\ \A i \in 1 .. n : stack'[i] = stack[i]
               /\ g.kind = "chain" /\ g.decl = id /\ g.todo = S \cup local /\ g.current = NoDecl
               /\ \A i \in 1 .. n : stack[i].kind # "chain"
               /\ \A i \in 1 .. n + 1 : i \in 1 .. n \/ i = n + 1
               /\ dug' = dug \cup {<<program.file[d], program.first[d]>> : d \in local}
  BY LoopTakes
<1>2. Top.index \in 1 .. Len(pendingChains)
  <2>1. n \in 1 .. Len(stack) /\ CallOK(stack[n], loaded)
    BY <1>1 DEF StepInv, StackInv, StackOK
  <2>2. Top.index # 0
    BY <1>1, <2>1 DEF CallOK
  <2> QED BY <1>1, <2>2
<1>3. id \in Decls \ Parsed /\ IsFirst(id)
  BY <1>2 DEF LoopInv
<1>4. canonical[id] = id /\ merged[id] = << >>
  BY <1>3 DEF WithoutModules
<1>5. S = {id}
  <2>1. Canon(id) = id
    BY <1>4 DEF Canon
  <2>2. Range(<< >>) = {}
    BY DEF Range
  <2> QED BY <1>4, <2>1, <2>2 DEF SearchDecls
<1>6. local = {d \in InFiles(files) : program.first[d] = id /\ d # id /\ ~IsDug(dug, d)}
  BY <1>5 DEF LocalRedeclarations, IsDug
<1>7. program.first[id] = id
  BY <1>3 DEF IsFirst
<1>8. ASSUME NEW d \in Decls \ Parsed PROVE d \in InFiles(files)
  <2>1. program \in Programs /\ files = program.initial
    BY DEF StepInv, TypeOK, WithoutModules
  <2>2. program.file[d] \in program.initial \cup {Main}
    BY <1>8, <2>1, FilesAssumption
  <2> QED BY <1>8, <2>1, <2>2 DEF Parsed, InFiles
<1> HIDE DEF id, S, local
<1>9. \A d \in g.todo : program.first[d] = id
  BY <1>1, <1>5, <1>6, <1>7
<1>10. ASSUME NEW d \in Decls \ Parsed, program.first[d] = id
       PROVE  /\ d \in g.todo \/ (~IsFirst(d) /\ IsDug(dug, d))
              /\ IsFirst(d) \/ IsDug(dug', d)
  <2>1. CASE d = id
    BY <1>1, <1>3, <1>5, <2>1
  <2>2. CASE d # id
    <3>1. ~IsFirst(d)
      BY <1>10, <2>2 DEF IsFirst
    <3>2. d \in local \/ IsDug(dug, d)
      BY <1>6, <1>8, <1>10, <2>2
    <3>3. IsDug(dug', d)
      BY <1>1, <3>2 DEF IsDug
    <3> QED BY <1>1, <3>1, <3>2, <3>3
  <2> QED BY <2>1, <2>2
<1>11. ASSUME NEW d \in Decls \ Parsed, IsDug(dug', d), ~IsDug(dug, d) PROVE program.first[d] = id
  <2>1. PICK x \in local : <<program.file[d], program.first[d]>> = <<program.file[x], program.first[x]>>
    BY <1>1, <1>11 DEF IsDug
  <2> QED BY <1>6, <2>1
<1>12. dug \subseteq dug'
  BY <1>1
<1>13. g.decl \in Decls \ Parsed /\ IsFirst(g.decl) /\ g.decl = pendingChains[Top.index]
  BY <1>1, <1>3 DEF id
<1> QED BY <1>1, <1>9, <1>10, <1>11, <1>12, <1>13

LEMMA DugGrows ==
  ASSUME StepInv, Next, ~program.pcmodules
  PROVE  dug \subseteq dug' /\ (dug' = dug \/ LoadPendingDeclChain)
BY WhatLoopDoes DEF RecordRead, LoadPendingDeclChain, HookUpChain, ChainsAreDone

LEMMA DugNext ==
  ASSUME StepInv, LoopInv, DugInv, WithoutModules, Next, ~program.pcmodules,
         NEW d \in Decls \ Parsed, ~IsFirst(d), IsDug(dug', d)
  PROVE  InChain(stack', d) \/ Settled(d)'
<1>1. CASE IsDug(dug, d)
  BY <1>1, InChainNext, SettledStays DEF DugInv
<1>2. CASE ~IsDug(dug, d)
  <2>1. LoadPendingDeclChain
    BY <1>2, DugGrows
  <2>2. PICK n, g :
           /\ n \in Nat \ {0}
           /\ Len(stack') = n + 1 /\ stack'[n + 1] = g /\ g.kind = "chain"
           /\ \A e \in Decls \ Parsed : program.first[e] = g.decl =>
                e \in g.todo \/ (~IsFirst(e) /\ IsDug(dug, e))
           /\ \A e \in Decls \ Parsed : IsDug(dug', e) =>
                IsDug(dug, e) \/ program.first[e] = g.decl
    BY <2>1, WhatIsTaken
  <2>3. d \in g.todo
    BY <1>2, <2>2
  <2> QED BY <2>2, <2>3 DEF InChain
<1> QED BY <1>1, <1>2

(* The chain that the call f links is complete: each declaration is in the  *)
(* list of the call, or is linked.                                          *)
Complete(f) ==
  /\ f.decl \in Decls \ Parsed /\ IsFirst(f.decl)
  /\ \A d \in (f.todo \cup {f.current}) \cap Decls : program.first[d] = f.decl
  /\ \A d \in Decls \ Parsed : program.first[d] = f.decl =>
       IF IsFirst(d) THEN InChain(stack, d) \/ Settled(d) ELSE IsDug(dug, d)

LEMMA StaysComplete ==
  ASSUME StepInv, DugInv, Next, ~program.pcmodules, NEW f, Complete(f),
         NEW g, g.decl = f.decl, g.todo \cup {g.current} \subseteq f.todo \cup {f.current} \cup {NoDecl}
  PROVE  /\ g.decl \in Decls \ Parsed /\ IsFirst(g.decl)
         /\ \A d \in (g.todo \cup {g.current}) \cap Decls : program.first[d] = g.decl
         /\ \A d \in Decls \ Parsed : program.first[d] = g.decl =>
              IF IsFirst(d) THEN InChain(stack', d) \/ Settled(d)' ELSE IsDug(dug', d)
<1>1. ASSUME NEW d \in Decls \ Parsed, program.first[d] = g.decl
      PROVE  IF IsFirst(d) THEN InChain(stack', d) \/ Settled(d)' ELSE IsDug(dug', d)
  <2>1. IF IsFirst(d) THEN InChain(stack, d) \/ Settled(d) ELSE IsDug(dug, d)
    BY <1>1 DEF Complete
  <2>2. CASE IsFirst(d)
    BY <2>1, <2>2, InChainNext, SettledStays
  <2>3. CASE ~IsFirst(d)
    BY <2>1, <2>3, DugGrows DEF IsDug
  <2> QED BY <2>2, <2>3
<1>2. NoDecl \notin Decls
  BY DeserializationAssumption
<1> QED BY <1>1, <1>2 DEF Complete

LEMMA CompleteNext ==
  ASSUME StepInv, LoopInv, DugInv, WithoutModules, Next, ~program.pcmodules,
         NEW i \in 1 .. Len(stack'), stack'[i].kind = "chain"
  PROVE  /\ stack'[i].decl \in Decls \ Parsed /\ IsFirst(stack'[i].decl)
         /\ \A d \in (stack'[i].todo \cup {stack'[i].current}) \cap Decls : program.first[d] = stack'[i].decl
         /\ \A d \in Decls \ Parsed : program.first[d] = stack'[i].decl =>
              IF IsFirst(d) THEN InChain(stack', d) \/ Settled(d)' ELSE IsDug(dug', d)
<1>1. \A j \in 1 .. Len(stack) : stack[j].kind = "chain" => Complete(stack[j])
  BY DEF DugInv, Complete
<1>2. CASE LoopsSame(stack, stack')
  <2>1. i \in 1 .. Len(stack) /\ stack[i].kind = "chain"
    BY <1>2 DEF LoopsSame
  <2>2. /\ stack'[i].decl = stack[i].decl
        /\ stack'[i].todo = stack[i].todo /\ stack'[i].current = stack[i].current
    BY <1>2, <2>1 DEF LoopsSame
  <2>3. Complete(stack[i])
    BY <1>1, <2>1
  <2>4. PICK g : g = stack'[i]
    OBVIOUS
  <2>5. g.decl = stack[i].decl /\ g.todo = stack[i].todo /\ g.current = stack[i].current
    BY <2>2, <2>4
  <2>6. g.todo \cup {g.current} \subseteq stack[i].todo \cup {stack[i].current} \cup {NoDecl}
    BY <2>5
  <2> QED BY <2>3, <2>4, <2>5, <2>6, StaysComplete
<1>3. ~NamesAreDone
  BY LoopStarts
<1>4. CASE LoadPendingDeclChain
  <2>1. PICK n, g :
           /\ n \in Nat \ {0}
           /\ Len(stack') = n + 1 /\ stack'[n + 1] = g
           /\ \A j \in 1 .. n : stack'[j] = stack[j] /\ stack[j].kind # "chain"
           /\ \A j \in 1 .. n + 1 : j \in 1 .. n \/ j = n + 1
           /\ g.kind = "chain" /\ g.current = NoDecl
           /\ g.decl \in Decls \ Parsed /\ IsFirst(g.decl)
           /\ \A d \in g.todo : program.first[d] = g.decl
           /\ \A d \in Decls \ Parsed : program.first[d] = g.decl =>
                /\ d \in g.todo \/ (~IsFirst(d) /\ IsDug(dug, d))
                /\ IsFirst(d) \/ IsDug(dug', d)
    BY <1>4, WhatIsTaken
  <2>2. stack'[i] = g
    BY <2>1
  <2>3. \A d \in g.todo : InChain(stack', d)
    BY <2>1 DEF InChain
  <2>4. NoDecl \notin Decls
    BY DeserializationAssumption
  <2> QED BY <2>1, <2>2, <2>3, <2>4
<1>5. CASE Is("chain") /\ (AskForNext \/ AddToChain \/ HookUpChain)
  <2>1. PICK n \in Nat \ {0, 1} : /\ n = Len(stack) /\ Top = stack[n]
                                  /\ \A j \in 1 .. n : stack[j].kind = "chain" => j = n
                                  /\ stack[n].kind = "chain"
    BY <1>5, ChainOnTop DEF Is
  <2>2. Complete(Top)
    BY <1>1, <2>1
  <2>3. ~HookUpChain
    <3> SUFFICES ASSUME HookUpChain PROVE FALSE
      OBVIOUS
    <3>1. \A j \in 1 .. Len(stack') : stack'[j].kind # "chain"
      BY HookShape DEF BaseKinds, IsLoop
    <3> QED BY <3>1
  <2>4. ASSUME NEW g, ChainBecomes(stack, stack', g) PROVE stack'[i] = g /\ g.decl = Top.decl
    <3>1. \A j \in 1 .. n - 1 : stack'[j] = stack[j] /\ stack[j].kind # "chain"
      BY <2>1, <2>4 DEF ChainBecomes
    <3>2. i \in 1 .. n - 1 \/ i = n \/ (i = n + 1 /\ Len(stack') = n + 1)
      BY <2>1, <2>4 DEF ChainBecomes
    <3> QED BY <2>1, <2>4, <3>1, <3>2 DEF ChainBecomes
  <2>5. CASE AskForNext
    <3>1. PICK e \in Top.todo, g \in Frame : /\ g.current = e
                                             /\ g.todo = Top.todo \ {e} /\ ChainBecomes(stack, stack', g)
      BY <1>5, <2>5, ChainAsks
    <3>2. g.todo \cup {g.current} \subseteq Top.todo \cup {Top.current} \cup {NoDecl}
      BY <3>1
    <3>3. stack'[i] = g /\ g.decl = Top.decl
      BY <2>4, <3>1
    <3> QED BY <2>2, <3>2, <3>3, StaysComplete
  <2>6. CASE AddToChain
    <3>1. PICK g \in Frame : g.current = NoDecl /\ g.todo = Top.todo /\ ChainBecomes(stack, stack', g)
      BY <2>6, ChainAdds
    <3>2. g.todo \cup {g.current} \subseteq Top.todo \cup {Top.current} \cup {NoDecl}
      BY <3>1
    <3>3. stack'[i] = g /\ g.decl = Top.decl
      BY <2>4, <3>1
    <3> QED BY <2>2, <3>2, <3>3, StaysComplete
  <2> QED BY <1>5, <2>3, <2>5, <2>6
<1> QED BY <1>2, <1>3, <1>4, <1>5, WhatLoopsDo

LEMMA DugInvNext ==
  ASSUME StepInv, LoopInv, DugInv, WithoutModules, Next, ~program.pcmodules
  PROVE  DugInv'
<1>1. program' = program
  BY WhatChangesFiles
<1>2. Parsed' = Parsed /\ \A d : (IsFirst(d)' <=> IsFirst(d))
  BY <1>1 DEF Parsed, IsFirst
<1>3. \A d \in Decls \ Parsed : ~IsFirst(d) /\ IsDug(dug', d) => InChain(stack', d) \/ Settled(d)'
  BY DugNext
<1>4. \A i \in 1 .. Len(stack') : stack'[i].kind = "chain" =>
         /\ stack'[i].decl \in Decls \ Parsed /\ IsFirst(stack'[i].decl)
         /\ \A d \in (stack'[i].todo \cup {stack'[i].current}) \cap Decls : program.first[d] = stack'[i].decl
         /\ \A d \in Decls \ Parsed : program.first[d] = stack'[i].decl =>
              IF IsFirst(d) THEN InChain(stack', d) \/ Settled(d)' ELSE IsDug(dug', d)
  BY CompleteNext
<1> QED BY <1>1, <1>2, <1>3, <1>4 DEF DugInv, IsDug, InChain, Settled, IsFirst, Reading, IsReading, Parsed

-----------------------------------------------------------------------------
(* What has been deserialized is linked                                     *)

(* Whoever has been asked for, the chain d is in is linked later.           *)
WillBeLinked(d) ==
  \/ Reading(stack, d) \/ InChain(stack, d)
  \/ PendingFor(stack, pendingChains, program.first[d]) /\ (IsFirst(d) \/ ~IsDug(dug, d))

LEMMA RecordReadLinked ==
  ASSUME StepInv, RecordsInv, LoopInv, DugInv, WithoutModules, Next, ~program.pcmodules,
         RecordRead, NEW d, d = Top.decl, d \in redecls, Reading(stack, d)
  PROVE  \/ InChain(stack', d)
         \/ PendingFor(stack', pendingChains', program.first[d]) /\ (IsFirst(d) \/ ~IsDug(dug', d))
<1>1. /\ stack # << >> /\ Top.kind = "record" /\ Top.stage = "end" /\ d \in Decls \ Parsed
      /\ Len(stack) \in Nat \ {0} /\ Top = stack[Len(stack)]
  BY TopType DEF StepInv, RecordRead, At, Is, CallOK
<1>2. Top.owning
  BY <1>1 DEF RecordsInv, AllRecords, RecordOK
<1>3. dug' = dug /\ redecls' = redecls
  BY DEF RecordRead
<1>4. ~Settled(d) /\ ~Settled(d)'
  BY <1>3 DEF Settled
<1>5. InChain(stack, d) => InChain(stack', d)
  BY <1>1, <1>4, InChainNext
<1>6. CASE ~IsFirst(d) /\ IsDug(dug, d)
  BY <1>1, <1>4, <1>5, <1>6 DEF DugInv
<1>7. CASE IsFirst(d) \/ ~IsDug(dug, d)
  <2>1. PICK f : f = program.first[d]
    OBVIOUS
  <2>2. LoopsKept(stack, stack')
    <3>1. ~NamesAreDone /\ ~LoadPendingDeclChain /\ ~HookUpChain /\ ~ChainsAreDone
      BY <1>1 DEF NamesAreDone, LoadPendingDeclChain, HookUpChain, ChainsAreDone, At, Is
    <3> QED BY <3>1, WhatLoopDoes
  <2>3. CASE f \notin known
    <3>1. pendingChains' = Append(pendingChains, f)
      BY <1>2, <2>1, <2>3 DEF RecordRead
    <3>2. PendingFor(stack', pendingChains', f)
      BY <2>2, <3>1, PendingAdded
    <3> QED BY <1>3, <1>7, <2>1, <3>2
  <2>4. CASE f \in known /\ PendingFor(stack, pendingChains, f)
    <3>1. ~LoadPendingDeclChain
      BY <1>1 DEF LoadPendingDeclChain, At, Is
    <3>2. PendingFor(stack', pendingChains', f)
      BY <2>4, <3>1, PendingStays
    <3> QED BY <1>3, <1>7, <2>1, <3>2
  <2>5. CASE \E j \in 1 .. Len(stack) : stack[j].kind = "chain" /\ stack[j].decl = f
    <3>1. IF IsFirst(d) THEN InChain(stack, d) \/ Settled(d) ELSE IsDug(dug, d)
      BY <1>1, <2>1, <2>5 DEF DugInv
    <3> QED BY <1>4, <1>5, <1>7, <3>1
  <2> QED BY <2>3, <2>4, <2>5 DEF LoopInv
<1> QED BY <1>6, <1>7

LEMMA WillBeLinkedNext ==
  ASSUME StepInv, RecordsInv, LoopInv, DugInv, LinkInv, WithoutModules, Next, ~program.pcmodules,
         NEW d \in redecls'
  PROVE  WillBeLinked(d)'
<1> SUFFICES \/ Reading(stack', d) \/ InChain(stack', d)
             \/ PendingFor(stack', pendingChains', program.first[d]) /\ (IsFirst(d) \/ ~IsDug(dug', d))
  BY WhatChangesFiles
     DEF WillBeLinked, Reading, IsReading, InChain, PendingFor, Untaken, IsLoop, IsFirst, IsDug
<1>1. CASE d \notin redecls
  <2>1. LinkToFirst /\ d = Top.decl /\ Reading(stack, d)
    BY <1>1, RedeclsChange
  <2>2. ~RecordRead
    BY <2>1 DEF LinkToFirst, RecordRead, At
  <2> QED BY <2>1, <2>2, ReadingNext
<1>2. CASE d \in redecls
  <2>1. d \in Decls \ Parsed
    BY <1>2 DEF LinkInv, StepInv, TypeOK
  <2>2. CASE Reading(stack, d)
    BY <1>2, <2>2, ReadingNext, RecordReadLinked
  <2>3. CASE InChain(stack, d)
    <3>1. ~Settled(d)'
      BY DEF Settled
    <3> QED BY <2>1, <2>3, <3>1, InChainNext
  <2>4. CASE PendingFor(stack, pendingChains, program.first[d]) /\ (IsFirst(d) \/ ~IsDug(dug, d))
    <3>1. CASE LoadPendingDeclChain
      <4>1. PICK n, g :
           /\ n \in Nat \ {0}
           /\ Len(stack') = n + 1 /\ stack'[n + 1] = g
           /\ g.kind = "chain" /\ g.decl = pendingChains[Top.index]
           /\ \A e \in Decls \ Parsed : program.first[e] = g.decl =>
                e \in g.todo \/ (~IsFirst(e) /\ IsDug(dug, e))
           /\ \A e \in Decls \ Parsed : IsDug(dug', e) =>
                IsDug(dug, e) \/ program.first[e] = g.decl
        BY <3>1, WhatIsTaken
      <4>2. CASE program.first[d] = g.decl
        <5>1. d \in g.todo
          BY <2>1, <2>4, <4>1, <4>2
        <5> QED BY <4>1, <5>1 DEF InChain
      <4>3. CASE program.first[d] # g.decl
        <5>1. PendingFor(stack', pendingChains', program.first[d])
          BY <2>4, <4>1, <4>3, PendingStays
        <5>2. IsFirst(d) \/ ~IsDug(dug', d)
          BY <2>1, <2>4, <4>1, <4>3
        <5> QED BY <5>1, <5>2
      <4> QED BY <4>2, <4>3
    <3>2. CASE ~LoadPendingDeclChain
      <4>1. PendingFor(stack', pendingChains', program.first[d])
        BY <2>4, <3>2, PendingStays
      <4>2. dug' = dug
        BY <3>2, DugGrows
      <4> QED BY <2>4, <4>1, <4>2
    <3> QED BY <3>1, <3>2
  <2> QED BY <1>2, <2>2, <2>3, <2>4 DEF LinkInv
<1> QED BY <1>1, <1>2

(* The lists of the calls that link do not lose anything.                   *)
LEMMA HookingNext ==
  ASSUME StepInv, Next, NEW d, Hooking(stack, d)
  PROVE  Hooking(stack', d) \/ d \in wired'
<1>1. PICK j \in 1 .. Len(stack) : stack[j].kind = "chain" /\ d \in stack[j].chain
  BY DEF Hooking
<1>2. CASE LoopsSame(stack, stack')
  BY <1>2, LoopsAreSame
<1>3. ~NamesAreDone
  <2> SUFFICES ASSUME NamesAreDone PROVE FALSE
    OBVIOUS
  <2>1. Is("finish")
    BY DEF NamesAreDone, At, Is
  <2> QED BY <1>1, <2>1, LoopOnTop DEF Is
<1>4. ~LoadPendingDeclChain
  BY <1>1, LoopTakes
<1>5. CASE Is("chain") /\ (AskForNext \/ AddToChain \/ HookUpChain)
  <2>1. PICK n \in Nat \ {0, 1} : n = Len(stack) /\ Top = stack[n] /\ j = n
    BY <1>1, <1>5, ChainOnTop
  <2>2. d \in Top.chain
    BY <1>1, <2>1
  <2>3. CASE HookUpChain
    BY <2>2, <2>3 DEF HookUpChain
  <2>4. CASE AskForNext \/ AddToChain
    <3>1. PICK g : ChainBecomes(stack, stack', g) /\ d \in g.chain
      BY <1>5, <2>2, <2>4, ChainAsks, ChainAdds
    <3>2. stack'[n] = g /\ g.kind = "chain" /\ n \in 1 .. Len(stack')
      BY <2>1, <3>1 DEF ChainBecomes
    <3> QED BY <3>1, <3>2 DEF Hooking
  <2> QED BY <1>5, <2>3, <2>4
<1> QED BY <1>2, <1>3, <1>4, <1>5, WhatLoopsDo

LEMMA LinkedNext ==
  ASSUME StepInv, RecordsInv, LinkInv, Next, NEW d \in loaded'
  PROVE  d \in wired' \cup redecls' \/ Reading(stack', d) \/ Hooking(stack', d)
<1>1. CASE d \notin loaded
  BY <1>1, ReadingNext
<1>2. CASE d \in wired
  BY <1>2, RedeclsChange
<1>3. CASE d \in redecls
  <2>1. CASE d \in redecls'
    BY <2>1
  <2>2. CASE d \notin redecls'
    <3>1. AddToChain /\ d = Top.current
      BY <1>3, <2>2, RedeclsChange
    <3>2. PICK g \in Frame : g.chain = Top.chain \cup ({Top.current} \cap redecls)
                             /\ ChainBecomes(stack, stack', g)
      BY <3>1, ChainAdds
    <3>3. PICK n \in Nat \ {0} : n = Len(stack)
      BY <3>1, TopType DEF StepInv, AddToChain, Is
    <3>4. n \in 1 .. Len(stack') /\ stack'[n] = g /\ g.kind = "chain"
      BY <3>2, <3>3 DEF ChainBecomes
    <3>5. d \in g.chain
      BY <1>3, <3>1, <3>2
    <3> QED BY <3>4, <3>5 DEF Hooking
  <2> QED BY <2>1, <2>2
<1>4. CASE Reading(stack, d)
  <2>1. CASE RecordRead /\ d = Top.decl
    <3>1. /\ Top.kind = "record" /\ Top.stage = "end" /\ redecls' = redecls
          /\ Len(stack) \in Nat \ {0} /\ Top = stack[Len(stack)]
      BY <2>1, TopType DEF StepInv, RecordRead, At, Is
    <3>2. d \in redecls
      BY <2>1, <3>1 DEF RecordsInv, AllRecords, RecordOK
    <3> QED BY <3>1, <3>2
  <2> QED BY <1>4, <2>1, ReadingNext
<1>5. CASE Hooking(stack, d)
  BY <1>5, HookingNext
<1> QED BY <1>1, <1>2, <1>3, <1>4, <1>5 DEF LinkInv

LEMMA FirstLoadedNext ==
  ASSUME StepInv, RecordsInv, LinkInv, Next, NEW d \in loaded' \ Parsed
  PROVE  Reading(stack', d) \/ program.first[d] \in loaded'
<1>1. CASE d \notin loaded
  BY <1>1, ReadingNext
<1>2. CASE program.first[d] \in loaded
  BY <1>2, LoadedGrows
<1>3. CASE RecordRead /\ d = Top.decl
  <2>1. /\ Top.kind = "record" /\ Top.stage = "end" /\ loaded' = loaded
        /\ Len(stack) \in Nat \ {0} /\ Top = stack[Len(stack)]
    BY <1>3, TopType DEF StepInv, RecordRead, At, Is
  <2> QED BY <1>3, <2>1 DEF RecordsInv, AllRecords, RecordOK
<1> QED BY <1>1, <1>2, <1>3, ReadingNext DEF LinkInv

AllDug(D, f) == \A e \in Decls \ Parsed : program.first[e] = f /\ ~IsFirst(e) => IsDug(D, e)

LEMMA AllDugNext ==
  ASSUME StepInv, RecordsInv, DugInv, LinkInv, Next, ~program.pcmodules, NEW d \in loaded' \ Parsed
  PROVE  Reading(stack', d) \/ d \in redecls' \/ AllDug(dug', program.first[d])
<1>1. CASE d \notin loaded
  BY <1>1, ReadingNext
<1>2. CASE AllDug(dug, program.first[d])
  BY <1>2, DugGrows DEF AllDug, IsDug
<1>3. CASE Reading(stack, d)
  <2>1. CASE RecordRead /\ d = Top.decl
    <3>1. /\ Top.kind = "record" /\ Top.stage = "end" /\ redecls' = redecls
          /\ Len(stack) \in Nat \ {0} /\ Top = stack[Len(stack)]
      BY <2>1, TopType DEF StepInv, RecordRead, At, Is
    <3> QED BY <2>1, <3>1 DEF RecordsInv, AllRecords, RecordOK
  <2> QED BY <1>3, <2>1, ReadingNext
<1>4. CASE d \in redecls \ redecls'
  <2>1. AddToChain /\ d = Top.current /\ d \in Decls
    BY <1>4, RedeclsChange DEF StepInv, TypeOK
  <2>2. Len(stack) \in Nat \ {0} /\ Top = stack[Len(stack)] /\ Top.kind = "chain"
    BY <2>1, TopType DEF StepInv, AddToChain, Is
  <2>3. Len(stack) \in 1 .. Len(stack)
    BY <2>2
  <2>4. program.first[d] = Top.decl
    BY <2>1, <2>2, <2>3 DEF DugInv
  <2>5. \A e \in Decls \ Parsed : program.first[e] = Top.decl /\ ~IsFirst(e) => IsDug(dug, e)
    BY <2>2, <2>3 DEF DugInv
  <2> QED BY <2>4, <2>5, DugGrows DEF AllDug, IsDug
<1> QED BY <1>1, <1>2, <1>3, <1>4 DEF LinkInv, AllDug

LEMMA LinkInvNext ==
  ASSUME StepInv, RecordsInv, LoopInv, DugInv, LinkInv, WithoutModules, Next, ~program.pcmodules
  PROVE  LinkInv'
<1>1. program' = program
  BY WhatChangesFiles
<1>2. Parsed' = Parsed /\ \A d : (IsFirst(d)' <=> IsFirst(d))
  BY <1>1 DEF Parsed, IsFirst
<1>3. redecls' \cap Parsed = {}
  BY RedeclsChange DEF LinkInv
<1>4. \A d \in redecls' : WillBeLinked(d)'
  BY WillBeLinkedNext
<1>5. \A d \in loaded' : d \in wired' \cup redecls' \/ Reading(stack', d) \/ Hooking(stack', d)
  BY LinkedNext
<1>6. \A d \in loaded' \ Parsed : Reading(stack', d) \/ program.first[d] \in loaded'
  BY FirstLoadedNext
<1>7. \A d \in loaded' \ Parsed : Reading(stack', d) \/ d \in redecls' \/ AllDug(dug', program.first[d])
  BY AllDugNext
<1> QED BY <1>1, <1>2, <1>3, <1>4, <1>5, <1>6, <1>7
        DEF LinkInv, WillBeLinked, AllDug, IsDug, InChain, IsFirst, Reading, IsReading, Parsed, Hooking,
            PendingFor, Untaken, IsLoop

LEMMA WithoutModulesNext ==
  ASSUME StepInv, WithoutModules, Next, ~program.pcmodules
  PROVE  WithoutModules'
<1>1. program' = program /\ Parsed' = Parsed /\ \A d : (IsFirst(d)' <=> IsFirst(d))
  BY WhatChangesFiles DEF Parsed, IsFirst
<1>2. files' = files
  BY WhatChangesFiles DEF readVars, StartProgram, DefinitionsStarted, ImportFile, InitializeSema
<1>3. merged' = merged
  <2>1. Merge => merged' = merged
    BY DEF Merge
  <2> QED BY <2>1, WhatChangesChains DEF chainVars, LinkToFirst, RecordRead, LoadPendingDeclChain, AddToChain,
        HookUpChain, ChainsAreDone
<1>4. \A d \in Decls \ Parsed : IsFirst(d) => canonical'[d] = d
  <2>1. CASE LinkToFirst
    <3>1. canonical' = [canonical EXCEPT ![Top.decl] = program.first[Top.decl]]
      BY <2>1 DEF LinkToFirst
    <3>2. canonical \in [Decls -> Decls]
      BY DEF StepInv, TypeOK
    <3> QED BY <3>1, <3>2 DEF WithoutModules, IsFirst
  <2>2. Merge => canonical' = canonical
    BY DEF Merge
  <2>3. CASE ~LinkToFirst
    <3>1. canonical' = canonical
      BY <2>2, <2>3, WhatChangesChains DEF chainVars, RecordRead, LoadPendingDeclChain, AddToChain,
         HookUpChain, ChainsAreDone
    <3> QED BY <3>1 DEF WithoutModules
  <2> QED BY <2>1, <2>3
<1>5. ASSUME NEW d \in (loaded' \ Parsed) \cap program.body
      PROVE  Reading(stack', d) \/ d \in pendingBodies' \cup bodies'
  <2>1. CASE d \notin loaded
    BY <2>1, ReadingNext
  <2>2. CASE Reading(stack, d)
    <3>1. CASE RecordRead /\ d = Top.decl
      BY <1>5, <3>1 DEF RecordRead
    <3> QED BY <2>2, <3>1, ReadingNext
  <2>3. CASE d \in pendingBodies \cup bodies
    <3>1. SetLazyBody => d \in pendingBodies' \cup bodies'
      BY <2>3 DEF SetLazyBody
    <3> QED BY <2>3, <3>1, WhatChangesBodies DEF bodyVars, RecordRead, GetBody
  <2> QED BY <1>5, <2>1, <2>2, <2>3 DEF WithoutModules
<1> QED BY <1>1, <1>2, <1>3, <1>4, <1>5 DEF WithoutModules, IsFirst, Reading, IsReading, Parsed

(* Everything that holds without modules.                                   *)
HeadersInv == RecordsInv /\ LoopInv /\ DugInv /\ LinkInv /\ WithoutModules /\ ~program.pcmodules

LEMMA HeadersInit ==
  ASSUME Init, ~program.pcmodules
  PROVE  HeadersInv
<1>1. stack = << >> /\ Len(stack) = 0 /\ pendingChains = << >> /\ known = {} /\ redecls = {} /\ dug = {}
      /\ loaded = Parsed /\ wired = Parsed /\ Len(pendingChains) = 0
  BY DEF Init
<1>2. RecordsInv /\ LoopInv
  BY <1>1 DEF RecordsInv, AllRecords, LoopInv
<1>3. DugInv /\ LinkInv
  BY <1>1 DEF DugInv, IsDug, LinkInv
<1>4. WithoutModules
  BY <1>1 DEF Init, WithoutModules
<1> QED BY <1>2, <1>3, <1>4 DEF HeadersInv

LEMMA HeadersNext ==
  ASSUME StepInv, HeadersInv, [Next]_vars
  PROVE  HeadersInv'
<1>1. CASE Next
  <2>1. RecordsInv' /\ LoopInv'
    BY <1>1, RecordsNext, LoopNext DEF HeadersInv
  <2>2. DugInv' /\ LinkInv'
    BY <1>1, DugInvNext, LinkInvNext DEF HeadersInv
  <2>3. WithoutModules'
    BY <1>1, WithoutModulesNext DEF HeadersInv
  <2>4. ~program'.pcmodules
    BY <1>1, WhatChangesFiles DEF HeadersInv
  <2> QED BY <2>1, <2>2, <2>3, <2>4 DEF HeadersInv
<1>2. CASE UNCHANGED vars
  <2> USE <1>2 DEF vars, readVars, idVars, chainVars, bodyVars, passVars, scopeVars, loadVars, HeadersInv
  <2>1. RecordsInv' /\ LoopInv'
    BY DEF RecordsInv, AllRecords, RecordOK, LoopInv, PendingFor, Untaken, IsLoop, IsFirst, Parsed
  <2>2. DugInv'
    BY DEF DugInv, IsDug, IsFirst, InChain, Settled, Reading, IsReading, Parsed
  <2>3. LinkInv'
    BY DEF LinkInv, IsDug, IsFirst, InChain, Hooking, Reading, IsReading, Parsed, PendingFor, Untaken, IsLoop
  <2>4. WithoutModules' /\ ~program'.pcmodules
    BY DEF WithoutModules, IsFirst, Reading, IsReading, Parsed
  <2> QED BY <2>1, <2>2, <2>3, <2>4
<1> QED BY <1>1, <1>2

HeadersNow == StepInv /\ QueuesInv /\ HeadersInv

LEMMA HeadersInvariant ==
  Spec /\ ~program.pcmodules => []HeadersNow
<1>1. Init /\ ~program.pcmodules => HeadersInv
  BY HeadersInit
<1>2. StepInv /\ HeadersInv /\ [Next]_vars => HeadersInv'
  BY HeadersNext
<1>3. Spec /\ ~program.pcmodules => []HeadersInv
  BY <1>1, <1>2, StepInvInvariant, PTL DEF Spec
<1> QED BY <1>3, StepInvInvariant, QueuesInvariant, PTL DEF HeadersNow

(* Nothing that links is going on, and nothing waits for it.                *)
LEMMA NothingToLink ==
  ASSUME HeadersNow, pendingChains = << >>,
         \A i \in 1 .. Len(stack) : stack[i].kind \notin {"record", "chain"}
  PROVE  redecls = {} /\ loaded \subseteq wired /\ \A d : ~Reading(stack, d)
<1>1. \A d : ~Reading(stack, d) /\ ~InChain(stack, d) /\ ~Hooking(stack, d)
  BY DEF Reading, IsReading, InChain, Hooking
<1>2. \A f : ~PendingFor(stack, pendingChains, f)
  BY DEF PendingFor
<1>3. redecls = {}
  BY <1>1, <1>2 DEF HeadersNow, HeadersInv, LinkInv
<1> QED BY <1>1, <1>3 DEF HeadersNow, HeadersInv, LinkInv

(* Without modules: when bodies are set, every declaration that has been    *)
(* deserialized is linked into its chain, in whatever order declarations,   *)
(* names and macros have been asked for, and however often the chains grew  *)
(* while others were being linked.                                          *)
THEOREM HeadersAreWired ==
  Spec /\ ~program.pcmodules => []DeserializedAreWired
<1>1. HeadersNow => DeserializedAreWired
  <2> SUFFICES ASSUME HeadersNow, At("finish", "bodies") PROVE redecls = {} /\ loaded \subseteq wired
    BY DEF DeserializedAreWired, HeadersNow, HeadersInv
  <2>1. stack # << >> /\ Top.kind = "finish" /\ StepInv /\ pendingChains = << >>
    BY DEF HeadersNow, QueuesInv, At, Is
  <2>2. \A i \in 1 .. Len(stack) : stack[i].kind \notin {"record", "chain"}
    BY <2>1, LoopOnTop, NoRecords
  <2> QED BY <2>1, <2>2, NothingToLink
<1> QED BY <1>1, HeadersInvariant, PTL

(* When nobody is reading, nothing is half linked.                          *)
LEMMA IdleIsDone ==
  ASSUME HeadersNow, Idle
  PROVE  /\ redecls = {} /\ pendingBodies = {}
         /\ \A d : ~Reading(stack, d) /\ ~InChain(stack, d)
<1>1. Len(stack) = 0
  BY DEF Idle
<1>2. Counted(stack) = {}
  BY <1>1 DEF Counted
<1>3. count = 0
  BY <1>2, FS_EmptySet DEF HeadersNow, StepInv, StackInv
<1>4. pendingChains = << >> /\ pendingBodies = {}
  BY <1>3 DEF HeadersNow, QueuesInv
<1> QED BY <1>1, <1>4, NothingToLink DEF InChain

(* Without modules: no declaration is there without its redeclarations in   *)
(* all files; that a chain has been looked for is never remembered before   *)
(* its declarations are in the list of a call that loads them.              *)
THEOREM HeaderChainsAreWhole ==
  Spec /\ ~program.pcmodules => []ChainsAreWhole
<1>1. HeadersNow => ChainsAreWhole
  <2> SUFFICES ASSUME HeadersNow, Idle, NEW d \in FromFiles,
                      NEW e \in InFiles({program.file[d]} \cup program.initial),
                      program.first[e] = program.first[d]
               PROVE  e \in loaded
    BY DEF ChainsAreWhole
  <2>1. d \in loaded \ Parsed /\ program \in Program
    BY ProgramType DEF FromFiles, HeadersNow, StepInv
  <2>2. e \in Decls \ Parsed
    <3>1. e \in Decls /\ (program.file[e] = program.file[d] \/ program.file[e] \in program.initial)
      BY DEF InFiles
    <3>2. program.initial \subseteq Files /\ Main \notin Files
      BY <2>1, DeserializationAssumption DEF Program
    <3>3. d \in Decls /\ program.file[d] # Main
      BY <2>1 DEF Parsed, HeadersNow, StepInv, TypeOK
    <3> QED BY <3>1, <3>2, <3>3 DEF Parsed
  <2>3. redecls = {} /\ \A x : ~Reading(stack, x) /\ ~InChain(stack, x)
    BY IdleIsDone
  <2>4. CASE IsFirst(e)
    <3>1. program.first[d] \in loaded
      BY <2>1, <2>3 DEF HeadersNow, HeadersInv, LinkInv
    <3> QED BY <2>4, <3>1 DEF IsFirst
  <2>5. CASE ~IsFirst(e)
    <3>1. IsDug(dug, e)
      BY <2>1, <2>2, <2>3, <2>5 DEF HeadersNow, HeadersInv, LinkInv
    <3>2. Settled(e)
      BY <2>2, <2>3, <2>5, <3>1 DEF HeadersNow, HeadersInv, DugInv
    <3> QED BY <3>2 DEF Settled
  <2> QED BY <2>4, <2>5
<1> QED BY <1>1, HeadersInvariant, PTL

(* Without modules: each definition that has been loaded has its own body   *)
(* when the reader is not in the middle of something.                       *)
THEOREM HeaderBodiesAreSet ==
  Spec /\ ~program.pcmodules => []OneBodyPerEntity
<1>1. HeadersNow => OneBodyPerEntity
  <2> SUFFICES ASSUME HeadersNow PROVE OneBodyPerEntity
    OBVIOUS
  <2>1. ASSUME Idle, NEW d \in FromFiles \cap program.body PROVE d \in bodies
    <3>1. d \in (loaded \ Parsed) \cap program.body
      BY <2>1 DEF FromFiles
    <3>2. pendingBodies = {} /\ ~Reading(stack, d)
      BY <2>1, IdleIsDone
    <3> QED BY <3>1, <3>2 DEF HeadersNow, HeadersInv, WithoutModules
  <2> QED BY <2>1 DEF HeadersNow, HeadersInv, OneBodyPerEntity
<1> QED BY <1>1, HeadersInvariant, PTL

(* Without modules: the consumer gets a declaration only when nothing is    *)
(* half loaded, and the declaration is linked with its redeclarations.      *)
THEOREM HeadersAreSeenWhole ==
  Spec /\ ~program.pcmodules => ConsumerSeesWholeDecls
<1>1. ASSUME HeadersNow, Next, NEW d \in Decls, handled'[d] > handled[d]
      PROVE  /\ count = 0 /\ redecls = {} /\ pendingBodies = {} /\ d \in wired
             /\ << >> = pendingNames \o pendingMacros \o pendingChains
  <2>1. handled \in [Decls -> Nat]
    BY <1>1 DEF HeadersNow, StepInv, TypeOK
  <2>2. PassInterestingDecl
    <3>1. UNCHANGED handled \/ PassInterestingDecl
      BY <1>1, WhatChangesPassing DEF passVars, RecordRead, FinishedDeserializing, AllPassed
    <3>2. handled' # handled
      BY <1>1, <2>1
    <3> QED BY <3>1, <3>2
  <2>3. stack # << >> /\ Top.kind = "pass" /\ interesting # << >> /\ StepInv
        /\ handled' = [handled EXCEPT ![Head(interesting)] = @ + 1]
    BY <1>1, <2>2 DEF PassInterestingDecl, Is, HeadersNow
  <2>4. d = Head(interesting)
    BY <1>1, <2>1, <2>3
  <2>5. PICK n \in Nat \ {0} : n = Len(stack) /\ Top = stack[n] /\ PlaceOK(stack, n)
    BY <2>3, TopType DEF StepInv
  <2>6. \A i \in 1 .. n : stack[i].kind \in BaseKinds
    <3>1. \A i \in 1 .. n - 1 : stack[i].kind \in BaseKinds
      BY <2>3, <2>5 DEF PlaceOK, BaseKinds
    <3>2. \A i \in 1 .. n : i \in 1 .. n - 1 \/ i = n
      BY <2>5
    <3> QED BY <2>3, <2>5, <3>1, <3>2 DEF BaseKinds
  <2>7. Counted(stack) = {}
    BY <2>5, <2>6 DEF Counted, CountedKinds, BaseKinds
  <2>8. count = 0
    BY <2>3, <2>7, FS_EmptySet DEF StepInv, StackInv
  <2>9. pendingBodies = {} /\ pendingNames = << >> /\ pendingMacros = << >> /\ pendingChains = << >>
    BY <1>1, <2>8 DEF HeadersNow, QueuesInv
  <2>10. redecls = {} /\ loaded \subseteq wired
    BY <1>1, <2>5, <2>6, <2>9, NothingToLink DEF BaseKinds
  <2>11. d \in loaded
    <3>1. interesting \in Seq(Decls) /\ Range(interesting) \subseteq loaded
      BY <2>3 DEF StepInv, TypeOK, ParsedInv
    <3>2. 1 \in DOMAIN interesting /\ Head(interesting) = interesting[1]
      BY <2>3, <3>1
    <3> QED BY <2>4, <3>1, <3>2 DEF Range
  <2>12. << >> = pendingNames \o pendingMacros \o pendingChains
    <3>1. << >> \o << >> = << >>
      OBVIOUS
    <3> QED BY <2>9, <3>1
  <2> QED BY <2>8, <2>9, <2>10, <2>11, <2>12
<1>2. HeadersNow /\ [Next]_vars =>
        [\A d \in Decls : handled'[d] > handled[d] =>
           /\ count = 0 /\ redecls = {} /\ pendingBodies = {} /\ d \in wired
           /\ << >> = pendingNames \o pendingMacros \o pendingChains]_vars
  BY <1>1
<1> QED BY <1>2, HeadersInvariant, PTL DEF Spec, ConsumerSeesWholeDecls
=============================================================================
