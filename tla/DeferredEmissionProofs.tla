------------------------ MODULE DeferredEmissionProofs ------------------------
(***************************************************************************)
(* Proofs about DeferredEmission, for every translation unit: the          *)
(* variables keep their types, a definition is deferred only as long as    *)
(* nothing refers to it, no name is defined twice, the module holds what   *)
(* the unit needs and nothing else, and the initializers run in order.     *)
(***************************************************************************)
EXTENDS DeferredEmissionProperties, SequenceLemmas, TLAPS

-----------------------------------------------------------------------------
(* Queues                                                                   *)

LEMMA QueueFacts ==
  ASSUME NEW S, NEW queue \in Seq(S)
  PROVE  /\ \A e \in S : /\ Append(queue, e) \in Seq(S)
                         /\ Range(Append(queue, e)) = Range(queue) \cup {e}
         /\ Range(queue) \subseteq S
         /\ queue # << >> => /\ Popped(queue) \in Seq(S) /\ Last(queue) \in Range(queue)
                             /\ Last(queue) \in S
                             /\ Range(Popped(queue)) \subseteq Range(queue)
         /\ queue # << >> => Head(queue) \in S /\ Tail(queue) \in Seq(S)
<1>1. ASSUME NEW e \in S
      PROVE  Append(queue, e) \in Seq(S) /\ Range(Append(queue, e)) = Range(queue) \cup {e}
  <2>1. PICK longer : longer = Append(queue, e)
    OBVIOUS
  <2>2. /\ longer \in Seq(S) /\ Len(longer) = Len(queue) + 1 /\ longer[Len(queue) + 1] = e
        /\ \A i \in 1 .. Len(queue) : longer[i] = queue[i]
    BY <2>1, AppendLast
  <2>3. /\ DOMAIN longer = 1 .. Len(queue) + 1 /\ DOMAIN queue = 1 .. Len(queue)
        /\ Len(queue) \in Nat
    BY <2>2
  <2>4. Range(longer) = Range(queue) \cup {e}
    BY <2>2, <2>3 DEF Range
  <2> QED BY <2>1, <2>2, <2>4
<1>2. Range(queue) \subseteq S
  BY DEF Range
<1>3. ASSUME queue # << >>
      PROVE  /\ Popped(queue) \in Seq(S) /\ Last(queue) \in Range(queue) /\ Last(queue) \in S
             /\ Range(Popped(queue)) \subseteq Range(queue)
  <2>1. PICK rest : rest = Popped(queue)
    OBVIOUS
  <2>2. /\ rest \in Seq(S) /\ Len(rest) = Len(queue) - 1 /\ Len(queue) \in Nat \ {0}
        /\ \A i \in 1 .. Len(queue) - 1 : rest[i] = queue[i]
        /\ Last(queue) = queue[Len(queue)] /\ Last(queue) \in S
    BY <1>3, <2>1, LastFront DEF Popped
  <2>3. DOMAIN rest = 1 .. Len(queue) - 1 /\ DOMAIN queue = 1 .. Len(queue)
    BY <2>2
  <2>4. Range(rest) \subseteq Range(queue) /\ Last(queue) \in Range(queue)
    BY <2>2, <2>3 DEF Range
  <2> QED BY <2>1, <2>2, <2>4
<1>4. queue # << >> => Head(queue) \in S /\ Tail(queue) \in Seq(S)
  OBVIOUS
<1> QED BY <1>1, <1>2, <1>3, <1>4

-----------------------------------------------------------------------------
(* The inductive invariant                                                  *)

Final == {"defined", "alias"}

(* How often a name was defined can be seen in the module.                  *)
CountedOnce == \A n \in Names : emissions[n] = IF status[n] = "defined" THEN 1 ELSE 0

(* Before the release only what EmitGlobal emitted at once is defined, so   *)
(* that it can tell by the announcements what it may still emit.  Only a    *)
(* function may be announced as an inline definition.                       *)
AnnouncedFirst ==
  /\ phase \in {"parsing", "tentative"} =>
       \A n \in Names :
         /\ status[n] = "defined" \/ (n = current /\ IsConstant(n)) =>
              announced[n] \in {"strong", "forced", "completed", "staticCompleted"}
         /\ status[n] = "alias" => announced[n] = "alias"
  /\ \A n \in Names : announced[n] = "inline" => n \in Functions

(* The variable of a constant initializer is defined after its references.  *)
PendingIsOpen == IsConstant(current) => status[current] \notin Final

(* What waits for a reference is not in the module, unless as an alias.     *)
DeferredAreAbsent ==
  /\ \A n \in deferredDecls : status[n] \in {"absent", "alias"}
  /\ \A n \in referenced : status[n] # "absent"
  /\ \A n \in Range(deferredDeclsToEmit) : status[n] # "absent"

IInv == TypeOK /\ CountedOnce /\ AnnouncedFirst /\ PendingIsOpen /\ DeferredAreAbsent

(* What is defined stays defined.                                           *)
Kept == \A n \in Names : status[n] \in Final => status'[n] = status[n]

LEMMA IInvInit == Init => IInv
<1> SUFFICES ASSUME Init PROVE IInv
  OBVIOUS
<1>1. << >> \in Seq(Reference) /\ << >> \in Seq(Names) /\ << >> \in Seq(Classes)
      /\ << >> \in Seq(Variables \cup {NoName}) /\ << >> \in Seq(Variables)
  OBVIOUS
<1>2. TypeOK
  BY <1>1 DEF Init, TypeOK, Announcement
<1>3. Range(deferredDeclsToEmit) = {}
  BY DEF Init, Range
<1>4. CountedOnce /\ DeferredAreAbsent
  BY <1>3 DEF Init, CountedOnce, DeferredAreAbsent
<1>5. ~IsConstant(current)
  BY NamesAssumption DEF Init, IsConstant, Names
<1>6. AnnouncedFirst /\ PendingIsOpen
  BY <1>5 DEF Init, AnnouncedFirst, PendingIsOpen
<1> QED BY <1>2, <1>4, <1>6 DEF IInv

-----------------------------------------------------------------------------
(* References                                                               *)

LEMMA DeferFacts ==
  ASSUME TypeOK, NEW n \in Names, NEW queues \in BOOLEAN, Defer(n, queues)
  PROVE  /\ deferredDecls' \subseteq deferredDecls
         /\ deferredDeclsToEmit' \in Seq(Names)
         /\ Range(deferredDeclsToEmit') \subseteq Range(deferredDeclsToEmit) \cup {n}
         /\ status[n] = "absent" => n \notin deferredDecls'
<1>1. deferredDeclsToEmit \in Seq(Names)
  BY DEF TypeOK
<1>2. CASE status[n] = "absent" /\ (n \in deferredDecls \/ queues)
  <2>1. /\ deferredDeclsToEmit' = Append(deferredDeclsToEmit, n)
        /\ deferredDecls' = deferredDecls \ {n}
    BY <1>2 DEF Defer
  <2>2. /\ Append(deferredDeclsToEmit, n) \in Seq(Names)
        /\ Range(Append(deferredDeclsToEmit, n)) = Range(deferredDeclsToEmit) \cup {n}
    BY <1>1, QueueFacts
  <2> QED BY <2>1, <2>2
<1>3. CASE ~(status[n] = "absent" /\ (n \in deferredDecls \/ queues))
  BY <1>1, <1>3 DEF Defer, deferVars
<1> QED BY <1>2, <1>3

(* A name becomes declared, at the least.                                   *)
LEMMA DeclareFacts ==
  ASSUME IInv, NEW n \in Names, NEW queues \in BOOLEAN, Defer(n, queues),
         status' = [status EXCEPT ![n] = Declared(n)],
         referenced' \subseteq referenced \cup {n},
         UNCHANGED <<unit, phase, announced, current, emissions>>
  PROVE  /\ CountedOnce' /\ AnnouncedFirst' /\ PendingIsOpen' /\ DeferredAreAbsent' /\ Kept
         /\ status' \in [Names -> {"absent", "declared", "defined", "alias"}]
         /\ deferredDecls' \subseteq Names /\ deferredDeclsToEmit' \in Seq(Names)
<1>1. TypeOK /\ status \in [Names -> {"absent", "declared", "defined", "alias"}]
      /\ deferredDecls \subseteq Names
  BY DEF IInv, TypeOK
<1>2. /\ status' \in [Names -> {"absent", "declared", "defined", "alias"}]
      /\ status'[n] # "absent"
      /\ \A m \in Names : status[m] # "absent" => status'[m] = status[m]
      /\ \A m \in Names : status'[m] \in Final => status[m] = status'[m]
      /\ \A m \in Names : m # n => status'[m] = status[m]
  BY <1>1 DEF Declared, Final
<1>3. CountedOnce'
  BY <1>2 DEF IInv, CountedOnce, Final
<1>4. \A m \in Names : IsConstant(m)' <=> IsConstant(m)
  BY DEF IsConstant
<1>5. AnnouncedFirst'
  BY <1>2, <1>4 DEF IInv, AnnouncedFirst, Final
<1>6. PendingIsOpen'
  <2>1. IsConstant(current)' => IsConstant(current) /\ current \in Names
    BY DEF IsConstant, Names
  <2> QED BY <1>2, <2>1 DEF IInv, PendingIsOpen
<1>7. /\ deferredDecls' \subseteq deferredDecls /\ deferredDeclsToEmit' \in Seq(Names)
      /\ Range(deferredDeclsToEmit') \subseteq Range(deferredDeclsToEmit) \cup {n}
      /\ status[n] = "absent" => n \notin deferredDecls'
  BY <1>1, DeferFacts
<1>8. DeferredAreAbsent'
  <2>1. Range(deferredDeclsToEmit) \subseteq Names /\ referenced \subseteq Names
    BY QueueFacts DEF IInv, TypeOK
  <2>2. \A m \in deferredDecls' : status'[m] \in {"absent", "alias"}
    BY <1>1, <1>2, <1>7 DEF IInv, DeferredAreAbsent
  <2>3. \A m \in referenced' : status'[m] # "absent"
    BY <1>2, <2>1 DEF IInv, DeferredAreAbsent
  <2>4. \A m \in Range(deferredDeclsToEmit') : status'[m] # "absent"
    BY <1>2, <1>7, <2>1 DEF IInv, DeferredAreAbsent
  <2> QED BY <2>2, <2>3, <2>4 DEF DeferredAreAbsent
<1>9. Kept
  BY <1>2 DEF Kept, Final
<1> QED BY <1>1, <1>2, <1>3, <1>5, <1>6, <1>7, <1>8, <1>9

LEMMA ReferenceFacts ==
  ASSUME TypeOK, body # << >>
  PROVE  /\ Tail(body) \in Seq(Reference)
         /\ NextReference.kind \in {"direct", "member", "runtime", "weak"} => NextReference.to \in Names
         /\ NextReference.kind = "vtable" => NextReference.to \in Classes
<1>1. body \in Seq(Reference)
  BY DEF TypeOK
<1>2. Tail(body) \in Seq(Reference) /\ NextReference \in Reference
  BY <1>1, QueueFacts DEF NextReference
<1>3. PICK r \in Reference : r = NextReference
  BY <1>2
<1>4. /\ r.kind \in {"direct", "member", "runtime", "weak"} => r.to \in Names
      /\ r.kind = "vtable" => r.to \in Classes
  BY <1>3 DEF Reference, Names
<1> QED BY <1>2, <1>3, <1>4

LEMMA IInvRefer == IInv /\ Refer => IInv' /\ Kept
<1> SUFFICES ASSUME IInv, Refer PROVE IInv' /\ Kept
  OBVIOUS
<1>1. PICK n \in Names : n = NextReference.to
  BY ReferenceFacts DEF IInv, Refer
<1>2. PICK queues \in BOOLEAN :
        queues = (NextReference.kind # "runtime" /\ QueuesMember(n, NextReference.kind = "member"))
  OBVIOUS
<1>3. /\ Defer(n, queues) /\ Strengthen(n, NextReference.kind # "runtime")
      /\ status' = [status EXCEPT ![n] = Declared(n)] /\ referenced' = referenced \cup {n}
      /\ body' = Tail(body) /\ body # << >>
      /\ UNCHANGED <<unitVars, current, vtable, aliasee, emissions, deferredVTables, initVars>>
  BY <1>1, <1>2 DEF Refer
<1>4. /\ CountedOnce' /\ AnnouncedFirst' /\ PendingIsOpen' /\ DeferredAreAbsent' /\ Kept
      /\ status' \in [Names -> {"absent", "declared", "defined", "alias"}]
      /\ deferredDecls' \subseteq Names /\ deferredDeclsToEmit' \in Seq(Names)
  BY <1>3, DeclareFacts DEF unitVars
<1>5. body' \in Seq(Reference) /\ referenced' \subseteq Names
  BY <1>3, ReferenceFacts DEF IInv, TypeOK
<1>6. weakRefReferences' \subseteq Names /\ externWeak' \subseteq Names
  BY <1>3 DEF IInv, TypeOK, Strengthen
<1>7. TypeOK'
  BY <1>3, <1>4, <1>5, <1>6 DEF IInv, TypeOK, unitVars, initVars
<1> QED BY <1>4, <1>7 DEF IInv

LEMMA IInvReferWeakly == IInv /\ ReferWeakly => IInv' /\ Kept
<1> SUFFICES ASSUME IInv, ReferWeakly PROVE IInv' /\ Kept
  OBVIOUS
<1>1. PICK n \in Names : n = NextReference.to
  BY ReferenceFacts DEF IInv, ReferWeakly
<1>2. /\ Defer(n, FALSE)
      /\ status' = [status EXCEPT ![n] = Declared(n)] /\ referenced' = referenced
      /\ weakRefReferences' \subseteq weakRefReferences \cup {n}
      /\ externWeak' \subseteq externWeak \cup {n}
      /\ body' = Tail(body) /\ body # << >>
      /\ UNCHANGED <<unitVars, current, vtable, aliasee, emissions, deferredVTables, initVars>>
  BY <1>1 DEF ReferWeakly
<1>3. /\ CountedOnce' /\ AnnouncedFirst' /\ PendingIsOpen' /\ DeferredAreAbsent' /\ Kept
      /\ status' \in [Names -> {"absent", "declared", "defined", "alias"}]
      /\ deferredDecls' \subseteq Names /\ deferredDeclsToEmit' \in Seq(Names)
  BY <1>2, DeclareFacts DEF unitVars
<1>4. body' \in Seq(Reference)
  BY <1>2, ReferenceFacts DEF IInv
<1>5. TypeOK'
  BY <1>2, <1>3, <1>4 DEF IInv, TypeOK, unitVars, initVars
<1> QED BY <1>3, <1>5 DEF IInv

(* Steps that neither refer to a name nor define one.                       *)
LEMMA StatusKept ==
  ASSUME IInv, UNCHANGED <<unit, phase, announced, status, emissions, deferVars, referenced>>,
         current' = current \/ current' \notin Names
  PROVE  CountedOnce' /\ AnnouncedFirst' /\ PendingIsOpen' /\ DeferredAreAbsent' /\ Kept
<1>1. \A m \in Names : IsConstant(m)' <=> IsConstant(m)
  BY DEF IsConstant
<1>2. IsConstant(current)' => current' = current /\ IsConstant(current)
  BY DEF IsConstant, Names
<1>3. AnnouncedFirst'
  BY <1>1 DEF IInv, AnnouncedFirst
<1>4. PendingIsOpen'
  BY <1>2 DEF IInv, PendingIsOpen
<1> QED BY <1>3, <1>4 DEF IInv, CountedOnce, DeferredAreAbsent, Kept, deferVars

LEMMA VTableFacts ==
  ASSUME TypeOK, NEW c \in Classes, GetAddrOfVTable(c)
  PROVE  /\ vtable' \in [Classes -> {"absent", "declared", "defined"}]
         /\ deferredVTables' \in Seq(Classes)
<1>1. deferredVTables \in Seq(Classes) /\ vtable \in [Classes -> {"absent", "declared", "defined"}]
  BY DEF TypeOK
<1>2. Append(deferredVTables, c) \in Seq(Classes)
  BY <1>1, QueueFacts
<1> QED BY <1>1, <1>2 DEF GetAddrOfVTable

LEMMA IInvReferToVTable == IInv /\ ReferToVTable => IInv' /\ Kept
<1> SUFFICES ASSUME IInv, ReferToVTable PROVE IInv' /\ Kept
  OBVIOUS
<1>1. /\ GetAddrOfVTable(NextReference.to) /\ body' = Tail(body) /\ body # << >>
      /\ NextReference.kind = "vtable"
      /\ UNCHANGED <<unitVars, current, status, aliasee, emissions, linkVars, deferVars, initVars>>
  BY DEF ReferToVTable
<1>2. /\ vtable' \in [Classes -> {"absent", "declared", "defined"}]
      /\ deferredVTables' \in Seq(Classes) /\ body' \in Seq(Reference)
  BY <1>1, ReferenceFacts, VTableFacts DEF IInv
<1>3. CountedOnce' /\ AnnouncedFirst' /\ PendingIsOpen' /\ DeferredAreAbsent' /\ Kept
  BY <1>1, StatusKept DEF unitVars, linkVars
<1>4. TypeOK'
  BY <1>1, <1>2 DEF IInv, TypeOK, unitVars, linkVars, deferVars, initVars
<1> QED BY <1>3, <1>4 DEF IInv

LEMMA IInvFinish ==
  ASSUME IInv, FinishBody \/ FinishDynamicVariable \/ FinishVTable
  PROVE  IInv' /\ Kept
<1>1. /\ current' = NoName /\ NoName \notin Names /\ NoName \in Names \cup Classes \cup {NoName}
      /\ UNCHANGED <<unitVars, body, status, aliasee, emissions, linkVars, deferVars, deferredVTables>>
  BY NamesAssumption DEF FinishBody, FinishDynamicVariable, FinishVTable, valueVars
<1>2. CountedOnce' /\ AnnouncedFirst' /\ PendingIsOpen' /\ DeferredAreAbsent' /\ Kept
  BY <1>1, StatusKept DEF unitVars, linkVars
<1>3. vtable' \in [Classes -> {"absent", "declared", "defined"}]
  BY DEF IInv, TypeOK, FinishBody, FinishDynamicVariable, FinishVTable, valueVars
<1>4. /\ globalInits' \in Seq(Variables \cup {NoName})
      /\ delayedInitPosition' \in [Variables -> Nat]
  <2>1. /\ globalInits \in Seq(Variables \cup {NoName})
        /\ delayedInitPosition \in [Variables -> Nat] /\ unit.dynamic \subseteq Variables
    BY NamesAssumption DEF IInv, TypeOK, Unit
  <2>2. CASE FinishBody \/ FinishVTable
    BY <2>1, <2>2 DEF FinishBody, FinishVTable, initVars
  <2>3. CASE FinishDynamicVariable
    <3>1. PICK v \in Variables : v = current /\ PlaceInit(v)
      BY <2>1, <2>3 DEF FinishDynamicVariable
    <3>2. CASE delayedInitPosition[v] = 0
      <4>1. Append(globalInits, v) \in Seq(Variables \cup {NoName})
        BY <2>1, QueueFacts
      <4> QED BY <2>1, <3>1, <3>2, <4>1 DEF PlaceInit
    <3>3. CASE delayedInitPosition[v] # 0
      <4>1. [globalInits EXCEPT ![delayedInitPosition[v]] = v] \in Seq(Variables \cup {NoName})
        <5>1. PICK inits \in Seq(Variables \cup {NoName}) : inits = globalInits
          BY <2>1
        <5>2. PICK i : i = delayedInitPosition[v]
          OBVIOUS
        <5>3. Len(inits) \in Nat /\ inits \in [1 .. Len(inits) -> Variables \cup {NoName}]
          BY <5>1
        <5>4. [inits EXCEPT ![i] = v] \in [1 .. Len(inits) -> Variables \cup {NoName}]
          BY <5>3
        <5>5. \A f \in [1 .. Len(inits) -> Variables \cup {NoName}] :
                f \in Seq(Variables \cup {NoName})
          BY <5>3
        <5> QED BY <5>1, <5>2, <5>4, <5>5
      <4>2. [delayedInitPosition EXCEPT ![v] = 0] \in [Variables -> Nat]
        BY <2>1
      <4> QED BY <3>1, <3>3, <4>1, <4>2 DEF PlaceInit
    <3> QED BY <3>2, <3>3
  <2> QED BY <2>2, <2>3
<1>5. TypeOK'
  BY <1>1, <1>3, <1>4 DEF IInv, TypeOK, unitVars, linkVars, deferVars
<1> QED BY <1>2, <1>5 DEF IInv

-----------------------------------------------------------------------------
(* Definitions                                                              *)

Statuses == {"absent", "declared", "defined", "alias"}

LEMMA DefineFacts ==
  ASSUME IInv, NEW n \in Names, status[n] \notin Final, Define(n),
         deferredDecls' \subseteq deferredDecls, n \notin deferredDecls',
         Range(deferredDeclsToEmit') \subseteq Range(deferredDeclsToEmit) \cup {n}
  PROVE  /\ CountedOnce' /\ DeferredAreAbsent' /\ Kept
         /\ status' \in [Names -> Statuses] /\ emissions' \in [Names -> Nat]
         /\ weakRefReferences' \subseteq Names /\ externWeak' \subseteq Names
         /\ status'[n] = "defined" /\ \A m \in Names : m # n => status'[m] = status[m]
<1>1. /\ status \in [Names -> Statuses] /\ emissions \in [Names -> Nat]
      /\ weakRefReferences \subseteq Names /\ externWeak \subseteq Names
      /\ referenced \subseteq Names /\ deferredDecls \subseteq Names
      /\ Range(deferredDeclsToEmit) \subseteq Names
  BY QueueFacts DEF IInv, TypeOK, Statuses
<1>2. /\ status' = [status EXCEPT ![n] = "defined"] /\ referenced' = referenced
      /\ emissions' = [emissions EXCEPT ![n] = emissions[n] + 1]
      /\ weakRefReferences' \subseteq weakRefReferences /\ externWeak' \subseteq externWeak
  BY DEF Define
<1>3. /\ status' \in [Names -> Statuses] /\ emissions' \in [Names -> Nat]
      /\ status'[n] = "defined" /\ \A m \in Names : m # n => status'[m] = status[m]
  BY <1>1, <1>2 DEF Statuses
<1>4. emissions[n] = 0
  BY DEF IInv, CountedOnce, Final
<1>5. CountedOnce'
  BY <1>1, <1>2, <1>3, <1>4 DEF IInv, CountedOnce
<1>6. DeferredAreAbsent'
  BY <1>1, <1>2, <1>3 DEF IInv, DeferredAreAbsent
<1>7. Kept
  BY <1>3 DEF Kept
<1> QED BY <1>1, <1>2, <1>3, <1>5, <1>6, <1>7

LEMMA EmitGlobalDefinitionFacts ==
  ASSUME IInv, NEW n \in Names, status[n] \notin Final, NEW initializer \in Seq(Reference),
         EmitGlobalDefinition(n, initializer), unit' = unit
  PROVE  /\ CountedOnce' /\ DeferredAreAbsent' /\ Kept /\ PendingIsOpen'
         /\ current' = n /\ body' \in Seq(Reference)
         /\ deferredDecls' \subseteq Names /\ deferredDeclsToEmit' \in Seq(Names)
         /\ status' \in [Names -> Statuses] /\ emissions' \in [Names -> Nat]
         /\ weakRefReferences' \subseteq Names /\ externWeak' \subseteq Names
         /\ referenced' = referenced
         /\ status'[n] # "alias" /\ \A m \in Names : m # n => status'[m] = status[m]
         /\ UNCHANGED <<vtable, aliasee, deferredVTables>>
<1>1. /\ status \in [Names -> Statuses] /\ emissions \in [Names -> Nat]
      /\ weakRefReferences \subseteq Names /\ externWeak \subseteq Names
      /\ deferredDecls \subseteq Names /\ deferredDeclsToEmit \in Seq(Names)
  BY DEF IInv, TypeOK, Statuses
<1>2. /\ current' = n /\ body' = initializer /\ UNCHANGED <<vtable, aliasee, deferredVTables>>
      /\ IsConstant(n)' <=> IsConstant(n)
  BY DEF EmitGlobalDefinition, IsConstant
<1>3. CASE IsConstant(n)
  <2>1. UNCHANGED <<deferVars, linkVars, status, emissions>>
    BY <1>3 DEF EmitGlobalDefinition
  <2>2. CountedOnce' /\ DeferredAreAbsent' /\ Kept /\ PendingIsOpen'
    BY <1>2, <2>1 DEF IInv, CountedOnce, DeferredAreAbsent, Kept, PendingIsOpen, deferVars, linkVars
  <2> QED BY <1>1, <1>2, <2>1, <2>2 DEF deferVars, linkVars, Final
<1>4. CASE ~IsConstant(n)
  <2>1. PICK queues \in BOOLEAN : Defer(n, queues) /\ Define(n)
    <3>1. PICK queues \in BOOLEAN : queues = QueuesMember(n, FALSE)
      BY DEF QueuesMember
    <3> QED BY <1>4, <3>1 DEF EmitGlobalDefinition
  <2>2. /\ deferredDecls' \subseteq deferredDecls /\ deferredDeclsToEmit' \in Seq(Names)
        /\ Range(deferredDeclsToEmit') \subseteq Range(deferredDeclsToEmit) \cup {n}
        /\ status[n] = "absent" => n \notin deferredDecls'
    BY <2>1, DeferFacts DEF IInv
  <2>3. n \notin deferredDecls'
    BY <2>2 DEF IInv, DeferredAreAbsent, Final
  <2>4. /\ CountedOnce' /\ DeferredAreAbsent' /\ Kept
        /\ status' \in [Names -> Statuses] /\ emissions' \in [Names -> Nat]
        /\ weakRefReferences' \subseteq Names /\ externWeak' \subseteq Names
        /\ status'[n] = "defined" /\ \A m \in Names : m # n => status'[m] = status[m]
    BY <2>1, <2>2, <2>3, DefineFacts
  <2>5. PendingIsOpen' /\ referenced' = referenced
    BY <1>2, <1>4, <2>1 DEF PendingIsOpen, Define
  <2> QED BY <1>1, <1>2, <2>2, <2>4, <2>5
<1> QED BY <1>3, <1>4

(* The announcement of what is emitted now.                                 *)
LEMMA AnnouncedNow ==
  ASSUME IInv, NEW n \in Names, phase \in {"parsing", "tentative"}, unit' = unit, phase' = phase,
         NEW as \in {"strong", "forced", "completed", "staticCompleted"},
         announced' = [announced EXCEPT ![n] = as],
         current' = n, status'[n] # "alias", \A m \in Names : m # n => status'[m] = status[m]
  PROVE  AnnouncedFirst' /\ announced' \in [Names -> Announcement]
<1>1. announced \in [Names -> Announcement] /\ as \in Announcement
  BY DEF IInv, TypeOK, Announcement
<1>2. \A m \in Names : m # n => announced'[m] = announced[m]
  BY <1>1
<1>3. announced'[n] = as
  BY <1>1
<1>4. AnnouncedFirst'
  BY <1>2, <1>3 DEF IInv, AnnouncedFirst
<1> QED BY <1>1, <1>4

LEMMA UnitFacts ==
  ASSUME TypeOK
  PROVE  /\ \A n \in Names : unit.refs[n] \in Seq(Reference)
         /\ unit.dynamic \subseteq Variables
         /\ \A c \in Classes : unit.virtual[c] \in Seq(Members)
  BY NamesAssumption DEF TypeOK, Unit

LEMMA IInvEmitGlobalNow ==
  ASSUME IInv, NEW n \in Names, EmitGlobalNow(n)
  PROVE  IInv' /\ Kept
<1>1. /\ phase = "parsing" /\ announced[n] \in {"no", "inline", "tentative"}
      /\ announced' = [announced EXCEPT ![n] = "strong"] /\ roots' = roots \cup {n}
      /\ initOrder' = IF n \in unit.dynamic THEN Append(initOrder, n) ELSE initOrder
      /\ EmitGlobalDefinition(n, unit.refs[n])
      /\ UNCHANGED <<unit, phase, errors, initVars>>
  BY DEF EmitGlobalNow, Parsing, Announce
<1>2. status[n] \notin Final
  BY <1>1 DEF IInv, AnnouncedFirst, Final
<1>3. PICK initializer \in Seq(Reference) : initializer = unit.refs[n]
  BY UnitFacts DEF IInv
<1>4. /\ CountedOnce' /\ DeferredAreAbsent' /\ Kept /\ PendingIsOpen'
      /\ current' = n /\ body' \in Seq(Reference)
      /\ deferredDecls' \subseteq Names /\ deferredDeclsToEmit' \in Seq(Names)
      /\ status' \in [Names -> Statuses] /\ emissions' \in [Names -> Nat]
      /\ weakRefReferences' \subseteq Names /\ externWeak' \subseteq Names
      /\ referenced' = referenced
      /\ status'[n] # "alias" /\ \A m \in Names : m # n => status'[m] = status[m]
      /\ UNCHANGED <<vtable, aliasee, deferredVTables>>
  BY <1>1, <1>2, <1>3, EmitGlobalDefinitionFacts
<1>5. AnnouncedFirst' /\ announced' \in [Names -> Announcement]
  BY <1>1, <1>4, AnnouncedNow
<1>6. initOrder' \in Seq(Variables) /\ roots' \subseteq Names \cup Classes
  <2>1. initOrder \in Seq(Variables) /\ unit.dynamic \subseteq Variables
    BY UnitFacts DEF IInv, TypeOK
  <2>2. n \in Variables => Append(initOrder, n) \in Seq(Variables)
    BY <2>1, QueueFacts
  <2> QED BY <1>1, <2>1, <2>2 DEF IInv, TypeOK
<1>7. TypeOK'
  BY <1>1, <1>4, <1>5, <1>6 DEF IInv, TypeOK, Statuses, initVars
<1> QED BY <1>4, <1>5, <1>7 DEF IInv

LEMMA IInvFinishConstantVariable == IInv /\ FinishConstantVariable => IInv' /\ Kept
<1> SUFFICES ASSUME IInv, FinishConstantVariable PROVE IInv' /\ Kept
  OBVIOUS
<1>1. PICK n \in Names : n = current
  BY DEF FinishConstantVariable, IsConstant, Names
<1>2. /\ IsConstant(n) /\ Defer(n, FALSE) /\ Define(n) /\ n \in Variables
      /\ delayedInitPosition' = [delayedInitPosition EXCEPT ![n] = 0] /\ current' = NoName
      /\ UNCHANGED <<unitVars, body, vtable, aliasee, deferredVTables, globalInits>>
  BY <1>1 DEF FinishConstantVariable, IsConstant
<1>3. status[n] \notin Final
  BY <1>1, <1>2 DEF IInv, PendingIsOpen
<1>4. /\ deferredDecls' \subseteq deferredDecls /\ deferredDeclsToEmit' \in Seq(Names)
      /\ Range(deferredDeclsToEmit') \subseteq Range(deferredDeclsToEmit) \cup {n}
      /\ status[n] = "absent" => n \notin deferredDecls'
  BY <1>2, DeferFacts DEF IInv
<1>5. n \notin deferredDecls' /\ deferredDecls' \subseteq Names
  BY <1>3, <1>4 DEF IInv, DeferredAreAbsent, Final, TypeOK
<1>6. /\ CountedOnce' /\ DeferredAreAbsent' /\ Kept
      /\ status' \in [Names -> Statuses] /\ emissions' \in [Names -> Nat]
      /\ weakRefReferences' \subseteq Names /\ externWeak' \subseteq Names
      /\ status'[n] = "defined" /\ \A m \in Names : m # n => status'[m] = status[m]
  BY <1>2, <1>3, <1>4, <1>5, DefineFacts
<1>7. NoName \notin Names /\ NoName \in Names \cup Classes \cup {NoName}
  BY NamesAssumption
<1>8. AnnouncedFirst'
  BY <1>1, <1>2, <1>6, <1>7 DEF IInv, AnnouncedFirst, unitVars
<1>9. PendingIsOpen'
  BY <1>2, <1>7 DEF PendingIsOpen, IsConstant, Names
<1>10. referenced' = referenced
  BY <1>2 DEF Define
<1>11. TypeOK'
  BY <1>2, <1>4, <1>5, <1>6, <1>7, <1>10 DEF IInv, TypeOK, Statuses, unitVars
<1> QED BY <1>6, <1>8, <1>9, <1>11 DEF IInv

-----------------------------------------------------------------------------
(* The callbacks                                                            *)

(* Steps of the parser that announce n and define nothing.                  *)
LEMMA AnnouncedOnly ==
  ASSUME IInv, Idle, NEW n \in Names, NEW as \in Announcement, status[n] \notin Final,
         as = "inline" => n \in Functions,
         announced' = [announced EXCEPT ![n] = as],
         UNCHANGED <<unit, phase, status, emissions, current>>
  PROVE  /\ CountedOnce' /\ AnnouncedFirst' /\ PendingIsOpen' /\ Kept
         /\ announced' \in [Names -> Announcement]
<1>1. announced \in [Names -> Announcement] /\ current = NoName /\ NoName \notin Names
  BY NamesAssumption DEF IInv, TypeOK, Idle
<1>2. announced' \in [Names -> Announcement] /\ \A m \in Names : m # n => announced'[m] = announced[m]
  BY <1>1
<1>3. AnnouncedFirst'
  BY <1>1, <1>2 DEF IInv, AnnouncedFirst, Final
<1>4. PendingIsOpen'
  BY <1>1 DEF PendingIsOpen, IsConstant, Names
<1> QED BY <1>2, <1>3, <1>4 DEF IInv, CountedOnce, Kept

LEMMA IInvEmitGlobalDeferred ==
  ASSUME IInv, NEW n \in Names, NEW as \in {"static", "inline"}, EmitGlobalDeferred(n, as)
  PROVE  IInv' /\ Kept
<1>1. /\ phase = "parsing" /\ Idle /\ announced[n] \in {"no", "staticTentative"} /\ as \in Announcement
      /\ announced' = [announced EXCEPT ![n] = as] /\ DeferGlobal(n)
      /\ UNCHANGED <<unit, phase, errors, roots, codeVars, valueVars, linkVars, deferredVTables>>
  BY DEF EmitGlobalDeferred, Parsing, Announce, Announcement
<1>2. status[n] \notin Final
  BY <1>1 DEF IInv, AnnouncedFirst, Final
<1>3. /\ CountedOnce' /\ AnnouncedFirst' /\ PendingIsOpen' /\ Kept
      /\ announced' \in [Names -> Announcement]
  <2>1. as = "inline" => n \in Functions
    BY DEF EmitGlobalDeferred
  <2> QED BY <1>1, <1>2, <2>1, AnnouncedOnly DEF valueVars, codeVars
<1>4. /\ deferredDecls \subseteq Names /\ deferredDeclsToEmit \in Seq(Names)
      /\ Append(deferredDeclsToEmit, n) \in Seq(Names)
      /\ Range(Append(deferredDeclsToEmit, n)) = Range(deferredDeclsToEmit) \cup {n}
  BY QueueFacts DEF IInv, TypeOK
<1>5. deferredDecls' \subseteq Names /\ deferredDeclsToEmit' \in Seq(Names)
  BY <1>1, <1>4 DEF DeferGlobal
<1>6. DeferredAreAbsent'
  BY <1>1, <1>4 DEF IInv, DeferredAreAbsent, DeferGlobal, valueVars, linkVars
<1>7. initOrder' \in Seq(Variables)
  <2>1. initOrder \in Seq(Variables) /\ unit.dynamic \subseteq Variables
    BY UnitFacts DEF IInv, TypeOK
  <2>2. n \in Variables => Append(initOrder, n) \in Seq(Variables)
    BY <2>1, QueueFacts
  <2> QED BY <2>1, <2>2 DEF EmitGlobalDeferred
<1>8. /\ globalInits' \in Seq(Variables \cup {NoName})
      /\ delayedInitPosition' \in [Variables -> Nat]
  <2>1. /\ globalInits \in Seq(Variables \cup {NoName}) /\ Len(globalInits) \in Nat
        /\ delayedInitPosition \in [Variables -> Nat]
    BY DEF IInv, TypeOK
  <2>2. Append(globalInits, NoName) \in Seq(Variables \cup {NoName})
    BY <2>1, QueueFacts
  <2>3. [delayedInitPosition EXCEPT ![n] = Len(globalInits) + 1] \in [Variables -> Nat]
    <3>1. PICK position \in Nat : position = Len(globalInits) + 1
      BY <2>1
    <3>2. [delayedInitPosition EXCEPT ![n] = position] \in [Variables -> Nat]
      BY <2>1
    <3> QED BY <3>1, <3>2
  <2> QED BY <2>1, <2>2, <2>3 DEF EmitGlobalDeferred, initVars
<1>9. TypeOK'
  BY <1>1, <1>3, <1>5, <1>7, <1>8 DEF IInv, TypeOK, codeVars, valueVars, linkVars
<1> QED BY <1>3, <1>6, <1>9 DEF IInv

LEMMA IInvEmitGlobalForced ==
  ASSUME IInv, NEW n \in Names, EmitGlobalForced(n)
  PROVE  IInv' /\ Kept
<1>1. /\ phase = "parsing" /\ announced[n] = "inline"
      /\ announced' = [announced EXCEPT ![n] = "forced"] /\ roots' = roots \cup {n}
      /\ deferredDecls' = deferredDecls \ {n} /\ current' = n /\ body' = unit.refs[n] /\ Define(n)
      /\ UNCHANGED <<unit, phase, errors, initOrder, vtable, aliasee, deferredDeclsToEmit,
                     deferredVTables, initVars>>
  BY DEF EmitGlobalForced, Parsing, Announce
<1>2. status[n] \notin Final
  BY <1>1 DEF IInv, AnnouncedFirst, Final
<1>3. /\ CountedOnce' /\ DeferredAreAbsent' /\ Kept
      /\ status' \in [Names -> Statuses] /\ emissions' \in [Names -> Nat]
      /\ weakRefReferences' \subseteq Names /\ externWeak' \subseteq Names
      /\ status'[n] = "defined" /\ \A m \in Names : m # n => status'[m] = status[m]
  BY <1>1, <1>2, DefineFacts
<1>4. AnnouncedFirst' /\ announced' \in [Names -> Announcement]
  BY <1>1, <1>3, AnnouncedNow
<1>5. PendingIsOpen'
  <2>1. n \in Functions /\ n \notin Variables
    BY <1>1, NamesAssumption DEF IInv, AnnouncedFirst
  <2> QED BY <1>1, <2>1 DEF PendingIsOpen, IsConstant
<1>6. referenced' = referenced /\ body' \in Seq(Reference)
  BY <1>1, UnitFacts DEF Define, IInv
<1>7. TypeOK'
  BY <1>1, <1>3, <1>4, <1>6 DEF IInv, TypeOK, Statuses, initVars
<1> QED BY <1>3, <1>4, <1>5, <1>7 DEF IInv

LEMMA IInvDeclareTentative ==
  ASSUME IInv, NEW v \in Variables, NEW as \in {"tentative", "staticTentative"},
         DeclareTentative(v, as)
  PROVE  IInv' /\ Kept
<1>1. /\ phase = "parsing" /\ Idle /\ announced[v] = "no" /\ as \in Announcement /\ v \in Names
      /\ announced' = [announced EXCEPT ![v] = as]
      /\ UNCHANGED <<unit, phase, errors, roots, initOrder, codeVars, valueVars, linkVars,
                     deferVars, deferredVTables, initVars>>
  BY DEF DeclareTentative, Parsing, Announce, Announcement, Names
<1>2. status[v] \notin Final
  BY <1>1 DEF IInv, AnnouncedFirst, Final
<1>3. /\ CountedOnce' /\ AnnouncedFirst' /\ PendingIsOpen' /\ Kept
      /\ announced' \in [Names -> Announcement]
  BY <1>1, <1>2, AnnouncedOnly DEF valueVars, codeVars
<1>4. DeferredAreAbsent'
  BY <1>1 DEF IInv, DeferredAreAbsent, valueVars, linkVars, deferVars
<1>5. TypeOK'
  BY <1>1, <1>3 DEF IInv, TypeOK, codeVars, valueVars, linkVars, deferVars, initVars
<1> QED BY <1>3, <1>4, <1>5 DEF IInv

LEMMA IInvEmitAliasDefinition ==
  ASSUME IInv, NEW n \in Names, NEW target \in Names, EmitAliasDefinition(n, target)
  PROVE  IInv' /\ Kept
<1>1. /\ phase = "parsing" /\ Idle /\ n # target /\ announced[n] \in {"no", "inline"}
      /\ announced' = [announced EXCEPT ![n] = "alias"] /\ Defer(target, FALSE)
      /\ weakRefReferences' \subseteq weakRefReferences /\ externWeak' \subseteq externWeak
      /\ status' = [status EXCEPT ![target] = Declared(target), ![n] = "alias"]
      /\ aliasee' = [aliasee EXCEPT ![n] = target] /\ roots' = roots \cup {n}
      /\ UNCHANGED <<unit, phase, errors, initOrder, codeVars, vtable, emissions, referenced,
                     deferredVTables, initVars>>
  BY DEF EmitAliasDefinition, Parsing, Announce
<1>2. /\ status \in [Names -> Statuses] /\ announced \in [Names -> Announcement]
      /\ aliasee \in [Names -> Names \cup {NoName}] /\ deferredDecls \subseteq Names
      /\ Range(deferredDeclsToEmit) \subseteq Names /\ referenced \subseteq Names
      /\ current = NoName /\ NoName \notin Names
  BY <1>1, QueueFacts, NamesAssumption DEF IInv, TypeOK, Statuses, Idle
<1>3. status[n] \notin Final
  BY <1>1 DEF IInv, AnnouncedFirst, Final
<1>4. /\ status' \in [Names -> Statuses] /\ status'[n] = "alias" /\ status'[target] # "absent"
      /\ \A m \in Names : status[m] # "absent" /\ m # n => status'[m] = status[m]
      /\ \A m \in Names : m # n /\ m # target => status'[m] = status[m]
      /\ \A m \in Names : m # n /\ status'[m] \in Final => status[m] = status'[m]
  <2>1. PICK s \in Statuses : s = Declared(target)
    BY <1>2 DEF Declared, Statuses
  <2>2. s # "absent" /\ (status[target] # "absent" => s = status[target])
        /\ (s \in Final => s = status[target])
    BY <2>1 DEF Declared, Final
  <2>3. status' = [status EXCEPT ![target] = s, ![n] = "alias"]
    BY <1>1, <2>1
  <2>4. \A m \in Names : status'[m] = IF m = n THEN "alias" ELSE IF m = target THEN s ELSE status[m]
    BY <1>1, <1>2, <2>3
  <2>5. status' \in [Names -> Statuses]
    BY <1>2, <2>1, <2>3 DEF Statuses
  <2> QED BY <1>1, <2>2, <2>4, <2>5
<1>5. /\ announced' \in [Names -> Announcement] /\ announced'[n] = "alias"
      /\ \A m \in Names : m # n => announced'[m] = announced[m]
  BY <1>1, <1>2 DEF Announcement
<1>6. CountedOnce'
  BY <1>1, <1>3, <1>4 DEF IInv, CountedOnce, Final
<1>7. AnnouncedFirst'
  BY <1>1, <1>2, <1>4, <1>5 DEF IInv, AnnouncedFirst, Final, codeVars
<1>8. PendingIsOpen'
  BY <1>1, <1>2 DEF PendingIsOpen, IsConstant, Names, codeVars
<1>9. /\ deferredDecls' \subseteq deferredDecls /\ deferredDeclsToEmit' \in Seq(Names)
      /\ Range(deferredDeclsToEmit') \subseteq Range(deferredDeclsToEmit) \cup {target}
      /\ status[target] = "absent" => target \notin deferredDecls'
  BY <1>1, DeferFacts DEF IInv
<1>10. DeferredAreAbsent'
  <2>1. \A m \in deferredDecls' : status'[m] \in {"absent", "alias"}
    BY <1>2, <1>4, <1>9 DEF IInv, DeferredAreAbsent
  <2>2. \A m \in referenced' : status'[m] # "absent"
    BY <1>1, <1>2, <1>4 DEF IInv, DeferredAreAbsent
  <2>3. \A m \in Range(deferredDeclsToEmit') : status'[m] # "absent"
    BY <1>2, <1>4, <1>9 DEF IInv, DeferredAreAbsent
  <2> QED BY <2>1, <2>2, <2>3 DEF DeferredAreAbsent
<1>11. Kept
  BY <1>3, <1>4 DEF Kept, Final
<1>12. TypeOK'
  <2>1. aliasee' \in [Names -> Names \cup {NoName}]
    BY <1>1, <1>2
  <2> QED BY <1>1, <1>2, <1>4, <1>5, <1>9, <2>1 DEF IInv, TypeOK, Statuses, codeVars, initVars
<1> QED BY <1>6, <1>7, <1>8, <1>10, <1>11, <1>12 DEF IInv

LEMMA IInvInstantiateExplicitly ==
  ASSUME IInv, NEW v \in Variables, InstantiateExplicitly(v)
  PROVE  IInv' /\ Kept
<1>1. /\ Defer(v, FALSE) /\ Strengthen(v, TRUE) /\ v \in Names
      /\ status' = [status EXCEPT ![v] = Declared(v)] /\ roots' = roots \cup {v}
      /\ referenced' = referenced \cup {v}
      /\ UNCHANGED <<unit, phase, errors, announced, initOrder, codeVars, vtable, aliasee,
                     emissions, deferredVTables, initVars>>
  BY DEF InstantiateExplicitly, Names
<1>2. /\ CountedOnce' /\ AnnouncedFirst' /\ PendingIsOpen' /\ DeferredAreAbsent' /\ Kept
      /\ status' \in [Names -> {"absent", "declared", "defined", "alias"}]
      /\ deferredDecls' \subseteq Names /\ deferredDeclsToEmit' \in Seq(Names)
  BY <1>1, DeclareFacts DEF codeVars
<1>3. weakRefReferences' \subseteq Names /\ externWeak' \subseteq Names
  BY <1>1 DEF IInv, TypeOK, Strengthen
<1>4. TypeOK'
  BY <1>1, <1>2, <1>3 DEF IInv, TypeOK, codeVars, initVars
<1> QED BY <1>2, <1>4 DEF IInv

(* The code of a vtable refers to its virtual members.                      *)
LEMMA VTableBody ==
  ASSUME TypeOK, NEW c \in Classes
  PROVE  [i \in DOMAIN unit.virtual[c] |-> [kind |-> "member", to |-> unit.virtual[c][i]]]
           \in Seq(Reference)
<1>1. PICK members \in Seq(Members) : members = unit.virtual[c]
  BY UnitFacts
<1>2. \A i \in DOMAIN members : [kind |-> "member", to |-> members[i]] \in Reference
  BY DEF Reference
<1>3. DOMAIN members = 1 .. Len(members) /\ Len(members) \in Nat
  OBVIOUS
<1>4. [i \in 1 .. Len(members) |-> [kind |-> "member", to |-> members[i]]] \in Seq(Reference)
  BY <1>2, <1>3
<1> QED BY <1>1, <1>3, <1>4

LEMMA IInvHandleVTable ==
  ASSUME IInv, NEW c \in Classes, HandleVTable(c)
  PROVE  IInv' /\ Kept
<1>1. /\ Idle /\ roots' = roots \cup {c} /\ GetAddrOfVTable(c) /\ current' = c
      /\ body' = [i \in DOMAIN unit.virtual[c] |-> [kind |-> "member", to |-> unit.virtual[c][i]]]
      /\ UNCHANGED <<unit, phase, errors, announced, initOrder, status, aliasee, emissions,
                     linkVars, deferVars, initVars>>
  BY DEF HandleVTable, Parsing
<1>2. c \notin Names
  BY NamesAssumption
<1>3. CountedOnce' /\ AnnouncedFirst' /\ PendingIsOpen' /\ DeferredAreAbsent' /\ Kept
  BY <1>1, <1>2, StatusKept DEF linkVars
<1>4. /\ vtable' \in [Classes -> {"absent", "declared", "defined"}]
      /\ deferredVTables' \in Seq(Classes) /\ body' \in Seq(Reference)
  BY <1>1, VTableFacts, VTableBody DEF IInv
<1>5. TypeOK'
  BY <1>1, <1>4 DEF IInv, TypeOK, linkVars, deferVars, initVars
<1> QED BY <1>3, <1>5 DEF IInv

LEMMA IInvPhase ==
  ASSUME IInv, Error \/ EndOfProgram \/ HandleProgram \/ EmitCXXGlobalInitFunc
  PROVE  IInv' /\ Kept
<1>1. UNCHANGED <<unit, announced, roots, initOrder, codeVars, valueVars, linkVars, deferVars,
                  deferredVTables, initVars>>
  BY DEF Error, EndOfProgram, HandleProgram, EmitCXXGlobalInitFunc
<1>2. /\ phase' \in {"parsing", "tentative", "releasing", "done", "reset"} /\ errors' \in BOOLEAN
      /\ phase' \in {"parsing", "tentative"} => phase \in {"parsing", "tentative"}
  BY DEF IInv, TypeOK, Error, EndOfProgram, HandleProgram, EmitCXXGlobalInitFunc
<1>3. TypeOK'
  BY <1>1, <1>2 DEF IInv, TypeOK, codeVars, valueVars, linkVars, deferVars, initVars
<1>4. CountedOnce' /\ DeferredAreAbsent' /\ Kept
  BY <1>1 DEF IInv, CountedOnce, DeferredAreAbsent, Kept, valueVars, linkVars, deferVars
<1>5. AnnouncedFirst' /\ PendingIsOpen'
  BY <1>1, <1>2 DEF IInv, AnnouncedFirst, PendingIsOpen, IsConstant, codeVars, valueVars
<1> QED BY <1>3, <1>4, <1>5 DEF IInv

LEMMA IInvEmitTentativeDefinition ==
  ASSUME IInv, NEW v \in Variables, EmitTentativeDefinition(v)
  PROVE  IInv' /\ Kept
<1>1. /\ phase = "tentative" /\ Idle /\ v \in Names /\ << >> \in Seq(Reference)
      /\ announced[v] \in {"tentative", "staticTentative"}
      /\ UNCHANGED <<unit, phase, errors, initOrder, initVars>>
  BY DEF EmitTentativeDefinition, Names
<1>2. status[v] \notin Final
  BY <1>1 DEF IInv, AnnouncedFirst, Final
<1>3. CASE /\ status[v] = "absent"
           /\ announced' = [announced EXCEPT ![v] = "staticCompleted"]
           /\ deferredDecls' = deferredDecls \cup {v}
           /\ UNCHANGED <<roots, deferredDeclsToEmit, codeVars, valueVars, linkVars, deferredVTables>>
  <2>1. /\ CountedOnce' /\ AnnouncedFirst' /\ PendingIsOpen' /\ Kept
        /\ announced' \in [Names -> Announcement]
    BY <1>1, <1>2, <1>3, AnnouncedOnly DEF valueVars, codeVars, Announcement
  <2>2. DeferredAreAbsent'
    BY <1>3 DEF IInv, DeferredAreAbsent, valueVars, linkVars
  <2>3. TypeOK'
    BY <1>1, <1>3, <2>1 DEF IInv, TypeOK, codeVars, valueVars, linkVars, initVars
  <2> QED BY <2>1, <2>2, <2>3 DEF IInv
<1>4. ASSUME NEW as \in {"completed", "staticCompleted"},
             announced' = [announced EXCEPT ![v] = as], EmitGlobalDefinition(v, << >>),
             roots' \subseteq roots \cup {v}
      PROVE  IInv' /\ Kept
  <2>1. /\ CountedOnce' /\ DeferredAreAbsent' /\ Kept /\ PendingIsOpen'
        /\ current' = v /\ body' \in Seq(Reference)
        /\ deferredDecls' \subseteq Names /\ deferredDeclsToEmit' \in Seq(Names)
        /\ status' \in [Names -> Statuses] /\ emissions' \in [Names -> Nat]
        /\ weakRefReferences' \subseteq Names /\ externWeak' \subseteq Names
        /\ referenced' = referenced
        /\ status'[v] # "alias" /\ \A m \in Names : m # v => status'[m] = status[m]
        /\ UNCHANGED <<vtable, aliasee, deferredVTables>>
    BY <1>1, <1>2, <1>4, EmitGlobalDefinitionFacts
  <2>2. AnnouncedFirst' /\ announced' \in [Names -> Announcement]
    BY <1>1, <1>4, <2>1, AnnouncedNow
  <2>3. TypeOK'
    BY <1>1, <1>4, <2>1, <2>2 DEF IInv, TypeOK, Statuses, initVars
  <2> QED BY <2>1, <2>2, <2>3 DEF IInv
<1> QED BY <1>3, <1>4 DEF EmitTentativeDefinition

-----------------------------------------------------------------------------
(* Release                                                                  *)

LEMMA IInvEmitDeferredVTable == IInv /\ EmitDeferredVTable => IInv' /\ Kept
<1> SUFFICES ASSUME IInv, EmitDeferredVTable PROVE IInv' /\ Kept
  OBVIOUS
<1>1. /\ Idle /\ deferredVTables # << >> /\ deferredVTables' = Popped(deferredVTables)
      /\ UNCHANGED <<unitVars, valueVars, linkVars, deferVars, initVars>>
  BY DEF EmitDeferredVTable, Releasing
<1>2. deferredVTables' \in Seq(Classes) /\ Last(deferredVTables) \in Classes
  BY <1>1, QueueFacts DEF IInv, TypeOK
<1>3. PICK c \in Classes : c = Last(deferredVTables)
  BY <1>2
<1>4. \/ UNCHANGED codeVars
      \/ /\ current' = c
         /\ body' = [i \in DOMAIN unit.virtual[c] |-> [kind |-> "member", to |-> unit.virtual[c][i]]]
  BY <1>3 DEF EmitDeferredVTable
<1>5. c \notin Names
  BY NamesAssumption
<1>6. /\ current' = current \/ current' \notin Names
      /\ current' \in Names \cup Classes \cup {NoName} /\ body' \in Seq(Reference)
  BY <1>4, <1>5, VTableBody DEF IInv, TypeOK, codeVars
<1>7. CountedOnce' /\ AnnouncedFirst' /\ PendingIsOpen' /\ DeferredAreAbsent' /\ Kept
  BY <1>1, <1>6, StatusKept DEF unitVars, valueVars, linkVars
<1>8. TypeOK'
  BY <1>1, <1>2, <1>6 DEF IInv, TypeOK, unitVars, valueVars, linkVars, deferVars, initVars
<1> QED BY <1>7, <1>8 DEF IInv

LEMMA IInvEmitDeferredDecl == IInv /\ EmitDeferredDecl => IInv' /\ Kept
<1> SUFFICES ASSUME IInv, EmitDeferredDecl PROVE IInv' /\ Kept
  OBVIOUS
<1>1. /\ phase = "releasing" /\ Idle /\ deferredDeclsToEmit # << >>
      /\ deferredDeclsToEmit' = Popped(deferredDeclsToEmit)
      /\ UNCHANGED <<unitVars, vtable, aliasee, deferredDecls, deferredVTables, initVars>>
  BY DEF EmitDeferredDecl, Releasing
<1>2. /\ deferredDeclsToEmit' \in Seq(Names) /\ Last(deferredDeclsToEmit) \in Names
      /\ Last(deferredDeclsToEmit) \in Range(deferredDeclsToEmit)
      /\ Range(deferredDeclsToEmit') \subseteq Range(deferredDeclsToEmit)
  BY <1>1, QueueFacts DEF IInv, TypeOK
<1>3. PICK n \in Names : n = Last(deferredDeclsToEmit)
  BY <1>2
<1>4. \A m \in Names : IsConstant(m)' <=> IsConstant(m)
  BY <1>1 DEF IsConstant, unitVars
<1>5. current = NoName /\ NoName \notin Names
  BY <1>1, NamesAssumption DEF Idle
<1>6. CASE AlreadyEmitted(n) \/ ~ShouldEmit(n)
  <2>1. UNCHANGED <<codeVars, status, emissions, linkVars>>
    BY <1>3, <1>6 DEF EmitDeferredDecl
  <2>2. CountedOnce' /\ DeferredAreAbsent' /\ Kept
    BY <1>1, <1>2, <2>1 DEF IInv, CountedOnce, DeferredAreAbsent, Kept, linkVars
  <2>3. AnnouncedFirst' /\ PendingIsOpen'
    BY <1>1, <1>4, <1>5, <2>1 DEF IInv, AnnouncedFirst, PendingIsOpen, IsConstant, unitVars,
                                  codeVars, Names
  <2>4. TypeOK'
    BY <1>1, <1>2, <2>1 DEF IInv, TypeOK, unitVars, codeVars, linkVars, initVars
  <2> QED BY <2>2, <2>3, <2>4 DEF IInv
<1>7. CASE ~(AlreadyEmitted(n) \/ ~ShouldEmit(n))
  <2>1. /\ current' = n /\ status[n] \notin Final
        /\ body' = IF announced[n] = "staticCompleted" THEN << >> ELSE unit.refs[n]
        /\ IF IsConstant(n) THEN UNCHANGED <<linkVars, status, emissions>> ELSE Define(n)
    BY <1>3, <1>7 DEF EmitDeferredDecl, AlreadyEmitted, Final
  <2>2. body' \in Seq(Reference)
    BY <2>1, UnitFacts DEF IInv
  <2>3. /\ CountedOnce' /\ DeferredAreAbsent' /\ Kept
        /\ status' \in [Names -> Statuses] /\ emissions' \in [Names -> Nat]
        /\ weakRefReferences' \subseteq Names /\ externWeak' \subseteq Names
        /\ referenced' = referenced /\ PendingIsOpen'
    <3>1. CASE IsConstant(n)
      <4>1. UNCHANGED <<linkVars, status, emissions>>
        BY <2>1, <3>1
      <4>2. CountedOnce' /\ DeferredAreAbsent' /\ Kept
        BY <1>1, <1>2, <4>1 DEF IInv, CountedOnce, DeferredAreAbsent, Kept, linkVars
      <4>3. PendingIsOpen'
        BY <2>1, <4>1 DEF PendingIsOpen
      <4> QED BY <4>1, <4>2, <4>3 DEF IInv, TypeOK, Statuses, linkVars
    <3>2. CASE ~IsConstant(n)
      <4>1. Define(n)
        BY <2>1, <3>2
      <4>2. n \notin deferredDecls' /\ deferredDecls' \subseteq deferredDecls
        BY <1>1, <1>2, <1>3, <2>1 DEF IInv, DeferredAreAbsent, Final
      <4>3. /\ CountedOnce' /\ DeferredAreAbsent' /\ Kept
            /\ status' \in [Names -> Statuses] /\ emissions' \in [Names -> Nat]
            /\ weakRefReferences' \subseteq Names /\ externWeak' \subseteq Names
        BY <1>2, <2>1, <4>1, <4>2, DefineFacts
      <4>4. PendingIsOpen' /\ referenced' = referenced
        BY <1>4, <2>1, <3>2, <4>1 DEF PendingIsOpen, Define
      <4> QED BY <4>3, <4>4
    <3> QED BY <3>1, <3>2
  <2>4. AnnouncedFirst'
    BY <1>1 DEF IInv, AnnouncedFirst, unitVars
  <2>5. TypeOK'
    BY <1>1, <1>2, <2>1, <2>2, <2>3 DEF IInv, TypeOK, Statuses, unitVars, initVars
  <2> QED BY <2>3, <2>4, <2>5 DEF IInv
<1> QED BY <1>6, <1>7

-----------------------------------------------------------------------------
(* The theorems                                                             *)

LEMMA IInvNext == IInv /\ [Next]_vars => IInv' /\ (Kept \/ UNCHANGED vars)
<1> SUFFICES ASSUME IInv, [Next]_vars PROVE IInv' /\ (Kept \/ UNCHANGED vars)
  OBVIOUS
<1>1. CASE Generate
  BY <1>1, IInvRefer, IInvReferWeakly, IInvReferToVTable, IInvFinish, IInvFinishConstantVariable
     DEF Generate
<1>2. CASE Release
  BY <1>2, IInvEmitDeferredVTable, IInvEmitDeferredDecl, IInvPhase DEF Release
<1>3. CASE Error \/ EndOfProgram \/ HandleProgram
  BY <1>3, IInvPhase
<1>4. ASSUME NEW n \in Names,
             \/ EmitGlobalNow(n) \/ EmitGlobalForced(n)
             \/ \E as \in {"static", "inline"} : EmitGlobalDeferred(n, as)
             \/ \E target \in Names : EmitAliasDefinition(n, target)
      PROVE  IInv' /\ Kept
  BY <1>4, IInvEmitGlobalNow, IInvEmitGlobalForced, IInvEmitGlobalDeferred, IInvEmitAliasDefinition
<1>5. ASSUME NEW v \in Variables,
             \/ \E as \in {"tentative", "staticTentative"} : DeclareTentative(v, as)
             \/ InstantiateExplicitly(v) \/ EmitTentativeDefinition(v)
      PROVE  IInv' /\ Kept
  BY <1>5, IInvDeclareTentative, IInvInstantiateExplicitly, IInvEmitTentativeDefinition
<1>6. CASE \E c \in Classes : HandleVTable(c)
  BY <1>6, IInvHandleVTable
<1>7. CASE UNCHANGED vars
  <2>1. IInv'
    BY <1>7 DEF IInv, TypeOK, CountedOnce, AnnouncedFirst, PendingIsOpen, DeferredAreAbsent,
                IsConstant, vars, unitVars, codeVars, valueVars, linkVars, deferVars, initVars
  <2> QED BY <1>7, <2>1
<1> QED BY <1>1, <1>2, <1>3, <1>4, <1>5, <1>6, <1>7 DEF Next

LEMMA IInvAlways == Spec => []IInv
<1>1. IInv /\ [Next]_vars => IInv'
  BY IInvNext
<1> QED BY IInvInit, <1>1, PTL DEF Spec

(* The variables keep their types.                                          *)
THEOREM TypeCorrect == Spec => []TypeOK
<1>1. IInv => TypeOK
  BY DEF IInv
<1> QED BY IInvAlways, <1>1, PTL

(* A definition waits in DeferredDecls only as long as nothing has referred *)
(* to its name, unless an alias has taken it, and a queued one has been     *)
(* referenced (EmitGlobal, GetOrCreateLLVMSubprogram, EmitDeferred).        *)
THEOREM DeferredCorrect == Spec => []DeferredAreUnreferenced
<1>1. IInv => DeferredAreUnreferenced
  BY DEF IInv, DeferredAreAbsent, DeferredAreUnreferenced
<1> QED BY IInvAlways, <1>1, PTL

(* No name is defined twice, and none is both defined and an alias, however *)
(* often it was queued (the two tests of EmitDeferred).                     *)
THEOREM DefinedOnce == Spec => []DefinedAtMostOnce
<1>1. IInv => DefinedAtMostOnce
  BY DEF IInv, CountedOnce, DefinedAtMostOnce
<1> QED BY IInvAlways, <1>1, PTL

(* What is defined stays defined, and an alias stays an alias.              *)
THEOREM DefinitionsFinal == Spec => DefinitionsAreFinal
<1>1. IInv /\ [Next]_vars =>
        [\A n \in Names : status[n] \in {"defined", "alias"} => status'[n] = status[n]]_vars
  BY IInvNext DEF Kept, Final
<1> QED BY IInvAlways, <1>1, PTL DEF Spec, DefinitionsAreFinal

-----------------------------------------------------------------------------
(* The module holds exactly what is needed                                  *)

Queued == Range(deferredDeclsToEmit)
QueuedVTables == Range(deferredVTables)

(* What the rest of the code being generated refers to.                     *)
Targets == {r.to : r \in Range(body)}

Announced(n, as) == announced[n] \in as

(* What has been announced to be emitted is, or is being.                   *)
AnnouncedAreEmitted ==
  \A n \in Names :
    /\ Announced(n, {"strong", "forced", "completed"}) => status[n] = "defined" \/ n = current
    /\ Announced(n, {"alias"}) <=> status[n] = "alias"

(* What waits can be emitted, and a reference that queues a member of a     *)
(* record finds one with a body.                                            *)
WaitingAreDefinable ==
  /\ \A n \in deferredDecls \cup Queued :
       ~Announced(n, {"no", "tentative", "staticTentative"}) \/ n \in unit.bodied
  /\ \A r \in Range(body) :
       r.kind = "direct" /\ r.to \in unit.implicit => r.to \in unit.bodied
  /\ \A c \in QueuedVTables : ShouldEmitVTable(c) /\ vtable[c] # "absent"

(* The mentions that count so far: no code is generated for an inline       *)
(* definition before the release, and an alias may still replace it.        *)
MentionsSoFar(x) ==
  {e \in Mentions(x) :
     x \in Names /\ Announced(x, {"inline"}) => phase \notin {"parsing", "tentative"}}

ClosedSoFar(S) == roots \subseteq S /\ \A x \in S : MentionsSoFar(x) \subseteq S

InUse == InTheModule \cup Targets \cup ({current} \ {NoName})

OnlyNeededIsInUse ==
  \A S \in SUBSET Entities : ClosedSoFar(S) => InUse \subseteq S

(* What can be defined waits for its first reference, is queued, or is      *)
(* being generated.                                                         *)
DefinableAreTracked ==
  /\ \A n \in Names :
       /\ Definable(n) /\ status[n] = "absent" =>
            n \in unit.bodied \/ n \in deferredDecls \/ n = current
       /\ Definable(n) /\ status[n] = "declared" => n \in Queued \/ n = current
  /\ \A c \in Classes :
       ShouldEmitVTable(c) /\ vtable[c] = "declared" =>
         \/ c \in QueuedVTables \/ c = current
         \/ KeyDefined(c) /\ c \notin roots /\ (phase = "parsing" \/ errors)

RootsAreEmitted ==
  \A x \in roots : \/ x \in Names /\ status[x] # "absent"
                   \/ x \in Classes /\ vtable[x] = "defined"
                   \/ x = current

(* What is generated has made its references, what is being generated has   *)
(* made those that are not in body.                                         *)
ReferencesAreMade ==
  /\ \A n \in Names \ {current} : status[n] \in Final => Mentions(n) \subseteq InTheModule
  /\ \A c \in Classes \ {current} :
       vtable[c] = "defined" => Range(unit.virtual[c]) \subseteq InTheModule
  /\ current # NoName => Mentions(current) \subseteq InTheModule \cup Targets

StepsInOrder ==
  /\ current \in Names /\ ~IsConstant(current) => status[current] = "defined"
  /\ current = NoName => body = << >>
  /\ current \in Classes => ShouldEmitVTable(current)
  /\ errors => phase \in {"parsing", "tentative", "reset"}
  /\ phase = "done" => current = NoName /\ Queued = {} /\ QueuedVTables = {}

NeededInv ==
  /\ AnnouncedAreEmitted /\ WaitingAreDefinable /\ OnlyNeededIsInUse
  /\ DefinableAreTracked /\ RootsAreEmitted /\ ReferencesAreMade /\ StepsInOrder

(* What a step does, conjunct by conjunct of the invariant. The names it    *)
(* announces:                                                               *)
Changed == {n \in Names : announced'[n] # announced[n]}

Announces ==
  /\ \A n \in Changed :
       /\ current = NoName /\ phase \in {"parsing", "tentative"}
       /\ Announced(n, {"no", "inline", "tentative", "staticTentative"})
       /\ announced'[n] # "no" /\ (announced'[n] = "inline" => Announced(n, {"no"}))
       /\ announced'[n] \in {"tentative", "staticTentative"} => Announced(n, {"no"})
       /\ announced'[n] = "strong" => phase = "parsing"
       /\ n \in unit.bodied => announced'[n] = "strong"
       /\ announced'[n] \in {"strong", "forced", "completed"} =>
            status'[n] = "defined" \/ n = current'
       /\ announced'[n] = "alias" => status'[n] = "alias"
  /\ \A n \in Names \ Changed : aliasee'[n] = aliasee[n]

(* the entries of the module,                                               *)
Grows ==
  /\ Kept
  /\ \A n \in Names :
       /\ status[n] # "absent" => status'[n] # "absent"
       /\ status'[n] = "defined" /\ status[n] # "defined" => n \in {current, current'}
       /\ status'[n] = "alias" /\ status[n] # "alias" =>
            n \in Changed /\ announced'[n] = "alias" /\ aliasee'[n] \in InTheModule'
  /\ \A c \in Classes :
       /\ vtable[c] # "absent" => vtable'[c] # "absent"
       /\ vtable[c] = "defined" => vtable'[c] = "defined"
       /\ vtable'[c] = "defined" /\ vtable[c] # "defined" => c = current

(* the definition that is being generated,                                  *)
Moves ==
  /\ current' # current /\ current # NoName =>
       /\ current' = NoName /\ body = << >>
       /\ current \in Names => status'[current] = "defined"
       /\ current \in Classes => vtable'[current] = "defined"
  /\ current' # current /\ current' # NoName => Mentions(current)' \subseteq Targets'
  /\ current' = current => Targets \subseteq InTheModule' \cup Targets'
  /\ StepsInOrder'

(* the queues: nothing is lost,                                             *)
Tracks ==
  /\ \A n \in deferredDecls \ deferredDecls' : status'[n] # "absent" \/ n = current'
  /\ \A n \in Queued \ Queued' : status'[n] \in Final \/ n = current' \/ ~Definable(n)'
  /\ \A n \in Names : status[n] = "absent" /\ status'[n] = "declared" /\ Definable(n)' =>
       n \in Queued' \/ n = current'
  /\ \A n \in Changed :
       Definable(n)' => /\ status'[n] = "absent" => n \in deferredDecls' \/ n = current'
                        /\ status'[n] = "declared" => n \in Queued' \/ n = current'
  /\ \A c \in QueuedVTables \ QueuedVTables' : vtable'[c] = "defined" \/ c = current'
  /\ \A c \in Classes : vtable[c] = "absent" /\ vtable'[c] = "declared" /\ ShouldEmitVTable(c)' =>
       c \in QueuedVTables' \/ c = current'

(* nothing is queued that has no definition,                                *)
Waits ==
  /\ \A n \in deferredDecls' \cup Queued' :
       n \in deferredDecls \/ n \in Queued \/ n \in unit'.bodied
         \/ announced'[n] \notin {"no", "tentative", "staticTentative"}
  /\ \A r \in Range(body') :
       r.kind = "direct" /\ r.to \in unit'.implicit => r.to \in unit'.bodied
  /\ \A c \in QueuedVTables' :
       c \in QueuedVTables \/ (ShouldEmitVTable(c)' /\ vtable'[c] # "absent")

(* and nothing is used that is not needed.                                  *)
Uses == \A S \in SUBSET Entities : ClosedSoFar(S)' /\ InUse \subseteq S => InUse' \subseteq S

Roots ==
  /\ roots \subseteq roots'
  /\ \A x \in roots' \ roots : x = current' \/ (x \in Names /\ status'[x] # "absent")

Effects == /\ UNCHANGED <<unit, phase, errors>>
           /\ Announces /\ Grows /\ Moves /\ Tracks /\ Waits /\ Uses /\ Roots

ModuleIs ==
  /\ \A n \in Names : n \in InTheModule <=> status[n] # "absent"
  /\ \A c \in Classes : c \in InTheModule <=> vtable[c] # "absent"
  /\ InTheModule \subseteq Names \cup Classes

LEMMA ModuleFacts == ModuleIs /\ ModuleIs'
<1>1. ModuleIs
  BY NamesAssumption DEF ModuleIs, InTheModule
<1> QED BY <1>1, PTL

(* Mentions, case by case.                                                  *)
MentionsAre ==
  /\ \A c \in Classes : Mentions(c) = IF ShouldEmitVTable(c) THEN Range(unit.virtual[c]) ELSE {}
  /\ \A n \in Names :
       /\ announced[n] = "alias" => Mentions(n) = {aliasee[n]}
       /\ Announced(n, {"completed", "staticCompleted"}) => Mentions(n) = {}
       /\ ~Announced(n, {"alias", "completed", "staticCompleted"}) =>
            Mentions(n) = IF Definable(n) THEN {r.to : r \in Range(unit.refs[n])} ELSE {}

LEMMA MentionFacts == MentionsAre /\ MentionsAre'
<1>1. \A c \in Classes : c \notin Names
  BY NamesAssumption
<1>2. ASSUME NEW c \in Classes
      PROVE  Mentions(c) = IF ShouldEmitVTable(c) THEN Range(unit.virtual[c]) ELSE {}
  BY <1>1 DEF Mentions
<1>3. ASSUME NEW n \in Names, n \notin Classes
      PROVE  /\ announced[n] = "alias" => Mentions(n) = {aliasee[n]}
             /\ Announced(n, {"completed", "staticCompleted"}) => Mentions(n) = {}
             /\ ~Announced(n, {"alias", "completed", "staticCompleted"}) =>
                  Mentions(n) = IF Definable(n) THEN {r.to : r \in Range(unit.refs[n])} ELSE {}
  BY <1>3 DEF Mentions, Announced
<1>4. MentionsAre
  BY <1>1, <1>2, <1>3 DEF MentionsAre
<1> QED BY <1>4, PTL

-----------------------------------------------------------------------------
(* Such a step preserves the invariant                                      *)

Unchanged ==
  /\ \A n \in Names \ Changed : /\ announced'[n] = announced[n]
                                /\ Definable(n)' <=> Definable(n)
                                /\ Mentions(n)' = Mentions(n)
  /\ \A c \in Classes : KeyDefined(c) => KeyDefined(c)'
  /\ \A c \in Classes : ShouldEmitVTable(c)' /\ ~ShouldEmitVTable(c) =>
        KeyDefined(c)' /\ current = NoName /\ phase = "parsing"
  /\ \A c \in Classes : ShouldEmitVTable(c) => ShouldEmitVTable(c)'
  /\ \A n \in Changed : status[n] \notin Final

LEMMA UnchangedFacts == ASSUME IInv, NeededInv, Effects PROVE Unchanged
<1>1. /\ unit' = unit /\ phase' = phase
      /\ \A n \in Names \ Changed : announced'[n] = announced[n] /\ aliasee'[n] = aliasee[n]
  BY DEF Effects, Announces, Changed
<1>2. \A n \in Names \ Changed : Definable(n)' <=> Definable(n)
  BY <1>1 DEF Definable
<1>3. \A n \in Names \ Changed : Mentions(n)' = Mentions(n)
  <2>1. \A n \in Names : n \notin Classes
    BY NamesAssumption
  <2> QED BY <1>1, <1>2, <2>1 DEF Mentions
<1>4. \A c \in Classes : unit.key[c] \in Functions \cup {NoName}
  BY NamesAssumption DEF IInv, TypeOK, Unit
<1>5. \A c \in Classes : KeyDefined(c) => KeyDefined(c)'
  <2>1. \A n \in Changed : announced[n] # "strong"
    BY DEF Effects, Announces, Announced
  <2> QED BY <1>1, <1>4, <2>1 DEF KeyDefined, Names
<1>6. ASSUME NEW c \in Classes, KeyDefined(c)', ~KeyDefined(c)
      PROVE  current = NoName /\ phase = "parsing"
  <2>1. PICK k \in Names : k = unit.key[c] /\ announced'[k] = "strong" /\ announced[k] # "strong"
    BY <1>1, <1>4, <1>6 DEF KeyDefined, Names
  <2>2. k \in Changed
    BY <2>1 DEF Changed
  <2> QED BY <2>1, <2>2 DEF Effects, Announces
<1>7. \A n \in Changed : status[n] \notin Final
  BY DEF Effects, Announces, Announced, IInv, AnnouncedFirst, NeededInv,
         AnnouncedAreEmitted, Final, Changed
<1> QED BY <1>1, <1>2, <1>3, <1>5, <1>6, <1>7 DEF Unchanged, ShouldEmitVTable

Waiting == /\ deferredDecls \subseteq Names /\ Queued \subseteq Names
           /\ QueuedVTables \subseteq Classes

LEMMA WaitingNames == (TypeOK => Waiting) /\ (TypeOK' => Waiting')
<1>1. TypeOK => Waiting
  BY QueueFacts DEF Waiting, TypeOK, Queued, QueuedVTables
<1> QED BY <1>1, PTL

LEMMA EmittedStep == ASSUME IInv, NeededInv, Effects PROVE AnnouncedAreEmitted'
<1> SUFFICES ASSUME NEW n \in Names
             PROVE  /\ announced'[n] \in {"strong", "forced", "completed"} =>
                         status'[n] = "defined" \/ n = current'
                    /\ announced'[n] = "alias" <=> status'[n] = "alias"
  BY DEF AnnouncedAreEmitted, Announced
<1>1. Unchanged
  BY UnchangedFacts
<1>2. CASE n \in Changed
  <2>1. announced'[n] = "alias" <=> status'[n] = "alias"
    BY <1>1, <1>2 DEF Unchanged, Effects, Announces, Grows, Final
  <2> QED BY <1>2, <2>1 DEF Effects, Announces
<1>3. CASE n \notin Changed
  <2>1. announced'[n] = announced[n]
    BY <1>3 DEF Changed
  <2>2. current # current' => current # n \/ status'[n] = "defined"
    BY NamesAssumption DEF Effects, Moves
  <2>3. status[n] \in Final => status'[n] = status[n]
    BY DEF Effects, Grows, Kept
  <2>4. status'[n] = "alias" => status[n] = "alias"
    BY <1>3 DEF Effects, Grows
  <2> QED BY <2>1, <2>2, <2>3, <2>4 DEF NeededInv, AnnouncedAreEmitted, Announced, Final
<1> QED BY <1>2, <1>3

LEMMA WaitingStep == ASSUME IInv, Waiting, Waiting', NeededInv, Effects PROVE WaitingAreDefinable'
<1>1. ASSUME NEW n \in deferredDecls' \cup Queued'
      PROVE  announced'[n] \notin {"no", "tentative", "staticTentative"} \/ n \in unit'.bodied
  <2>1. n \in Names
    BY <1>1 DEF Waiting
  <2>2. CASE n \in deferredDecls \cup Queued
    BY <2>1, <2>2, UnchangedFacts
       DEF Unchanged, Effects, Announces, NeededInv, WaitingAreDefinable, Announced
  <2> QED BY <2>2 DEF Effects, Waits
<1>2. \A c \in QueuedVTables' : ShouldEmitVTable(c)' /\ vtable'[c] # "absent"
  BY UnchangedFacts DEF Waiting, Unchanged, Effects, Waits, Grows, NeededInv, WaitingAreDefinable
<1> QED BY <1>1, <1>2 DEF WaitingAreDefinable, Announced, Effects, Waits

(* The mentions that count only grow.                                       *)
LEMMA MentionsGrow ==
  ASSUME IInv, NeededInv, Effects, NEW x \in Entities
  PROVE  MentionsSoFar(x) \subseteq MentionsSoFar(x)'
<1>1. Unchanged /\ unit' = unit /\ phase' = phase
  BY UnchangedFacts DEF Effects
<1>2. CASE x \in Classes
  <2>1. x \notin Names
    BY <1>2, NamesAssumption
  <2> QED BY <1>1, <1>2, <2>1, MentionFacts DEF Unchanged, MentionsAre, MentionsSoFar
<1>3. CASE x \in Names \ Changed
  BY <1>1, <1>3 DEF Unchanged, MentionsSoFar, Announced
<1>4. CASE x \in Changed
  <2>1. /\ x \in Names /\ phase \in {"parsing", "tentative"}
        /\ Announced(x, {"no", "inline", "tentative", "staticTentative"})
        /\ x \in unit.bodied => announced'[x] = "strong"
    BY <1>4 DEF Effects, Announces, Changed
  <2>2. CASE Announced(x, {"inline"})
    BY <2>1, <2>2 DEF MentionsSoFar
  <2>3. CASE ~Announced(x, {"inline"})
    <3>1. Mentions(x) = IF Definable(x) THEN {r.to : r \in Range(unit.refs[x])} ELSE {}
      BY <2>1, MentionFacts DEF MentionsAre, Announced
    <3>2. Definable(x) => x \in unit.bodied
      BY <2>1, <2>3 DEF Definable, Announced
    <3>3. announced'[x] = "strong" => Mentions(x)' = {r.to : r \in Range(unit.refs[x])}
      BY <1>1, <2>1, MentionFacts DEF MentionsAre, Announced, Definable
    <3> QED BY <1>1, <2>1, <3>1, <3>2, <3>3 DEF MentionsSoFar, Announced
  <2> QED BY <2>2, <2>3
<1> QED BY <1>2, <1>3, <1>4 DEF Entities

LEMMA UseStep == ASSUME IInv, NeededInv, Effects PROVE OnlyNeededIsInUse'
<1> SUFFICES ASSUME NEW S \in SUBSET Entities, ClosedSoFar(S)' PROVE InUse' \subseteq S
  BY DEF OnlyNeededIsInUse
<1>1. ClosedSoFar(S)
  BY MentionsGrow DEF ClosedSoFar, Effects, Roots
<1>2. InUse \subseteq S
  BY <1>1 DEF NeededInv, OnlyNeededIsInUse
<1> QED BY <1>2 DEF Effects, Uses

LEMMA TrackedStep == ASSUME IInv, IInv', NeededInv, Effects PROVE DefinableAreTracked'
<1>1. Unchanged /\ unit' = unit /\ phase' = phase /\ errors' = errors
  BY UnchangedFacts DEF Effects
<1>2. /\ status \in [Names -> Statuses] /\ status' \in [Names -> Statuses]
      /\ vtable \in [Classes -> Statuses] /\ vtable' \in [Classes -> Statuses]
      /\ NoName \notin Names /\ \A c \in Classes : c \notin Names
  BY NamesAssumption DEF IInv, TypeOK, Statuses
<1>3. ASSUME NEW n \in Names, Definable(n)'
      PROVE  /\ status'[n] = "absent" =>
                  n \in unit'.bodied \/ n \in deferredDecls' \/ n = current'
             /\ status'[n] = "declared" => n \in Queued' \/ n = current'
  <2>1. CASE n \in Changed
    BY <1>3, <2>1 DEF Effects, Tracks
  <2>2. CASE n \notin Changed
    <3>1. Definable(n)
      BY <1>1, <1>3, <2>2 DEF Unchanged
    <3>2. n = current => n = current' \/ status'[n] = "defined"
      BY <1>2 DEF Effects, Moves
    <3>3. CASE status'[n] = "absent"
      <4>1. status[n] = "absent"
        BY <3>3 DEF Effects, Grows
      <4>2. n \in unit.bodied \/ n \in deferredDecls \/ n = current
        BY <3>1, <4>1 DEF NeededInv, DefinableAreTracked
      <4> QED BY <1>1, <3>2, <3>3, <4>2 DEF Effects, Tracks
    <3>4. CASE status'[n] = "declared"
      <4>1. status[n] \in {"absent", "declared"}
        BY <1>2, <3>4 DEF Effects, Grows, Kept, Final, Statuses
      <4>2. CASE status[n] = "absent"
        BY <1>3, <3>4, <4>2 DEF Effects, Tracks
      <4>3. CASE status[n] = "declared"
        <5>1. n \in Queued \/ n = current
          BY <3>1, <4>3 DEF NeededInv, DefinableAreTracked
        <5> QED BY <1>3, <3>2, <3>4, <5>1 DEF Effects, Tracks, Final
      <4> QED BY <4>1, <4>2, <4>3
    <3> QED BY <3>3, <3>4
  <2> QED BY <2>1, <2>2
<1>4. ASSUME NEW c \in Classes, ShouldEmitVTable(c)', vtable'[c] = "declared"
      PROVE  \/ c \in QueuedVTables' \/ c = current'
             \/ KeyDefined(c)' /\ c \notin roots' /\ (phase' = "parsing" \/ errors')
  <2>1. vtable[c] \in {"absent", "declared"}
    BY <1>2, <1>4 DEF Effects, Grows, Statuses, IInv, TypeOK
  <2>2. CASE vtable[c] = "absent"
    BY <1>4, <2>2 DEF Effects, Tracks
  <2>3. CASE vtable[c] = "declared"
    <3>1. c \notin roots => c \notin roots' \/ c = current'
      BY <1>2 DEF Effects, Roots
    <3>2. CASE ~ShouldEmitVTable(c)
      <4>1. KeyDefined(c)' /\ current = NoName /\ phase = "parsing"
        BY <1>1, <1>4, <3>2 DEF Unchanged
      <4>2. c \notin roots
        BY <1>2, <2>3, <4>1, NamesAssumption DEF NeededInv, RootsAreEmitted
      <4> QED BY <1>1, <3>1, <4>1, <4>2
    <3>3. CASE ShouldEmitVTable(c)
      <4>1. \/ c \in QueuedVTables \/ c = current
            \/ KeyDefined(c) /\ c \notin roots /\ (phase = "parsing" \/ errors)
        BY <2>3, <3>3 DEF NeededInv, DefinableAreTracked
      <4>2. c = current => c = current'
        BY <1>4, NamesAssumption DEF Effects, Moves
      <4>3. c \in QueuedVTables => c \in QueuedVTables' \/ c = current'
        BY <1>4 DEF Effects, Tracks
      <4> QED BY <1>1, <3>1, <4>1, <4>2, <4>3 DEF Unchanged
    <3> QED BY <3>2, <3>3
  <2> QED BY <2>1, <2>2, <2>3
<1> QED BY <1>3, <1>4 DEF DefinableAreTracked

LEMMA RootsStep == ASSUME IInv, NeededInv, Effects PROVE RootsAreEmitted'
<1> SUFFICES ASSUME NEW x \in roots'
             PROVE  \/ x \in Names /\ status'[x] # "absent"
                    \/ x \in Classes /\ vtable'[x] = "defined"
                    \/ x = current'
  BY DEF RootsAreEmitted
<1>1. NoName \notin Names \cup Classes /\ roots \subseteq Names \cup Classes
  BY NamesAssumption DEF IInv, TypeOK
<1>2. CASE x \in roots
  <2>1. \/ x \in Names /\ status[x] # "absent"
        \/ x \in Classes /\ vtable[x] = "defined"
        \/ x = current
    BY <1>2 DEF NeededInv, RootsAreEmitted
  <2>2. x = current => \/ x = current'
                       \/ x \in Names /\ status'[x] = "defined"
                       \/ x \in Classes /\ vtable'[x] = "defined"
    BY <1>1, <1>2 DEF Effects, Moves
  <2> QED BY <2>1, <2>2 DEF Effects, Grows
<1>3. CASE x \notin roots
  BY <1>3 DEF Effects, Roots
<1> QED BY <1>2, <1>3

LEMMA ReferencesStep == ASSUME IInv, NeededInv, Effects PROVE ReferencesAreMade'
<1>1. Unchanged /\ unit' = unit /\ InTheModule \subseteq InTheModule'
  BY UnchangedFacts, ModuleFacts DEF ModuleIs, Effects, Grows
<1>2. PICK x : x = current
  OBVIOUS
<1>3. x \in Names \cup Classes \cup {NoName} /\ NoName \notin Names \cup Classes
  BY <1>2, NamesAssumption DEF IInv, TypeOK
<1>4. x \in Names => Mentions(x)' = Mentions(x)
  BY <1>1, <1>2, <1>3 DEF Unchanged, Effects, Announces, Changed
<1>5. x \in Classes => (ShouldEmitVTable(x)' <=> ShouldEmitVTable(x))
  BY <1>1, <1>2, <1>3 DEF Unchanged
<1>6. x \in Names \cup Classes => Mentions(x)' = Mentions(x)
  BY <1>1, <1>4, <1>5, MentionFacts DEF MentionsAre
<1>7. x # NoName => Mentions(x)' \subseteq InTheModule \cup Targets
  BY <1>2, <1>3, <1>6 DEF NeededInv, ReferencesAreMade
<1>8. body = << >> => Targets = {}
  BY DEF Targets, Range
<1>9. x # NoName /\ x # current' => Mentions(x)' \subseteq InTheModule'
  BY <1>1, <1>2, <1>7, <1>8 DEF Effects, Moves
<1>10. ASSUME NEW n \in Names, n # current', status'[n] \in Final
       PROVE  Mentions(n)' \subseteq InTheModule'
  <2>1. CASE n = x
    BY <1>3, <1>9, <1>10, <2>1
  <2>2. CASE n # x /\ status[n] \in Final
    <3>1. Mentions(n)' = Mentions(n)
      BY <1>1, <2>2 DEF Unchanged
    <3> QED BY <1>1, <1>2, <2>2, <3>1 DEF NeededInv, ReferencesAreMade
  <2>3. CASE n # x /\ status[n] \notin Final
    <3>1. status'[n] = "alias"
      BY <1>2, <1>10, <2>3 DEF Effects, Grows, Final
    <3>2. announced'[n] = "alias" /\ aliasee'[n] \in InTheModule'
      BY <2>3, <3>1 DEF Effects, Grows, Final
    <3> QED BY <3>2, MentionFacts DEF MentionsAre
  <2> QED BY <2>1, <2>2, <2>3
<1>11. ASSUME NEW c \in Classes, c # current', vtable'[c] = "defined"
       PROVE  Range(unit'.virtual[c]) \subseteq InTheModule'
  <2>1. CASE c = x
    <3>1. ShouldEmitVTable(c)
      BY <1>2, <2>1 DEF NeededInv, StepsInOrder
    <3>2. Mentions(c)' = Range(unit'.virtual[c])
      BY <1>1, <3>1, MentionFacts DEF MentionsAre, Unchanged
    <3> QED BY <1>3, <1>9, <1>11, <2>1, <3>2
  <2>2. CASE c # x
    <3>1. vtable[c] = "defined"
      BY <1>2, <1>11, <2>2 DEF Effects, Grows
    <3> QED BY <1>1, <1>2, <2>2, <3>1 DEF NeededInv, ReferencesAreMade
  <2> QED BY <2>1, <2>2
<1>12. current' # NoName => Mentions(current)' \subseteq InTheModule' \cup Targets'
  <2>1. CASE current' = x
    BY <1>1, <1>2, <1>7, <2>1 DEF Effects, Moves
  <2>2. CASE current' # x
    BY <1>2, <2>2 DEF Effects, Moves
  <2> QED BY <2>1, <2>2
<1> QED BY <1>10, <1>11, <1>12 DEF ReferencesAreMade

LEMMA NeededStep ==
  ASSUME IInv, IInv', NeededInv, Effects PROVE NeededInv'
<1>1. Waiting /\ Waiting'
  BY WaitingNames DEF IInv
<1> QED BY <1>1, EmittedStep, WaitingStep, UseStep, TrackedStep, RootsStep, ReferencesStep
        DEF NeededInv, Effects, Moves

-----------------------------------------------------------------------------
(* The effects of the operations                                            *)

LEMMA TailRange ==
  ASSUME NEW S, NEW s \in Seq(S), s # << >>
  PROVE  Range(s) = {Head(s)} \cup Range(Tail(s))
<1>1. PICK t : t = Tail(s)
  OBVIOUS
<1>2. /\ DOMAIN s = 1 .. Len(s) /\ Len(s) \in Nat \ {0} /\ Head(s) = s[1]
      /\ DOMAIN t = 1 .. Len(s) - 1 /\ \A i \in 1 .. Len(s) - 1 : t[i] = s[i + 1]
  BY <1>1
<1>3. \A i \in 1 .. Len(s) : i = 1 \/ (i - 1 \in DOMAIN t /\ s[i] = t[i - 1])
  BY <1>2
<1>4. \A i \in DOMAIN t : i + 1 \in DOMAIN s /\ t[i] = s[i + 1]
  BY <1>2
<1>5. Range(s) \subseteq {s[1]} \cup Range(t)
  BY <1>2, <1>3 DEF Range
<1>6. Range(t) \subseteq Range(s) /\ s[1] \in Range(s)
  BY <1>2, <1>4 DEF Range
<1> QED BY <1>1, <1>2, <1>5, <1>6

LEMMA PoppedRange ==
  ASSUME NEW S, NEW s \in Seq(S), s # << >>
  PROVE  Range(s) = {Last(s)} \cup Range(Popped(s)) /\ Last(s) \in S /\ Popped(s) \in Seq(S)
<1>1. PICK t : t = Popped(s)
  OBVIOUS
<1>2. /\ DOMAIN s = 1 .. Len(s) /\ Len(s) \in Nat \ {0} /\ Last(s) = s[Len(s)]
      /\ t \in Seq(S) /\ Last(s) \in S
      /\ DOMAIN t = 1 .. Len(s) - 1 /\ \A i \in 1 .. Len(s) - 1 : t[i] = s[i]
  BY <1>1, LastFront DEF Popped
<1>3. Range(s) = {s[Len(s)]} \cup Range(t)
  BY <1>2 DEF Range
<1> QED BY <1>1, <1>2, <1>3

(* What does not depend on anything but unit and announced.                 *)
LEMMA SameAnnounced ==
  ASSUME UNCHANGED <<unit, announced>>
  PROVE  /\ \A n \in Names : (Definable(n)' <=> Definable(n)) /\ (IsConstant(n)' <=> IsConstant(n))
         /\ \A c \in Classes : (ShouldEmitVTable(c)' <=> ShouldEmitVTable(c))
         /\ Changed = {}
  BY DEF Definable, IsConstant, ShouldEmitVTable, KeyDefined, Changed

LEMMA DeferEffects ==
  ASSUME TypeOK, NEW n \in Names, NEW q \in BOOLEAN, Defer(n, q)
  PROVE  /\ deferredDecls' \subseteq deferredDecls /\ deferredDecls \ deferredDecls' \subseteq {n}
         /\ Queued \subseteq Queued' /\ Queued' \subseteq Queued \cup {n}
         /\ status[n] = "absent" /\ (n \in deferredDecls \/ q) => n \in Queued'
         /\ n \in Queued' => n \in Queued \/ n \in deferredDecls \/ q
<1>1. deferredDeclsToEmit \in Seq(Names)
  BY DEF TypeOK
<1>2. CASE status[n] = "absent" /\ (n \in deferredDecls \/ q)
  <2>1. /\ deferredDeclsToEmit' = Append(deferredDeclsToEmit, n)
        /\ deferredDecls' = deferredDecls \ {n}
    BY <1>2 DEF Defer
  <2>2. Queued' = Queued \cup {n}
    BY <1>1, <2>1, QueueFacts DEF Queued
  <2> QED BY <1>2, <2>1, <2>2
<1>3. CASE ~(status[n] = "absent" /\ (n \in deferredDecls \/ q))
  BY <1>3 DEF Defer, deferVars, Queued
<1> QED BY <1>2, <1>3

(* A reference to n, queued by q when it is a member with a body.           *)
LEMMA ReferEffects ==
  ASSUME IInv, IInv', NeededInv, NEW n \in Names, NEW q \in BOOLEAN, Defer(n, q),
         q <=> n \in unit.bodied,
         status' = [status EXCEPT ![n] = Declared(n)],
         UNCHANGED <<unit, phase, errors, announced, aliasee, current, vtable, deferredVTables>>,
         roots \subseteq roots', roots' \subseteq roots \cup {n}, phase # "done",
         Range(body') \subseteq Range(body), Targets \subseteq Targets' \cup {n},
         current = NoName => body' = << >>,
         n \in InUse \/ n \in roots'
  PROVE  Effects
<1>1. /\ \A m \in Names : (Definable(m)' <=> Definable(m)) /\ (IsConstant(m)' <=> IsConstant(m))
      /\ \A c \in Classes : (ShouldEmitVTable(c)' <=> ShouldEmitVTable(c))
      /\ Changed = {}
  BY SameAnnounced
<1>2. /\ status'[n] = (IF status[n] = "absent" THEN "declared" ELSE status[n])
      /\ \A m \in Names : m # n => status'[m] = status[m]
  BY DEF IInv, TypeOK, Declared
<1>3. /\ deferredDecls' \subseteq deferredDecls /\ deferredDecls \ deferredDecls' \subseteq {n}
      /\ Queued \subseteq Queued' /\ Queued' \subseteq Queued \cup {n}
      /\ status[n] = "absent" /\ (n \in deferredDecls \/ q) => n \in Queued'
      /\ n \in Queued' => n \in Queued \/ n \in deferredDecls \/ q
  BY DeferEffects DEF IInv
<1>4. Announces
  BY <1>1 DEF Announces
<1>5. Grows
  BY <1>2 DEF Grows, Kept, Final
<1>6. n \in InTheModule' /\ InTheModule' \subseteq InTheModule \cup {n}
  BY <1>2, ModuleFacts DEF ModuleIs
<1>7. Targets' \subseteq Targets
  BY DEF Targets
<1>8. StepsInOrder'
  <2>1. current \in Names /\ status[current] = "defined" => status'[current] = "defined"
    BY <1>2
  <2> QED BY <1>1, <2>1 DEF StepsInOrder, NeededInv
<1>9. Moves
  BY <1>6, <1>8 DEF Moves
<1>10. QueuedVTables' = QueuedVTables
  BY DEF QueuedVTables
<1>11. Tracks
  <2>1. status[n] = "absent" /\ Definable(n) => n \in Queued' \/ n = current
    BY <1>3 DEF NeededInv, DefinableAreTracked
  <2> QED BY <1>1, <1>2, <1>3, <1>10, <2>1 DEF Tracks
<1>12. Waits
  BY <1>1, <1>3, <1>10 DEF Waits, NeededInv, WaitingAreDefinable
<1>13. InUse' \subseteq InUse \cup {n}
  BY <1>6, <1>7 DEF InUse
<1>14. Uses
  BY <1>13 DEF Uses, ClosedSoFar
<1>15. Roots
  BY <1>2 DEF Roots
<1> QED BY <1>4, <1>5, <1>9, <1>11, <1>12, <1>14, <1>15 DEF Effects

LEMMA BodyFacts ==
  ASSUME IInv, NeededInv, body # << >>
  PROVE  /\ NextReference \in Reference /\ NextReference \in Range(body)
         /\ Range(Tail(body)) \subseteq Range(body)
         /\ Targets = {NextReference.to} \cup {r.to : r \in Range(Tail(body))}
         /\ current # NoName /\ phase # "done"
<1>1. body \in Seq(Reference) /\ NextReference = Head(body)
  BY DEF IInv, TypeOK, NextReference
<1>2. Range(body) = {NextReference} \cup Range(Tail(body)) /\ NextReference \in Reference
  BY <1>1, TailRange, QueueFacts
<1> QED BY <1>2 DEF Targets, NeededInv, StepsInOrder

LEMMA ReferStep == ASSUME IInv, IInv', NeededInv, Refer \/ ReferWeakly PROVE Effects
<1>1. /\ body # << >> /\ body' = Tail(body)
      /\ NextReference.kind \in {"direct", "member", "runtime", "weak"}
      /\ UNCHANGED <<unit, phase, errors, announced, roots, current, aliasee, vtable,
                     deferredVTables>>
  BY DEF Refer, ReferWeakly, unitVars
<1>2. PICK n \in Names : n = NextReference.to
  BY <1>1, ReferenceFacts DEF IInv
<1>3. PICK q \in BOOLEAN :
         q <=> /\ NextReference.kind \in {"direct", "member"}
               /\ QueuesMember(n, NextReference.kind = "member")
  OBVIOUS
<1>4. /\ NextReference \in Reference /\ NextReference \in Range(body)
      /\ Range(body') \subseteq Range(body) /\ Targets = {n} \cup Targets'
      /\ current # NoName /\ phase # "done"
  BY <1>1, <1>2, BodyFacts DEF Targets
<1>5. /\ NextReference.kind = "direct" /\ n \in unit.implicit => n \in unit.bodied
      /\ unit.bodied \subseteq Members
      /\ NextReference.kind \in {"runtime", "weak"} => n \notin Members
  <2>1. unit \in Unit /\ Functions \cap Members = {} /\ Members \cap Variables = {}
    BY NamesAssumption DEF IInv, TypeOK
  <2>2. PICK r \in Reference : r = NextReference
    BY <1>4
  <2>3. r.kind \in {"runtime", "weak"} => r.to \notin Members
    BY <2>1 DEF Reference
  <2> QED BY <1>2, <1>4, <2>1, <2>2, <2>3 DEF Unit, NeededInv, WaitingAreDefinable
<1>6. q <=> n \in unit.bodied
  BY <1>1, <1>3, <1>5 DEF QueuesMember
<1>7. Defer(n, q) /\ status' = [status EXCEPT ![n] = Declared(n)]
  <2>1. CASE Refer
    <3>1. Defer(n, NextReference.kind # "runtime" /\ QueuesMember(n, NextReference.kind = "member"))
      BY <1>2, <2>1 DEF Refer
    <3>2. q <=> NextReference.kind # "runtime" /\ QueuesMember(n, NextReference.kind = "member")
      BY <1>3, <2>1 DEF Refer
    <3> QED BY <1>2, <2>1, <3>1, <3>2 DEF Refer, Defer
  <2>2. CASE ReferWeakly
    <3>1. Defer(n, FALSE) /\ ~q
      BY <1>2, <1>3, <2>2 DEF ReferWeakly
    <3> QED BY <1>2, <2>2, <3>1 DEF ReferWeakly, Defer
  <2> QED BY <2>1, <2>2
<1>8. n \in InUse
  BY <1>4 DEF InUse
<1> QED BY <1>1, <1>4, <1>6, <1>7, <1>8, ReferEffects

(* A reference to a vtable.                                                 *)
LEMMA VTableEffects ==
  ASSUME TypeOK, NEW c \in Classes, GetAddrOfVTable(c)
  PROVE  /\ vtable'[c] = (IF vtable[c] = "absent" THEN "declared" ELSE vtable[c])
         /\ \A d \in Classes : d # c => vtable'[d] = vtable[d]
         /\ QueuedVTables \subseteq QueuedVTables'
         /\ \A d \in QueuedVTables' \ QueuedVTables : d = c /\ ShouldEmitVTable(c)
         /\ vtable[c] = "absent" /\ ShouldEmitVTable(c) => c \in QueuedVTables'
<1>1. deferredVTables \in Seq(Classes) /\ vtable \in [Classes -> {"absent", "declared", "defined"}]
  BY DEF TypeOK
<1>2. \/ deferredVTables' = deferredVTables /\ ~(vtable[c] = "absent" /\ ShouldEmitVTable(c))
      \/ deferredVTables' = Append(deferredVTables, c) /\ ShouldEmitVTable(c)
  BY DEF GetAddrOfVTable
<1>3. \/ QueuedVTables' = QueuedVTables /\ ~(vtable[c] = "absent" /\ ShouldEmitVTable(c))
      \/ QueuedVTables' = QueuedVTables \cup {c} /\ ShouldEmitVTable(c)
  BY <1>1, <1>2, QueueFacts DEF QueuedVTables
<1> QED BY <1>1, <1>3 DEF GetAddrOfVTable

(* The steps that leave the names alone.                                    *)
LEMMA NamesKept ==
  ASSUME IInv, NeededInv, UNCHANGED <<unit, announced, status, aliasee, deferVars>>,
         \A c \in Classes :
           /\ vtable[c] # "absent" => vtable'[c] # "absent"
           /\ vtable[c] = "defined" => vtable'[c] = "defined"
           /\ vtable'[c] = "defined" /\ vtable[c] # "defined" => c = current
  PROVE  /\ Announces /\ Grows
         /\ deferredDecls' = deferredDecls /\ Queued' = Queued
<1>1. Changed = {} /\ Queued' = Queued
  BY SameAnnounced DEF deferVars, Queued
<1> QED BY <1>1 DEF Announces, Grows, Kept, deferVars

LEMMA ReferToVTableStep == ASSUME IInv, IInv', NeededInv, ReferToVTable PROVE Effects
<1>1. /\ body # << >> /\ body' = Tail(body) /\ GetAddrOfVTable(NextReference.to)
      /\ NextReference.kind = "vtable"
      /\ UNCHANGED <<unit, phase, errors, announced, roots, current, status, aliasee, deferVars>>
  BY DEF ReferToVTable, unitVars
<1>2. PICK c \in Classes : c = NextReference.to
  BY <1>1, ReferenceFacts DEF IInv
<1>3. /\ Range(body') \subseteq Range(body) /\ Targets = {c} \cup Targets'
      /\ current # NoName /\ phase # "done"
  BY <1>1, <1>2, BodyFacts DEF Targets
<1>4. /\ vtable'[c] = (IF vtable[c] = "absent" THEN "declared" ELSE vtable[c])
      /\ \A d \in Classes : d # c => vtable'[d] = vtable[d]
      /\ QueuedVTables \subseteq QueuedVTables'
      /\ \A d \in QueuedVTables' \ QueuedVTables : d = c /\ ShouldEmitVTable(c)
      /\ vtable[c] = "absent" /\ ShouldEmitVTable(c) => c \in QueuedVTables'
  BY <1>1, <1>2, VTableEffects DEF IInv
<1>5. /\ \A m \in Names : (Definable(m)' <=> Definable(m)) /\ (IsConstant(m)' <=> IsConstant(m))
      /\ \A d \in Classes : (ShouldEmitVTable(d)' <=> ShouldEmitVTable(d))
      /\ Changed = {}
  BY <1>1, SameAnnounced
<1>6. Announces /\ Grows /\ deferredDecls' = deferredDecls /\ Queued' = Queued
  BY <1>1, <1>4, NamesKept
<1>7. c \in InTheModule' /\ InTheModule' \subseteq InTheModule \cup {c}
  BY <1>1, <1>4, ModuleFacts DEF ModuleIs
<1>8. StepsInOrder'
  BY <1>1, <1>3, <1>5 DEF StepsInOrder, NeededInv
<1>9. Moves
  BY <1>1, <1>3, <1>7, <1>8 DEF Moves
<1>10. Tracks
  BY <1>1, <1>4, <1>5, <1>6 DEF Tracks
<1>11. Waits
  BY <1>1, <1>3, <1>4, <1>5, <1>6 DEF Waits, NeededInv, WaitingAreDefinable
<1>12. Uses
  <2>1. InUse' \subseteq InUse
    BY <1>1, <1>3, <1>7 DEF InUse
  <2> QED BY <2>1 DEF Uses
<1>13. Roots
  BY <1>1 DEF Roots
<1> QED BY <1>1, <1>6, <1>9, <1>10, <1>11, <1>12, <1>13 DEF Effects

(* Code generation of a function, a dynamic variable or a vtable ends.      *)
LEMMA FinishStep ==
  ASSUME IInv, IInv', NeededInv, FinishBody \/ FinishDynamicVariable \/ FinishVTable
  PROVE  Effects
<1>1. /\ current # NoName /\ current' = NoName /\ body = << >> /\ body' = << >>
      /\ UNCHANGED <<unit, phase, errors, announced, roots, status, aliasee, deferVars,
                     deferredVTables>>
  BY NamesAssumption DEF FinishBody, FinishDynamicVariable, FinishVTable, unitVars, valueVars,
                         Names, IInv, TypeOK, Unit
<1>2. /\ NoName \notin Names \cup Classes /\ \A c \in Classes : c \notin Names
      /\ current \in Names \cup Classes \cup {NoName}
  BY NamesAssumption DEF IInv, TypeOK
<1>3. /\ current \in Names => status'[current] = "defined"
      /\ current \in Names => vtable' = vtable
      /\ current \in Classes => vtable' = [vtable EXCEPT ![current] = "defined"]
  <2>1. CASE FinishBody \/ FinishDynamicVariable
    <3>1. current \in Names /\ ~IsConstant(current) /\ vtable' = vtable
      BY <2>1, NamesAssumption
         DEF FinishBody, FinishDynamicVariable, IsConstant, Names, valueVars, IInv, TypeOK, Unit
    <3>2. status[current] = "defined"
      BY <3>1 DEF NeededInv, StepsInOrder
    <3> QED BY <1>1, <1>2, <3>1, <3>2
  <2>2. CASE FinishVTable
    BY <1>2, <2>2 DEF FinishVTable
  <2> QED BY <2>1, <2>2
<1>4. /\ current \in Classes => vtable'[current] = "defined"
      /\ \A c \in Classes : c # current => vtable'[c] = vtable[c]
      /\ \A c \in Classes : vtable'[c] = "absent" => vtable[c] = "absent"
      /\ \A c \in Classes : vtable'[c] = "declared" => vtable[c] = "declared"
  <2>1. vtable \in [Classes -> {"absent", "declared", "defined"}]
    BY DEF IInv, TypeOK
  <2>2. CASE current \in Names
    BY <1>2, <1>3, <2>2
  <2>3. CASE current \in Classes
    BY <1>3, <2>1, <2>3
  <2> QED BY <1>1, <1>2, <2>2, <2>3
<1>5. /\ \A m \in Names : (Definable(m)' <=> Definable(m)) /\ (IsConstant(m)' <=> IsConstant(m))
      /\ \A d \in Classes : (ShouldEmitVTable(d)' <=> ShouldEmitVTable(d))
      /\ Changed = {}
  BY <1>1, SameAnnounced
<1>6. Announces /\ Grows /\ deferredDecls' = deferredDecls /\ Queued' = Queued
  BY <1>1, <1>2, <1>4, NamesKept
<1>7. StepsInOrder' /\ QueuedVTables' = QueuedVTables
  BY <1>1, <1>2 DEF StepsInOrder, NeededInv, QueuedVTables
<1>8. Moves
  BY <1>1, <1>2, <1>3, <1>4, <1>7 DEF Moves
<1>9. Tracks
  BY <1>1, <1>4, <1>5, <1>6, <1>7 DEF Tracks
<1>10. Waits
  <2>1. Range(body') = {}
    BY <1>1 DEF Range
  <2> QED BY <1>6, <1>7, <2>1 DEF Waits
<1>11. InUse' \subseteq InUse
  <2>1. Targets' = {}
    BY <1>1 DEF Targets, Range
  <2>2. InTheModule' \subseteq InTheModule \cup ({current} \ {NoName})
    BY <1>1, <1>2, <1>4, ModuleFacts DEF ModuleIs
  <2> QED BY <1>1, <2>1, <2>2 DEF InUse
<1> QED BY <1>1, <1>6, <1>8, <1>9, <1>10, <1>11 DEF Effects, Uses, Roots

(* The references of a definition, which WaitingAreDefinable asks for.      *)
LEMMA RefsFacts ==
  ASSUME IInv, NEW n \in Names, NEW r \in Range(unit.refs[n])
  PROVE  r.kind = "direct" /\ r.to \in unit.implicit => r.to \in unit.bodied
<1>1. PICK i \in DOMAIN unit.refs[n] : r = unit.refs[n][i]
  BY DEF Range
<1>2. unit \in Units
  BY DEF IInv, TypeOK
<1> QED BY <1>1, <1>2, ImplicitMembersAssumption

(* Code generation of n begins, and announces it perhaps.                   *)
Starts(n) ==
  /\ current = NoName /\ current' = n /\ phase # "done" /\ status[n] \notin Final
  /\ UNCHANGED <<unit, phase, errors, aliasee, vtable, deferredVTables>>
  /\ \/ status' = status /\ IsConstant(n)
     \/ status' = [status EXCEPT ![n] = "defined"]
  /\ Range(body') \subseteq Range(unit.refs[n])
  /\ Changed \subseteq {n}
  /\ deferredDecls' \subseteq deferredDecls /\ deferredDecls \ deferredDecls' \subseteq {n}
  /\ Queued \ Queued' \subseteq {n} /\ Queued' \subseteq Queued \cup {n}
  /\ n \in unit.bodied \/ announced'[n] \notin {"no", "tentative", "staticTentative"}

LEMMA StartEffects ==
  ASSUME IInv, IInv', NeededInv, NEW n \in Names, Starts(n), Announces, Roots,
         Mentions(n)' = Targets', Targets' \subseteq MentionsSoFar(n)',
         n \in InUse \/ n \in roots'
  PROVE  Effects
<1>1. n \notin Classes /\ n # NoName
  BY NamesAssumption
<1>2. status' = status \/ status'[n] = "defined"
  BY DEF Starts, IInv, TypeOK
<1>3. /\ \A m \in Names : m # n => status'[m] = status[m] /\ m \notin Changed
      /\ status'[n] = status[n] \/ status'[n] = "defined"
  BY <1>2 DEF Starts, IInv, TypeOK
<1>4. Grows
  BY <1>3 DEF Starts, Grows, Kept, Final
<1>5. IsConstant(n)' <=> IsConstant(n)
  BY DEF Starts, IsConstant
<1>6. StepsInOrder'
  <2>1. status'[n] = "defined" \/ IsConstant(current)'
    <3>1. CASE status' = status /\ IsConstant(n)
      BY <3>1 DEF Starts, IsConstant
    <3>2. CASE status' = [status EXCEPT ![n] = "defined"]
      BY <3>2 DEF IInv, TypeOK
    <3> QED BY <3>1, <3>2 DEF Starts
  <2> QED BY <1>1, <2>1 DEF Starts, StepsInOrder, NeededInv
<1>7. Moves
  BY <1>1, <1>6 DEF Starts, Moves
<1>8. QueuedVTables' = QueuedVTables /\ vtable' = vtable
  BY DEF Starts, QueuedVTables
<1>9. Tracks
  BY <1>3, <1>8 DEF Starts, Tracks
<1>10. Waits
  BY <1>8, RefsFacts DEF Starts, Waits
<1>11. InUse' \subseteq InUse \cup {n} \cup Targets'
  <2>1. InTheModule' \subseteq InTheModule \cup {n}
    BY <1>3, <1>8, ModuleFacts DEF ModuleIs
  <2> QED BY <2>1 DEF InUse, Starts
<1>12. Uses
  BY <1>11 DEF Uses, ClosedSoFar
<1> QED BY <1>4, <1>7, <1>9, <1>10, <1>12 DEF Effects, Starts

(* EmitGlobalDefinition.                                                    *)
LEMMA EmitGlobalDefinitionStarts ==
  ASSUME IInv, NeededInv, Idle, phase # "done", NEW n \in Names, status[n] \notin Final,
         NEW initializer, EmitGlobalDefinition(n, initializer),
         Range(initializer) \subseteq Range(unit.refs[n]),
         UNCHANGED <<unit, phase, errors>>, Changed \subseteq {n},
         announced'[n] \notin {"no", "tentative", "staticTentative"}
  PROVE  Starts(n) /\ Targets' = {r.to : r \in Range(initializer)}
<1>1. /\ current' = n /\ body' = initializer /\ UNCHANGED <<vtable, aliasee, deferredVTables>>
      /\ current = NoName
  BY DEF EmitGlobalDefinition, Idle
<1>2. /\ \/ status' = status /\ IsConstant(n)
         \/ status' = [status EXCEPT ![n] = "defined"]
      /\ deferredDecls' \subseteq deferredDecls /\ deferredDecls \ deferredDecls' \subseteq {n}
      /\ Queued \ Queued' \subseteq {n} /\ Queued' \subseteq Queued \cup {n}
  <2>1. CASE IsConstant(n)
    BY <2>1 DEF EmitGlobalDefinition, deferVars, Queued
  <2>2. CASE ~IsConstant(n)
    <3>1. PICK q \in BOOLEAN : q <=> QueuesMember(n, FALSE)
      OBVIOUS
    <3>2. Defer(n, q)
      BY <2>2, <3>1 DEF EmitGlobalDefinition, Defer
    <3>3. status' = [status EXCEPT ![n] = "defined"]
      BY <2>2 DEF EmitGlobalDefinition, Define
    <3> QED BY <3>2, <3>3, DeferEffects DEF IInv
  <2> QED BY <2>1, <2>2
<1> QED BY <1>1, <1>2 DEF Starts, Targets

LEMMA EmitGlobalNowStep ==
  ASSUME IInv, IInv', NeededInv, NEW n \in Names, EmitGlobalNow(n)
  PROVE  Effects
<1>1. /\ phase = "parsing" /\ Idle /\ announced[n] \in {"no", "inline", "tentative"}
      /\ announced' = [announced EXCEPT ![n] = "strong"] /\ roots' = roots \cup {n}
      /\ EmitGlobalDefinition(n, unit.refs[n])
      /\ UNCHANGED <<unit, phase, errors>>
  BY DEF EmitGlobalNow, Parsing, Announce
<1>2. status[n] \notin Final
  BY <1>1 DEF IInv, AnnouncedFirst, Final
<1>3. /\ announced'[n] = "strong" /\ Changed \subseteq {n} /\ aliasee' = aliasee /\ current' = n
  BY <1>1 DEF IInv, TypeOK, Changed, EmitGlobalDefinition
<1>4. Starts(n) /\ Targets' = {r.to : r \in Range(unit.refs[n])}
  BY <1>1, <1>2, <1>3, EmitGlobalDefinitionStarts
<1>5. Announces
  BY <1>1, <1>3 DEF Announces, Announced, Idle, Changed
<1>6. Mentions(n)' = Targets' /\ Targets' \subseteq MentionsSoFar(n)'
  BY <1>1, <1>3, <1>4, MentionFacts DEF MentionsAre, MentionsSoFar, Announced, Definable
<1>7. Roots
  BY <1>1, <1>3 DEF Roots
<1> QED BY <1>1, <1>4, <1>5, <1>6, <1>7, StartEffects

LEMMA EmitGlobalForcedStep ==
  ASSUME IInv, IInv', NeededInv, NEW n \in Names, EmitGlobalForced(n)
  PROVE  Effects
<1>1. /\ phase = "parsing" /\ Idle /\ announced[n] = "inline"
      /\ announced' = [announced EXCEPT ![n] = "forced"] /\ roots' = roots \cup {n}
      /\ deferredDecls' = deferredDecls \ {n} /\ current' = n /\ body' = unit.refs[n]
      /\ status' = [status EXCEPT ![n] = "defined"]
      /\ UNCHANGED <<unit, phase, errors, vtable, aliasee, deferredDeclsToEmit, deferredVTables>>
  BY DEF EmitGlobalForced, Parsing, Announce, Define
<1>2. status[n] \notin Final
  BY <1>1 DEF IInv, AnnouncedFirst, Final
<1>3. announced'[n] = "forced" /\ Changed \subseteq {n} /\ status'[n] = "defined"
  BY <1>1 DEF IInv, TypeOK, Changed
<1>4. n \notin unit.bodied
  BY <1>1, NamesAssumption DEF IInv, AnnouncedFirst, TypeOK, Unit
<1>5. Starts(n) /\ Targets' = {r.to : r \in Range(unit.refs[n])}
  BY <1>1, <1>2, <1>3 DEF Starts, Idle, Targets, Queued
<1>6. Announces
  BY <1>1, <1>3, <1>4 DEF Announces, Announced, Idle, Changed
<1>7. Mentions(n)' = Targets' /\ Targets' \subseteq MentionsSoFar(n)'
  BY <1>1, <1>3, <1>5, MentionFacts DEF MentionsAre, MentionsSoFar, Announced, Definable
<1>8. Roots
  BY <1>1, <1>3 DEF Roots
<1> QED BY <1>1, <1>5, <1>6, <1>7, <1>8, StartEffects

LEMMA FinishConstantStep ==
  ASSUME IInv, IInv', NeededInv, FinishConstantVariable PROVE Effects
<1>1. PICK n : n = current
  OBVIOUS
<1>2. /\ n \in Variables /\ n \in Names /\ n \notin Classes /\ n # NoName /\ current' = NoName
      /\ body = << >> /\ body' = << >> /\ Defer(n, FALSE)
      /\ status' = [status EXCEPT ![n] = "defined"]
      /\ UNCHANGED <<unit, phase, errors, announced, roots, vtable, aliasee, deferredVTables>>
  BY <1>1, NamesAssumption
     DEF FinishConstantVariable, IsConstant, Define, unitVars, Names
<1>3. /\ deferredDecls' \subseteq deferredDecls /\ deferredDecls \ deferredDecls' \subseteq {n}
      /\ Queued \subseteq Queued' /\ Queued' \subseteq Queued \cup {n}
      /\ n \in Queued' => n \in Queued \/ n \in deferredDecls
  BY <1>2, DeferEffects DEF IInv
<1>4. /\ status'[n] = "defined" /\ status[n] \notin Final
      /\ \A m \in Names : m # n => status'[m] = status[m]
  BY <1>1, <1>2 DEF IInv, TypeOK, PendingIsOpen, FinishConstantVariable
<1>5. /\ \A m \in Names : (Definable(m)' <=> Definable(m)) /\ (IsConstant(m)' <=> IsConstant(m))
      /\ \A d \in Classes : (ShouldEmitVTable(d)' <=> ShouldEmitVTable(d))
      /\ Changed = {}
  BY <1>2, SameAnnounced
<1>6. Announces
  BY <1>2, <1>5 DEF Announces
<1>7. Grows
  BY <1>1, <1>2, <1>4 DEF Grows, Kept, Final
<1>8. StepsInOrder' /\ QueuedVTables' = QueuedVTables
  BY <1>1, <1>2, NamesAssumption DEF StepsInOrder, NeededInv, QueuedVTables
<1>9. Moves
  BY <1>1, <1>2, <1>4, <1>8 DEF Moves
<1>10. Tracks
  BY <1>2, <1>3, <1>4, <1>5, <1>8 DEF Tracks, Final
<1>11. Waits
  <2>1. Range(body') = {}
    BY <1>2 DEF Range
  <2> QED BY <1>2, <1>3, <1>8, <2>1 DEF Waits
<1>12. InUse' \subseteq InUse
  <2>1. Targets' = {}
    BY <1>2 DEF Targets, Range
  <2>2. InTheModule' \subseteq InTheModule \cup {n}
    BY <1>2, <1>4, ModuleFacts DEF ModuleIs
  <2> QED BY <1>1, <1>2, <2>1, <2>2 DEF InUse
<1> QED BY <1>2, <1>6, <1>7, <1>9, <1>10, <1>11, <1>12 DEF Effects, Uses, Roots

(* The steps that announce a name and do no more than queue it.             *)
LEMMA AnnounceEffects ==
  ASSUME IInv, IInv', NeededInv, Idle, NEW n \in Names, n \notin unit.bodied,
         phase \in {"parsing", "tentative"}, Changed \subseteq {n},
         UNCHANGED <<unit, phase, errors, roots, status, vtable, aliasee, codeVars,
                     deferredVTables>>,
         Announced(n, {"no", "inline", "tentative", "staticTentative"}),
         announced'[n] \in {"tentative", "staticTentative", "static", "inline", "staticCompleted"},
         announced'[n] \in {"tentative", "staticTentative", "inline"} => Announced(n, {"no"}),
         deferredDecls \subseteq deferredDecls', Queued \subseteq Queued',
         deferredDecls' \cup Queued' \subseteq deferredDecls \cup Queued \cup {n},
         IF announced'[n] \in {"tentative", "staticTentative"}
           THEN UNCHANGED deferVars
           ELSE /\ status[n] = "absent" => n \in deferredDecls'
                /\ status[n] = "declared" => n \in Queued'
  PROVE  Effects
<1>1. QueuedVTables' = QueuedVTables /\ Queued \subseteq Queued' /\ current = NoName
      /\ current' = NoName /\ body' = body
  BY DEF QueuedVTables, Idle, codeVars
<1>2. Announces
  BY <1>1 DEF Announces, Announced
<1>3. Grows
  BY DEF Grows, Kept
<1>4. StepsInOrder'
  BY <1>1, NamesAssumption DEF StepsInOrder, NeededInv
<1>5. Moves
  BY <1>1, <1>4 DEF Moves, Targets
<1>6. announced'[n] \in {"tentative", "staticTentative"} => ~Definable(n)'
  BY DEF Definable
<1>7. Tracks
  BY <1>1, <1>6 DEF Tracks
<1>8. Waits
  <2>1. announced'[n] \in {"tentative", "staticTentative"} => Queued' = Queued
    BY DEF deferVars, Queued
  <2> QED BY <1>1, <2>1 DEF Waits, NeededInv, WaitingAreDefinable, deferVars
<1>9. InUse' = InUse
  BY <1>1 DEF InUse, InTheModule, Targets
<1> QED BY <1>2, <1>3, <1>5, <1>7, <1>8, <1>9 DEF Effects, Uses, Roots

LEMMA NotBodied ==
  ASSUME IInv PROVE \A n \in Functions \cup Variables : n \in Names /\ n \notin unit.bodied
  BY NamesAssumption DEF IInv, TypeOK, Unit, Names

LEMMA EmitGlobalDeferredStep ==
  ASSUME IInv, IInv', NeededInv, NEW n \in Names, NEW as, EmitGlobalDeferred(n, as)
  PROVE  Effects
<1>1. /\ phase = "parsing" /\ Idle /\ as \in {"static", "inline"}
      /\ n \in Functions \cup Variables /\ Announced(n, {"no", "staticTentative"})
      /\ as = "inline" => Announced(n, {"no"})
      /\ announced' = [announced EXCEPT ![n] = as] /\ DeferGlobal(n)
      /\ UNCHANGED <<unit, phase, errors, roots, codeVars, status, vtable, aliasee,
                     deferredVTables>>
  BY DEF EmitGlobalDeferred, Parsing, Announce, Announced, valueVars
<1>2. announced'[n] = as /\ Changed \subseteq {n}
  BY <1>1 DEF IInv, TypeOK, Changed
<1>3. /\ deferredDecls \subseteq deferredDecls' /\ Queued \subseteq Queued'
      /\ deferredDecls' \cup Queued' \subseteq deferredDecls \cup Queued \cup {n}
      /\ status[n] = "absent" => n \in deferredDecls'
      /\ status[n] = "declared" => n \in Queued'
  <2>1. CASE status[n] = "absent"
    BY <2>1, <1>1 DEF DeferGlobal, Queued
  <2>2. CASE status[n] # "absent"
    <3>1. Queued' = Queued \cup {n}
      BY <1>1, <2>2, QueueFacts DEF DeferGlobal, Queued, IInv, TypeOK
    <3> QED BY <1>1, <2>2, <3>1 DEF DeferGlobal
  <2> QED BY <2>1, <2>2
<1> QED BY <1>1, <1>2, <1>3, NotBodied, AnnounceEffects DEF Announced

LEMMA DeclareTentativeStep ==
  ASSUME IInv, IInv', NeededInv, NEW v \in Variables, NEW as, DeclareTentative(v, as)
  PROVE  Effects
<1>1. /\ phase = "parsing" /\ Idle /\ as \in {"tentative", "staticTentative"}
      /\ Announced(v, {"no"}) /\ announced' = [announced EXCEPT ![v] = as]
      /\ UNCHANGED <<unit, phase, errors, roots, codeVars, status, vtable, aliasee, deferVars,
                     deferredVTables>>
  BY DEF DeclareTentative, Parsing, Announce, Announced, valueVars
<1>2. v \in Names /\ v \notin unit.bodied
  BY NotBodied
<1>3. /\ announced'[v] = as /\ Changed \subseteq {v}
      /\ Queued' = Queued /\ deferredDecls' = deferredDecls
  BY <1>1, <1>2 DEF IInv, TypeOK, Changed, Queued, deferVars
<1> QED BY <1>1, <1>2, <1>3, AnnounceEffects DEF Announced

LEMMA EmitTentativeDefinitionStep ==
  ASSUME IInv, IInv', NeededInv, NEW v \in Variables, EmitTentativeDefinition(v)
  PROVE  Effects
<1>1. v \in Names /\ v \notin unit.bodied
  BY NotBodied
<1>2. phase = "tentative" /\ Idle /\ UNCHANGED <<unit, phase, errors>>
  BY DEF EmitTentativeDefinition
<1>3. CASE Announced(v, {"staticTentative"}) /\ status[v] = "absent"
  <2>1. /\ announced' = [announced EXCEPT ![v] = "staticCompleted"]
        /\ deferredDecls' = deferredDecls \cup {v}
        /\ UNCHANGED <<roots, deferredDeclsToEmit, codeVars, valueVars, linkVars, deferredVTables>>
    BY <1>3 DEF EmitTentativeDefinition, Announced
  <2>2. announced'[v] = "staticCompleted" /\ Changed \subseteq {v} /\ Queued' = Queued
    BY <1>1, <2>1 DEF IInv, TypeOK, Changed, Queued
  <2>3. UNCHANGED <<status, vtable, aliasee>> /\ v \in deferredDecls'
    BY <2>1 DEF valueVars
  <2> QED BY <1>1, <1>2, <1>3, <2>1, <2>2, <2>3, AnnounceEffects DEF Announced
<1>4. CASE ~(Announced(v, {"staticTentative"}) /\ status[v] = "absent")
  <2>1. PICK as : as = announced'[v]
    OBVIOUS
  <2>2. /\ Announced(v, {"staticTentative", "tentative"}) /\ as \in {"staticCompleted", "completed"}
        /\ Changed \subseteq {v} /\ EmitGlobalDefinition(v, << >>)
        /\ roots \subseteq roots' /\ roots' \subseteq roots \cup {v}
        /\ Announced(v, {"tentative"}) => as = "completed" /\ v \in roots'
        /\ Announced(v, {"staticTentative"}) => as = "staticCompleted" /\ status[v] # "absent"
        /\ aliasee' = aliasee
    BY <1>1, <1>4, <2>1
       DEF EmitTentativeDefinition, IInv, TypeOK, Announced, Changed, EmitGlobalDefinition
  <2>3. status[v] \notin Final
    BY <1>1, <1>2, <2>2 DEF IInv, AnnouncedFirst, Announced, Final
  <2>4. Range(<< >>) \subseteq Range(unit.refs[v]) /\ {r.to : r \in Range(<< >>)} = {}
    BY DEF Range
  <2>5. Starts(v) /\ Targets' = {}
    BY <1>1, <1>2, <2>1, <2>2, <2>3, <2>4, EmitGlobalDefinitionStarts
  <2>6. current' = v
    BY <2>5 DEF Starts
  <2>7. Announces
    BY <1>1, <1>2, <2>1, <2>2, <2>6 DEF Announces, Announced, Idle, Changed
  <2>8. Mentions(v)' = {}
    BY <1>1, <2>1, <2>2, MentionFacts DEF MentionsAre, Announced
  <2>9. v \in InUse \/ v \in roots'
    BY <1>1, <2>2, ModuleFacts DEF ModuleIs, InUse, Announced
  <2>10. Roots
    BY <2>2, <2>6 DEF Roots
  <2> QED BY <1>1, <2>5, <2>7, <2>8, <2>9, <2>10, StartEffects
<1> QED BY <1>3, <1>4

LEMMA InstantiateExplicitlyStep ==
  ASSUME IInv, IInv', NeededInv, NEW v \in Variables, InstantiateExplicitly(v)
  PROVE  Effects
<1>1. /\ phase = "parsing" /\ Idle /\ Defer(v, FALSE)
      /\ status' = [status EXCEPT ![v] = Declared(v)] /\ roots' = roots \cup {v}
      /\ UNCHANGED <<unit, phase, errors, announced, aliasee, current, body, vtable,
                     deferredVTables>>
  BY DEF InstantiateExplicitly, Parsing, codeVars
<1>2. v \in Names /\ v \notin unit.bodied
  BY NotBodied
<1>3. body' = body /\ (current = NoName => body = << >>) /\ Targets' = Targets
  BY <1>1 DEF NeededInv, StepsInOrder, Targets
<1> QED BY <1>1, <1>2, <1>3, ReferEffects

LEMMA EmitAliasDefinitionStep ==
  ASSUME IInv, IInv', NeededInv, NEW n \in Names, NEW target \in Names,
         EmitAliasDefinition(n, target)
  PROVE  Effects
<1>1. /\ phase = "parsing" /\ Idle /\ n # target /\ Announced(n, {"no", "inline"})
      /\ {n, target} \subseteq Functions \cup Variables
      /\ announced' = [announced EXCEPT ![n] = "alias"] /\ Defer(target, FALSE)
      /\ status' = [status EXCEPT ![target] = Declared(target), ![n] = "alias"]
      /\ aliasee' = [aliasee EXCEPT ![n] = target] /\ roots' = roots \cup {n}
      /\ UNCHANGED <<unit, phase, errors, current, body, vtable, deferredVTables>>
  BY DEF EmitAliasDefinition, Parsing, Announce, Announced, codeVars
<1>2. /\ n \notin unit.bodied /\ target \notin unit.bodied
      /\ announced'[n] = "alias" /\ Changed \subseteq {n} /\ n \in Changed
      /\ aliasee'[n] = target /\ \A m \in Names : m # n => aliasee'[m] = aliasee[m]
      /\ status'[n] = "alias" /\ status[n] \notin Final
      /\ status'[target] = (IF status[target] = "absent" THEN "declared" ELSE status[target])
      /\ \A m \in Names : m \notin {n, target} => status'[m] = status[m]
      /\ status'[target] # "absent"
      /\ status'[target] = "defined" => status[target] = "defined"
      /\ status'[target] = "alias" => status[target] = "alias"
      /\ status[target] # "absent" => status'[target] = status[target]
  <2>1. n \notin unit.bodied /\ target \notin unit.bodied
    BY <1>1, NotBodied
  <2>2. status[n] \notin Final
    BY <1>1 DEF IInv, AnnouncedFirst, Announced, Final
  <2>3. /\ announced \in [Names -> Announcement] /\ aliasee \in [Names -> Names \cup {NoName}]
        /\ status \in [Names -> Statuses]
    BY DEF IInv, TypeOK, Statuses
  <2> QED BY <1>1, <2>1, <2>2, <2>3 DEF Changed, Announced, Declared
<1>3. /\ deferredDecls' \subseteq deferredDecls /\ deferredDecls \ deferredDecls' \subseteq {target}
      /\ Queued \subseteq Queued' /\ Queued' \subseteq Queued \cup {target}
      /\ status[target] = "absent" /\ target \in deferredDecls => target \in Queued'
      /\ target \in Queued' => target \in Queued \/ target \in deferredDecls
  BY <1>1, DeferEffects DEF IInv
<1>4. ~Definable(n)' /\ (Definable(target)' <=> Definable(target)) /\ ~IsConstant(current)
  BY <1>1, <1>2, NamesAssumption DEF Definable, Changed, Idle, IsConstant, Names
<1>5. Announces
  BY <1>1, <1>2 DEF Announces, Announced, Idle, Changed
<1>6. target \in InTheModule' /\ InTheModule' \subseteq InTheModule \cup {n, target}
  <2>1. \A m \in Names : status'[m] # "absent" => status[m] # "absent" \/ m \in {n, target}
    BY <1>2
  <2>2. target \in InTheModule'
    BY <1>2, ModuleFacts DEF ModuleIs
  <2>3. InTheModule' \subseteq InTheModule \cup {n, target}
    BY <1>1, <2>1, ModuleFacts DEF ModuleIs
  <2> QED BY <2>2, <2>3
<1>7. Grows
  <2>1. ASSUME NEW m \in Names
        PROVE  /\ status[m] \in Final => status'[m] = status[m]
               /\ status[m] # "absent" => status'[m] # "absent"
               /\ status'[m] = "defined" => status[m] = "defined"
               /\ status'[m] = "alias" /\ status[m] # "alias" => m = n
    BY <1>2 DEF Final
  <2> QED BY <1>1, <1>2, <1>6, <2>1 DEF Grows, Kept
<1>8. StepsInOrder' /\ QueuedVTables' = QueuedVTables /\ Targets' = Targets
  BY <1>1, NamesAssumption DEF StepsInOrder, NeededInv, QueuedVTables, Idle, Targets
<1>9. Moves
  BY <1>1, <1>8 DEF Moves, Idle
<1>10. Tracks
  <2>1. status[target] = "absent" /\ Definable(target) => target \in Queued'
    BY <1>1, <1>2, <1>3, NamesAssumption DEF NeededInv, DefinableAreTracked, Idle
  <2>2. Changed = {n} /\ \A m \in Names :
           status[m] = "absent" /\ status'[m] = "declared" => m = target
    BY <1>2
  <2>3. \A m \in deferredDecls \ deferredDecls' : status'[m] # "absent"
    BY <1>2, <1>3
  <2>4. Queued \ Queued' = {}
    BY <1>3
  <2> QED BY <1>1, <1>4, <1>8, <2>1, <2>2, <2>3, <2>4 DEF Tracks
<1>11. Waits
  BY <1>1, <1>3, <1>8 DEF Waits, NeededInv, WaitingAreDefinable
<1>12. Uses
  <2>1. MentionsSoFar(n)' = {target} /\ n \in roots'
    BY <1>1, <1>2, MentionFacts DEF MentionsAre, MentionsSoFar, Announced
  <2>2. InUse' \subseteq InUse \cup {n, target}
    BY <1>1, <1>6, <1>8 DEF InUse
  <2> QED BY <2>1, <2>2 DEF Uses, ClosedSoFar
<1>13. Roots
  BY <1>1, <1>2 DEF Roots
<1> QED BY <1>1, <1>5, <1>7, <1>9, <1>10, <1>11, <1>12, <1>13 DEF Effects

(* Code generation of a vtable begins.                                      *)
LEMMA VTableStarts ==
  ASSUME IInv, IInv', NeededInv, Idle, phase # "done", NEW c \in Classes, ShouldEmitVTable(c),
         current' = c,
         body' = [i \in DOMAIN unit.virtual[c] |-> [kind |-> "member", to |-> unit.virtual[c][i]]],
         UNCHANGED <<unit, phase, errors, announced, status, aliasee, deferVars>>,
         vtable'[c] = (IF vtable[c] = "absent" THEN "declared" ELSE vtable[c]),
         \A d \in Classes : d # c => vtable'[d] = vtable[d],
         QueuedVTables \ QueuedVTables' \subseteq {c},
         QueuedVTables' \subseteq QueuedVTables \cup {c},
         roots \subseteq roots', roots' \subseteq roots \cup {c}, c \in InUse \/ c \in roots'
  PROVE  Effects
<1>1. Range(body') = {[kind |-> "member", to |-> m] : m \in Range(unit.virtual[c])}
  BY DEF Range
<1>2. /\ \A m \in Names : (Definable(m)' <=> Definable(m)) /\ (IsConstant(m)' <=> IsConstant(m))
      /\ \A d \in Classes : (ShouldEmitVTable(d)' <=> ShouldEmitVTable(d))
      /\ Changed = {}
  BY SameAnnounced
<1>3. /\ current = NoName /\ c \notin Names /\ c # NoName
      /\ vtable[c] \in {"absent", "declared", "defined"}
  BY NamesAssumption DEF Idle, IInv, TypeOK
<1>4. Announces /\ Grows /\ deferredDecls' = deferredDecls /\ Queued' = Queued
  BY <1>3, NamesKept
<1>5. /\ Targets' = Range(unit.virtual[c]) /\ Mentions(c)' = Targets'
      /\ MentionsSoFar(c)' = Mentions(c)'
  <2>1. Targets' = Range(unit.virtual[c])
    <3>1. PICK R : R = Range(body')
      OBVIOUS
    <3>2. Targets' = {r.to : r \in R}
      BY <3>1 DEF Targets
    <3>3. \A r \in R : r.to \in Range(unit.virtual[c])
      BY <1>1, <3>1
    <3>4. ASSUME NEW m \in Range(unit.virtual[c]) PROVE m \in {r.to : r \in R}
      <4>1. PICK r : r = [kind |-> "member", to |-> m]
        OBVIOUS
      <4>2. r \in R /\ r.to = m
        BY <1>1, <3>1, <4>1
      <4> QED BY <4>2
    <3> QED BY <3>2, <3>3, <3>4
  <2>2. Mentions(c)' = Range(unit.virtual[c])
    BY <1>2, MentionFacts DEF MentionsAre
  <2>3. MentionsSoFar(c)' = Mentions(c)'
    BY <1>3 DEF MentionsSoFar
  <2> QED BY <2>1, <2>2, <2>3
<1>6. StepsInOrder'
  BY <1>2, <1>3 DEF StepsInOrder, NeededInv
<1>7. Moves
  BY <1>3, <1>5, <1>6 DEF Moves
<1>8. Tracks
  BY <1>2, <1>3, <1>4 DEF Tracks
<1>9. Waits
  BY <1>1, <1>2, <1>4 DEF Waits
<1>10. Uses
  <2>1. InUse' \subseteq InUse \cup {c} \cup Targets'
    <3>1. InTheModule' \subseteq InTheModule \cup {c}
      BY <1>3, ModuleFacts DEF ModuleIs
    <3> QED BY <3>1 DEF InUse
  <2> QED BY <1>5, <2>1 DEF Uses, ClosedSoFar
<1>11. Roots
  BY DEF Roots
<1> QED BY <1>4, <1>7, <1>8, <1>9, <1>10, <1>11 DEF Effects

LEMMA HandleVTableStep ==
  ASSUME IInv, IInv', NeededInv, NEW c \in Classes, HandleVTable(c) PROVE Effects
<1>1. /\ phase = "parsing" /\ Idle /\ ShouldEmitVTable(c) /\ c \notin roots
      /\ GetAddrOfVTable(c) /\ roots' = roots \cup {c} /\ current' = c
      /\ body' = [i \in DOMAIN unit.virtual[c] |-> [kind |-> "member", to |-> unit.virtual[c][i]]]
      /\ UNCHANGED <<unit, phase, errors, announced, status, aliasee, deferVars>>
  BY DEF HandleVTable, Parsing, ShouldEmitVTable
<1>2. /\ vtable'[c] = (IF vtable[c] = "absent" THEN "declared" ELSE vtable[c])
      /\ \A d \in Classes : d # c => vtable'[d] = vtable[d]
      /\ QueuedVTables \subseteq QueuedVTables' /\ QueuedVTables' \subseteq QueuedVTables \cup {c}
  BY <1>1, VTableEffects DEF IInv
<1> QED BY <1>1, <1>2, VTableStarts

LEMMA EmitDeferredVTableStep ==
  ASSUME IInv, IInv', NeededInv, EmitDeferredVTable PROVE Effects
<1>1. PICK c : c = Last(deferredVTables)
  OBVIOUS
<1>2. /\ phase = "releasing" /\ Idle
      /\ UNCHANGED <<unit, phase, errors, announced, roots, status, vtable, aliasee, deferVars>>
      /\ c \in Classes /\ QueuedVTables = {c} \cup QueuedVTables'
  <2>1. deferredVTables \in Seq(Classes) /\ deferredVTables # << >>
    BY DEF EmitDeferredVTable, IInv, TypeOK
  <2>2. QueuedVTables = {c} \cup Range(Popped(deferredVTables)) /\ c \in Classes
    BY <1>1, <2>1, PoppedRange DEF QueuedVTables
  <2> QED BY <2>2 DEF EmitDeferredVTable, Releasing, QueuedVTables, unitVars, valueVars
<1>3. ShouldEmitVTable(c) /\ vtable[c] \in {"declared", "defined"} /\ c \in InUse
  <2>1. ShouldEmitVTable(c) /\ vtable[c] # "absent"
    BY <1>2 DEF NeededInv, WaitingAreDefinable
  <2> QED BY <1>2, <2>1, ModuleFacts DEF ModuleIs, InUse, IInv, TypeOK
<1>4. CASE vtable[c] # "defined"
  <2>1. /\ current' = c
        /\ body' = [i \in DOMAIN unit.virtual[c] |->
                      [kind |-> "member", to |-> unit.virtual[c][i]]]
    BY <1>1, <1>4 DEF EmitDeferredVTable
  <2> QED BY <1>2, <1>3, <2>1, VTableStarts
<1>5. CASE vtable[c] = "defined"
  <2>1. UNCHANGED <<current, body>> /\ current = NoName
    BY <1>1, <1>2, <1>5 DEF EmitDeferredVTable, codeVars, Idle
  <2>2. /\ \A m \in Names : (Definable(m)' <=> Definable(m)) /\ (IsConstant(m)' <=> IsConstant(m))
        /\ \A d \in Classes : (ShouldEmitVTable(d)' <=> ShouldEmitVTable(d))
        /\ Changed = {}
    BY <1>2, SameAnnounced
  <2>3. Announces /\ Grows /\ deferredDecls' = deferredDecls /\ Queued' = Queued
    BY <1>2, NamesKept
  <2>4. StepsInOrder'
    BY <1>2, <2>1, NamesAssumption DEF StepsInOrder, NeededInv
  <2>5. Moves
    BY <2>1, <2>4 DEF Moves, Targets
  <2>6. Tracks
    BY <1>2, <1>5, <2>2, <2>3 DEF Tracks
  <2>7. Waits
    BY <1>2, <2>1, <2>3 DEF Waits, NeededInv, WaitingAreDefinable
  <2>8. InUse' = InUse
    BY <1>2, <2>1 DEF InUse, InTheModule, Targets
  <2> QED BY <1>2, <2>3, <2>5, <2>6, <2>7, <2>8 DEF Effects, Uses, Roots
<1> QED BY <1>4, <1>5

LEMMA EmitDeferredDeclStep ==
  ASSUME IInv, IInv', NeededInv, EmitDeferredDecl PROVE Effects
<1>1. PICK n : n = Last(deferredDeclsToEmit)
  OBVIOUS
<1>2. /\ phase = "releasing" /\ Idle /\ current = NoName
      /\ UNCHANGED <<unit, phase, errors, announced, roots, vtable, aliasee, deferredDecls,
                     deferredVTables>>
      /\ n \in Names /\ Queued = {n} \cup Queued'
  <2>1. deferredDeclsToEmit \in Seq(Names) /\ deferredDeclsToEmit # << >>
    BY DEF EmitDeferredDecl, IInv, TypeOK
  <2>2. Queued = {n} \cup Range(Popped(deferredDeclsToEmit)) /\ n \in Names
    BY <1>1, <2>1, PoppedRange DEF Queued
  <2> QED BY <2>2 DEF EmitDeferredDecl, Releasing, Idle, Queued, unitVars
<1>3. /\ \A m \in Names : (Definable(m)' <=> Definable(m)) /\ (IsConstant(m)' <=> IsConstant(m))
      /\ \A d \in Classes : (ShouldEmitVTable(d)' <=> ShouldEmitVTable(d))
      /\ Changed = {}
  BY <1>2, SameAnnounced
<1>4. Announces
  BY <1>2, <1>3 DEF Announces
<1>5. CASE AlreadyEmitted(n) \/ ~ShouldEmit(n)
  <2>1. UNCHANGED <<current, body, status>>
    BY <1>1, <1>5 DEF EmitDeferredDecl, codeVars
  <2>2. status[n] \in Final \/ ~Definable(n)
    <3>1. \A m \in Functions : m \notin unit.bodied
      BY NotBodied
    <3>2. ~ShouldEmit(n) => n \notin unit.bodied
      BY <1>2, <3>1 DEF ShouldEmit, IInv, AnnouncedFirst
    <3> QED BY <1>5, <3>2 DEF AlreadyEmitted, ShouldEmit, Definable, Final
  <2>3. Grows
    BY <1>2, <2>1 DEF Grows, Kept
  <2>4. StepsInOrder' /\ QueuedVTables' = QueuedVTables
    BY <1>2, <2>1, NamesAssumption DEF StepsInOrder, NeededInv, QueuedVTables
  <2>5. Moves
    BY <2>1, <2>4 DEF Moves, Targets
  <2>6. Tracks
    BY <1>2, <1>3, <2>1, <2>2, <2>4 DEF Tracks
  <2>7. Waits
    BY <1>2, <2>1, <2>4 DEF Waits, NeededInv, WaitingAreDefinable
  <2>8. InUse' = InUse
    BY <1>2, <2>1 DEF InUse, InTheModule, Targets
  <2> QED BY <1>2, <1>4, <2>3, <2>5, <2>6, <2>7, <2>8 DEF Effects, Uses, Roots
<1>6. CASE ~(AlreadyEmitted(n) \/ ~ShouldEmit(n))
  <2>1. /\ current' = n
        /\ body' = IF announced[n] = "staticCompleted" THEN << >> ELSE unit.refs[n]
        /\ \/ status' = status /\ IsConstant(n)
           \/ status' = [status EXCEPT ![n] = "defined"]
    BY <1>1, <1>6 DEF EmitDeferredDecl, Define
  <2>2. status[n] \notin Final /\ status[n] # "absent" /\ n \in InUse
    <3>1. status[n] # "absent"
      BY <1>2 DEF IInv, DeferredAreAbsent, Queued
    <3> QED BY <1>2, <1>6, <3>1, ModuleFacts DEF ModuleIs, InUse, AlreadyEmitted, Final
  <2>3. /\ ~Announced(n, {"strong", "forced", "completed", "alias"})
        /\ ~Announced(n, {"no", "tentative", "staticTentative"}) \/ n \in unit.bodied
    BY <1>2, <2>2, NamesAssumption
       DEF NeededInv, AnnouncedAreEmitted, WaitingAreDefinable, Announced, Final
  <2>4. Definable(n)
    BY <1>6, <2>3 DEF Definable, ShouldEmit, Announced
  <2>5. Range(body') \subseteq Range(unit.refs[n])
    BY <2>1 DEF Range
  <2>6. Starts(n)
    BY <1>2, <1>3, <2>1, <2>2, <2>3, <2>5 DEF Starts, Announced
  <2>7. Mentions(n)' = Targets' /\ MentionsSoFar(n)' = Mentions(n)'
    <3>1. CASE announced[n] = "staticCompleted"
      <4>1. Targets' = {}
        BY <2>1, <3>1 DEF Targets, Range
      <4>2. Mentions(n)' = {}
        BY <1>2, <3>1, MentionFacts DEF MentionsAre, Announced
      <4> QED BY <1>2, <4>1, <4>2 DEF MentionsSoFar
    <3>2. CASE announced[n] # "staticCompleted"
      <4>1. Targets' = {r.to : r \in Range(unit.refs[n])}
        BY <2>1, <3>2 DEF Targets
      <4>2. Mentions(n)' = {r.to : r \in Range(unit.refs[n])}
        BY <1>2, <1>3, <2>3, <2>4, <3>2, MentionFacts DEF MentionsAre, Announced
      <4> QED BY <1>2, <4>1, <4>2 DEF MentionsSoFar
    <3> QED BY <3>1, <3>2
  <2>8. Roots
    BY <1>2 DEF Roots
  <2> QED BY <1>2, <1>4, <2>2, <2>6, <2>7, <2>8, StartEffects
<1> QED BY <1>5, <1>6

-----------------------------------------------------------------------------
(* The phases                                                               *)

LEMMA PhaseStep ==
  ASSUME IInv, NeededInv, Error \/ EndOfProgram \/ HandleProgram \/ EmitCXXGlobalInitFunc
  PROVE  NeededInv'
<1>1. /\ UNCHANGED <<unit, announced, roots, current, body, status, vtable, aliasee, deferredDecls,
                     deferredDeclsToEmit, deferredVTables>>
      /\ phase # "done" /\ Idle /\ current = NoName
  BY DEF Error, EndOfProgram, HandleProgram, EmitCXXGlobalInitFunc, Releasing, codeVars, valueVars,
         deferVars, Idle
<1>2. /\ phase' \in {"parsing", "tentative"} => phase \in {"parsing", "tentative"}
      /\ errors => errors'
      /\ errors' => phase' \in {"parsing", "tentative", "reset"}
  BY DEF Error, EndOfProgram, HandleProgram, EmitCXXGlobalInitFunc, Releasing, NeededInv,
         StepsInOrder
<1>3. phase' = "done" => Queued = {} /\ QueuedVTables = {}
  BY DEF Error, EndOfProgram, HandleProgram, EmitCXXGlobalInitFunc, Releasing, Queued,
         QueuedVTables, Range
<1>4. /\ \A m \in Names : (Definable(m)' <=> Definable(m)) /\ (IsConstant(m)' <=> IsConstant(m))
      /\ \A d \in Classes : (ShouldEmitVTable(d)' <=> ShouldEmitVTable(d))
      /\ \A d \in Classes : (KeyDefined(d)' <=> KeyDefined(d))
      /\ Queued' = Queued /\ QueuedVTables' = QueuedVTables /\ Targets' = Targets
      /\ InTheModule' = InTheModule /\ InUse' = InUse
  BY <1>1, SameAnnounced DEF KeyDefined, Queued, QueuedVTables, Targets, InTheModule, InUse
<1>5. \A x : Mentions(x)' = Mentions(x)
  BY <1>1 DEF Mentions, ShouldEmitVTable, KeyDefined, Definable
<1>6. AnnouncedAreEmitted'
  BY <1>1 DEF NeededInv, AnnouncedAreEmitted, Announced
<1>7. WaitingAreDefinable'
  <2>1. \A c \in Classes : vtable'[c] = vtable[c]
    BY <1>1
  <2> QED BY <1>1, <1>4, WaitingNames DEF NeededInv, WaitingAreDefinable, Announced, Waiting, IInv
<1>8. OnlyNeededIsInUse'
  <2> SUFFICES ASSUME NEW S \in SUBSET Entities, ClosedSoFar(S)' PROVE InUse \subseteq S
    BY <1>4 DEF OnlyNeededIsInUse
  <2>1. \A x \in S : MentionsSoFar(x) \subseteq MentionsSoFar(x)'
    BY <1>1, <1>2, <1>5 DEF MentionsSoFar, Announced
  <2>2. ClosedSoFar(S)
    BY <1>1, <2>1 DEF ClosedSoFar
  <2> QED BY <2>2 DEF NeededInv, OnlyNeededIsInUse
<1>9. DefinableAreTracked'
  <2>1. ASSUME NEW c \in Classes, KeyDefined(c), c \notin roots, phase = "parsing" \/ errors
        PROVE  phase' = "parsing" \/ errors'
    BY <1>2, <2>1 DEF Error, EndOfProgram, HandleProgram, EmitCXXGlobalInitFunc, Releasing
  <2> QED BY <1>1, <1>4, <2>1 DEF NeededInv, DefinableAreTracked
<1>10. RootsAreEmitted'
  BY <1>1 DEF NeededInv, RootsAreEmitted
<1>11. ReferencesAreMade'
  BY <1>1, <1>4, <1>5 DEF NeededInv, ReferencesAreMade
<1>12. StepsInOrder'
  BY <1>1, <1>2, <1>3, <1>4, NamesAssumption DEF NeededInv, StepsInOrder
<1> QED BY <1>6, <1>7, <1>8, <1>9, <1>10, <1>11, <1>12 DEF NeededInv

LEMMA NeededInit == Init => NeededInv
<1> SUFFICES ASSUME Init PROVE NeededInv
  OBVIOUS
<1>1. /\ Queued = {} /\ QueuedVTables = {} /\ Targets = {} /\ Range(body) = {}
      /\ current = NoName /\ current \notin Names /\ current \notin Classes
      /\ phase = "parsing" /\ errors = FALSE /\ roots = {} /\ deferredDecls = {} /\ body = << >>
      /\ \A n \in Names : status[n] = "absent" /\ announced[n] = "no"
      /\ \A c \in Classes : vtable[c] = "absent"
  BY NamesAssumption DEF Init, Queued, QueuedVTables, Targets, Range
<1>2. InTheModule = {} /\ InUse = {}
  BY <1>1 DEF InTheModule, InUse
<1>3. \A n \in Names : Definable(n) => n \in unit.bodied
  BY <1>1 DEF Definable
<1>4. AnnouncedAreEmitted /\ WaitingAreDefinable
  BY <1>1 DEF AnnouncedAreEmitted, WaitingAreDefinable, Announced
<1>5. OnlyNeededIsInUse /\ DefinableAreTracked
  BY <1>1, <1>2, <1>3 DEF OnlyNeededIsInUse, DefinableAreTracked
<1>6. RootsAreEmitted /\ ReferencesAreMade /\ StepsInOrder
  BY <1>1 DEF RootsAreEmitted, ReferencesAreMade, StepsInOrder, Final
<1> QED BY <1>4, <1>5, <1>6 DEF NeededInv

LEMMA NeededStutter == ASSUME NeededInv, UNCHANGED vars PROVE NeededInv'
<1>1. UNCHANGED <<unit, phase, errors, announced, roots, current, body, status, vtable, aliasee,
                  deferredDecls, deferredDeclsToEmit, deferredVTables>>
  BY DEF vars, unitVars, codeVars, valueVars, deferVars
<1>2. AnnouncedAreEmitted'
  BY <1>1 DEF NeededInv, AnnouncedAreEmitted, Announced
<1>3. /\ Queued' = Queued /\ QueuedVTables' = QueuedVTables /\ Targets' = Targets
      /\ InTheModule' = InTheModule /\ InUse' = InUse
  BY <1>1 DEF Queued, QueuedVTables, Targets, InTheModule, InUse
<1>4. \A x : /\ (ShouldEmitVTable(x)' <=> ShouldEmitVTable(x)) /\ (Definable(x)' <=> Definable(x))
             /\ (KeyDefined(x)' <=> KeyDefined(x))
             /\ (Announced(x, {"inline"})' <=> Announced(x, {"inline"}))
             /\ Mentions(x)' = Mentions(x)
  BY <1>1 DEF ShouldEmitVTable, KeyDefined, Definable, Announced, Mentions
<1>5. \A x : MentionsSoFar(x)' = MentionsSoFar(x)
  BY <1>1, <1>4 DEF MentionsSoFar
<1>6. WaitingAreDefinable'
  BY <1>1, <1>3, <1>4 DEF NeededInv, WaitingAreDefinable, Announced
<1>7. OnlyNeededIsInUse'
  BY <1>1, <1>3, <1>5 DEF NeededInv, OnlyNeededIsInUse, ClosedSoFar
<1>8. DefinableAreTracked'
  BY <1>1, <1>3, <1>4 DEF NeededInv, DefinableAreTracked
<1>9. RootsAreEmitted'
  BY <1>1 DEF NeededInv, RootsAreEmitted
<1>10. ReferencesAreMade'
  BY <1>1, <1>3, <1>4 DEF NeededInv, ReferencesAreMade
<1>11. StepsInOrder'
  BY <1>1, <1>3, <1>4 DEF NeededInv, StepsInOrder, IsConstant
<1> QED BY <1>2, <1>6, <1>7, <1>8, <1>9, <1>10, <1>11 DEF NeededInv

LEMMA NeededNext == IInv /\ IInv' /\ NeededInv /\ [Next]_vars => NeededInv'
<1> SUFFICES ASSUME IInv, IInv', NeededInv, [Next]_vars PROVE NeededInv'
  OBVIOUS
<1>1. CASE Generate
  <2>1. Effects
    BY <1>1, ReferStep, ReferToVTableStep, FinishStep, FinishConstantStep DEF Generate
  <2> QED BY <2>1, NeededStep
<1>2. CASE Release
  <2>1. CASE EmitDeferredVTable
    BY <2>1, EmitDeferredVTableStep, NeededStep
  <2>2. CASE EmitDeferredDecl
    BY <2>2, EmitDeferredDeclStep, NeededStep
  <2> QED BY <1>2, <2>1, <2>2, PhaseStep DEF Release
<1>3. CASE Error \/ EndOfProgram \/ HandleProgram
  BY <1>3, PhaseStep
<1>4. ASSUME NEW n \in Names,
             \/ EmitGlobalNow(n) \/ EmitGlobalForced(n)
             \/ \E as \in {"static", "inline"} : EmitGlobalDeferred(n, as)
             \/ \E target \in Names : EmitAliasDefinition(n, target)
      PROVE  NeededInv'
  <2>1. Effects
    BY <1>4, EmitGlobalNowStep, EmitGlobalForcedStep, EmitGlobalDeferredStep,
       EmitAliasDefinitionStep
  <2> QED BY <2>1, NeededStep
<1>5. ASSUME NEW v \in Variables,
             \/ \E as \in {"tentative", "staticTentative"} : DeclareTentative(v, as)
             \/ InstantiateExplicitly(v) \/ EmitTentativeDefinition(v)
      PROVE  NeededInv'
  <2>1. Effects
    BY <1>5, DeclareTentativeStep, InstantiateExplicitlyStep, EmitTentativeDefinitionStep
  <2> QED BY <2>1, NeededStep
<1>6. ASSUME NEW c \in Classes, HandleVTable(c) PROVE NeededInv'
  BY <1>6, HandleVTableStep, NeededStep
<1>7. CASE UNCHANGED vars
  BY <1>7, NeededStutter
<1> QED BY <1>1, <1>2, <1>3, <1>4, <1>5, <1>6, <1>7 DEF Next

LEMMA NeededAlways == Spec => [](IInv /\ NeededInv)
<1>1. Init => NeededInv
  BY NeededInit
<1>2. IInv /\ IInv' /\ NeededInv /\ [Next]_vars => NeededInv'
  BY NeededNext
<1> QED BY <1>1, <1>2, IInvAlways, PTL DEF Spec

(* Only what the unit needs is in the module: a function, variable or       *)
(* vtable that has an entry is in every set that holds what must be emitted *)
(* and is closed under mention, so a deferrable definition that is unused   *)
(* is never emitted (EmitGlobal, EmitDeferred).                             *)
THEOREM OnlyNeeded == Spec => []OnlyNeededIsInTheModule
<1>1. NeededInv => OnlyNeededIsInTheModule
  <2> SUFFICES ASSUME NeededInv, NEW S \in SUBSET Entities, ClosedUnderMention(S)
               PROVE  InTheModule \subseteq S
    BY DEF OnlyNeededIsInTheModule
  <2>1. \A x \in S : MentionsSoFar(x) \subseteq Mentions(x)
    BY DEF MentionsSoFar
  <2>2. ClosedSoFar(S)
    BY <2>1 DEF ClosedSoFar, ClosedUnderMention
  <2> QED BY <2>2 DEF NeededInv, OnlyNeededIsInUse, InUse
<1> QED BY <1>1, NeededAlways, PTL

(* When code generation is done, what has an entry in the module is closed  *)
(* under mention, so everything that is reachable from what must be emitted *)
(* has one, and all of it that the unit can define has been defined.        *)
THEOREM NeededDefined == Spec => []NeededIsDefined
<1>1. IInv /\ NeededInv => NeededIsDefined
  <2> SUFFICES ASSUME IInv, NeededInv, phase = "done" PROVE NeededIsDefined
    BY DEF NeededIsDefined
  <2>1. /\ current = NoName /\ Queued = {} /\ QueuedVTables = {} /\ ~errors /\ Targets = {}
        /\ NoName \notin Names /\ NoName \notin Classes
    BY NamesAssumption DEF NeededInv, StepsInOrder, Targets, Range
  <2>2. /\ status \in [Names -> Statuses]
        /\ vtable \in [Classes -> {"absent", "declared", "defined"}]
        /\ \A c \in Classes : c \notin Names
    BY NamesAssumption DEF IInv, TypeOK, Statuses
  <2>3. ASSUME NEW c \in Classes, c \in InTheModule, ShouldEmitVTable(c)
        PROVE  vtable[c] = "defined" /\ Mentions(c) \subseteq InTheModule
    <3>1. vtable[c] = "defined"
      BY <2>1, <2>2, <2>3, ModuleFacts DEF ModuleIs, NeededInv, DefinableAreTracked
    <3> QED BY <2>1, <2>3, <3>1, MentionFacts DEF NeededInv, ReferencesAreMade, MentionsAre
  <2>4. ASSUME NEW n \in Names, n \in InTheModule, Definable(n)
        PROVE  status[n] \in Final
    BY <2>1, <2>2, <2>4, ModuleFacts
       DEF ModuleIs, NeededInv, DefinableAreTracked, Final, Statuses
  <2>5. ASSUME NEW n \in Names, n \in InTheModule
        PROVE  Mentions(n) \subseteq InTheModule
    <3>1. CASE status[n] \in Final
      BY <2>1, <3>1 DEF NeededInv, ReferencesAreMade
    <3>2. CASE status[n] \notin Final
      <4>1. ~Definable(n) /\ announced[n] # "alias"
        BY <2>4, <2>5, <3>2 DEF NeededInv, AnnouncedAreEmitted, Announced, Final
      <4>2. Mentions(n) = {}
        BY <4>1, MentionFacts DEF MentionsAre, Announced
      <4> QED BY <4>2
    <3> QED BY <3>1, <3>2
  <2>6. ClosedUnderMention(InTheModule) /\ InTheModule \in SUBSET Entities
    <3>1. roots \subseteq InTheModule
      BY <2>1, <2>2, ModuleFacts DEF ModuleIs, NeededInv, RootsAreEmitted, IInv, TypeOK
    <3>2. \A c \in Classes : ~ShouldEmitVTable(c) => Mentions(c) = {}
      BY MentionFacts DEF MentionsAre
    <3> QED BY <2>3, <2>5, <3>1, <3>2, ModuleFacts DEF ModuleIs, ClosedUnderMention, Entities
  <2>7. Needed \subseteq InTheModule
    BY <2>6 DEF Needed
  <2> QED BY <2>2, <2>3, <2>4, <2>7, ModuleFacts DEF ModuleIs, NeededIsDefined, Final
<1> QED BY <1>1, NeededAlways, PTL

-----------------------------------------------------------------------------
(* The initializers run in order.  A variable has a slot where its          *)
(* initializer is, or where a null stands for it.                           *)
HasSlot(v, i) == globalInits[i] = v \/ delayedInitPosition[v] = i

(* A variable that needs a constructor is never a tentative definition.     *)
DynamicKinds == \A v \in unit.dynamic : Announced(v, {"no", "strong", "static", "alias"})

FileOrder ==
  /\ IsInjective(initOrder)
  /\ Range(initOrder) = {v \in unit.dynamic : Announced(v, {"strong", "static"})}

(* A kept position is that of a null, and is kept for one variable.         *)
Positions ==
  /\ \A v \in Variables : delayedInitPosition[v] # 0 =>
       /\ delayedInitPosition[v] \in DOMAIN globalInits
       /\ globalInits[delayedInitPosition[v]] = NoName
       /\ v \in unit.dynamic => Announced(v, {"static"})
  /\ \A v, w \in Variables :
       delayedInitPosition[v] # 0 /\ delayedInitPosition[v] = delayedInitPosition[w] => v = w

CalledOnce ==
  \A i \in Called :
    /\ globalInits[i] \in unit.dynamic /\ globalInits[i] # current
    /\ status[globalInits[i]] = "defined" /\ Announced(globalInits[i], {"strong", "static"})
    /\ delayedInitPosition[globalInits[i]] = 0
    /\ \A j \in Called : globalInits[i] = globalInits[j] => i = j

(* What is defined is called, except for the variable whose initializer is  *)
(* being generated: its position is kept, or it is the last of the file.    *)
DefinedAreCalled ==
  \A v \in unit.dynamic :
    /\ status[v] = "defined" /\ v # current => \E i \in Called : globalInits[i] = v
    /\ Announced(v, {"static"}) /\ (status[v] # "defined" \/ v = current) =>
         delayedInitPosition[v] # 0
    /\ v = current => Announced(v, {"strong", "static"})
    /\ v = current /\ Announced(v, {"strong"}) => initOrder # << >> /\ Last(initOrder) = v

SlotsInOrder ==
  \A v, w \in unit.dynamic : \A i, j \in DOMAIN globalInits :
    HasSlot(v, i) /\ HasSlot(w, j) /\ i < j => AppearsBefore(v, w)

InitInv ==
  /\ DynamicKinds /\ FileOrder /\ Positions /\ CalledOnce /\ DefinedAreCalled /\ SlotsInOrder

LEMMA InitInvInit == Init => InitInv
<1> SUFFICES ASSUME Init PROVE InitInv
  OBVIOUS
<1>1. /\ globalInits = << >> /\ initOrder = << >> /\ current = NoName
      /\ delayedInitPosition = [v \in Variables |-> 0]
      /\ announced = [n \in Names |-> "no"] /\ status = [n \in Names |-> "absent"]
      /\ unit.dynamic \subseteq Variables /\ Variables \subseteq Names /\ NoName \notin Names
  <2>1. TypeOK
    BY IInvInit DEF IInv
  <2> QED BY <2>1, UnitFacts, NamesAssumption DEF Init, Names
<1>2. Range(initOrder) = {} /\ DOMAIN initOrder = {} /\ DOMAIN globalInits = {}
  BY <1>1 DEF Range
<1>3. IsInjective(initOrder)
  BY <1>2 DEF IsInjective
<1>4. \A v \in unit.dynamic : announced[v] = "no" /\ status[v] = "absent"
  BY <1>1
<1>5. DynamicKinds /\ FileOrder
  BY <1>2, <1>3, <1>4 DEF DynamicKinds, FileOrder, Announced
<1>6. Positions
  BY <1>1 DEF Positions
<1>7. CalledOnce /\ SlotsInOrder
  BY <1>2 DEF CalledOnce, SlotsInOrder, Called
<1>8. DefinedAreCalled
  BY <1>1, <1>4 DEF DefinedAreCalled, Announced
<1> QED BY <1>5, <1>6, <1>7, <1>8 DEF InitInv

(* A step that is not about initializers: it may start the code of a        *)
(* deferred one.                                                            *)
Aside ==
  /\ UNCHANGED <<unit, globalInits, initOrder>>
  /\ \A v \in unit.dynamic :
       /\ delayedInitPosition'[v] = delayedInitPosition[v]
       /\ announced'[v] = announced[v] \/ (announced[v] = "no" /\ announced'[v] = "alias")
       /\ status[v] = "defined" => status'[v] = "defined"
       /\ status'[v] = "defined" => status[v] = "defined" \/ v = current'
       /\ v = current => current' = v
       /\ v = current' => v = current \/ (announced[v] = "static" /\ status[v] # "defined")
  /\ \A v \in Variables : delayedInitPosition'[v] \in {0, delayedInitPosition[v]}

LEMMA AsideStep == ASSUME InitInv, Aside PROVE InitInv'
<1>1. unit' = unit /\ globalInits' = globalInits /\ initOrder' = initOrder /\ Called' = Called
  BY DEF Aside, Called
<1>2. DynamicKinds'
  BY <1>1 DEF InitInv, DynamicKinds, Aside, Announced
<1>3. FileOrder'
  BY <1>1 DEF InitInv, FileOrder, Aside, Announced
<1>4. Positions'
  BY <1>1 DEF InitInv, Positions, Aside, Announced
<1>5. CalledOnce'
  <2> SUFFICES ASSUME NEW i \in Called
               PROVE  /\ globalInits[i] \in unit.dynamic /\ globalInits[i] # current'
                      /\ status'[globalInits[i]] = "defined"
                      /\ announced'[globalInits[i]] \in {"strong", "static"}
                      /\ delayedInitPosition'[globalInits[i]] = 0
                      /\ \A j \in Called : globalInits[i] = globalInits[j] => i = j
    BY <1>1 DEF CalledOnce, Announced
  <2>1. /\ globalInits[i] \in unit.dynamic /\ globalInits[i] # current
        /\ status[globalInits[i]] = "defined" /\ announced[globalInits[i]] \in {"strong", "static"}
        /\ delayedInitPosition[globalInits[i]] = 0
        /\ \A j \in Called : globalInits[i] = globalInits[j] => i = j
    BY DEF InitInv, CalledOnce, Announced
  <2> QED BY <2>1 DEF Aside
<1>6. DefinedAreCalled'
  <2> SUFFICES ASSUME NEW v \in unit.dynamic
               PROVE  /\ status'[v] = "defined" /\ v # current' =>
                           \E i \in Called : globalInits[i] = v
                      /\ announced'[v] = "static" /\ (status'[v] # "defined" \/ v = current') =>
                           delayedInitPosition'[v] # 0
                      /\ v = current' => announced'[v] \in {"strong", "static"}
                      /\ v = current' /\ announced'[v] = "strong" =>
                           initOrder # << >> /\ Last(initOrder) = v
    BY <1>1 DEF DefinedAreCalled, Announced
  <2>1. /\ status[v] = "defined" /\ v # current => \E i \in Called : globalInits[i] = v
        /\ announced[v] = "static" /\ (status[v] # "defined" \/ v = current) =>
             delayedInitPosition[v] # 0
        /\ v = current => announced[v] \in {"strong", "static"}
        /\ v = current /\ announced[v] = "strong" => initOrder # << >> /\ Last(initOrder) = v
    BY DEF InitInv, DefinedAreCalled, Announced
  <2> QED BY <2>1 DEF Aside
<1>7. SlotsInOrder'
  BY <1>1 DEF InitInv, SlotsInOrder, HasSlot, AppearsBefore, Aside
<1> QED BY <1>2, <1>3, <1>4, <1>5, <1>6, <1>7 DEF InitInv

LEMMA EffectsAside ==
  ASSUME IInv, NeededInv, InitInv, Effects, UNCHANGED <<globalInits, initOrder>>,
         \A v \in unit.dynamic : /\ delayedInitPosition'[v] = delayedInitPosition[v]
                                 /\ announced'[v] \in {announced[v], "alias"},
         \A v \in Variables : delayedInitPosition'[v] \in {0, delayedInitPosition[v]},
         current \in unit.dynamic => current' = current,
         current' \in unit.dynamic =>
           current' = current \/ (announced[current'] = "static" /\ status[current'] # "defined")
  PROVE  Aside
<1>1. unit.dynamic \subseteq Variables /\ Variables \subseteq Names /\ unit' = unit
  BY UnitFacts DEF IInv, Names, Effects
<1> SUFFICES ASSUME NEW v \in unit.dynamic
             PROVE  /\ announced'[v] = announced[v] \/ (announced[v] = "no" /\ announced'[v] = "alias")
                    /\ status[v] = "defined" => status'[v] = "defined"
                    /\ status'[v] = "defined" => status[v] = "defined" \/ v = current'
  BY <1>1 DEF Aside
<1>2. v \in Names
  BY <1>1
<1>3. announced'[v] = announced[v] \/ (announced[v] = "no" /\ announced'[v] = "alias")
  <2>1. announced'[v] # announced[v] => announced[v] \in {"no", "inline", "tentative", "staticTentative"}
    BY <1>2 DEF Effects, Announces, Changed, Announced
  <2>2. announced[v] \in {"no", "strong", "static", "alias"}
    BY DEF InitInv, DynamicKinds, Announced
  <2> QED BY <2>1, <2>2
<1>4. status[v] = "defined" => status'[v] = "defined"
  BY <1>2 DEF Effects, Grows, Kept, Final
<1>5. status'[v] = "defined" => status[v] = "defined" \/ v = current'
  <2>1. status'[v] = "defined" /\ status[v] # "defined" => v \in {current, current'}
    BY <1>2 DEF Effects, Grows
  <2>2. v = current => status[v] = "defined"
    BY <1>2 DEF NeededInv, StepsInOrder, IsConstant
  <2> QED BY <2>1, <2>2
<1> QED BY <1>3, <1>4, <1>5

(* The steps that are not about initializers.                               *)
LEMMA DynamicNames ==
  ASSUME IInv
  PROVE  /\ \A v \in unit.dynamic : v \in Variables /\ v \in Names /\ v \notin Functions
                                   /\ v \notin Members /\ v \notin Classes /\ v # NoName
  BY UnitFacts, NamesAssumption DEF IInv, Names

LEMMA GenerateAside ==
  ASSUME IInv, IInv', NeededInv, InitInv,
         Refer \/ ReferWeakly \/ ReferToVTable \/ FinishBody \/ FinishVTable \/ FinishConstantVariable
  PROVE  Aside
<1>1. Effects
  BY ReferStep, ReferToVTableStep, FinishStep, FinishConstantStep
<1>2. CASE Refer \/ ReferWeakly \/ ReferToVTable \/ FinishBody \/ FinishVTable
  <2>1. /\ UNCHANGED <<unit, announced, globalInits, initOrder, delayedInitPosition>>
        /\ current' = current \/ (current \in Functions \cup Members \cup Classes /\ current' = NoName)
    BY <1>2 DEF Refer, ReferWeakly, ReferToVTable, FinishBody, FinishVTable, unitVars, initVars
  <2> QED BY <1>1, <2>1, DynamicNames, EffectsAside
<1>3. CASE FinishConstantVariable
  <2>1. /\ UNCHANGED <<unit, announced, globalInits, initOrder>> /\ current' = NoName
        /\ delayedInitPosition' = [delayedInitPosition EXCEPT ![current] = 0]
        /\ current \in Variables /\ current \notin unit.dynamic
    BY <1>3 DEF FinishConstantVariable, IsConstant, unitVars
  <2>2. delayedInitPosition \in [Variables -> Nat]
    BY DEF IInv, TypeOK
  <2>3. \A v \in Variables :
          delayedInitPosition'[v] = IF v = current THEN 0 ELSE delayedInitPosition[v]
    BY <2>1, <2>2
  <2> QED BY <1>1, <2>1, <2>3, DynamicNames, EffectsAside
<1> QED BY <1>2, <1>3

LEMMA ReleaseAside ==
  ASSUME IInv, IInv', NeededInv, InitInv, EmitDeferredVTable \/ EmitDeferredDecl
  PROVE  Aside
<1>1. Effects
  BY EmitDeferredVTableStep, EmitDeferredDeclStep
<1>2. CASE EmitDeferredVTable
  <2>1. /\ UNCHANGED <<unit, announced, globalInits, initOrder, delayedInitPosition>>
        /\ current = NoName /\ (current' = current \/ current' = Last(deferredVTables))
        /\ deferredVTables # << >>
    BY <1>2 DEF EmitDeferredVTable, Releasing, Idle, unitVars, initVars, codeVars
  <2>2. Last(deferredVTables) \in Classes
    BY <2>1, LastFront DEF IInv, TypeOK
  <2> QED BY <1>1, <2>1, <2>2, DynamicNames, EffectsAside
<1>3. CASE EmitDeferredDecl
  <2>1. /\ UNCHANGED <<unit, announced, globalInits, initOrder, delayedInitPosition>>
        /\ current = NoName /\ deferredDeclsToEmit # << >>
        /\ \/ current' = current
           \/ current' = Last(deferredDeclsToEmit) /\ ~AlreadyEmitted(Last(deferredDeclsToEmit))
    BY <1>3 DEF EmitDeferredDecl, Releasing, Idle, unitVars, initVars, codeVars
  <2>2. PICK n : n = Last(deferredDeclsToEmit)
    OBVIOUS
  <2>3. n \in Queued
    BY <2>1, <2>2, QueueFacts DEF IInv, TypeOK, Queued
  <2>4. ASSUME n \in unit.dynamic, ~AlreadyEmitted(n)
        PROVE  announced[n] = "static" /\ status[n] # "defined"
    <3>1. status[n] # "defined" /\ status[n] # "alias"
      BY <2>4 DEF AlreadyEmitted
    <3>2. n \in Names /\ n \notin unit.bodied /\ n # NoName
      BY <2>4, DynamicNames, NotBodied
    <3>3. announced[n] # "no"
      BY <2>3, <3>2 DEF NeededInv, WaitingAreDefinable, Announced
    <3>4. announced[n] # "strong" /\ announced[n] # "alias"
      BY <2>1, <3>1, <3>2 DEF NeededInv, AnnouncedAreEmitted, Announced
    <3> QED BY <2>4, <3>1, <3>3, <3>4 DEF InitInv, DynamicKinds, Announced
  <2>5. current' \in unit.dynamic =>
          current' = current \/ (announced[current'] = "static" /\ status[current'] # "defined")
    BY <2>1, <2>2, <2>4
  <2> QED BY <1>1, <2>1, <2>5, DynamicNames, EffectsAside
<1> QED BY <1>2, <1>3

LEMMA ParseAside ==
  ASSUME IInv, IInv', NeededInv, InitInv, NEW n \in Names,
         \/ EmitGlobalForced(n)
         \/ EmitGlobalNow(n) /\ n \notin unit.dynamic
         \/ \E as \in {"static", "inline"} : EmitGlobalDeferred(n, as) /\ n \notin Variables
         \/ \E target \in Names : EmitAliasDefinition(n, target)
  PROVE  Aside
<1>1. Effects
  BY EmitGlobalNowStep, EmitGlobalForcedStep, EmitGlobalDeferredStep, EmitAliasDefinitionStep
<1>2. announced \in [Names -> Announcement] /\ unit.dynamic \subseteq Variables
  BY UnitFacts DEF IInv, TypeOK
<1>3. CASE EmitGlobalForced(n)
  <2>1. /\ UNCHANGED <<unit, globalInits, initOrder, delayedInitPosition>>
        /\ announced' = [announced EXCEPT ![n] = "forced"] /\ announced[n] = "inline"
        /\ current = NoName /\ current' = n
    BY <1>3 DEF EmitGlobalForced, Parsing, Idle, Announce, initVars
  <2>2. n \notin unit.dynamic
    BY <2>1 DEF InitInv, DynamicKinds, Announced
  <2>3. \A v \in unit.dynamic : announced'[v] = announced[v]
    BY <2>1, <2>2
  <2> QED BY <1>1, <2>1, <2>2, <2>3, DynamicNames, EffectsAside
<1>4. CASE EmitGlobalNow(n) /\ n \notin unit.dynamic
  <2>1. /\ UNCHANGED <<unit, globalInits, initOrder, delayedInitPosition>>
        /\ announced' = [announced EXCEPT ![n] = "strong"]
        /\ current = NoName /\ current' = n
    BY <1>4 DEF EmitGlobalNow, EmitGlobalDefinition, Parsing, Idle, Announce, initVars
  <2>3. \A v \in unit.dynamic : announced'[v] = announced[v]
    BY <1>4, <2>1
  <2> QED BY <1>1, <1>4, <2>1, <2>3, DynamicNames, EffectsAside
<1>5. CASE \E as \in {"static", "inline"} : EmitGlobalDeferred(n, as) /\ n \notin Variables
  <2>1. PICK as \in {"static", "inline"} : EmitGlobalDeferred(n, as)
    BY <1>5
  <2>2. /\ UNCHANGED <<unit, globalInits, delayedInitPosition, current>>
        /\ announced' = [announced EXCEPT ![n] = as]
        /\ n \notin unit.dynamic /\ initOrder' = initOrder
    BY <1>2, <1>5, <2>1 DEF EmitGlobalDeferred, Announce, initVars, codeVars
  <2>3. \A v \in unit.dynamic : announced'[v] = announced[v]
    BY <1>2, <2>2, DynamicNames
  <2> QED BY <1>1, <2>2, <2>3, DynamicNames, EffectsAside
<1>6. CASE \E target \in Names : EmitAliasDefinition(n, target)
  <2>1. /\ UNCHANGED <<unit, globalInits, initOrder, delayedInitPosition, current>>
        /\ announced' = [announced EXCEPT ![n] = "alias"]
    BY <1>6 DEF EmitAliasDefinition, Announce, initVars, codeVars
  <2>2. \A v \in unit.dynamic : announced'[v] \in {announced[v], "alias"}
    BY <1>2, <2>1, DynamicNames
  <2> QED BY <1>1, <2>1, <2>2, DynamicNames, EffectsAside
<1> QED BY <1>3, <1>4, <1>5, <1>6

LEMMA VariableAside ==
  ASSUME IInv, IInv', NeededInv, InitInv, NEW v \in Variables,
         \/ \E as \in {"tentative", "staticTentative"} : DeclareTentative(v, as)
         \/ InstantiateExplicitly(v) \/ EmitTentativeDefinition(v)
  PROVE  Aside
<1>1. Effects
  BY DeclareTentativeStep, InstantiateExplicitlyStep, EmitTentativeDefinitionStep
<1>2. announced \in [Names -> Announcement] /\ v \in Names
  BY DEF IInv, TypeOK, Names
<1>3. CASE \E as \in {"tentative", "staticTentative"} : DeclareTentative(v, as)
  <2>1. PICK as \in {"tentative", "staticTentative"} : DeclareTentative(v, as)
    BY <1>3
  <2>2. /\ UNCHANGED <<unit, globalInits, initOrder, delayedInitPosition, current>>
        /\ announced' = [announced EXCEPT ![v] = as] /\ v \notin unit.dynamic
    BY <2>1 DEF DeclareTentative, Announce, initVars, codeVars
  <2>3. \A w \in unit.dynamic : announced'[w] = announced[w]
    BY <1>2, <2>2, DynamicNames
  <2> QED BY <1>1, <2>2, <2>3, DynamicNames, EffectsAside
<1>4. CASE InstantiateExplicitly(v)
  <2>1. UNCHANGED <<unit, announced, globalInits, initOrder, delayedInitPosition, current>>
    BY <1>4 DEF InstantiateExplicitly, initVars, codeVars
  <2> QED BY <1>1, <2>1, DynamicNames, EffectsAside
<1>5. CASE EmitTentativeDefinition(v)
  <2>1. /\ UNCHANGED <<unit, globalInits, initOrder, delayedInitPosition>>
        /\ current = NoName /\ (current' = current \/ current' = v)
        /\ announced[v] \in {"tentative", "staticTentative"}
        /\ \E as : announced' = [announced EXCEPT ![v] = as]
    BY <1>5 DEF EmitTentativeDefinition, EmitGlobalDefinition, Idle, initVars, codeVars
  <2>2. v \notin unit.dynamic
    BY <2>1 DEF InitInv, DynamicKinds, Announced
  <2>3. \A w \in unit.dynamic : announced'[w] = announced[w]
    BY <1>2, <2>1, <2>2, DynamicNames
  <2> QED BY <1>1, <2>1, <2>2, <2>3, DynamicNames, EffectsAside
<1> QED BY <1>3, <1>4, <1>5

LEMMA HandleVTableAside ==
  ASSUME IInv, IInv', NeededInv, InitInv, NEW c \in Classes, HandleVTable(c)
  PROVE  Aside
<1>1. Effects
  BY HandleVTableStep
<1>2. /\ UNCHANGED <<unit, announced, globalInits, initOrder, delayedInitPosition>>
      /\ current = NoName /\ current' = c
  BY DEF HandleVTable, Parsing, Idle, initVars
<1> QED BY <1>1, <1>2, DynamicNames, EffectsAside

LEMMA PhaseAside ==
  ASSUME InitInv,
         Error \/ EndOfProgram \/ HandleProgram \/ EmitCXXGlobalInitFunc \/ UNCHANGED vars
  PROVE  Aside
<1>1. UNCHANGED <<unit, announced, globalInits, initOrder, delayedInitPosition, current, status>>
  BY DEF Error, EndOfProgram, HandleProgram, EmitCXXGlobalInitFunc, vars, unitVars, codeVars, valueVars, initVars
<1> QED BY <1>1 DEF Aside

(* The steps that are. What the order of the file keeps when a variable is  *)
(* added to it:                                                             *)
LEMMA FileGrows ==
  ASSUME initOrder \in Seq(Variables), NEW n \in Variables, initOrder' = Append(initOrder, n)
  PROVE  /\ Range(initOrder') = Range(initOrder) \cup {n}
         /\ IsInjective(initOrder) /\ n \notin Range(initOrder) => IsInjective(initOrder')
         /\ \A v, w : AppearsBefore(v, w) => AppearsBefore(v, w)'
         /\ \A v \in Range(initOrder) : AppearsBefore(v, n)'
         /\ initOrder' # << >> /\ Last(initOrder') = n
<1>1. PICK l \in Nat : l = Len(initOrder)
  OBVIOUS
<1>2. /\ initOrder' \in Seq(Variables) /\ Len(initOrder') = l + 1 /\ initOrder'[l + 1] = n
      /\ \A i \in 1 .. l : initOrder'[i] = initOrder[i]
  BY <1>1, AppendLast
<1>3. DOMAIN initOrder = 1 .. l /\ DOMAIN initOrder' = 1 .. l + 1
  BY <1>1, <1>2
<1>4. Range(initOrder') = Range(initOrder) \cup {n}
  BY QueueFacts
<1>5. ASSUME IsInjective(initOrder), n \notin Range(initOrder) PROVE IsInjective(initOrder')
  <2> SUFFICES ASSUME NEW i \in 1 .. l + 1, NEW j \in 1 .. l + 1, initOrder'[i] = initOrder'[j]
               PROVE  i = j
    BY <1>3 DEF IsInjective
  <2>1. \A k \in 1 .. l : initOrder[k] # n
    BY <1>3, <1>5 DEF Range
  <2>2. \A k, m \in 1 .. l : initOrder[k] = initOrder[m] => k = m
    BY <1>3, <1>5 DEF IsInjective
  <2>3. (i \in 1 .. l \/ i = l + 1) /\ (j \in 1 .. l \/ j = l + 1)
    BY <1>1
  <2> QED BY <1>2, <2>1, <2>2, <2>3
<1>6. \A v, w : AppearsBefore(v, w) => AppearsBefore(v, w)'
  <2>1. 1 .. l \subseteq 1 .. l + 1
    BY <1>1
  <2> QED BY <1>2, <1>3, <2>1 DEF AppearsBefore
<1>7. ASSUME NEW v \in Range(initOrder) PROVE AppearsBefore(v, n)'
  <2>1. PICK i \in 1 .. l : initOrder[i] = v
    BY <1>3 DEF Range
  <2>2. i \in 1 .. l + 1 /\ l + 1 \in 1 .. l + 1 /\ i < l + 1
    BY <1>1
  <2> QED BY <1>2, <1>3, <2>1, <2>2 DEF AppearsBefore
<1>8. initOrder' # << >> /\ Last(initOrder') = n
  <2>1. Len(initOrder') # 0
    BY <1>1, <1>2
  <2> QED BY <1>2, <2>1 DEF Last
<1> QED BY <1>4, <1>5, <1>6, <1>7, <1>8

(* A slot is that of a variable of the file.                                *)
LEMMA SlotIsInFile ==
  ASSUME IInv, InitInv, NEW v \in unit.dynamic, NEW i \in DOMAIN globalInits, HasSlot(v, i)
  PROVE  v \in Range(initOrder)
<1>1. v \in Variables /\ v # NoName
  BY DynamicNames
<1>2. i # 0
  BY DEF IInv, TypeOK
<1>3. CASE globalInits[i] = v
  <2>1. i \in Called
    BY <1>1, <1>3 DEF Called
  <2>2. Announced(v, {"strong", "static"})
    BY <1>3, <2>1 DEF InitInv, CalledOnce
  <2> QED BY <2>2 DEF InitInv, FileOrder
<1>4. CASE delayedInitPosition[v] = i
  <2>1. Announced(v, {"static"})
    BY <1>1, <1>2, <1>4 DEF InitInv, Positions
  <2>2. Announced(v, {"strong", "static"})
    BY <2>1 DEF Announced
  <2> QED BY <2>2 DEF InitInv, FileOrder
<1> QED BY <1>3, <1>4 DEF HasSlot

LEMMA NowStep ==
  ASSUME IInv, IInv', NeededInv, InitInv, NEW n \in unit.dynamic, EmitGlobalNow(n)
  PROVE  InitInv'
<1>1. n \in Variables /\ n \in Names /\ unit.dynamic \subseteq Variables /\ n # NoName
  BY DynamicNames
<1>2. /\ unit' = unit /\ globalInits' = globalInits /\ delayedInitPosition' = delayedInitPosition
      /\ initOrder' = Append(initOrder, n) /\ announced' = [announced EXCEPT ![n] = "strong"]
      /\ current = NoName /\ current' = n /\ status' = [status EXCEPT ![n] = "defined"]
      /\ announced[n] \in {"no", "inline", "tentative"}
  BY DEF EmitGlobalNow, EmitGlobalDefinition, IsConstant, Define, Parsing, Idle, Announce, initVars
<1>3. announced[n] = "no"
  BY <1>2 DEF InitInv, DynamicKinds, Announced
<1>4. /\ announced \in [Names -> Announcement] /\ status \in [Names -> Statuses]
      /\ initOrder \in Seq(Variables)
  BY DEF IInv, TypeOK, Statuses
<1>5. \A v \in unit.dynamic : /\ announced'[v] = IF v = n THEN "strong" ELSE announced[v]
                              /\ status'[v] = IF v = n THEN "defined" ELSE status[v]
  BY <1>2, <1>4, DynamicNames
<1>6. n \notin Range(initOrder) /\ \A i \in Called : globalInits[i] # n
  <2>1. ~Announced(n, {"strong", "static"})
    BY <1>3 DEF Announced
  <2> QED BY <2>1 DEF InitInv, FileOrder, CalledOnce
<1>7. Called' = Called
  BY <1>2 DEF Called
<1>8. DynamicKinds'
  BY <1>2, <1>5 DEF InitInv, DynamicKinds, Announced
<1>9. FileOrder'
  <2>1. IsInjective(initOrder') /\ Range(initOrder') = Range(initOrder) \cup {n}
    BY <1>1, <1>2, <1>4, <1>6, FileGrows DEF InitInv, FileOrder
  <2> QED BY <1>2, <1>5, <2>1 DEF InitInv, FileOrder, Announced
<1>10. Positions'
  <2>1. delayedInitPosition[n] = 0
    BY <1>1, <1>3 DEF InitInv, Positions, Announced
  <2> QED BY <1>2, <1>5, <2>1 DEF InitInv, Positions, Announced
<1>11. CalledOnce'
  <2> SUFFICES ASSUME NEW i \in Called
               PROVE  /\ globalInits[i] \in unit.dynamic /\ globalInits[i] # n
                      /\ status'[globalInits[i]] = "defined"
                      /\ announced'[globalInits[i]] \in {"strong", "static"}
                      /\ delayedInitPosition[globalInits[i]] = 0
                      /\ \A j \in Called : globalInits[i] = globalInits[j] => i = j
    BY <1>2, <1>7 DEF CalledOnce, Announced
  <2>1. /\ globalInits[i] \in unit.dynamic /\ globalInits[i] # n
        /\ status[globalInits[i]] = "defined" /\ announced[globalInits[i]] \in {"strong", "static"}
        /\ delayedInitPosition[globalInits[i]] = 0
        /\ \A j \in Called : globalInits[i] = globalInits[j] => i = j
    BY <1>6 DEF InitInv, CalledOnce, Announced
  <2> QED BY <1>5, <2>1
<1>12. DefinedAreCalled'
  <2>1. initOrder' # << >> /\ Last(initOrder') = n
    BY <1>1, <1>2, <1>4, FileGrows
  <2> SUFFICES ASSUME NEW v \in unit.dynamic
               PROVE  /\ status'[v] = "defined" /\ v # n => \E i \in Called : globalInits[i] = v
                      /\ announced'[v] = "static" /\ (status'[v] # "defined" \/ v = n) =>
                           delayedInitPosition[v] # 0
                      /\ v = n => announced'[v] \in {"strong", "static"}
    BY <1>2, <1>7, <2>1 DEF DefinedAreCalled, Announced
  <2>2. /\ status[v] = "defined" => \E i \in Called : globalInits[i] = v
        /\ announced[v] = "static" /\ status[v] # "defined" => delayedInitPosition[v] # 0
    BY <1>2, DynamicNames DEF InitInv, DefinedAreCalled, Announced
  <2> QED BY <1>5, <2>2
<1>13. SlotsInOrder'
  <2>1. \A v, w : AppearsBefore(v, w) => AppearsBefore(v, w)'
    BY <1>1, <1>2, <1>4, FileGrows
  <2> QED BY <1>2, <2>1 DEF InitInv, SlotsInOrder, HasSlot
<1> QED BY <1>8, <1>9, <1>10, <1>11, <1>12, <1>13 DEF InitInv

(* A null is appended, and its position kept for the variable n.            *)
LEMMA LaterStep ==
  ASSUME IInv, IInv', NeededInv, InitInv, NEW n \in Variables, NEW as \in {"static", "inline"},
         EmitGlobalDeferred(n, as)
  PROVE  InitInv'
<1>1. n \in Names /\ n \notin Functions /\ unit.dynamic \subseteq Variables /\ NoName \notin Variables
  BY DynamicNames, NamesAssumption DEF Names
<1>2. /\ unit' = unit /\ current' = current /\ status' = status /\ current = NoName
      /\ announced[n] \in {"no", "staticTentative"} /\ as = "static"
      /\ announced' = [announced EXCEPT ![n] = "static"]
      /\ globalInits' = Append(globalInits, NoName)
      /\ delayedInitPosition' = [delayedInitPosition EXCEPT ![n] = Len(globalInits) + 1]
      /\ initOrder' = IF n \in unit.dynamic THEN Append(initOrder, n) ELSE initOrder
  BY <1>1 DEF EmitGlobalDeferred, Parsing, Idle, Announce, codeVars, valueVars
<1>3. /\ announced \in [Names -> Announcement] /\ initOrder \in Seq(Variables)
      /\ globalInits \in Seq(Variables \cup {NoName}) /\ delayedInitPosition \in [Variables -> Nat]
  BY DEF IInv, TypeOK
<1>4. PICK p \in Nat : p = Len(globalInits)
  BY <1>3
<1>5. /\ DOMAIN globalInits = 1 .. p /\ DOMAIN globalInits' = 1 .. p + 1 /\ globalInits'[p + 1] = NoName
      /\ \A i \in 1 .. p : globalInits'[i] = globalInits[i]
  <2>1. PICK longer : longer = globalInits'
    OBVIOUS
  <2>2. /\ longer \in Seq(Variables \cup {NoName}) /\ Len(longer) = p + 1 /\ longer[p + 1] = NoName
        /\ \A i \in 1 .. p : longer[i] = globalInits[i]
    BY <1>2, <1>3, <1>4, <2>1, AppendLast
  <2> QED BY <1>3, <1>4, <2>1, <2>2
<1>6. \A v \in Variables :
        delayedInitPosition'[v] = IF v = n THEN p + 1 ELSE delayedInitPosition[v]
  BY <1>2, <1>3, <1>4
<1>7. \A v \in unit.dynamic : announced'[v] = IF v = n THEN "static" ELSE announced[v]
  BY <1>2, <1>3, DynamicNames
<1>8. n \in unit.dynamic => announced[n] = "no"
  BY <1>2 DEF InitInv, DynamicKinds, Announced
<1>9. n \notin Range(initOrder) /\ \A i \in Called : globalInits[i] # n
  <2>1. n \in unit.dynamic => ~Announced(n, {"strong", "static"})
    BY <1>8 DEF Announced
  <2> QED BY <2>1 DEF InitInv, FileOrder, CalledOnce
<1>10. Called' = Called
  <2>1. \A i \in 1 .. p + 1 : i \in 1 .. p \/ i = p + 1
    BY <1>4
  <2>2. 1 .. p \subseteq 1 .. p + 1
    BY <1>4
  <2> QED BY <1>5, <2>1, <2>2 DEF Called
<1>11. DynamicKinds'
  BY <1>2, <1>7 DEF InitInv, DynamicKinds, Announced
<1>12. FileOrder'
  <2>1. CASE n \in unit.dynamic
    <3>1. IsInjective(initOrder') /\ Range(initOrder') = Range(initOrder) \cup {n}
      BY <1>2, <1>3, <1>9, <2>1, FileGrows DEF InitInv, FileOrder
    <3> QED BY <1>2, <1>7, <2>1, <3>1 DEF InitInv, FileOrder, Announced
  <2>2. CASE n \notin unit.dynamic
    <3>1. \A v \in unit.dynamic : announced'[v] = announced[v]
      BY <1>7, <2>2
    <3> QED BY <1>2, <2>2, <3>1 DEF InitInv, FileOrder, Announced
  <2> QED BY <2>1, <2>2
<1>13. \A v \in Variables : delayedInitPosition[v] # 0 =>
         /\ delayedInitPosition[v] \in 1 .. p /\ globalInits[delayedInitPosition[v]] = NoName
         /\ v \in unit.dynamic => announced[v] = "static"
  BY <1>5 DEF InitInv, Positions, Announced
<1>14. Positions'
  <2>1. ASSUME NEW v \in Variables, delayedInitPosition'[v] # 0
        PROVE  /\ delayedInitPosition'[v] \in 1 .. p + 1
               /\ globalInits'[delayedInitPosition'[v]] = NoName
               /\ v \in unit.dynamic => announced'[v] = "static"
    <3>1. CASE v = n
      BY <1>4, <1>5, <1>6, <1>7, <3>1
    <3>2. CASE v # n
      <4>1. delayedInitPosition'[v] = delayedInitPosition[v]
        BY <1>6, <3>2
      <4>2. delayedInitPosition[v] \in 1 .. p /\ 1 .. p \subseteq 1 .. p + 1
        BY <1>4, <1>13, <2>1, <4>1
      <4> QED BY <1>5, <1>7, <1>13, <2>1, <3>2, <4>1, <4>2
    <3> QED BY <3>1, <3>2
  <2>2. ASSUME NEW v \in Variables, NEW w \in Variables, delayedInitPosition'[v] # 0,
               delayedInitPosition'[v] = delayedInitPosition'[w]
        PROVE  v = w
    <3>1. delayedInitPosition[v] # p + 1 /\ delayedInitPosition[w] # p + 1
      BY <1>4, <1>13
    <3> QED BY <1>6, <2>2, <3>1 DEF InitInv, Positions
  <2> QED BY <1>2, <1>5, <2>1, <2>2 DEF Positions, Announced
<1>15. \A i \in Called : i \in 1 .. p /\ globalInits'[i] = globalInits[i]
  BY <1>5 DEF Called
<1>20. unit' = unit /\ current' = current /\ current = NoName /\ status' = status
  BY <1>2
<1>16. CalledOnce'
  <2> SUFFICES ASSUME NEW i \in Called
               PROVE  /\ globalInits[i] \in unit.dynamic /\ globalInits[i] # current
                      /\ status[globalInits[i]] = "defined"
                      /\ announced'[globalInits[i]] \in {"strong", "static"}
                      /\ delayedInitPosition'[globalInits[i]] = 0
                      /\ \A j \in Called : globalInits[i] = globalInits[j] => i = j
    BY <1>20, <1>10, <1>15 DEF CalledOnce, Announced
  <2>1. /\ globalInits[i] \in unit.dynamic /\ globalInits[i] # current
        /\ status[globalInits[i]] = "defined" /\ announced[globalInits[i]] \in {"strong", "static"}
        /\ delayedInitPosition[globalInits[i]] = 0
        /\ \A j \in Called : globalInits[i] = globalInits[j] => i = j
    BY DEF InitInv, CalledOnce, Announced
  <2> QED BY <1>1, <1>6, <1>7, <1>9, <2>1
<1>17. DefinedAreCalled'
  <2> SUFFICES ASSUME NEW v \in unit.dynamic
               PROVE  /\ status[v] = "defined" => \E i \in Called : globalInits[i] = v
                      /\ announced'[v] = "static" /\ status[v] # "defined" =>
                           delayedInitPosition'[v] # 0
                      /\ v # NoName
    BY <1>20, <1>10, <1>15 DEF DefinedAreCalled, Announced
  <2>1. v # NoName /\ v \in Variables
    BY DynamicNames
  <2>2. /\ status[v] = "defined" => \E i \in Called : globalInits[i] = v
        /\ announced[v] = "static" /\ status[v] # "defined" => delayedInitPosition[v] # 0
    BY <1>2, <2>1 DEF InitInv, DefinedAreCalled, Announced
  <2>3. p + 1 # 0
    BY <1>4
  <2> QED BY <1>6, <1>7, <2>1, <2>2, <2>3
<1>18. SlotsInOrder'
  <2> SUFFICES ASSUME NEW v \in unit.dynamic, NEW w \in unit.dynamic,
                      NEW i \in 1 .. p + 1, NEW j \in 1 .. p + 1,
                      HasSlot(v, i)', HasSlot(w, j)', i < j
               PROVE  AppearsBefore(v, w)'
    BY <1>2, <1>5 DEF SlotsInOrder
  <2>1. i \in 1 .. p /\ (j \in 1 .. p \/ j = p + 1)
    BY <1>4
  <2>2. \A x \in unit.dynamic : \A k \in 1 .. p : HasSlot(x, k)' => HasSlot(x, k)
    <3>1. \A k \in 1 .. p : k # p + 1
      BY <1>4
    <3> QED BY <1>1, <1>5, <1>6, <3>1 DEF HasSlot
  <2>3. \A x, y : AppearsBefore(x, y) => AppearsBefore(x, y)'
    <3>1. CASE n \in unit.dynamic
      BY <1>2, <1>3, <3>1, FileGrows
    <3>2. CASE n \notin unit.dynamic
      BY <1>2, <3>2 DEF AppearsBefore
    <3> QED BY <3>1, <3>2
  <2>4. CASE j \in 1 .. p
    BY <1>5, <2>1, <2>2, <2>3, <2>4 DEF InitInv, SlotsInOrder
  <2>5. CASE j = p + 1
    <3>1. w = n
      <4>1. delayedInitPosition[w] # p + 1 /\ w # NoName /\ w \in Variables
        BY <1>1, <1>4, <1>13
      <4> QED BY <1>5, <1>6, <2>5, <4>1 DEF HasSlot
    <3>2. v \in Range(initOrder)
      BY <1>5, <2>1, <2>2, SlotIsInFile
    <3> QED BY <1>2, <1>3, <3>1, <3>2, FileGrows
  <2> QED BY <2>1, <2>4, <2>5
<1> QED BY <1>11, <1>12, <1>14, <1>16, <1>17, <1>18 DEF InitInv

(* The initializer takes the place that was kept, or the next one.          *)
LEMMA PlaceStep ==
  ASSUME IInv, IInv', NeededInv, InitInv, FinishDynamicVariable
  PROVE  InitInv'
<1>1. PICK c : c = current
  OBVIOUS
<1>2. /\ unit' = unit /\ announced' = announced /\ initOrder' = initOrder /\ status' = status
      /\ current' = NoName /\ c \in unit.dynamic /\ PlaceInit(c)
  BY <1>1 DEF FinishDynamicVariable, unitVars, valueVars
<1>3. c \in Variables /\ c # NoName /\ unit.dynamic \subseteq Variables /\ c \in Names
  BY <1>2, DynamicNames
<1>4. /\ initOrder \in Seq(Variables)
      /\ globalInits \in Seq(Variables \cup {NoName}) /\ delayedInitPosition \in [Variables -> Nat]
  BY DEF IInv, TypeOK
<1>5. PICK p \in Nat : p = Len(globalInits)
  BY <1>4
<1>6. status[c] = "defined" /\ announced[c] \in {"strong", "static"}
  <2>1. status[c] = "defined"
    BY <1>1, <1>2, <1>3 DEF NeededInv, StepsInOrder, IsConstant
  <2> QED BY <1>1, <1>2, <2>1 DEF InitInv, DefinedAreCalled, Announced
<1>7. \A i \in Called : globalInits[i] # c
  BY <1>1 DEF InitInv, CalledOnce
<1>8. PICK k : /\ k \in DOMAIN globalInits' /\ k \notin Called
               /\ globalInits'[k] = c
               /\ DOMAIN globalInits' = DOMAIN globalInits \cup {k}
               /\ \A i \in DOMAIN globalInits' \ {k} : globalInits'[i] = globalInits[i]
               /\ delayedInitPosition' = [delayedInitPosition EXCEPT ![c] = 0]
               /\ \/ k = delayedInitPosition[c] /\ k \in DOMAIN globalInits
                  \/ k = p + 1 /\ announced[c] = "strong"
  <2>1. CASE delayedInitPosition[c] = 0
    <3>1. globalInits' = Append(globalInits, c) /\ delayedInitPosition' = delayedInitPosition
      BY <2>1 , <1>2 DEF PlaceInit
    <3>2. PICK longer : longer = globalInits'
      OBVIOUS
    <3>3. /\ longer \in Seq(Variables \cup {NoName}) /\ Len(longer) = p + 1 /\ longer[p + 1] = c
          /\ \A i \in 1 .. p : longer[i] = globalInits[i]
      BY <1>3, <1>4, <1>5, <3>1, <3>2, AppendLast
    <3>4. DOMAIN longer = 1 .. p + 1 /\ DOMAIN globalInits = 1 .. p
      BY <1>4, <1>5, <3>3
    <3>5. 1 .. p + 1 = 1 .. p \cup {p + 1} /\ p + 1 \notin 1 .. p
      BY <1>5
    <3>6. announced[c] = "strong"
      BY <1>1, <1>2, <1>6, <2>1 DEF InitInv, DefinedAreCalled, Announced
    <3>7. delayedInitPosition' = [delayedInitPosition EXCEPT ![c] = 0]
      BY <1>3, <1>4, <2>1, <3>1
    <3>8. p + 1 \notin Called
      BY <3>4, <3>5 DEF Called
    <3>9. /\ p + 1 \in DOMAIN longer /\ DOMAIN longer = DOMAIN globalInits \cup {p + 1}
          /\ \A i \in DOMAIN longer \ {p + 1} : longer[i] = globalInits[i]
      BY <3>3, <3>4, <3>5
    <3> QED BY <3>2, <3>3, <3>6, <3>7, <3>8, <3>9
  <2>2. CASE delayedInitPosition[c] # 0
    <3>1. PICK k : k = delayedInitPosition[c]
      OBVIOUS
    <3>2. globalInits' = [globalInits EXCEPT ![k] = c]
          /\ delayedInitPosition' = [delayedInitPosition EXCEPT ![c] = 0]
      BY <1>2, <2>2, <3>1 DEF PlaceInit
    <3>3. k \in DOMAIN globalInits /\ globalInits[k] = NoName
      BY <1>3, <2>2, <3>1 DEF InitInv, Positions
    <3>4. DOMAIN globalInits' = DOMAIN globalInits /\ globalInits'[k] = c
          /\ \A i \in DOMAIN globalInits \ {k} : globalInits'[i] = globalInits[i]
      BY <1>4, <3>2, <3>3
    <3>5. k \notin Called
      BY <3>3 DEF Called
    <3> QED BY <3>1, <3>2, <3>3, <3>4, <3>5
  <2> QED BY <2>1, <2>2
<1>9. Called' = Called \cup {k}
  BY <1>3, <1>8 DEF Called
<1>10. \A v \in Variables : delayedInitPosition'[v] = IF v = c THEN 0 ELSE delayedInitPosition[v]
  BY <1>3, <1>4, <1>8
<1>11. DynamicKinds' /\ FileOrder'
  BY <1>2 DEF InitInv, DynamicKinds, FileOrder, Announced
<1>12. Positions'
  <2>1. \A v \in Variables : delayedInitPosition'[v] # 0 =>
          /\ v # c /\ delayedInitPosition'[v] = delayedInitPosition[v]
          /\ delayedInitPosition[v] \in DOMAIN globalInits
          /\ globalInits[delayedInitPosition[v]] = NoName
          /\ v \in unit.dynamic => announced[v] = "static"
    BY <1>10 DEF InitInv, Positions, Announced
  <2>2. \A v \in Variables : delayedInitPosition'[v] # 0 => delayedInitPosition[v] # k
    <3>1. \A v \in Variables : delayedInitPosition[v] # 0 /\ delayedInitPosition[v] = delayedInitPosition[c] => v = c
      BY <1>3 DEF InitInv, Positions
    <3>2. p + 1 \notin DOMAIN globalInits
      BY <1>4, <1>5
    <3> QED BY <1>8, <2>1, <3>1, <3>2
  <2>3. \A v, w \in Variables :
          delayedInitPosition'[v] # 0 /\ delayedInitPosition'[v] = delayedInitPosition'[w] => v = w
    BY <2>1 DEF InitInv, Positions
  <2> QED BY <1>2, <1>8, <2>1, <2>2, <2>3 DEF Positions, Announced
<1>13. \A i \in Called : i # k /\ globalInits'[i] = globalInits[i]
  BY <1>8 DEF Called
<1>14. CalledOnce'
  <2> SUFFICES ASSUME NEW i \in Called \cup {k}
               PROVE  /\ globalInits'[i] \in unit.dynamic /\ globalInits'[i] # NoName
                      /\ status[globalInits'[i]] = "defined"
                      /\ announced[globalInits'[i]] \in {"strong", "static"}
                      /\ delayedInitPosition'[globalInits'[i]] = 0
                      /\ \A j \in Called \cup {k} : globalInits'[i] = globalInits'[j] => i = j
    BY <1>2, <1>9 DEF CalledOnce, Announced
  <2>1. CASE i = k
    BY <1>2, <1>3, <1>6, <1>7, <1>8, <1>10, <1>13, <2>1
  <2>2. CASE i \in Called
    <3>1. /\ globalInits[i] \in unit.dynamic
          /\ status[globalInits[i]] = "defined" /\ announced[globalInits[i]] \in {"strong", "static"}
          /\ delayedInitPosition[globalInits[i]] = 0
          /\ \A j \in Called : globalInits[i] = globalInits[j] => i = j
      BY <2>2 DEF InitInv, CalledOnce, Announced
    <3>2. globalInits[i] \in Variables /\ globalInits[i] # NoName /\ globalInits'[i] = globalInits[i]
      BY <1>13, <2>2, <3>1, DynamicNames
    <3> QED BY <1>7, <1>8, <1>10, <1>13, <2>2, <3>1, <3>2
  <2> QED BY <2>1, <2>2
<1>15. DefinedAreCalled'
  <2> SUFFICES ASSUME NEW v \in unit.dynamic
               PROVE  /\ status[v] = "defined" => \E i \in Called \cup {k} : globalInits'[i] = v
                      /\ announced[v] = "static" /\ status[v] # "defined" =>
                           delayedInitPosition'[v] # 0
                      /\ v # NoName
    BY <1>2, <1>9 DEF DefinedAreCalled, Announced
  <2>1. /\ status[v] = "defined" /\ v # c => \E i \in Called : globalInits[i] = v
        /\ announced[v] = "static" /\ status[v] # "defined" => delayedInitPosition[v] # 0
    BY <1>1 DEF InitInv, DefinedAreCalled, Announced
  <2>2. v # NoName /\ v \in Variables
    BY DynamicNames
  <2> QED BY <1>6, <1>8, <1>10, <1>13, <2>1, <2>2
<1>16. \A v \in unit.dynamic : \A i \in DOMAIN globalInits : HasSlot(v, i)' => HasSlot(v, i)
  <2> SUFFICES ASSUME NEW v \in unit.dynamic, NEW i \in DOMAIN globalInits, HasSlot(v, i)'
               PROVE  HasSlot(v, i)
    OBVIOUS
  <2>1. v \in Variables /\ i # 0 /\ i # p + 1
    BY <1>3, <1>4, <1>5
  <2>2. CASE i = k
    BY <1>8, <1>10, <2>1, <2>2 DEF HasSlot
  <2>3. CASE i # k
    BY <1>8, <1>10, <2>1, <2>3 DEF HasSlot
  <2> QED BY <2>2, <2>3
<1>17. SlotsInOrder'
  <2> SUFFICES ASSUME NEW v \in unit.dynamic, NEW w \in unit.dynamic,
                      NEW i \in DOMAIN globalInits', NEW j \in DOMAIN globalInits',
                      HasSlot(v, i)', HasSlot(w, j)', i < j
               PROVE  AppearsBefore(v, w)
    BY <1>2 DEF SlotsInOrder, AppearsBefore
  <2>1. CASE i \in DOMAIN globalInits /\ j \in DOMAIN globalInits
    BY <1>16, <2>1 DEF InitInv, SlotsInOrder
  <2>2. CASE ~(i \in DOMAIN globalInits /\ j \in DOMAIN globalInits)
    <3>1. DOMAIN globalInits = 1 .. p /\ p + 1 \notin DOMAIN globalInits
      BY <1>4, <1>5
    <3>2. k = p + 1 /\ announced[c] = "strong" /\ i \in 1 .. p /\ j = p + 1
      BY <1>5, <1>8, <2>2, <3>1
    <3>3. initOrder # << >> /\ Last(initOrder) = c
      BY <1>1, <1>2, <3>2 DEF InitInv, DefinedAreCalled, Announced
    <3>4. w = c
      <4>1. delayedInitPosition[w] # p + 1
        BY <1>3, <3>1 DEF InitInv, Positions
      <4>2. w # NoName /\ w \in Variables /\ p + 1 # 0
        BY <1>5, DynamicNames
      <4> QED BY <1>8, <1>10, <3>2, <4>1, <4>2 DEF HasSlot
    <3>5. v \in Range(initOrder) /\ v # c
      <4>1. HasSlot(v, i)
        BY <1>16, <3>1, <3>2
      <4>2. v \in Range(initOrder)
        BY <3>1, <3>2, <4>1, SlotIsInFile
      <4>3. ~HasSlot(c, i)
        <5>1. globalInits[i] # c
          BY <1>3, <1>7, <3>1, <3>2 DEF Called
        <5>2. delayedInitPosition[c] # i
          <6>1. i # 0
            BY <3>2
          <6> QED BY <1>2, <1>3, <3>2, <6>1 DEF InitInv, Positions, Announced
        <5> QED BY <5>1, <5>2 DEF HasSlot
      <4> QED BY <4>1, <4>2, <4>3
    <3>6. PICK l \in Nat : l = Len(initOrder) /\ l # 0 /\ initOrder[l] = c
      BY <1>4, <3>3, LastFront
    <3>7. PICK m \in 1 .. l : initOrder[m] = v
      BY <1>4, <3>5, <3>6 DEF Range
    <3>8. m # l
      BY <3>5, <3>6, <3>7
    <3>9. m < l /\ m \in DOMAIN initOrder /\ l \in DOMAIN initOrder
      BY <1>4, <3>6, <3>7, <3>8
    <3> QED BY <3>4, <3>6, <3>7, <3>9 DEF AppearsBefore
  <2> QED BY <2>1, <2>2
<1> QED BY <1>11, <1>12, <1>14, <1>15, <1>17 DEF InitInv

LEMMA InitInvNext == IInv /\ IInv' /\ NeededInv /\ InitInv /\ [Next]_vars => InitInv'
<1> SUFFICES ASSUME IInv, IInv', NeededInv, InitInv, [Next]_vars PROVE InitInv'
  OBVIOUS
<1>1. CASE Generate
  BY <1>1, GenerateAside, AsideStep, PlaceStep DEF Generate
<1>2. CASE Release
  BY <1>2, ReleaseAside, PhaseAside, AsideStep DEF Release
<1>3. CASE Error \/ EndOfProgram \/ HandleProgram
  BY <1>3, PhaseAside, AsideStep
<1>4. ASSUME NEW n \in Names,
             \/ EmitGlobalNow(n) \/ EmitGlobalForced(n)
             \/ \E as \in {"static", "inline"} : EmitGlobalDeferred(n, as)
             \/ \E target \in Names : EmitAliasDefinition(n, target)
      PROVE  InitInv'
  <2>1. CASE EmitGlobalNow(n) /\ n \in unit.dynamic
    BY <2>1, NowStep
  <2>2. CASE \E as \in {"static", "inline"} : EmitGlobalDeferred(n, as) /\ n \in Variables
    BY <2>2, LaterStep
  <2>3. CASE \/ EmitGlobalForced(n)
             \/ EmitGlobalNow(n) /\ n \notin unit.dynamic
             \/ \E as \in {"static", "inline"} : EmitGlobalDeferred(n, as) /\ n \notin Variables
             \/ \E target \in Names : EmitAliasDefinition(n, target)
    BY <2>3, ParseAside, AsideStep
  <2> QED BY <1>4, <2>1, <2>2, <2>3
<1>5. ASSUME NEW v \in Variables,
             \/ \E as \in {"tentative", "staticTentative"} : DeclareTentative(v, as)
             \/ InstantiateExplicitly(v) \/ EmitTentativeDefinition(v)
      PROVE  InitInv'
  BY <1>5, VariableAside, AsideStep
<1>6. ASSUME NEW c \in Classes, HandleVTable(c) PROVE InitInv'
  BY <1>6, HandleVTableAside, AsideStep
<1>7. CASE UNCHANGED vars
  BY <1>7, PhaseAside, AsideStep
<1> QED BY <1>1, <1>2, <1>3, <1>4, <1>5, <1>6, <1>7 DEF Next

(* The initializers that are called are those of the variables that are     *)
(* defined, each once and in the order of the file, in whatever order the   *)
(* deferred ones are generated (DelayedCXXInitPosition in EmitGlobal and    *)
(* EmitCXXGlobalVarDeclInitFunc).                                           *)
THEOREM InitializersOrdered == Spec => []InitializersInOrder
<1>1. IInv /\ NeededInv /\ InitInv => InitializersInOrder
  <2> SUFFICES ASSUME IInv, NeededInv, InitInv, phase = "done" PROVE InitializersInOrder
    BY DEF InitializersInOrder
  <2>1. current = NoName
    BY DEF NeededInv, StepsInOrder
  <2>2. \A i \in Called : /\ globalInits[i] \in unit.dynamic /\ globalInits[i] \in Range(initOrder)
                         /\ status[globalInits[i]] = "defined"
                         /\ \A j \in Called : globalInits[i] = globalInits[j] => i = j
    BY DEF InitInv, CalledOnce, FileOrder
  <2>3. \A v \in Range(initOrder) :
          status[v] = "defined" => \E i \in Called : globalInits[i] = v
    BY <2>1, DynamicNames DEF InitInv, FileOrder, DefinedAreCalled
  <2>4. \A i, j \in Called : i < j => AppearsBefore(globalInits[i], globalInits[j])
    BY <2>2 DEF InitInv, SlotsInOrder, HasSlot, Called
  <2> QED BY <2>2, <2>3, <2>4 DEF InitializersInOrder, InitInv, FileOrder
<1>2. IInv /\ IInv' /\ NeededInv /\ InitInv /\ [Next]_vars => InitInv'
  BY InitInvNext
<1> QED BY <1>1, <1>2, InitInvInit, NeededAlways, PTL DEF Spec
=============================================================================
