----------------------- MODULE MCPendingInstantiations -----------------------
(***************************************************************************)
(* The translation units for which TLC runs PendingInstantiations.         *)
(***************************************************************************)
EXTENDS PendingInstantiationsProperties

MCUse(x) == [kind |-> "use", of |-> x]
MCVTable(c) == [kind |-> "vtable", of |-> c]
MCItem(k, x) == [kind |-> k, of |-> x]

(* f encloses the local class of m; k is constexpr, v a static data member. *)
MCSubprograms == {"f", "g", "k", "m"}
MCVariables == {"v"}

MCPatterns(S) == {MCItem("pattern", x) : x \in S}

MCBase(items, body) ==
  [file |-> items, headers |-> {"k", "m"},
   body |-> body @@ [x \in MCSubprograms \cup MCVariables |-> << >>],
   constant |-> {"k"}, inlined |-> {}, late |-> {},
   enclosing |-> [x \in MCSubprograms \cup MCVariables |-> IF x = "m" THEN "f" ELSE Parser],
   parent |-> [x \in MCSubprograms |-> {}], virtual |-> [c \in {"C"} |-> << >>],
   local |-> {}, keyed |-> {}, extern |-> {}]

(* Functions and a variable that use each other, instantiated explicitly    *)
(* or not, in units with and without delayed template parsing.              *)
MCFunctionPrograms ==
  {[MCBase(e \cup MCPatterns({"f", "g", "v"} \ n), "f" :> r @@ "g" :> s @@ "v" :> t @@ "k" :> <<MCUse("g")>>)
      EXCEPT !.headers = n \cup {"k", "m"}, !.late = l, !.constant = n, !.inlined = {"g"} \cap l] :
     e \in {{MCUse("f"), MCItem("explicit", "g")}, {MCUse("f"), MCItem("extern", "f")},
            {MCUse("v"), MCItem("explicit", "v"), MCItem("extern", "v")},
            {MCUse("f"), MCItem("extern", "g"), MCItem("explicit", "g")}, {MCItem("explicit", "k"), MCUse("f")}},
     r \in {<<MCUse("g"), MCUse("v")>>, <<MCUse("f"), MCUse("v")>>},
     s \in {<< >>, <<MCUse("f")>>},
     t \in {<< >>, <<MCUse("f")>>, <<MCVTable("C")>>},
     l \in {{}, {"f", "g"}}, n \in {{}, {"v"}}}

(* constexpr functions, which may use each other, and members of a local    *)
(* class that is instantiated at the end of the unit.                       *)
MCLocalPrograms ==
  {[MCBase(e \cup MCPatterns({"f", "g"} \ rn[2]), "f" :> rn[1] @@ "g" :> s @@ "k" :> t @@ "m" :> u)
      EXCEPT !.headers = rn[2] \cup {"m"}, !.constant = rn[2], !.late = l] :
     e \in {{MCUse("f")}, {MCUse("k"), MCUse("f")}},
     rn \in {<<<<MCUse("k"), MCUse("m")>>, {"k"}>>, <<<<MCUse("k"), MCUse("m")>>, {"k", "g"}>>,
             <<<<MCUse("m"), MCUse("g")>>, {"k"}>>},
     s \in {<< >>, <<MCUse("k")>>},
     t \in {<< >>, <<MCUse("k")>>, <<MCUse("g")>>},
     u \in {<<MCUse("g")>>, <<MCUse("m"), MCUse("f")>>},
     l \in {{}, {"g", "k"}}}

(* A constexpr subprogram is handed over twice: what is instantiated in its *)
(* own code, a member of a local class put aside by a caller or the         *)
(* initializer of a constexpr variable, refers to it.                       *)
MCConstantPrograms ==
  {[MCBase({MCUse("f")}, "f" :> <<MCUse("m"), MCUse("k")>> @@ "k" :> <<MCUse("g")>> @@ "m" :> <<MCUse("k")>>)
      EXCEPT !.headers = MCSubprograms, !.constant = {"k", "g"}],
   [MCBase({MCUse("k")}, "k" :> <<MCUse("v")>> @@ "v" :> <<MCUse("k")>>)
      EXCEPT !.headers = MCSubprograms \cup MCVariables, !.constant = {"k", "v"}]}

(* Classes with virtual members, key functions, local or extern.            *)
MCClassPrograms ==
  {[MCBase(e \cup MCPatterns({"f"}), "f" :> r @@ "g" :> s @@ "m" :> t)
      EXCEPT !.headers = {"k", "m", "g"},
             !.virtual = [c \in {"C"} |-> IF c \in l THEN <<"m">> ELSE <<"g">>],
             !.parent = [x \in MCSubprograms |-> IF x = (IF l = {} THEN "g" ELSE "m") THEN {"C"} ELSE {}],
             !.local = l, !.keyed = y, !.extern = z] :
     e \in {{MCUse("f"), MCUse("g")}, {MCUse("f"), MCItem("required", "C")}, {MCVTable("C"), MCItem("key", "C")},
            {MCItem("explicit", "f"), MCItem("required", "C")}, {MCItem("explicit", "f"), MCItem("key", "C")}},
     r \in {<<MCVTable("C")>>, <<MCUse("m"), MCUse("m")>>},
     s \in {<< >>, <<MCUse("f")>>},
     t \in {<< >>, <<MCVTable("C"), MCUse("g")>>},
     l \in {{}, {"C"}}, y \in {{}, {"C"}}, z \in {{}, {"C"}}}

(* Only code of f names its local class; a class with a key function is no  *)
(* template and not local.                                                  *)
MCPrograms == MCFunctionPrograms \cup MCLocalPrograms \cup MCConstantPrograms \cup
  {p \in MCClassPrograms :
     /\ MCItem("key", "C") \in p.file => p.keyed # {}
     /\ MCItem("required", "C") \in p.file => p.keyed = {}
     /\ p.keyed \cap (p.local \cup p.extern) = {}
     /\ p.local # {} => p.file \cap {MCVTable("C"), MCItem("required", "C")} = {} /\ p.extern = {}}

(* In all these units the templates come in time (ReferencedCorrect).       *)
ASSUME MCProgramsAssumption == \A p \in MCPrograms : TemplatesComeFirst(p)

(* A constexpr function may be used before its template is defined, or a    *)
(* function with a local class is instantiated explicitly.                  *)
MCEarlyPrograms ==
  {[MCBase({MCUse("k"), MCItem("pattern", "k")}, << >>) EXCEPT !.headers = {"m"}]} \cup
  {[MCBase({MCItem("explicit", "f")} \cup e \cup MCPatterns({"f", "g", "v"}),
           "f" :> <<MCUse("m")>> @@ "m" :> r @@ "g" :> s) EXCEPT !.constant = {}] :
     e \in {{}, {MCUse("g")}},
     r \in {<<MCUse("g")>>, <<MCUse("v"), MCUse("g")>>}, s \in {<< >>, <<MCUse("v")>>}}
=============================================================================
