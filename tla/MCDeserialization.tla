-------------------------- MODULE MCDeserialization --------------------------
(***************************************************************************)
(* The AST files for which TLC runs Deserialization.                       *)
(***************************************************************************)
EXTENDS DeserializationProperties

MCDecls == {"a", "b", "c", "d"}

MCOf(f) == f @@ [x \in MCDecls |-> NoDecl]

MCBase ==
  [pcmodules |-> FALSE, first |-> [x \in MCDecls |-> x], entity |-> [x \in MCDecls |-> x],
   file |-> [x \in MCDecls |-> "A"], name |-> [x \in MCDecls |-> "n"],
   type |-> [x \in MCDecls |-> NoDecl], rest |-> [x \in MCDecls |-> NoDecl],
   body |-> {}, interesting |-> {}, eager |-> {}, uses |-> [x \in MCDecls |-> {}],
   visible |-> MCDecls, macros |-> [n \in {"n", "m"} |-> {}],
   imports |-> [f \in {"A", "B", "C"} |-> {}], initial |-> {"A", "B"},
   external |-> [f \in {"A", "B", "C"} |-> {}]]

(* A precompiled header B on top of A: b redeclares a in B, and c and d are *)
(* definitions that mention the others, each other, and a macro m.          *)
MCHeaderPrograms ==
  {[MCBase EXCEPT
      !.first = [x \in MCDecls |-> IF x = "b" THEN "a" ELSE x],
      !.entity = [x \in MCDecls |-> IF x = "b" THEN "a" ELSE x],
      !.file = [x \in MCDecls |-> IF x = "a" THEN "A" ELSE "B"],
      !.name = [x \in MCDecls |-> IF x = "d" THEN "m" ELSE "n"],
      !.type = MCOf(t), !.rest = MCOf(r), !.body = {"c"} \cup y, !.interesting = {"c", "d"} \cup y,
      !.eager = z, !.uses = [x \in MCDecls |-> IF x = "c" THEN u ELSE {}],
      !.visible = {"b", "c", "d"}, !.macros = [n \in {"n", "m"} |-> IF n = "m" THEN {{"n"}} ELSE {}],
      !.external = [f \in {"A", "B", "C"} |-> IF f = "B" THEN v ELSE {}]] :
     t \in {"a" :> "c" @@ "c" :> "b", "c" :> "d" @@ "d" :> "a"},
     r \in {"c" :> "c", "d" :> "b" @@ "c" :> "d"},
     y \in {{}, {"a"}}, z \in {{}, {"c"}},
     u \in {{"d"}, {"b", "m"}}, v \in {{}, {"c", "d"}}}

(* B redeclares a twice; only the last redeclaration is visible, so the one *)
(* before it is found through the chain alone.                              *)
MCChainPrograms ==
  {[MCBase EXCEPT
      !.first = [x \in MCDecls |-> IF x = "d" THEN x ELSE "a"],
      !.entity = [x \in MCDecls |-> IF x = "d" THEN x ELSE "a"],
      !.file = [x \in MCDecls |-> IF x = "a" THEN "A" ELSE "B"],
      !.name = [x \in MCDecls |-> IF x = "d" THEN "m" ELSE "n"],
      !.type = MCOf(t), !.body = {"b"}, !.interesting = {"b", "d"}, !.visible = {"c", "d"},
      !.external = [f \in {"A", "B", "C"} |-> IF f = "B" THEN v ELSE {}]] :
     t \in {<< >>, "d" :> "a", "b" :> "d" @@ "d" :> "c"}, v \in {{}, {"d"}}}

(* Modules A and B define the same entity as a and b; C, which imports B,   *)
(* redeclares it as c; d is in A or in B and mentions it.                   *)
MCModulePrograms ==
  {[MCBase EXCEPT
      !.pcmodules = TRUE,
      !.first = [x \in MCDecls |-> IF x = "c" THEN "b" ELSE x],
      !.entity = [x \in MCDecls |-> IF x = "d" THEN x ELSE "a"],
      !.file = "a" :> "A" @@ "b" :> "B" @@ "c" :> "C" @@ "d" :> f,
      !.name = [x \in MCDecls |-> IF x = "d" THEN "m" ELSE "n"],
      !.type = MCOf(t), !.rest = MCOf("d" :> (IF f = "A" THEN "a" ELSE "b")),
      !.body = y, !.interesting = y \cup {"d"}, !.eager = y,
      !.uses = [x \in MCDecls |-> IF x \in {"a", "b"} THEN {"m"} ELSE {}],
      !.visible = {"a", "b", "c", "d"}, !.macros = [n \in {"n", "m"} |-> IF n = "n" THEN {{"m"}} ELSE {}],
      !.imports = [x \in {"A", "B", "C"} |-> IF x = "C" THEN {"B"} ELSE {}],
      !.initial = i] :
     f \in {"A", "B"}, t \in {<< >>, "c" :> "b"},
     y \in {{"a", "b"}, {"a", "c"}, {"b", "c"}}, i \in {{}, {"A", "B"}}}

(* The main file has declared a before the import.                          *)
MCParsedPrograms ==
  {[MCBase EXCEPT
      !.pcmodules = TRUE,
      !.first = [x \in MCDecls |-> IF x = "c" THEN "b" ELSE x],
      !.entity = [x \in MCDecls |-> IF x = "d" THEN x ELSE "a"],
      !.file = "a" :> Main @@ "b" :> "B" @@ "c" :> f @@ "d" :> "B",
      !.type = MCOf("d" :> "b"), !.body = y, !.interesting = y,
      !.visible = {"b", "c", "d"},
      !.imports = [x \in {"A", "B", "C"} |-> IF x = "C" THEN {"B"} ELSE {}],
      !.initial = {"B"}] :
     f \in {"B", "C"}, y \in {{"a", "b"}, {"c"}, {"b", "c"}}}

(* The body of c brings in d, or b of another file that mentions d, and the *)
(* consumer reads the body of d at once.                                    *)
MCEagerPrograms ==
  {[MCBase EXCEPT
      !.pcmodules = p,
      !.file = [x \in MCDecls |-> IF x = "b" THEN "B" ELSE "A"],
      !.name = [x \in MCDecls |-> IF x = "d" THEN "m" ELSE "n"],
      !.rest = MCOf("b" :> "d"), !.body = {"c", "d"}, !.interesting = {"c", "d"}, !.eager = {"d"},
      !.uses = [x \in MCDecls |-> IF x = "c" THEN u ELSE {}], !.visible = {"c", "d"}] :
     p \in BOOLEAN, u \in {{"m"}, {"b"}}}

MCPrograms == MCHeaderPrograms \cup MCChainPrograms \cup MCModulePrograms \cup MCParsedPrograms
                \cup MCEagerPrograms

(* The main file has declared a; A and B declare it as b and c, and C,      *)
(* which imports B, as d.                                                   *)
MCMergedPrograms ==
  {[MCBase EXCEPT
      !.pcmodules = TRUE,
      !.first = [x \in MCDecls |-> IF x = "d" THEN "c" ELSE x],
      !.entity = [x \in MCDecls |-> "a"],
      !.file = "a" :> Main @@ "b" :> "A" @@ "c" :> "B" @@ "d" :> "C",
      !.body = {"d"}, !.interesting = {"d"}, !.visible = {"b", "c", "d"},
      !.imports = [x \in {"A", "B", "C"} |-> IF x = "C" THEN {"B"} ELSE {}],
      !.initial = {"A", "B"}]}
=============================================================================
