-------------------------- MODULE MCDeferredEmission --------------------------
(***************************************************************************)
(* The translation units for which TLC runs DeferredEmission.              *)
(***************************************************************************)
EXTENDS DeferredEmissionProperties

MCDirect(n) == [kind |-> "direct", to |-> n]
MCWeak(n) == [kind |-> "weak", to |-> n]
MCRuntime(n) == [kind |-> "runtime", to |-> n]
MCVTable(c) == [kind |-> "vtable", to |-> c]

MCNames == {"f", "g", "m", "v", "w"}

MCNone == [n \in MCNames |-> {}]
MCNoRefs == [n \in MCNames |-> << >>]

MCBase(kinds, refs, optimize) ==
  [kinds |-> kinds @@ MCNone, refs |-> refs @@ MCNoRefs, dynamic |-> {"v", "w"},
   virtual |-> [c \in {"C"} |-> <<"m">>], key |-> [c \in {"C"} |-> NoName],
   implicit |-> {}, bodied |-> {}, optimize |-> optimize]

(* Two functions, defined in every way, that refer to each other.           *)
MCFunctionUnits ==
  {MCBase("f" :> {"strong", "inline", "forced", "static"} @@ "g" :> {"strong", "static", "inline", "forced", "alias"},
          "f" :> r @@ "g" :> s, o) :
     r \in {<<MCDirect("g")>>, <<MCWeak("g")>>, <<MCWeak("g"), MCDirect("g")>>},
     s \in {<< >>, <<MCDirect("f")>>, <<MCWeak("f")>>}, o \in BOOLEAN}

(* Variables with constructors or constant initializers, tentative          *)
(* definitions, and a function that uses them.                              *)
MCVariableUnits ==
  {[MCBase("f" :> {"strong", "static"} @@ "v" :> {"strong", "static", "tentative", "staticTentative"}
             @@ "w" :> {"strong", "static", "alias"},
           "f" :> r @@ "v" :> s @@ "w" :> t, FALSE) EXCEPT !.dynamic = d] :
     r \in {<<MCDirect("v")>>, <<MCDirect("w"), MCWeak("v")>>},
     s \in {<< >>, <<MCDirect("w")>>}, t \in {<< >>, <<MCDirect("f")>>},
     d \in {{}, {"w"}, {"v", "w"}}}

(* A class whose virtual member m refers to f; g is its key function or not.*)
MCClassUnits ==
  {u \in {[MCBase("f" :> {"strong", "static"} @@ "g" :> {"strong"} @@ "m" :> j @@ "v" :> {"static"},
                  "f" :> r @@ "g" :> s @@ "m" :> t @@ "v" :> <<MCDirect("g")>>, o)
             EXCEPT !.key = [c \in {"C"} |-> k], !.implicit = i, !.bodied = b] :
             r \in {<<MCVTable("C")>>, <<MCDirect("m"), MCVTable("C")>>, <<MCDirect("v")>>},
             s \in {<< >>, <<MCVTable("C")>>},
             t \in {<<MCDirect("f")>>, <<MCDirect("v")>>},
             j \in {{}, {"strong"}}, k \in {NoName, "g"}, i \in {{}, {"m"}}, b \in {{}, {"m"}},
             o \in BOOLEAN} :
     u.refs["f"] = <<MCDirect("m"), MCVTable("C")>> /\ u.implicit = {"m"} => u.bodied = {"m"}}

(* Functions that the code generator uses itself, which no weakref names.   *)
MCRuntimeUnits ==
  {MCBase("f" :> k @@ "g" :> {"strong"}, "f" :> r @@ "g" :> s, FALSE) :
     k \in {{"strong"}, {"forced"}}, r \in {<<MCWeak("v")>>, <<MCRuntime("w")>>},
     s \in {<<MCRuntime("w")>>, <<MCDirect("v"), MCRuntime("f")>>}}

MCUnits == MCFunctionUnits \cup MCVariableUnits \cup MCClassUnits \cup MCRuntimeUnits
=============================================================================
