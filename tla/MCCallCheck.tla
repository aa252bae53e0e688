---------------------------- MODULE MCCallCheck ----------------------------
(***************************************************************************)
(* Calls of functions and methods with up to two regions and two           *)
(* parameters, from scopes with the regions "P" and "Q".                   *)
(***************************************************************************)
EXTENDS CallCheck

MCRegionName == {"P", "Q", "X", "Y", "this"}

On(base, regions) == [base |-> base, regions |-> regions]

TypesOver(names) ==
  {On("A", <<r>>) : r \in names} \cup {On("i64", <<r>>) : r \in names}
    \cup {On("A", <<r, s>>) : r, s \in names} \cup {On("i64", << >>)}

UpTo(n, S) == UNION {[1 .. k -> S] : k \in 0 .. n}

Declared(class, regions, paramTypes, retTypes) ==
  [class : {class}, regions : {regions}, params : UpTo(2, paramTypes), ret : retTypes]

Few(names) == {On("A", <<r>>) : r \in names} \cup {On("A", <<"X", "Y">>), On("i64", << >>)}

MCDeclaration ==
  Declared("none", <<"X">>, {On("A", <<"X">>), On("i64", <<"X">>)}, {On("A", <<"X">>)})
    \cup Declared("none", <<"X", "Y">>, Few({"X", "Y"}),
                  {On("A", <<"X">>), On("i64", <<"Y">>), On("A", <<"Y", "X">>)})
    \cup Declared("A", <<"this">>, {On("A", <<"this">>), On("i64", << >>)}, {On("i64", <<"this">>)})
    \cup Declared("A", <<"X", "this">>, {On("A", <<"X">>)}, {On("A", <<"X">>), On("A", <<"this">>)})

MCCallSite ==
  [regions : UpTo(2, {"P", "Q"}) \ {<< >>}, args : UpTo(2, TypesOver({"P", "Q"})),
   handles : {{"P"}, {"P", "Q"}}, instance : {"P", "Q"}]
=============================================================================
