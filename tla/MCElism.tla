------------------------------ MODULE MCElism ------------------------------
(***************************************************************************)
(* Programs with two names, a region per kind of scope and functions that  *)
(* pass references in, out and into each other.                            *)
(***************************************************************************)
EXTENDS Elism, TLC

MCRegionName == {"fn_default", "T", "X", "Y"}
MCParamName  == <<"x", "y">>

Ref(regions) == [base |-> "A", regions |-> regions]

MCVoid == [base |-> "void", regions |-> << >>]

\* fn f @X (A @X x) -> A @X
Identity == [regions |-> <<"X">>, params |-> <<Ref(<<"X">>)>>, ret |-> Ref(<<"X">>)]

\* fn f @X, @Y (A @Y x) -> A @Y [] @X
Wrap == [regions |-> <<"X", "Y">>, params |-> <<Ref(<<"Y">>)>>, ret |-> Ref(<<"Y", "X">>)]

\* fn f @X, @Y (A @X [] @Y x, A @X y)
Fill == [regions |-> <<"X", "Y">>, params |-> <<Ref(<<"X", "Y">>), Ref(<<"X">>)>>, ret |-> MCVoid]

\* fn f @X, @Y (A @X x, A @Y y) -> A @X
First == [regions |-> <<"X", "Y">>, params |-> <<Ref(<<"X">>), Ref(<<"Y">>)>>, ret |-> Ref(<<"X">>)]

SafeSignature == {Wrap, Fill}
FullSignature == {Identity, First}

Symmetry == Permutations(Obj) \cup Permutations(Handle)
=============================================================================
