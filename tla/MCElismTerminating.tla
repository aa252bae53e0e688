------------------------- MODULE MCElismTerminating -------------------------
(***************************************************************************)
(* Terminating programs of few statements, whose references may dangle or  *)
(* have false types.  The parameter has a name that no statement declares, *)
(* so that the function with a result always has it to return and its body *)
(* can end at any time.                                                    *)
(***************************************************************************)
EXTENDS ElismTerminating

MCRegionName == {"fn_default", "T", "X", "Y"}
MCParamName  == <<"p">>

MCVoid == [base |-> "void", regions |-> << >>]

MCParams == <<[base |-> "A", regions |-> <<"X">>]>>

\* fn f @X (A @X p), without a result and with one.
FullSignature ==
  {[regions |-> <<"X">>, params |-> MCParams, ret |-> ret] :
     ret \in {MCVoid, [base |-> "A", regions |-> <<"X">>]}}
=============================================================================
