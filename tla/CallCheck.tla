----------------------------- MODULE CallCheck -----------------------------
(***************************************************************************)
(* FunctionType::doCall and ClassFunctionType::doCall: the checks that the *)
(* compiler makes of one call, in the order in which it makes them, for    *)
(* every declaration, region list and argument list of a small universe.   *)
(***************************************************************************)
EXTENDS RegionTypes

CONSTANTS
  Declaration,  \* [class, regions, params, ret]; class is NoClass for a function
  CallSite,     \* [regions, args, handles, instance], what a caller may write
  NoClass       \* not a method

\* A declaration names its regions apart (the compiler does not insist on it).
ASSUME DeclarationAssumption ==
  \A d \in Declaration :
    /\ d.regions \in Seq(RegionName)
    /\ \A j, k \in DOMAIN d.regions : d.regions[j] = d.regions[k] => j = k
    /\ d.params \in Seq(Type) /\ d.ret \in Type

\* A call without regions is given the current one (CallExprNode).
ASSUME CallSiteAssumption ==
  \A c \in CallSite : /\ c.regions \in Seq(RegionName) /\ Len(c.regions) >= 1
                      /\ c.args \in Seq(Type)

VARIABLES
  decl,     \* the declaration of the callee
  call,     \* the call: its regions and the types of its arguments, the regions
            \* the caller has a handle of, the region of the receiver's type
  step,     \* "handle", "count", "arguments", "return", "instance", "over"
  i,        \* the argument that is compared next
  remap,    \* regionsRemap
  verdict,  \* "checking", "accepted", "rejected" (exit), "aborted" (throw), "undefined"
  result    \* the type of the accepted call's value

vars == <<decl, call, step, i, remap, verdict, result>>

IsMethod(d) == d.class # NoClass

\* argTypes: codegenFunction puts the class in front for a method.  Its type
\* was made in the global context.
ArgTypes(d) ==
  IF IsMethod(d) THEN <<[base |-> d.class, regions |-> <<Global>>]>> \o d.params
  ELSE d.params

NoType == [base |-> "none", regions |-> << >>]

TypeOK ==
  /\ decl \in Declaration /\ call \in CallSite
  /\ step \in {"handle", "count", "arguments", "return", "instance", "over"}
  /\ i \in 1 .. Len(call.args) + 1
  /\ DOMAIN remap \subseteq {call.regions[k] : k \in DOMAIN call.regions}
  /\ verdict \in {"checking", "accepted", "rejected", "aborted", "undefined"}
  /\ result = NoType \/ result.base = decl.ret.base

Init ==
  /\ decl \in Declaration
  /\ call \in CallSite
  /\ step = "handle"
  /\ i = 1
  /\ remap = << >>
  /\ verdict = "checking"
  /\ result = NoType

Stop(why) == step' = "over" /\ verdict' = why

Continue(next) == step' = next /\ UNCHANGED verdict

\* Slip: any handle will do.
CheckHandle_any ==
  /\ step = "handle"
  /\ IF call.handles # {} THEN Continue("count") ELSE Stop("rejected")
  /\ UNCHANGED <<decl, call, i, remap, result>>

\* ctx.getRegionHandle(regions[0]), "Don't have handle for"
CheckHandle ==
  /\ step = "handle"
  /\ IF call.regions[1] \in call.handles THEN Continue("count") ELSE Stop("rejected")
  /\ UNCHANGED <<decl, call, i, remap, result>>

\* regions.size() against the declaration's, then the map is filled.
CheckCount ==
  /\ step = "count"
  /\ IF Len(call.regions) = Len(decl.regions)
     THEN /\ remap' = RegionsRemap(call.regions, decl.regions)
          /\ Continue("arguments")
     ELSE Stop("rejected") /\ UNCHANGED remap
  /\ UNCHANGED <<decl, call, i, result>>

\* The loop "i < args.size() && i < argTypes.size()": a missing or surplus
\* argument is not noticed.
CheckArgument ==
  /\ step = "arguments"
  /\ i <= Len(call.args) /\ i <= Len(ArgTypes(decl))
  /\ LET e == Equals(call.args[i], ArgTypes(decl)[i], remap) IN
       \/ e = "equal" /\ i' = i + 1 /\ Continue("arguments")
       \/ e = "different" /\ Stop("rejected") /\ UNCHANGED i
       \/ e = "undefined" /\ Stop("undefined") /\ UNCHANGED i
  /\ UNCHANGED <<decl, call, remap, result>>

ArgumentsDone ==
  /\ step = "arguments"
  /\ i > Len(call.args) \/ i > Len(ArgTypes(decl))
  /\ Continue("return")
  /\ UNCHANGED <<decl, call, i, remap, result>>

\* Slip: the declared type is the result's, as the callee names its regions.
RemapResult_declared ==
  /\ step = "return"
  /\ result' = decl.ret
  /\ IF IsMethod(decl) THEN Continue("instance") ELSE Stop("accepted")
  /\ UNCHANGED <<decl, call, i, remap>>

\* retType->withRemapRegions(ctx, regionsRemapInvert).
RemapResult ==
  /\ step = "return"
  /\ LET inverse == Invert(remap) IN
     IF Remappable(decl.ret, inverse)
     THEN /\ result' = WithRemapRegions(decl.ret, inverse)
          /\ IF IsMethod(decl) THEN Continue("instance") ELSE Stop("accepted")
     ELSE /\ Stop(ResultVerdict(decl.ret, inverse))
          /\ UNCHANGED result
  /\ UNCHANGED <<decl, call, i, remap>>

\* Methods only: the receiver's region must be passed as "this".
CheckInstance ==
  /\ step = "instance"
  /\ IF call.instance \in DOMAIN remap /\ remap[call.instance] = This
     THEN Stop("accepted") ELSE Stop("rejected")
  /\ UNCHANGED <<decl, call, i, remap, result>>

\* The call has been judged.
Over == step = "over" /\ UNCHANGED vars

Next == CheckHandle \/ CheckCount \/ CheckArgument \/ ArgumentsDone \/ RemapResult
        \/ CheckInstance \/ Over

Spec == Init /\ [][Next]_vars

(***************************************************************************)
(* Properties.  The reference is substitution.                             *)
(***************************************************************************)

Instantiated(t) == Substituted(t, call.regions, decl.regions)

Paired == {k \in DOMAIN call.args : k \in DOMAIN decl.params}

\* An accepted call passes arguments whose regions are the ones it puts in
\* the place of the parameters' regions, whatever regions it names twice;
\* the checks of doCall look only from the call to the declaration.
ArgumentsSound ==
  verdict = "accepted" /\ ~IsMethod(decl)
    => \A k \in Paired : call.args[k] = Instantiated(decl.params[k])

\* The type the caller gives the result is the declared one seen from the
\* call, though it is computed through an inverted map.
ResultSound == verdict = "accepted" => result = Instantiated(decl.ret)

\* The body of a called function allocates in its first region with the
\* handle it is passed, and a method in addition lives in "this": both are
\* what the call says they are.
HandleSound ==
  verdict = "accepted" =>
    /\ call.regions[1] \in call.handles
    /\ IsMethod(decl) => \E k \in DOMAIN decl.regions :
                           decl.regions[k] = This /\ call.regions[k] = call.instance

\* A call with distinct regions and matching arguments, of a declaration whose
\* types name regions of its own.
Correct ==
  /\ \A k \in DOMAIN decl.params : Closed(decl.params[k], decl.regions)
  /\ Closed(decl.ret, decl.regions)
  /\ Len(call.regions) = Len(decl.regions)
  /\ \A j, k \in DOMAIN call.regions : call.regions[j] = call.regions[k] => j = k
  /\ call.regions[1] \in call.handles
  /\ Len(call.args) = Len(decl.params)
  /\ \A k \in DOMAIN call.args : call.args[k] = Instantiated(decl.params[k])
  /\ IsMethod(decl) => \E k \in DOMAIN decl.regions :
                         decl.regions[k] = This /\ call.regions[k] = call.instance

\* No correct call of a function, or of a method without parameters, is
\* turned down.
FunctionsCallable ==
  Correct /\ (IsMethod(decl) => decl.params = << >>)
    => verdict \in {"checking", "accepted"}

\* The documentation knows no exception for methods with parameters.
Callable == Correct => verdict \in {"checking", "accepted"}

\* The loop of doCall and the one-step judgement that the program model uses
\* agree, for functions, on every verdict and every result.
OneStep ==
  step = "over" /\ ~IsMethod(decl) =>
    /\ verdict = CallVerdict(decl, call.regions, call.args, call.regions[1] \in call.handles)
    /\ verdict = "accepted" => result = ResultType(decl, call.regions)
=============================================================================
