-------------------------- MODULE CallCheckProofs --------------------------
(***************************************************************************)
(* Proofs about CallCheck, for every set of declarations and calls: what   *)
(* doCall accepts is what substitution allows, it accepts every correct    *)
(* call of a function, and its loop agrees with the one-step judgement.    *)
(***************************************************************************)
EXTENDS CallCheck, RegionTypesProofs

(***************************************************************************)
(* The inductive invariant: what each check of doCall has established by   *)
(* the time the next one is made.                                          *)
(***************************************************************************)

Typed == /\ decl \in Declaration /\ call \in CallSite
         /\ i \in 1 .. Len(call.args) + 1
         /\ step \in {"handle", "count", "arguments", "return", "instance", "over"}
         /\ (step = "over") = (verdict # "checking")
         /\ step \in {"handle", "count"} => i = 1

\* The handle of the first region is there.
Handled == step \in {"count", "arguments", "return", "instance"} \/ verdict = "accepted"
             => call.regions[1] \in call.handles

\* The call has as many regions as the declaration, and the map is theirs.
Mapped == step \in {"arguments", "return", "instance"} \/ verdict = "accepted"
            => /\ Len(call.regions) = Len(decl.regions)
               /\ remap = RegionsRemap(call.regions, decl.regions)

\* The arguments before the i-th are equal to their parameters.
Compared == step \in {"arguments", "return", "instance"} \/ verdict = "accepted"
              => \A j \in 1 .. i - 1 : /\ j <= Len(ArgTypes(decl))
                                       /\ Equals(call.args[j], ArgTypes(decl)[j], remap) = "equal"

AllCompared == step \in {"return", "instance"} \/ verdict = "accepted"
                 => i > Len(call.args) \/ i > Len(ArgTypes(decl))

Resulted == step = "instance" \/ verdict = "accepted"
              => /\ Remappable(decl.ret, Invert(remap))
                 /\ result = WithRemapRegions(decl.ret, Invert(remap))

\* Only a method gets to its last check.
Methodical == step = "instance" => IsMethod(decl)

Instanced == verdict = "accepted" /\ IsMethod(decl)
               => call.instance \in DOMAIN remap /\ remap[call.instance] = This

IInv == Typed /\ Handled /\ Mapped /\ Compared /\ AllCompared /\ Resulted
        /\ Methodical /\ Instanced

LEMMA IInvInit == Init => IInv
BY CallSiteAssumption DEF Init, IInv, Typed, Handled, Mapped, Compared, AllCompared,
   Resulted, Methodical, Instanced

LEMMA IInvNext == IInv /\ [Next]_vars => IInv'
<1> SUFFICES ASSUME IInv, [Next]_vars PROVE IInv'
  OBVIOUS
<1> USE DEF IInv, Typed, Handled, Mapped, Compared, AllCompared, Resulted,
            Methodical, Instanced, Stop, Continue
<1>0. Len(call.args) \in Nat
  BY CallSiteAssumption
<1>1. CASE CheckHandle
  BY <1>1 DEF CheckHandle
<1>2. CASE CheckCount
  <2>1. i = 1 => \A j \in 1 .. i - 1 : FALSE
    BY <1>0
  <2> QED BY <1>2, <2>1 DEF CheckCount
<1>3. CASE CheckArgument
  BY <1>0, <1>3 DEF CheckArgument
<1>4. CASE ArgumentsDone
  BY <1>4 DEF ArgumentsDone
<1>5. CASE RemapResult
  BY <1>5 DEF RemapResult, ResultVerdict
<1>6. CASE CheckInstance
  BY <1>6 DEF CheckInstance
<1>7. CASE Over \/ UNCHANGED vars
  BY <1>7 DEF Over, vars
<1> QED BY <1>1, <1>2, <1>3, <1>4, <1>5, <1>6, <1>7 DEF Next

LEMMA Invariance == Spec => []IInv
BY IInvInit, IInvNext, PTL DEF Spec

(***************************************************************************)
(* The theorems.                                                           *)
(***************************************************************************)

\* The regions of call and declaration, as the lemmas want them.
LEMMA Regional ==
  ASSUME Typed
  PROVE  /\ call.regions \in Seq(RegionName) /\ Len(call.regions) >= 1
         /\ decl.regions \in Seq(RegionName) /\ Apart(decl.regions)
         /\ call.args \in Seq(Type) /\ decl.params \in Seq(Type) /\ decl.ret \in Type
BY CallSiteAssumption, DeclarationAssumption DEF Typed, Apart

\* The regions of an accepted call's arguments are the instances of the
\* parameters' regions: CheckArgument compares the call with the declaration
\* through a map that forgets regions named twice, and loses nothing by it.
THEOREM AcceptedArguments == Spec => []ArgumentsSound
<1>1. ASSUME IInv PROVE ArgumentsSound
  <2>1. SUFFICES ASSUME verdict = "accepted", ~IsMethod(decl), NEW k \in Paired
                 PROVE  call.args[k] = Instantiated(decl.params[k])
    BY DEF ArgumentsSound
  <2>2. ArgTypes(decl) = decl.params
    BY <2>1 DEF ArgTypes
  <2>3. k \in 1 .. Len(call.args) /\ k \in 1 .. Len(decl.params)
        /\ call.args[k] \in Type /\ decl.params[k] \in Type
    BY <1>1, Regional DEF Paired, IInv
  <2>4. i \in Nat /\ (i > Len(call.args) \/ i > Len(decl.params))
    BY <1>1, <2>1, <2>2, Regional DEF IInv, Typed, AllCompared
  <2>5. k \in 1 .. i - 1
    BY <2>3, <2>4, Regional, <1>1 DEF IInv
  <2>6. Equals(call.args[k], decl.params[k], RegionsRemap(call.regions, decl.regions)) = "equal"
    BY <1>1, <2>1, <2>2, <2>5 DEF IInv, Compared, Mapped
  <2>7. Len(call.regions) = Len(decl.regions)
    BY <1>1, <2>1 DEF IInv, Mapped
  <2> QED BY <1>1, <2>3, <2>6, <2>7, Regional, EqualIsSubstituted DEF IInv, Instantiated
<1> QED BY <1>1, Invariance, PTL

\* The type of an accepted call's value is the instance of the declared one:
\* the inverted map is a choice among the places of a region, and RemapResult
\* does not depend on it.
THEOREM AcceptedResult == Spec => []ResultSound
<1>1. ASSUME IInv PROVE ResultSound
  <2>1. SUFFICES ASSUME verdict = "accepted" PROVE result = Instantiated(decl.ret)
    BY DEF ResultSound
  <2>2. Len(call.regions) = Len(decl.regions)
        /\ remap = RegionsRemap(call.regions, decl.regions)
        /\ Remappable(decl.ret, Invert(remap))
        /\ result = WithRemapRegions(decl.ret, Invert(remap))
    BY <1>1, <2>1 DEF IInv, Mapped, Resulted
  <2> QED BY <1>1, <2>2, Regional, ResultIsSubstituted DEF IInv, Instantiated
<1> QED BY <1>1, Invariance, PTL

\* The first region of an accepted call has a handle, and a method's "this"
\* stands for the region of the receiver (CheckHandle and CheckInstance, with
\* the map of CheckCount).
THEOREM AcceptedHandles == Spec => []HandleSound
<1>1. ASSUME IInv PROVE HandleSound
  <2>1. SUFFICES ASSUME verdict = "accepted"
                 PROVE  /\ call.regions[1] \in call.handles
                        /\ IsMethod(decl) => \E k \in DOMAIN decl.regions :
                             decl.regions[k] = This /\ call.regions[k] = call.instance
    BY DEF HandleSound
  <2>2. Len(call.regions) = Len(decl.regions)
        /\ remap = RegionsRemap(call.regions, decl.regions)
    BY <1>1, <2>1 DEF IInv, Mapped
  <2>3. ASSUME IsMethod(decl)
        PROVE  \E k \in DOMAIN decl.regions :
                 decl.regions[k] = This /\ call.regions[k] = call.instance
    <3>1. call.instance \in DOMAIN remap /\ remap[call.instance] = This
      BY <1>1, <2>1, <2>3 DEF IInv, Instanced
    <3>2. PICK k \in DOMAIN call.regions : call.regions[k] = call.instance
                                           /\ remap[call.instance] = decl.regions[k]
      BY <1>1, <2>2, <3>1, Regional, RemapPlaces DEF IInv
    <3>3. k \in DOMAIN decl.regions
      BY <1>1, <2>2, Regional DEF IInv
    <3> QED BY <3>1, <3>2, <3>3
  <2> QED BY <1>1, <2>1, <2>3 DEF IInv, Handled
<1> QED BY <1>1, Invariance, PTL

\* Every reachable state is well typed.
THEOREM TypeCorrect == Spec => []TypeOK
<1>1. ASSUME IInv, TypeOK, [Next]_vars PROVE TypeOK'
  <2> USE <1>1 DEF IInv, Typed, TypeOK, Stop, Continue
  <2>1. IInv'
    BY IInvNext
  <2>2. DOMAIN remap' \subseteq {call'.regions[k] : k \in DOMAIN call'.regions}
    <3>1. CASE CheckCount
      <4>1. Len(call.regions) = Len(decl.regions)
              => DOMAIN RegionsRemap(call.regions, decl.regions)
                 = {call.regions[k] : k \in DOMAIN call.regions}
        BY Regional, RemapPlaces
      <4>2. call' = call
            /\ \/ UNCHANGED remap
               \/ /\ Len(call.regions) = Len(decl.regions)
                  /\ remap' = RegionsRemap(call.regions, decl.regions)
        BY <3>1 DEF CheckCount
      <4> QED BY <4>1, <4>2
    <3>2. CASE ~CheckCount
      BY <3>2 DEF Next, vars, CheckHandle, CheckArgument, ArgumentsDone, RemapResult,
                  CheckInstance, Over
    <3> QED BY <3>1, <3>2
  <2>3. result' = NoType \/ result'.base = decl'.ret.base
    <3>1. CASE RemapResult
      <4>1. decl.ret \in Type
        BY Regional
      <4> QED BY <3>1, <4>1 DEF RemapResult, WithRemapRegions, Type
    <3>2. CASE ~RemapResult
      BY <3>2 DEF Next, vars, CheckHandle, CheckCount, CheckArgument, ArgumentsDone,
                  CheckInstance, Over
    <3> QED BY <3>1, <3>2
  <2>4. verdict' \in {"checking", "accepted", "rejected", "aborted", "undefined"}
    <3>1. CASE CheckHandle \/ CheckCount
      BY <3>1 DEF CheckHandle, CheckCount
    <3>2. CASE CheckArgument
      BY <3>2 DEF CheckArgument
    <3>3. CASE RemapResult
      <4>1. ResultVerdict(decl.ret, Invert(remap)) \in {"undefined", "aborted"}
        BY DEF ResultVerdict
      <4> QED BY <3>3, <4>1 DEF RemapResult
    <3>4. CASE CheckInstance \/ ArgumentsDone \/ Over \/ UNCHANGED vars
      BY <3>4 DEF CheckInstance, ArgumentsDone, Over, vars
    <3> QED BY <3>1, <3>2, <3>3, <3>4 DEF Next
  <2> QED BY <2>1, <2>2, <2>3, <2>4
<1>2. Init => TypeOK
  BY CallSiteAssumption DEF Init, TypeOK
<1> QED BY <1>1, <1>2, Invariance, PTL DEF Spec

\* A call that is correct is accepted, if no implicit "this" gets in the way:
\* none of the checks of doCall turns it down.
THEOREM CorrectCalls == Spec => []FunctionsCallable
<1> DEFINE Plain == Correct /\ (IsMethod(decl) => decl.params = << >>)
<1>1. ASSUME IInv, FunctionsCallable, [Next]_vars, Plain' PROVE verdict' \in {"checking", "accepted"}
  <2> USE <1>1 DEF IInv
  <2>1. decl' = decl /\ call' = call
    BY DEF Next, vars, CheckHandle, CheckCount, CheckArgument, ArgumentsDone, RemapResult,
           CheckInstance, Over
  <2>2. Plain
    BY <2>1 DEF Correct, Instantiated
  <2>3. verdict \in {"checking", "accepted"}
    BY <2>2 DEF FunctionsCallable
  <2>4. /\ Len(call.regions) = Len(decl.regions) /\ Apart(call.regions)
        /\ call.regions[1] \in call.handles
        /\ Closed(decl.ret, decl.regions)
    BY <2>2 DEF Correct, Apart
  <2>5. CASE CheckHandle \/ CheckCount \/ ArgumentsDone \/ Over \/ UNCHANGED vars
    BY <2>3, <2>4, <2>5 DEF CheckHandle, CheckCount, ArgumentsDone, Over, vars, Stop, Continue
  <2>6. CASE CheckArgument
    <3>1. Len(call.args) = Len(decl.params) /\ i \in 1 .. Len(call.args)
      BY <2>2, <2>6, Regional DEF Correct, CheckArgument, Typed
    <3>2. ArgTypes(decl) = decl.params
      BY <2>2, <3>1 DEF ArgTypes
    <3>3. /\ call.args[i] = Substituted(decl.params[i], call.regions, decl.regions)
          /\ Closed(decl.params[i], decl.regions)
          /\ decl.params[i] \in Type
      BY <2>2, <3>1, Regional DEF Correct, Instantiated
    <3>4. Equals(call.args[i], decl.params[i], RegionsRemap(call.regions, decl.regions)) = "equal"
      BY <2>4, <3>3, Regional, SubstitutedIsEqual
    <3>5. Equals(call.args[i], ArgTypes(decl)[i], remap) = "equal"
      BY <2>6, <3>2, <3>4 DEF Mapped, CheckArgument
    <3> QED BY <2>3, <2>6, <3>5 DEF CheckArgument, Continue, Stop
  <2>7. CASE RemapResult
    <3>1. Remappable(decl.ret, Invert(RegionsRemap(call.regions, decl.regions)))
      BY <2>4, Regional, ClosedIsRemappable
    <3>2. Remappable(decl.ret, Invert(remap))
      BY <2>7, <3>1 DEF Mapped, RemapResult
    <3> QED BY <2>3, <2>7, <3>2 DEF RemapResult, Continue, Stop
  <2>8. CASE CheckInstance
    <3>1. IsMethod(decl)
      BY <2>8 DEF CheckInstance, Methodical
    <3>2. PICK k \in DOMAIN decl.regions : decl.regions[k] = This /\ call.regions[k] = call.instance
      BY <2>2, <3>1 DEF Correct
    <3>3. k \in DOMAIN call.regions
      BY <2>4, Regional
    <3>4. call.instance \in DOMAIN remap /\ remap[call.instance] = This
      BY <2>4, <2>8, <3>2, <3>3, Regional, RemapAtPlace DEF Mapped, CheckInstance
    <3> QED BY <2>8, <3>4 DEF CheckInstance, Stop
  <2> QED BY <2>5, <2>6, <2>7, <2>8 DEF Next
<1>2. ASSUME IInv, FunctionsCallable, [Next]_vars PROVE FunctionsCallable'
  BY <1>1, <1>2 DEF FunctionsCallable
<1>3. Init => FunctionsCallable
  BY DEF Init, FunctionsCallable
<1> HIDE DEF Plain
<1> QED BY <1>2, <1>3, Invariance, PTL DEF Spec

\* For functions the loop of doCall and its one-step reading, which the program
\* model and the other proofs use, give the same verdict and the same type.
THEOREM OneStepCorrect == Spec => []OneStep
<1> DEFINE map == RegionsRemap(call.regions, decl.regions)
           has == call.regions[1] \in call.handles
           off == Unequal(call.args, decl.params, map)
<1>1. ASSUME IInv, OneStep, [Next]_vars, step' = "over", ~IsMethod(decl)'
      PROVE  /\ verdict' = CallVerdict(decl', call'.regions, call'.args,
                                       call'.regions[1] \in call'.handles)
             /\ verdict' = "accepted" => result' = ResultType(decl', call'.regions)
  <2> USE <1>1 DEF IInv
  <2>1. decl' = decl /\ call' = call /\ ~IsMethod(decl)
    BY DEF Next, vars, CheckHandle, CheckCount, CheckArgument, ArgumentsDone, RemapResult,
           CheckInstance, Over, IsMethod
  <2>2. ArgTypes(decl) = decl.params
    BY <2>1 DEF ArgTypes
  <2> SUFFICES /\ verdict' = CallVerdict(decl, call.regions, call.args, has)
               /\ verdict' = "accepted" => result' = ResultType(decl, call.regions)
    BY <2>1
  <2>3. CASE CheckHandle
    BY <2>3 DEF CheckHandle, Stop, Continue, CallVerdict
  <2>4. CASE CheckCount
    BY <2>4 DEF CheckCount, Stop, Continue, CallVerdict
  <2>5. CASE CheckArgument
    <3>1. /\ i \in DOMAIN call.args \cap DOMAIN decl.params
          /\ remap = map /\ has /\ Len(call.regions) = Len(decl.regions)
      BY <2>2, <2>5, Regional DEF CheckArgument, Typed, Mapped, Handled
    <3>2. \A j \in off : i <= j
      BY <2>2, <2>5, <3>1, Regional DEF Unequal, Compared, CheckArgument
    <3>3. /\ Equals(call.args[i], decl.params[i], map) = verdict' \/ verdict' = "rejected"
          /\ verdict' = "rejected" => Equals(call.args[i], decl.params[i], map) = "different"
          /\ verdict' \in {"rejected", "undefined"}
      BY <2>2, <2>5, <3>1 DEF CheckArgument, Stop, Continue
    <3>4. i \in off
      BY <3>1, <3>3 DEF Unequal
    <3>5. (CHOOSE k \in off : \A j \in off : k <= j) = i
      <4>1. \A k \in off : k \in Nat
        BY Regional DEF Unequal
      <4> HIDE DEF off
      <4> QED BY <3>2, <3>4, <4>1
    <3>6. ArgumentVerdict(call.args, decl.params, map) = verdict'
      BY <3>3, <3>5 DEF ArgumentVerdict
    <3> QED BY <3>1, <3>3, <3>4, <3>6 DEF CallVerdict
  <2>6. CASE RemapResult
    <3>1. remap = map /\ has /\ Len(call.regions) = Len(decl.regions)
      BY <2>6 DEF RemapResult, Mapped, Handled
    <3>2. off = {}
      <4>1. ASSUME NEW j \in DOMAIN call.args \cap DOMAIN decl.params
            PROVE  Equals(call.args[j], decl.params[j], map) = "equal"
        <5>1. j \in 1 .. i - 1
          BY <2>2, <2>6, Regional DEF RemapResult, Typed, AllCompared
        <5> QED BY <2>2, <2>6, <3>1, <5>1 DEF RemapResult, Compared
      <4> QED BY <4>1 DEF Unequal
    <3>3. CASE Remappable(decl.ret, Invert(map))
      BY <2>1, <2>6, <3>1, <3>2, <3>3 DEF RemapResult, Stop, CallVerdict, ResultType
    <3>4. CASE ~Remappable(decl.ret, Invert(map))
      BY <2>6, <3>1, <3>2, <3>4 DEF RemapResult, ResultVerdict, Stop, CallVerdict
    <3> QED BY <3>3, <3>4
  <2>7. CASE ArgumentsDone \/ CheckInstance
    BY <2>1, <2>7 DEF ArgumentsDone, CheckInstance, Continue, Methodical
  <2>8. CASE Over \/ UNCHANGED vars
    BY <2>1, <2>8 DEF Over, vars, OneStep
  <2> QED BY <2>3, <2>4, <2>5, <2>6, <2>7, <2>8 DEF Next
<1>2. ASSUME IInv, OneStep, [Next]_vars PROVE OneStep'
  BY <1>1, <1>2 DEF OneStep
<1>3. Init => OneStep
  BY DEF Init, OneStep
<1> QED BY <1>2, <1>3, Invariance, PTL DEF Spec
=============================================================================
