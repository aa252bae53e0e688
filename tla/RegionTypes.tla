---------------------------- MODULE RegionTypes ----------------------------
(***************************************************************************)
(* The types of the language and what the compiler computes with them:     *)
(* CodegenType::equals, withRemapRegions and the tables that doCall builds *)
(* of a call's regions.                                                    *)
(*                                                                         *)
(* A type is the class or integer at its bottom and the regions written    *)
(* after it, from the instance outwards: A @R [] @S is                     *)
(* [base |-> A, regions |-> <<R, S>>] and i64[] @S is                      *)
(* [base |-> i64, regions |-> <<S>>].  The recursion of the code over      *)
(* element types becomes a comparison of levels, the outermost first.      *)
(***************************************************************************)
EXTENDS Integers, Sequences, FiniteSets

CONSTANTS
  RegionName,  \* the names that regions have in programs
  Class,       \* the classes
  Scalar       \* i32, i64, bool and void

\* Region of the types made in the global context, whose defaultRegion is
\* the empty string.
Global == ""

\* Region of the types of a method's class: "this".
This == "this"

ASSUME NameAssumption == Global \notin RegionName /\ Class \cap Scalar = {}

Type == [base : Class \cup Scalar, regions : Seq(RegionName \cup {Global})]

IsClass(t) == t.base \in Class

\* Number of array dimensions.
Dimensions(t) == Len(t.regions) - IF IsClass(t) THEN 1 ELSE 0

IsArray(t) == Dimensions(t) > 0

\* The region at level k, 1 being the outermost.
Region(t, k) == t.regions[Len(t.regions) + 1 - k]

\* ArrayType: elementType and the type of an array with such elements.
ElementType(t) == [t EXCEPT !.regions = SubSeq(@, 1, Len(@) - 1)]
ArrayOf(t, r)  == [t EXCEPT !.regions = Append(@, r)]

(***************************************************************************)
(* equals(self, other, remap).  The outer regions are compared first, then *)
(* the element types, and the first difference decides.  A non-empty remap *)
(* translates the regions of self; for a region it does not hold, the code *)
(* reads through map::end(): "undefined".                                  *)
(***************************************************************************)

\* How many levels have a region on both sides: the common array dimensions,
\* and the instances when both bottoms are reached together.
ComparedLevels(self, other) ==
  IF Dimensions(self) = Dimensions(other) THEN
    Dimensions(self) + IF IsClass(self) /\ IsClass(other) THEN 1 ELSE 0
  ELSE IF Dimensions(self) < Dimensions(other) THEN Dimensions(self)
  ELSE Dimensions(other)

\* An empty map means: the regions of both are names of the same scope.
SameRegion(r, s, remap) ==
  IF remap = << >> THEN r = s ELSE r \in DOMAIN remap /\ remap[r] = s

Differing(self, other, remap) ==
  {k \in 1 .. ComparedLevels(self, other) :
     ~SameRegion(Region(self, k), Region(other, k), remap)}

SameShape(self, other) ==
  Dimensions(self) = Dimensions(other) /\ self.base = other.base

\* Slip: only the outermost region is compared.
Equals_outer(self, other, remap) ==
  IF 1 \notin Differing(self, other, remap)
  THEN IF SameShape(self, other) THEN "equal" ELSE "different"
  ELSE IF remap # << >> /\ Region(self, 1) \notin DOMAIN remap THEN "undefined" ELSE "different"

Equals(self, other, remap) ==
  IF Differing(self, other, remap) = {}
  THEN IF SameShape(self, other) THEN "equal" ELSE "different"
  ELSE LET first == CHOOSE k \in Differing(self, other, remap) :
                      \A j \in Differing(self, other, remap) : k <= j
       IN IF remap # << >> /\ Region(self, first) \notin DOMAIN remap
          THEN "undefined" ELSE "different"

\* What doStore checks: equality within one scope.
Assignable(target, value) == Equals(target, value, << >>) = "equal"

(***************************************************************************)
(* Region maps.                                                            *)
(***************************************************************************)

\* Slip: key and value of the map are exchanged.
RegionsRemap_swapped(call, decl) ==
  [d \in {decl[i] : i \in DOMAIN decl} |-> call[CHOOSE i \in DOMAIN decl : decl[i] = d]]

\* regionsRemap: the call's regions to the declaration's; when the call names
\* a region twice, the later entry overwrites the earlier one.
RegionsRemap(call, decl) ==
  [r \in {call[i] : i \in DOMAIN call} |->
     decl[CHOOSE i \in DOMAIN call : call[i] = r /\ \A j \in DOMAIN call : call[j] = r => i >= j]]

\* Slip: the map is used as it is, not inverted.
Invert_not(map) == map

\* regionsRemapInvert.  Declarations name their regions apart, so no two
\* entries collide.
Invert(map) ==
  [d \in {map[r] : r \in DOMAIN map} |-> CHOOSE r \in DOMAIN map : map[r] = d]

\* withRemapRegions is defined: every region of the type is in the map.
Remappable(t, map) == \A i \in DOMAIN t.regions : t.regions[i] \in DOMAIN map

WithRemapRegions(t, map) ==
  [t EXCEPT !.regions = [i \in DOMAIN t.regions |-> map[t.regions[i]]]]

(***************************************************************************)
(* FunctionType::doCall in one step: what the compiler says of a call with *)
(* these regions and argument types.  CallCheck has it step by step.       *)
(***************************************************************************)

Unequal(args, params, remap) ==
  {i \in DOMAIN args \cap DOMAIN params : Equals(args[i], params[i], remap) # "equal"}

\* An argument differs; when its region is not in the map, undefined.
ArgumentVerdict(args, params, remap) ==
  LET first == CHOOSE i \in Unequal(args, params, remap) :
                 \A j \in Unequal(args, params, remap) : i <= j
  IN IF Equals(args[first], params[first], remap) = "different" THEN "rejected" ELSE "undefined"

\* A region of the result is not in the inverted map: if it is an array's, it is
\* read through map::end(); if it is that of the class at the bottom, the class
\* throws.
ResultVerdict(ret, map) ==
  IF \E k \in 1 .. Dimensions(ret) : Region(ret, k) \notin DOMAIN map THEN "undefined" ELSE "aborted"

CallVerdict(sig, regions, args, hasHandle) ==
  LET remap == RegionsRemap(regions, sig.regions) IN
  IF ~hasHandle \/ Len(regions) # Len(sig.regions) THEN "rejected"
  ELSE IF Unequal(args, sig.params, remap) # {} THEN ArgumentVerdict(args, sig.params, remap)
  ELSE IF ~Remappable(sig.ret, Invert(remap)) THEN ResultVerdict(sig.ret, Invert(remap))
  ELSE "accepted"

\* The type of an accepted call's value.
ResultType(sig, regions) == WithRemapRegions(sig.ret, Invert(RegionsRemap(regions, sig.regions)))

(***************************************************************************)
(* Substitution, which the properties refer to: a type with each region of *)
(* the declaration replaced by the one that the call puts in its place.    *)
(***************************************************************************)

\* What stands in the call where the declaration has the region r.
InPlaceOf(r, callRegions, declRegions) ==
  IF r \in {declRegions[j] : j \in DOMAIN declRegions}
  THEN callRegions[CHOOSE j \in DOMAIN declRegions : declRegions[j] = r]
  ELSE r

Substituted(t, callRegions, declRegions) ==
  [t EXCEPT !.regions =
     [k \in DOMAIN t.regions |-> InPlaceOf(t.regions[k], callRegions, declRegions)]]

\* All regions of the type are the declaration's.
Closed(t, regions) == \A n \in DOMAIN t.regions : \E j \in DOMAIN regions : t.regions[n] = regions[j]
=============================================================================
