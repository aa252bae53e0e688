------------------------- MODULE RegionTypesProofs -------------------------
(***************************************************************************)
(* Lemmas about the operators of RegionTypes: what equals, the region maps *)
(* and withRemapRegions mean.  CallCheckProofs and ElismSoundness rest on  *)
(* them.                                                                   *)
(***************************************************************************)
EXTENDS RegionTypes, WellFoundedInduction, TLAPS

(***************************************************************************)
(* Least and greatest numbers of a set: CHOOSE in the definitions of       *)
(* RegionTypes picks the first difference or the last place.               *)
(***************************************************************************)

LEMMA LeastNumber ==
  ASSUME NEW T \in SUBSET Nat, T # {}
  PROVE  \E x \in T : \A y \in T : x <= y
<1>1. PICK x \in T : \A y \in T : ~ (<<y, x>> \in OpToRel(<, Nat))
  BY NatLessThanWellFounded, WFMin
<1>2. \A y \in T : ~ (y < x)
  BY <1>1 DEF OpToRel
<1> HIDE <1>1
<1>3. x \in T /\ T \subseteq Nat
  OBVIOUS
<1>4. \A y \in T : x <= y
  BY <1>2, <1>3, SMT
<1> QED BY <1>4

LEMMA GreatestNumber ==
  ASSUME NEW n \in Nat, NEW T \in SUBSET (1 .. n), T # {}
  PROVE  \E x \in T : \A y \in T : x >= y
<1> DEFINE D == {n - t : t \in T}
<1>1. \A t \in T : n - t \in Nat
  OBVIOUS
<1>2. D \in SUBSET Nat /\ D # {}
  BY <1>1
<1> HIDE DEF D
<1>3. PICK x \in D : \A y \in D : x <= y
  BY <1>2, LeastNumber
<1> USE DEF D
<1>4. PICK t \in T : x = n - t
  OBVIOUS
<1>5. \A s \in T : n - t <= n - s
  BY <1>3, <1>4
<1> QED BY <1>5

(***************************************************************************)
(* The region maps.                                                        *)
(***************************************************************************)

\* A map of regions: total on the call's regions, taking each to the region of
\* the declaration in one of its places.
LEMMA RemapPlaces ==
  ASSUME NEW c \in Seq(RegionName), NEW d \in Seq(RegionName), Len(c) = Len(d)
  PROVE  /\ DOMAIN RegionsRemap(c, d) = {c[k] : k \in DOMAIN c}
         /\ \A r \in DOMAIN RegionsRemap(c, d) :
              \E k \in DOMAIN c : c[k] = r /\ RegionsRemap(c, d)[r] = d[k]
<1>1. DOMAIN RegionsRemap(c, d) = {c[k] : k \in DOMAIN c}
  BY DEF RegionsRemap
<1>2. SUFFICES ASSUME NEW r \in {c[k] : k \in DOMAIN c}
               PROVE  \E k \in DOMAIN c : c[k] = r /\ RegionsRemap(c, d)[r] = d[k]
  BY <1>1
<1> DEFINE P(k) == c[k] = r /\ \A j \in DOMAIN c : c[j] = r => k >= j
<1>3. \E k \in DOMAIN c : P(k)
  <2> DEFINE places == {k \in DOMAIN c : c[k] = r}
  <2>1. places \in SUBSET (1 .. Len(c)) /\ places # {} /\ Len(c) \in Nat
    OBVIOUS
  <2>2. \E k \in places : \A j \in places : k >= j
    BY <2>1, GreatestNumber
  <2> QED BY <2>2
<1> DEFINE last == CHOOSE k \in DOMAIN c : P(k)
<1>4. last \in DOMAIN c /\ P(last)
  BY <1>3
<1>5. RegionsRemap(c, d)[r] = d[last]
  BY DEF RegionsRemap
<1> QED BY <1>4, <1>5

\* What it means that the regions of a declaration differ from each other.
Apart(d) == \A j, k \in DOMAIN d : d[j] = d[k] => j = k

\* The inverted map takes a region of the declaration back to the call's
\* region in its place, if it takes it anywhere.
LEMMA InvertPlaces ==
  ASSUME NEW c \in Seq(RegionName), NEW d \in Seq(RegionName), Len(c) = Len(d), Apart(d),
         NEW k \in DOMAIN d, d[k] \in DOMAIN Invert(RegionsRemap(c, d))
  PROVE  Invert(RegionsRemap(c, d))[d[k]] = c[k]
<1> DEFINE map == RegionsRemap(c, d)
           r   == CHOOSE q \in DOMAIN map : map[q] = d[k]
<1>1. Invert(map)[d[k]] = r /\ \E q \in DOMAIN map : map[q] = d[k]
  BY DEF Invert
<1>2. r \in DOMAIN map /\ map[r] = d[k]
  BY <1>1
<1>3. PICK j \in DOMAIN c : c[j] = r /\ map[r] = d[j]
  BY <1>2, RemapPlaces
<1>4. j \in DOMAIN d
  BY <1>3
<1>5. j = k
  BY <1>2, <1>3, <1>4 DEF Apart
<1> QED BY <1>1, <1>3, <1>5

(***************************************************************************)
(* Types.                                                                  *)
(***************************************************************************)

LEMMA InPlaceOfPlace ==
  ASSUME NEW c, NEW d, Apart(d), NEW k \in DOMAIN d
  PROVE  InPlaceOf(d[k], c, d) = c[k]
<1>1. (CHOOSE j \in DOMAIN d : d[j] = d[k]) = k
  BY DEF Apart
<1> QED BY <1>1 DEF InPlaceOf

LEMMA EqualMeans ==
  ASSUME NEW a \in Type, NEW p \in Type, NEW map, Equals(a, p, map) = "equal"
  PROVE  /\ a.base = p.base
         /\ Len(a.regions) = Len(p.regions)
         /\ \A k \in 1 .. Len(a.regions) : SameRegion(a.regions[k], p.regions[k], map)
<1> DEFINE n == Len(a.regions)
<1>1. a.regions \in Seq(RegionName \cup {Global}) /\ p.regions \in Seq(RegionName \cup {Global})
  BY DEF Type
<1>2. Differing(a, p, map) = {} /\ SameShape(a, p)
  <2>1. Differing(a, p, map) = {}
    <3>1. CASE Differing(a, p, map) # {}
      <4> DEFINE first == CHOOSE k \in Differing(a, p, map) : \A j \in Differing(a, p, map) : k <= j
      <4>1. Equals(a, p, map) = IF map # << >> /\ Region(a, first) \notin DOMAIN map
                                THEN "undefined" ELSE "different"
        BY <3>1 DEF Equals
      <4> QED BY <4>1
    <3> QED BY <3>1
  <2>2. Equals(a, p, map) = IF SameShape(a, p) THEN "equal" ELSE "different"
    BY <2>1 DEF Equals
  <2> QED BY <2>1, <2>2
<1>3. a.base = p.base /\ Dimensions(a) = Dimensions(p)
  BY <1>2 DEF SameShape
<1>4. IsClass(a) = IsClass(p)
  BY <1>3 DEF IsClass
<1>5. Len(p.regions) = n /\ n \in Nat
  <2>1. CASE IsClass(a)
    BY <1>1, <1>3, <1>4, <2>1 DEF Dimensions
  <2>2. CASE ~IsClass(a)
    BY <1>1, <1>3, <1>4, <2>2 DEF Dimensions
  <2> QED BY <2>1, <2>2
<1>6. ComparedLevels(a, p) = n
  <2>1. CASE IsClass(a)
    BY <1>1, <1>3, <1>4, <1>5, <2>1 DEF Dimensions, ComparedLevels
  <2>2. CASE ~IsClass(a)
    BY <1>1, <1>3, <1>4, <1>5, <2>2 DEF Dimensions, ComparedLevels
  <2> QED BY <2>1, <2>2
<1>7. ASSUME NEW k \in 1 .. n PROVE SameRegion(a.regions[k], p.regions[k], map)
  <2>1. n + 1 - k \in 1 .. n /\ n + 1 - (n + 1 - k) = k
    BY <1>5
  <2>2. SameRegion(Region(a, n + 1 - k), Region(p, n + 1 - k), map)
    BY <1>2, <1>6, <2>1 DEF Differing
  <2>3. Region(a, n + 1 - k) = a.regions[k] /\ Region(p, n + 1 - k) = p.regions[k]
    BY <1>5, <2>1 DEF Region
  <2> QED BY <2>2, <2>3
<1> QED BY <1>3, <1>5, <1>7

\* A type is determined by its base and its regions.
LEMMA SameTypes ==
  ASSUME NEW a \in Type, NEW b \in Type, a.base = b.base, Len(a.regions) = Len(b.regions),
         \A k \in 1 .. Len(a.regions) : a.regions[k] = b.regions[k]
  PROVE  a = b
<1>1. a = [base |-> a.base, regions |-> a.regions] /\ b = [base |-> b.base, regions |-> b.regions]
  BY DEF Type
<1>2. a.regions = b.regions
  BY DEF Type
<1> QED BY <1>1, <1>2

\* Substitution yields a type with the same base and as many regions.
LEMMA SubstitutedIsType ==
  ASSUME NEW t \in Type, NEW c \in Seq(RegionName), NEW d \in Seq(RegionName), Len(c) = Len(d)
  PROVE  /\ Substituted(t, c, d) \in Type
         /\ Substituted(t, c, d).base = t.base
         /\ Len(Substituted(t, c, d).regions) = Len(t.regions)
         /\ \A k \in 1 .. Len(t.regions) :
              Substituted(t, c, d).regions[k] = InPlaceOf(t.regions[k], c, d)
<1> DEFINE names == RegionName \cup {Global}
           s == [k \in DOMAIN t.regions |-> InPlaceOf(t.regions[k], c, d)]
<1>1. /\ t.regions \in Seq(names) /\ DOMAIN t.regions = 1 .. Len(t.regions)
      /\ Len(t.regions) \in Nat /\ t.base \in Class \cup Scalar
      /\ t = [base |-> t.base, regions |-> t.regions]
  BY DEF Type
<1>2. ASSUME NEW r \in names PROVE InPlaceOf(r, c, d) \in names
  <2>1. CASE r \in {d[j] : j \in DOMAIN d}
    <3>1. PICK k \in DOMAIN d : r = d[k] /\ (CHOOSE j \in DOMAIN d : d[j] = r) = k
      BY <2>1
    <3>2. c[k] \in RegionName
      BY <3>1
    <3> QED BY <2>1, <3>1, <3>2 DEF InPlaceOf
  <2>2. CASE r \notin {d[j] : j \in DOMAIN d}
    BY <2>2 DEF InPlaceOf
  <2> QED BY <2>1, <2>2
<1>3. \A k \in 1 .. Len(t.regions) : t.regions[k] \in names
  BY <1>1
<1>4. s \in [1 .. Len(t.regions) -> names]
  BY <1>1, <1>2, <1>3
<1>5. \A k \in 1 .. Len(t.regions) : s[k] = InPlaceOf(t.regions[k], c, d)
  BY <1>1
<1>6. Substituted(t, c, d) = [t EXCEPT !.regions = s]
  BY DEF Substituted
<1> HIDE DEF s
<1>7. s \in Seq(names) /\ Len(s) = Len(t.regions)
  BY <1>1, <1>4
<1>8. Substituted(t, c, d) = [base |-> t.base, regions |-> s]
  BY <1>1, <1>6
<1>9. Substituted(t, c, d) \in Type
  BY <1>1, <1>7, <1>8 DEF Type
<1> QED BY <1>5, <1>7, <1>8, <1>9

\* The region that substitution puts where place k of the declaration stood.
LEMMA SubstitutedAtPlace ==
  ASSUME NEW t \in Type, NEW c \in Seq(RegionName), NEW d \in Seq(RegionName), Len(c) = Len(d),
         Apart(d), NEW n \in 1 .. Len(t.regions), NEW k \in DOMAIN d, t.regions[n] = d[k]
  PROVE  Substituted(t, c, d).regions[n] = c[k]
BY InPlaceOfPlace, SubstitutedIsType

\* The map of a call is not the empty map, which equals takes to mean one
\* scope.
LEMMA RemapNotEmpty ==
  ASSUME NEW c \in Seq(RegionName), NEW d \in Seq(RegionName), Len(c) = Len(d), Len(c) >= 1
  PROVE  RegionsRemap(c, d) # << >>
<1>1. 1 \in DOMAIN c
  OBVIOUS
<1>2. c[1] \in {c[k] : k \in DOMAIN c}
  BY <1>1
<1>3. DOMAIN RegionsRemap(c, d) # {}
  BY <1>2, RemapPlaces
<1> QED BY <1>3

\* doCall lets an argument pass only if it is the parameter's instance.
LEMMA EqualIsSubstituted ==
  ASSUME NEW a \in Type, NEW p \in Type, NEW c \in Seq(RegionName), NEW d \in Seq(RegionName),
         Len(c) = Len(d), Len(c) >= 1, Apart(d), Equals(a, p, RegionsRemap(c, d)) = "equal"
  PROVE  a = Substituted(p, c, d)
<1> DEFINE map == RegionsRemap(c, d)
<1>1. map # << >>
  BY RemapNotEmpty
<1>2. /\ a.base = p.base /\ Len(a.regions) = Len(p.regions)
      /\ \A n \in 1 .. Len(a.regions) : SameRegion(a.regions[n], p.regions[n], map)
  BY EqualMeans
<1>3. ASSUME NEW n \in 1 .. Len(a.regions)
      PROVE  a.regions[n] = Substituted(p, c, d).regions[n]
  <2>1. a.regions[n] \in DOMAIN map /\ map[a.regions[n]] = p.regions[n]
    BY <1>1, <1>2 DEF SameRegion
  <2>2. PICK k \in DOMAIN c : c[k] = a.regions[n] /\ map[a.regions[n]] = d[k]
    BY <2>1, RemapPlaces
  <2>3. k \in DOMAIN d /\ n \in 1 .. Len(p.regions)
    BY <1>2
  <2> QED BY <2>1, <2>2, <2>3, SubstitutedAtPlace
<1> DEFINE z == Substituted(p, c, d)
<1>4. z \in Type /\ z.base = p.base /\ Len(z.regions) = Len(p.regions)
  BY SubstitutedIsType
<1>5. \A n \in 1 .. Len(a.regions) : a.regions[n] = z.regions[n]
  BY <1>3
<1> HIDE DEF z
<1>6. a = z
  BY <1>2, <1>4, <1>5, SameTypes
<1> QED BY <1>6 DEF z

\* The remapped type of a result is the declared one's instance.
LEMMA ResultIsSubstituted ==
  ASSUME NEW t \in Type, NEW c \in Seq(RegionName), NEW d \in Seq(RegionName),
         Len(c) = Len(d), Apart(d), Remappable(t, Invert(RegionsRemap(c, d)))
  PROVE  WithRemapRegions(t, Invert(RegionsRemap(c, d))) = Substituted(t, c, d)
<1> DEFINE inverse == Invert(RegionsRemap(c, d))
           s == [n \in DOMAIN t.regions |-> inverse[t.regions[n]]]
           z == Substituted(t, c, d)
<1>1. ASSUME NEW n \in 1 .. Len(t.regions) PROVE s[n] = z.regions[n]
  <2>1. n \in DOMAIN t.regions
    BY DEF Type
  <2>2. t.regions[n] \in DOMAIN inverse
    BY <2>1 DEF Remappable
  <2>3. PICK r \in DOMAIN RegionsRemap(c, d) : RegionsRemap(c, d)[r] = t.regions[n]
    BY <2>2 DEF Invert
  <2>4. PICK k \in DOMAIN c : RegionsRemap(c, d)[r] = d[k]
    BY RemapPlaces
  <2>5. k \in DOMAIN d /\ t.regions[n] = d[k]
    BY <2>3, <2>4
  <2>6. inverse[t.regions[n]] = c[k]
    BY <2>2, <2>5, InvertPlaces
  <2>7. z.regions[n] = c[k]
    BY <2>5, SubstitutedAtPlace
  <2> QED BY <2>1, <2>6, <2>7
<1>2. z \in Type /\ z.base = t.base /\ Len(z.regions) = Len(t.regions)
  BY SubstitutedIsType
<1> HIDE DEF z, inverse
<1>3. DOMAIN t.regions = 1 .. Len(t.regions) /\ DOMAIN z.regions = 1 .. Len(t.regions)
      /\ t = [base |-> t.base, regions |-> t.regions] /\ z = [base |-> z.base, regions |-> z.regions]
      /\ z.regions = [n \in DOMAIN z.regions |-> z.regions[n]]
  BY <1>2 DEF Type
<1>4. s = z.regions
  <2>1. s = [n \in 1 .. Len(t.regions) |-> s[n]]
    BY <1>3
  <2> HIDE DEF s
  <2> QED BY <1>1, <1>3, <2>1
<1>5. WithRemapRegions(t, inverse) = [t EXCEPT !.regions = s]
  BY DEF WithRemapRegions
<1> HIDE DEF s
<1>6. WithRemapRegions(t, inverse) = [base |-> t.base, regions |-> s]
  BY <1>3, <1>5
<1> QED BY <1>2, <1>3, <1>4, <1>6 DEF inverse, z

(***************************************************************************)
(* The converse, for calls that name their regions apart.                  *)
(***************************************************************************)

LEMMA RemapAtPlace ==
  ASSUME NEW c \in Seq(RegionName), NEW d \in Seq(RegionName), Len(c) = Len(d), Apart(c),
         NEW k \in DOMAIN c
  PROVE  c[k] \in DOMAIN RegionsRemap(c, d) /\ RegionsRemap(c, d)[c[k]] = d[k]
<1>0. c[k] \in {c[j] : j \in DOMAIN c}
  OBVIOUS
<1>1. c[k] \in DOMAIN RegionsRemap(c, d)
  BY <1>0, RemapPlaces
<1>2. PICK j \in DOMAIN c : c[j] = c[k] /\ RegionsRemap(c, d)[c[k]] = d[j]
  BY <1>1, RemapPlaces
<1>3. j = k
  BY <1>2 DEF Apart
<1> QED BY <1>1, <1>2, <1>3

\* A result of the declaration's own regions can be remapped.
LEMMA ClosedIsRemappable ==
  ASSUME NEW c \in Seq(RegionName), NEW d \in Seq(RegionName), Len(c) = Len(d), Apart(c),
         NEW t \in Type, Closed(t, d)
  PROVE  Remappable(t, Invert(RegionsRemap(c, d)))
<1>1. SUFFICES ASSUME NEW n \in DOMAIN t.regions
               PROVE  t.regions[n] \in DOMAIN Invert(RegionsRemap(c, d))
  BY DEF Remappable
<1>2. PICK k \in DOMAIN d : t.regions[n] = d[k]
  BY DEF Closed
<1>3. k \in DOMAIN c
  OBVIOUS
<1>4. c[k] \in DOMAIN RegionsRemap(c, d) /\ RegionsRemap(c, d)[c[k]] = d[k]
  BY <1>3, RemapAtPlace
<1> QED BY <1>2, <1>4 DEF Invert

\* An argument that is the parameter's instance is let pass.
LEMMA SubstitutedIsEqual ==
  ASSUME NEW p \in Type, NEW c \in Seq(RegionName), NEW d \in Seq(RegionName),
         Len(c) = Len(d), Apart(c), Apart(d), Closed(p, d)
  PROVE  Equals(Substituted(p, c, d), p, RegionsRemap(c, d)) = "equal"
<1> DEFINE z   == Substituted(p, c, d)
           map == RegionsRemap(c, d)
           n   == Len(p.regions)
<1>1. z \in Type /\ z.base = p.base /\ Len(z.regions) = n /\ n \in Nat
  BY SubstitutedIsType DEF Type
<1>2. ASSUME NEW m \in 1 .. n PROVE SameRegion(z.regions[m], p.regions[m], map)
  <2>1. m \in DOMAIN p.regions
    BY DEF Type
  <2>2. PICK k \in DOMAIN d : p.regions[m] = d[k]
    BY <2>1 DEF Closed
  <2>3. k \in DOMAIN c
    OBVIOUS
  <2>4. z.regions[m] = c[k]
    BY <2>2, SubstitutedAtPlace
  <2>5. c[k] \in DOMAIN map /\ map[c[k]] = d[k]
    BY <2>3, RemapAtPlace
  <2>6. map # << >>
    BY <2>5
  <2> QED BY <2>2, <2>4, <2>5, <2>6 DEF SameRegion
<1> HIDE DEF z, map
<1>3. IsClass(z) = IsClass(p) /\ Dimensions(z) = Dimensions(p)
  BY <1>1 DEF IsClass, Dimensions
<1>4. ComparedLevels(z, p) = n
  <2>1. CASE IsClass(p)
    BY <1>1, <1>3, <2>1 DEF Dimensions, ComparedLevels
  <2>2. CASE ~IsClass(p)
    BY <1>1, <1>3, <2>2 DEF Dimensions, ComparedLevels
  <2> QED BY <2>1, <2>2
<1>5. Differing(z, p, map) = {}
  <2>1. ASSUME NEW k \in 1 .. n PROVE SameRegion(Region(z, k), Region(p, k), map)
    <3>1. n + 1 - k \in 1 .. n
      BY <1>1
    <3>2. Region(z, k) = z.regions[n + 1 - k] /\ Region(p, k) = p.regions[n + 1 - k]
      BY <1>1 DEF Region
    <3> QED BY <1>2, <3>1, <3>2
  <2> QED BY <1>4, <2>1 DEF Differing
<1>6. SameShape(z, p)
  BY <1>1, <1>3 DEF SameShape
<1>7. Equals(z, p, map) = "equal"
  BY <1>5, <1>6 DEF Equals
<1> QED BY <1>7 DEF z, map

(***************************************************************************)
(* What a comparison that succeeds says of the regions.                    *)
(***************************************************************************)

\* A parameter that an argument is equal to has the declaration's regions only.
LEMMA EqualIsClosed ==
  ASSUME NEW a \in Type, NEW p \in Type, NEW c \in Seq(RegionName), NEW d \in Seq(RegionName),
         Len(c) = Len(d), Len(c) >= 1, Equals(a, p, RegionsRemap(c, d)) = "equal"
  PROVE  Closed(p, d)
<1> DEFINE map == RegionsRemap(c, d)
<1>1. map # << >>
  BY RemapNotEmpty
<1>2. Len(a.regions) = Len(p.regions) /\ \A n \in 1 .. Len(a.regions) : SameRegion(a.regions[n], p.regions[n], map)
  BY EqualMeans
<1>3. SUFFICES ASSUME NEW n \in DOMAIN p.regions PROVE \E j \in DOMAIN d : p.regions[n] = d[j]
  BY DEF Closed
<1>4. n \in 1 .. Len(a.regions)
  BY <1>2 DEF Type
<1>5. a.regions[n] \in DOMAIN map /\ map[a.regions[n]] = p.regions[n]
  BY <1>1, <1>2, <1>4 DEF SameRegion
<1>6. PICK k \in DOMAIN c : map[a.regions[n]] = d[k]
  BY <1>5, RemapPlaces
<1>7. k \in DOMAIN d
  OBVIOUS
<1> QED BY <1>5, <1>6, <1>7

\* So has a result that can be remapped.
LEMMA RemappableIsClosed ==
  ASSUME NEW t \in Type, NEW c \in Seq(RegionName), NEW d \in Seq(RegionName), Len(c) = Len(d),
         Remappable(t, Invert(RegionsRemap(c, d)))
  PROVE  Closed(t, d)
<1> DEFINE map == RegionsRemap(c, d)
<1>1. SUFFICES ASSUME NEW n \in DOMAIN t.regions PROVE \E j \in DOMAIN d : t.regions[n] = d[j]
  BY DEF Closed
<1>2. PICK r \in DOMAIN map : t.regions[n] = map[r]
  BY DEF Remappable, Invert
<1>3. PICK k \in DOMAIN c : map[r] = d[k]
  BY RemapPlaces
<1>4. k \in DOMAIN d
  OBVIOUS
<1> QED BY <1>2, <1>3, <1>4

\* Within one scope, types are equal when they are the same.
LEMMA AssignableIsSame ==
  ASSUME NEW a \in Type, NEW b \in Type, Assignable(a, b)
  PROVE  a = b
<1>1. a.base = b.base /\ Len(a.regions) = Len(b.regions)
      /\ \A k \in 1 .. Len(a.regions) : SameRegion(a.regions[k], b.regions[k], << >>)
  BY EqualMeans DEF Assignable
<1>2. \A k \in 1 .. Len(a.regions) : a.regions[k] = b.regions[k]
  BY <1>1 DEF SameRegion
<1> QED BY <1>1, <1>2, SameTypes
=============================================================================
