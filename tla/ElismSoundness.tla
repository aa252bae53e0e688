--------------------------- MODULE ElismSoundness ---------------------------
(***************************************************************************)
(* Proofs about Elism for disciplined programs: no on-scope reuses a       *)
(* visible name, literals are of one type, functions return their return   *)
(* type, classes have no array field, and no name is used that only a      *)
(* branch of an if which has not been taken declares.  Of what Features    *)
(* lists they may use "lets" only.  What their static types say of regions *)
(* is true, so no name outlives the region of what it refers to.           *)
(***************************************************************************)
EXTENDS ElismProofs

Disciplined == Features \subseteq {"lets"}

(***************************************************************************)
(* The inductive invariant.                                                *)
(***************************************************************************)

\* No region name is bound twice in a frame.
NoShadowing ==
  \A d \in 1 .. Top : \A i, j \in Frame(d) : i # j => DOMAIN stack[i].binds \cap DOMAIN stack[j].binds = {}

\* What a region name means exists, and the on-scopes above are not it.
Scoped ==
  \A d \in 1 .. Top : \A r \in DOMAIN stack[d].binds :
    /\ stack[d].binds[r] \in live
    /\ \A e \in d + 1 .. Top : stack[e].kind = "on" => stack[d].binds[r] # stack[e].region

\* The region of a context is what its default region means.
AtHome == \A d \in 1 .. Top : stack[d].region = Denotes(d, stack[d].defaultRegion)

\* A reference to an instance, or to an array of instances.
RefType == {t \in Type : /\ t.base = A /\ Len(t.regions) \in {1, 2}
                         /\ \A k \in DOMAIN t.regions : t.regions[k] \in RegionName}

\* Seen from context d, h is a region that a name means.
Inhabited(d, h) == h # NoHandle /\ \E r \in RegionName : Denotes(d, r) = h

\* An instance in region h: it has no parts.
Leaf(o, h) == o \in Obj /\ Allocated(o) /\ obj[o].region = h /\ obj[o].elems = << >>

\* What the object o is to a name of type t in context d.
Sound(d, t, o) ==
  /\ t \in RefType
  /\ \A k \in DOMAIN t.regions : Denotes(d, t.regions[k]) # NoHandle
  /\ Allocated(o)
  /\ obj[o].region = Denotes(d, t.regions[Len(t.regions)])
  /\ Len(t.regions) = 1 => obj[o].elems = << >>
  /\ Len(t.regions) = 2 =>
       \A k \in DOMAIN obj[o].elems : Leaf(obj[o].elems[k], Denotes(d, t.regions[1]))

\* What is stored at the address of a let is of the let's type.
SoundAddress(d, t, a) ==
  /\ a.in = "variable" => /\ stack[a.depth].variables[a.name].type = t
                          /\ stack[a.depth].variables[a.name].obj # Unset
  /\ a.in = "object" =>
       /\ Len(t.regions) = 1
       /\ Allocated(a.obj) /\ Inhabited(d, obj[a.obj].region)
       /\ a.index \in DOMAIN obj[a.obj].elems
       /\ Leaf(obj[a.obj].elems[a.index], Denotes(d, t.regions[1]))

\* A name that a branch not taken has declared has no value, and is not used.
SoundValue(d, v) ==
  v.obj # Unset => Sound(d, v.type, v.obj) /\ SoundAddress(d, v.type, v.storeAddress)

SoundVariable(d, v) == v.obj # Unset => Sound(d, v.type, v.obj)

Values(d) == {stack[d].values[n] : n \in DOMAIN stack[d].values}

Variables(d) == {stack[d].variables[n] : n \in DOMAIN stack[d].variables}

SoundContext(d) ==
  /\ \A v \in Values(d) : SoundValue(d, v)
  /\ \A v \in Variables(d) : SoundVariable(d, v)

SoundNames == \A d \in 1 .. Top : SoundContext(d)

\* The caller's type of a result means in the caller what the function's own
\* means in the function.
ResultMeans(d, call, binds) ==
  /\ call.type.base = call.ret.base
  /\ Len(call.type.regions) = Len(call.ret.regions)
  /\ \A k \in DOMAIN call.ret.regions : \A r :
       /\ call.ret.regions[k] \in DOMAIN binds
       /\ r = call.type.regions[k] => Denotes(d, r) = binds[call.ret.regions[k]]

SoundResults ==
  \A d, e \in 1 .. Top : \A call, binds :
    e = d + 1 /\ stack[e].kind = "fn" /\ call = stack[e].call /\ binds = stack[e].binds =>
      ResultMeans(d, call, binds)

SoundInv == NoShadowing /\ Scoped /\ AtHome /\ SoundNames /\ SoundResults

(***************************************************************************)
(* A name means the same region in all contexts of a frame that know it.   *)
(***************************************************************************)
LEMMA DenotesUp ==
  ASSUME TypeInv, NoShadowing, NEW d \in 1 .. Top, NEW e \in Frame(d), NEW r, Denotes(e, r) # NoHandle
  PROVE  Denotes(d, r) = Denotes(e, r)
<1>1. e \in 1 .. Top /\ Frame(e) \subseteq Frame(d)
  BY FrameNested
<1>2. PICK i \in Frame(e) : r \in DOMAIN stack[i].binds /\ Denotes(e, r) = stack[i].binds[r]
  BY <1>1, DenotesBound
<1>3. i \in Frame(d)
  BY <1>1, <1>2
<1>4. Denotes(d, r) # NoHandle
  BY <1>2, <1>3, DenotesBound
<1>5. PICK j \in Frame(d) : r \in DOMAIN stack[j].binds /\ Denotes(d, r) = stack[j].binds[r]
  BY <1>4, DenotesBound
<1>6. i = j
  BY <1>2, <1>3, <1>5 DEF NoShadowing
<1> QED BY <1>2, <1>5, <1>6

\* The region of what a name denotes is one that is known.
LEMMA DenotesNames ==
  ASSUME TypeInv, NEW d \in 1 .. Top, NEW r, Denotes(d, r) # NoHandle
  PROVE  r \in RegionName /\ Denotes(d, r) \in Handle /\ Inhabited(d, Denotes(d, r))
<1>1. PICK i \in Frame(d) : r \in DOMAIN stack[i].binds
  BY DenotesBound
<1>2. i \in 1 .. Top
  BY <1>1, FrameNested
<1>3. r \in RegionName
  BY <1>1, <1>2, StackMeans, ContextMeans
<1>4. Denotes(d, r) \in Handle
  BY DenotesBound
<1> QED BY <1>3, <1>4 DEF Inhabited

LEMMA HandleDenotes ==
  ASSUME TypeInv, NoShadowing, AtHome, Running, NEW r, GetRegionHandle(r) # NoHandle
  PROVE  GetRegionHandle(r) = Denotes(Top, r)
<1>1. PICK i \in Frame(Top) : /\ stack[i].defaultRegion = r /\ GetRegionHandle(r) = stack[i].region
                              /\ i \in 1 .. Top
  BY GetRegionHandleIs
<1>2. GetRegionHandle(r) = Denotes(i, r)
  BY <1>1 DEF AtHome
<1> QED BY <1>1, <1>2, DenotesUp, RunningMeans

LEMMA RefTypeMeans ==
  ASSUME NEW t \in RefType
  PROVE  /\ t \in Type /\ t.base = A /\ Len(t.regions) \in {1, 2} /\ DOMAIN t.regions = 1 .. Len(t.regions)
         /\ \A k \in DOMAIN t.regions : t.regions[k] \in RegionName
         /\ 1 \in DOMAIN t.regions /\ Len(t.regions) \in DOMAIN t.regions
         /\ IsArray(t) <=> Len(t.regions) = 2
<1>1. t \in Type /\ t.base = A /\ Len(t.regions) \in {1, 2}
      /\ \A k \in DOMAIN t.regions : t.regions[k] \in RegionName
  BY DEF RefType
<1>2. DOMAIN t.regions = 1 .. Len(t.regions)
  BY <1>1, LenProperties DEF Type
<1>3. IsClass(t)
  BY <1>1, LanguageAssumption DEF IsClass
<1>4. Dimensions(t) = Len(t.regions) - 1
  BY <1>3 DEF Dimensions
<1>5. IsArray(t) <=> Len(t.regions) = 2
  <2>1. CASE Len(t.regions) = 1
    BY <1>4, <2>1 DEF IsArray
  <2>2. CASE Len(t.regions) = 2
    BY <1>4, <2>2 DEF IsArray
  <2> QED BY <1>1, <2>1, <2>2
<1>6. 1 \in DOMAIN t.regions /\ Len(t.regions) \in DOMAIN t.regions
  <2>1. CASE Len(t.regions) = 1
    BY <1>2, <2>1
  <2>2. CASE Len(t.regions) = 2
    BY <1>2, <2>2
  <2> QED BY <1>1, <2>1, <2>2
<1> QED BY <1>1, <1>2, <1>5, <1>6

LEMMA LeafMeans ==
  ASSUME TypeInv, NEW o, NEW h, Leaf(o, h)
  PROVE  o \in Obj /\ Allocated(o) /\ obj[o].region = h /\ obj[o].elems = << >> /\ DOMAIN obj[o].elems = {}
BY DEF Leaf

LEMMA InhabitedUp ==
  ASSUME TypeInv, NoShadowing, NEW d \in 1 .. Top, NEW e \in Frame(d), NEW h, Inhabited(e, h)
  PROVE  Inhabited(d, h)
<1>1. PICK r \in RegionName : h = Denotes(e, r) /\ h # NoHandle
  BY DEF Inhabited
<1>2. Denotes(d, r) = h
  BY <1>1, DenotesUp
<1> QED BY <1>1, <1>2 DEF Inhabited

LEMMA SoundUp ==
  ASSUME TypeInv, NoShadowing, NEW d \in 1 .. Top, NEW e \in Frame(d), NEW t, NEW o, Sound(e, t, o)
  PROVE  Sound(d, t, o)
<1>1. t \in RefType /\ \A k \in DOMAIN t.regions : Denotes(e, t.regions[k]) # NoHandle
  BY DEF Sound
<1>2. \A k \in DOMAIN t.regions : Denotes(d, t.regions[k]) = Denotes(e, t.regions[k])
  BY <1>1, DenotesUp
<1>3. 1 \in DOMAIN t.regions /\ Len(t.regions) \in DOMAIN t.regions
  BY <1>1, RefTypeMeans
<1> QED BY <1>1, <1>2, <1>3 DEF Sound

LEMMA SoundAddressUp ==
  ASSUME TypeInv, NoShadowing, NEW d \in 1 .. Top, NEW e \in Frame(d), NEW t \in RefType, NEW a,
         SoundAddress(e, t, a), \A k \in DOMAIN t.regions : Denotes(e, t.regions[k]) # NoHandle
  PROVE  SoundAddress(d, t, a)
<1>1. 1 \in DOMAIN t.regions
  BY RefTypeMeans
<1>2. Denotes(d, t.regions[1]) = Denotes(e, t.regions[1])
  BY <1>1, DenotesUp
<1>3. a.in = "object" => Inhabited(d, obj[a.obj].region)
  BY InhabitedUp DEF SoundAddress
<1> QED BY <1>2, <1>3 DEF SoundAddress

\* The element type of an array type.
LEMMA ElementOfArray ==
  ASSUME NEW t \in RefType, Len(t.regions) = 2
  PROVE  ElementType(t) \in RefType /\ ElementType(t).regions[1] = t.regions[1]
         /\ Len(ElementType(t).regions) = 1
<1>1. t \in Type /\ IsArray(t) /\ t.base = A /\ t.regions[1] \in RegionName
  BY RefTypeMeans
<1>2. ElementType(t) \in Type /\ ElementType(t).base = A /\ Len(ElementType(t).regions) = 1
      /\ ElementType(t).regions[1] = t.regions[1]
  <2>1. /\ ElementType(t) \in Type /\ ElementType(t).base = t.base
        /\ Len(ElementType(t).regions) = Len(t.regions) - 1
        /\ \A k \in 1 .. Len(t.regions) - 1 : ElementType(t).regions[k] = t.regions[k]
    BY <1>1, ElementIsType
  <2> QED BY <1>1, <2>1
<1>3. DOMAIN ElementType(t).regions = 1 .. 1
  BY <1>2, LenProperties DEF Type
<1> QED BY <1>1, <1>2, <1>3 DEF RefType

\* The parts of a sound object are sound.
LEMMA SoundParts ==
  ASSUME TypeInv, NEW d \in 1 .. Top, NEW ref, Sound(d, ref.type, ref.obj),
         NEW k \in DOMAIN obj[ref.obj].elems
  PROVE  /\ Len(ref.type.regions) = 2
         /\ PartType(ref) = ElementType(ref.type)
         /\ Sound(d, PartType(ref), obj[ref.obj].elems[k])
         /\ SoundAddress(d, PartType(ref), PartAddress(ref.obj, k))
<1> DEFINE t == ref.type
           p == obj[ref.obj].elems[k]
<1>1. t \in RefType /\ Len(t.regions) \in {1, 2} /\ t.regions[1] \in RegionName /\ 1 \in DOMAIN t.regions
      /\ Len(t.regions) \in DOMAIN t.regions
  BY RefTypeMeans DEF Sound
<1>2. Len(t.regions) = 2
  BY <1>1 DEF Sound
<1>3. PartType(ref) = ElementType(t)
  BY <1>1, <1>2, RefTypeMeans DEF PartType
<1>4. Leaf(p, Denotes(d, t.regions[1])) /\ Denotes(d, t.regions[1]) # NoHandle
  BY <1>1, <1>2 DEF Sound
<1>5. ElementType(t) \in RefType /\ ElementType(t).regions[1] = t.regions[1] /\ Len(ElementType(t).regions) = 1
  BY <1>1, <1>2, ElementOfArray
<1>6. DOMAIN ElementType(t).regions = 1 .. 1
  BY <1>5, RefTypeMeans
<1>7. Sound(d, ElementType(t), p)
  BY <1>4, <1>5, <1>6 DEF Sound, Leaf
<1>8. Allocated(ref.obj) /\ obj[ref.obj].region = Denotes(d, t.regions[Len(t.regions)])
      /\ Denotes(d, t.regions[Len(t.regions)]) # NoHandle
  BY <1>1 DEF Sound
<1>9. Inhabited(d, obj[ref.obj].region)
  BY <1>8, DenotesNames
<1>10. SoundAddress(d, ElementType(t), PartAddress(ref.obj, k))
  BY <1>4, <1>5, <1>8, <1>9 DEF SoundAddress, PartAddress
<1> QED BY <1>2, <1>3, <1>7, <1>10

\* What a statement can name is sound where it is named.
LEMMA GetValueSound ==
  ASSUME Disciplined, TypeInv, NoShadowing, SoundNames, Running, NEW n \in Visible
  PROVE  /\ GetValue(n).obj # Unset
         /\ Sound(Top, GetValue(n).type, GetValue(n).obj)
         /\ SoundAddress(Top, GetValue(n).type, GetValue(n).storeAddress)
<1>0. n \in Known /\ GetValue(n).obj # Unset
  BY DEF Visible, Disciplined
<1>1. PICK d \in Frame(Top) :
        \/ n \in DOMAIN stack[d].variables
           /\ GetValue(n) = Value(stack[d].variables[n].type, stack[d].variables[n].obj, AddressOf(d, n))
        \/ n \in DOMAIN stack[d].values /\ n \notin DOMAIN stack[d].variables
           /\ GetValue(n) = stack[d].values[n]
  BY <1>0, GetValueTyped
<1>2. d \in 1 .. Top /\ SoundContext(d) /\ Top \in 1 .. Top
  BY <1>1, FrameOfTop, RunningMeans DEF SoundNames
<1>3. CASE n \in DOMAIN stack[d].variables
           /\ GetValue(n) = Value(stack[d].variables[n].type, stack[d].variables[n].obj, AddressOf(d, n))
  <2> DEFINE t == stack[d].variables[n].type
             o == stack[d].variables[n].obj
  <2>0. o # Unset
    BY <1>0, <1>3 DEF Value
  <2>1. Sound(d, t, o)
    BY <1>2, <1>3, <2>0 DEF SoundContext, Variables, SoundVariable
  <2>2. Sound(Top, t, o)
    BY <1>2, <2>1, SoundUp
  <2>3. SoundAddress(Top, t, AddressOf(d, n))
    BY <2>0 DEF SoundAddress, AddressOf
  <2> QED BY <1>0, <1>3, <2>2, <2>3 DEF Value
<1>4. CASE n \in DOMAIN stack[d].values /\ GetValue(n) = stack[d].values[n]
  <2> DEFINE v == stack[d].values[n]
  <2>1. Sound(d, v.type, v.obj) /\ SoundAddress(d, v.type, v.storeAddress)
    BY <1>0, <1>2, <1>4 DEF SoundContext, Values, SoundValue
  <2>2. Sound(Top, v.type, v.obj)
    BY <1>2, <2>1, SoundUp
  <2>3. SoundAddress(Top, v.type, v.storeAddress)
    BY <1>2, <2>1, SoundAddressUp DEF Sound
  <2> QED BY <1>0, <1>4, <2>2, <2>3
<1> QED BY <1>1, <1>3, <1>4

\* A disciplined program reads what the name was given.
LEMMA ReadsSound ==
  ASSUME Disciplined, TypeInv, NoShadowing, SoundNames, Running, NEW n \in Visible, NEW ref \in Reads(n)
  PROVE  /\ ref = GetValue(n) /\ ref \in Reference
         /\ Sound(Top, ref.type, ref.obj) /\ SoundAddress(Top, ref.type, ref.storeAddress)
<1>1. GetValue(n).obj # Unset
  BY GetValueSound
<1>2. ref = GetValue(n) /\ ref \in Reference
  BY <1>1, ReadsTyped
<1> QED BY <1>2, GetValueSound

LEMMA ReferenceSound ==
  ASSUME Disciplined, TypeInv, NoShadowing, SoundNames, Running, NEW ref \in References
  PROVE  Sound(Top, ref.type, ref.obj) /\ SoundAddress(Top, ref.type, ref.storeAddress)
<1>1. CASE \E n \in Visible : ref \in Reads(n)
  BY <1>1, ReadsSound
<1>2. CASE \E n \in Visible : \E whole \in Reads(n) : ref \in Parts(whole)
  <2>0. PICK n \in Visible : \E whole \in Reads(n) : ref \in Parts(whole)
    BY <1>2
  <2>1. PICK whole \in Reads(n) : ref \in Parts(whole)
    BY <2>0
  <2>2. Sound(Top, whole.type, whole.obj) /\ Top \in 1 .. Top
    BY ReadsSound, RunningMeans
  <2>3. PICK k \in DOMAIN obj[whole.obj].elems :
          ref = Value(PartType(whole), obj[whole.obj].elems[k], PartAddress(whole.obj, k))
    BY <2>1 DEF Parts
  <2>4. Sound(Top, PartType(whole), obj[whole.obj].elems[k])
        /\ SoundAddress(Top, PartType(whole), PartAddress(whole.obj, k))
    BY <2>2, SoundParts
  <2> QED BY <2>3, <2>4 DEF Value
<1> QED BY <1>1, <1>2 DEF References

(***************************************************************************)
(* What steps leave alone.  A step is mild for a context when objects in   *)
(* the regions that the context knows stay, and an element of an array is  *)
(* at most replaced by an instance of the same region.                     *)
(***************************************************************************)
Mild(d) ==
  \A o \in Obj : Allocated(o) /\ Inhabited(d, obj[o].region) =>
    /\ Allocated(o)' /\ obj'[o].region = obj[o].region
    /\ DOMAIN obj'[o].elems = DOMAIN obj[o].elems
    /\ \A k \in DOMAIN obj[o].elems :
         \E p \in Obj : /\ p = obj'[o].elems[k]
                        /\ \/ p = obj[o].elems[k]
                           \/ \E h : Leaf(obj[o].elems[k], h) /\ Leaf(p, h)

LEMMA EmptyDomain ==
  ASSUME NEW S, NEW s \in Seq(S), DOMAIN s = {}
  PROVE  s = << >>
<1>1. Len(s) \in Nat /\ DOMAIN s = 1 .. Len(s)
  BY LenProperties
<1>2. Len(s) = 0
  BY <1>1
<1> QED BY <1>2, EmptySeq

LEMMA PrimedObject ==
  ASSUME TypeInv', NEW o \in Obj, Allocated(o)'
  PROVE  obj'[o].elems \in Seq(Obj) /\ obj'[o].region \in Handle
<1>1. obj'[o] \in Object
  BY DEF TypeInv, Allocated
<1> QED BY <1>1 DEF Object

LEMMA MildIfApart ==
  ASSUME TypeInv, NEW d, \A o \in Obj : Allocated(o) /\ Inhabited(d, obj[o].region) => obj'[o] = obj[o]
  PROVE  Mild(d)
<1> SUFFICES ASSUME NEW o \in Obj, Allocated(o), Inhabited(d, obj[o].region)
             PROVE  /\ Allocated(o)' /\ obj'[o].region = obj[o].region
                    /\ DOMAIN obj'[o].elems = DOMAIN obj[o].elems
                    /\ \A k \in DOMAIN obj[o].elems :
                         \E p \in Obj : p = obj'[o].elems[k] /\ p = obj[o].elems[k]
  BY DEF Mild
<1>1. obj'[o] = obj[o] /\ Allocated(o)'
  BY DEF Allocated
<1>2. obj[o].elems \in Seq(Obj)
  BY ObjectMeans
<1>3. \A k \in DOMAIN obj[o].elems : obj[o].elems[k] \in Obj
  BY <1>2, ElementOfSeq, LenProperties
<1> QED BY <1>1, <1>3

LEMMA MildIfSame ==
  ASSUME TypeInv, \A o \in Obj : Allocated(o) => obj'[o] = obj[o], NEW d
  PROVE  Mild(d)
BY MildIfApart

LEMMA LeafKept ==
  ASSUME TypeInv, TypeInv', NEW d, Mild(d), NEW o, NEW h, Leaf(o, h), Inhabited(d, h)
  PROVE  Leaf(o, h)'
<1>1. o \in Obj /\ Allocated(o) /\ obj[o].region = h /\ DOMAIN obj[o].elems = {}
  BY LeafMeans
<1>2. Allocated(o)' /\ obj'[o].region = h /\ DOMAIN obj'[o].elems = {}
  BY <1>1 DEF Mild
<1>3. obj'[o].elems = << >>
  <2>1. obj'[o].elems \in Seq(Obj)
    BY <1>1, <1>2, PrimedObject
  <2> QED BY <1>2, <2>1, EmptyDomain
<1> QED BY <1>1, <1>2, <1>3 DEF Leaf

\* What is sound in a context of the lower part of the stack stays so.
LEMMA SoundKept ==
  ASSUME TypeInv, TypeInv', NEW n \in 0 .. Top, SamePrefix(n), NEW d \in 1 .. n, Mild(d),
         NEW t, NEW o \in Obj, Sound(d, t, o)
  PROVE  Sound(d, t, o)'
<1>1. d \in 1 .. Top /\ \A r : Denotes(d, r)' = Denotes(d, r)
  BY PrefixKept, StackMeans
<1>2. /\ t \in RefType /\ Allocated(o) /\ \A k \in DOMAIN t.regions : Denotes(d, t.regions[k]) # NoHandle
      /\ 1 \in DOMAIN t.regions /\ Len(t.regions) \in DOMAIN t.regions /\ Len(t.regions) \in {1, 2}
      /\ obj[o].region = Denotes(d, t.regions[Len(t.regions)])
  BY RefTypeMeans DEF Sound
<1>3. Inhabited(d, obj[o].region) /\ Inhabited(d, Denotes(d, t.regions[1]))
  <2>1. Denotes(d, t.regions[1]) # NoHandle /\ Denotes(d, t.regions[Len(t.regions)]) # NoHandle
    BY <1>2
  <2> QED BY <1>1, <1>2, <2>1, DenotesNames
<1>4. /\ Allocated(o)' /\ obj'[o].region = obj[o].region /\ DOMAIN obj'[o].elems = DOMAIN obj[o].elems
      /\ \A k \in DOMAIN obj[o].elems :
           \E p \in Obj : /\ p = obj'[o].elems[k]
                          /\ \/ p = obj[o].elems[k]
                             \/ \E h : Leaf(obj[o].elems[k], h) /\ Leaf(p, h)
  BY <1>2, <1>3 DEF Mild
<1>5. CASE Len(t.regions) = 1
  <2>1. obj[o].elems = << >>
    BY <1>5 DEF Sound
  <2>2. DOMAIN obj'[o].elems = {}
    BY <1>4, <2>1
  <2>3. obj'[o].elems \in Seq(Obj)
    BY <1>4, PrimedObject
  <2>4. obj'[o].elems = << >>
    BY <2>2, <2>3, EmptyDomain
  <2> QED BY <1>1, <1>2, <1>4, <1>5, <2>4 DEF Sound
<1>6. CASE Len(t.regions) = 2
  <2> DEFINE g == Denotes(d, t.regions[1])
  <2>1. \A k \in DOMAIN obj[o].elems : Leaf(obj[o].elems[k], g)
    BY <1>6 DEF Sound
  <2>2. ASSUME NEW k \in DOMAIN obj'[o].elems, NEW p, p = obj'[o].elems[k]
        PROVE  Leaf(p, g)
    <3>1. Leaf(obj[o].elems[k], g)
      BY <1>4, <2>1
    <3>2. p = obj[o].elems[k] \/ \E h : Leaf(obj[o].elems[k], h) /\ Leaf(p, h)
      BY <1>4, <2>2
    <3>3. ASSUME NEW h, Leaf(obj[o].elems[k], h), Leaf(p, h) PROVE Leaf(p, g)
      BY <3>1, <3>3 DEF Leaf
    <3> QED BY <3>1, <3>2, <3>3
  <2>3. ASSUME NEW k \in DOMAIN obj'[o].elems, NEW p, p = obj'[o].elems[k], NEW h, h = g
        PROVE  Leaf(p, h)'
    <3>1. Leaf(p, h) /\ Inhabited(d, h)
      BY <1>3, <2>2, <2>3
    <3> HIDE DEF g
    <3> QED BY <3>1, LeafKept
  <2>4. ASSUME NEW k \in DOMAIN obj'[o].elems
        PROVE  Leaf(obj[o].elems[k], Denotes(d, t.regions[1]))'
    <3>1. Denotes(d, t.regions[1])' = g
      BY <1>1
    <3> HIDE DEF g
    <3> QED BY <2>3, <3>1 DEF Leaf
  <2>5. \A k \in DOMAIN t.regions : Denotes(d, t.regions[k])' # NoHandle
    BY <1>1, <1>2
  <2>6. obj'[o].region = Denotes(d, t.regions[Len(t.regions)])'
    BY <1>1, <1>2, <1>4
  <2> QED BY <1>2, <1>4, <1>6, <2>4, <2>5, <2>6 DEF Sound
<1> QED BY <1>2, <1>5, <1>6

LEMMA InhabitedKept ==
  ASSUME TypeInv, NEW n \in 0 .. Top, SamePrefix(n), NEW d \in 1 .. n, NEW h
  PROVE  Inhabited(d, h)' <=> Inhabited(d, h)
<1>1. \A r : Denotes(d, r)' = Denotes(d, r)
  BY PrefixKept
<1> QED BY <1>1 DEF Inhabited

\* A variable keeps its type, and has a value if it had one.
VariableKept(i, n) ==
  /\ stack'[i].variables[n].type = stack[i].variables[n].type
  /\ stack[i].variables[n].obj # Unset => stack'[i].variables[n].obj # Unset

\* The address of a let stays good.
LEMMA SoundAddressKept ==
  ASSUME TypeInv, TypeInv', NEW n \in 0 .. Top, SamePrefix(n), NEW d \in 1 .. n, Mild(d),
         NEW t \in RefType, \A k \in DOMAIN t.regions : Denotes(d, t.regions[k]) # NoHandle,
         NEW a, AddressOK(a, d), SoundAddress(d, t, a),
         a.in = "variable" => VariableKept(a.depth, a.name)
  PROVE  SoundAddress(d, t, a)'
<1>1. d \in 1 .. Top /\ \A r : Denotes(d, r)' = Denotes(d, r)
  BY PrefixKept, StackMeans
<1>2. a.in = "variable" => /\ stack'[a.depth].variables[a.name].type = t
                            /\ stack'[a.depth].variables[a.name].obj # Unset
  BY DEF SoundAddress, VariableKept
<1>3. ASSUME a.in = "object"
      PROVE  /\ Len(t.regions) = 1 /\ Allocated(a.obj)' /\ Inhabited(d, obj[a.obj].region)'
             /\ a.index \in DOMAIN obj'[a.obj].elems
             /\ Leaf(obj[a.obj].elems[a.index], Denotes(d, t.regions[1]))'
  <2> DEFINE o == a.obj
             k == a.index
             g == Denotes(d, t.regions[1])
  <2>1. Len(t.regions) = 1 /\ Allocated(o) /\ Inhabited(d, obj[o].region) /\ k \in DOMAIN obj[o].elems
        /\ Leaf(obj[o].elems[k], g)
    BY <1>3 DEF SoundAddress
  <2>2. o \in Obj
    BY <1>3 DEF AddressOK, NoAddress, Unnamed
  <2>3. /\ Allocated(o)' /\ obj'[o].region = obj[o].region /\ DOMAIN obj'[o].elems = DOMAIN obj[o].elems
        /\ \E p \in Obj : /\ p = obj'[o].elems[k]
                          /\ \/ p = obj[o].elems[k]
                             \/ \E h : Leaf(obj[o].elems[k], h) /\ Leaf(p, h)
    BY <2>1, <2>2 DEF Mild
  <2>4. Inhabited(d, g)
    <3>1. 1 \in DOMAIN t.regions
      BY RefTypeMeans
    <3> QED BY <1>1, <3>1, DenotesNames
  <2>5. ASSUME NEW p, p = obj'[o].elems[k], NEW h, h = g PROVE Leaf(p, h)'
    <3>1. Leaf(p, h)
      <4>1. ASSUME NEW b, Leaf(obj[o].elems[k], b), Leaf(p, b) PROVE Leaf(p, h)
        BY <2>1, <2>5, <4>1 DEF Leaf
      <4> QED BY <2>1, <2>3, <2>5, <4>1
    <3> HIDE DEF g
    <3> QED BY <2>4, <2>5, <3>1, LeafKept
  <2>6. Leaf(obj[o].elems[k], Denotes(d, t.regions[1]))'
    <3>1. Denotes(d, t.regions[1])' = g
      BY <1>1
    <3> HIDE DEF g
    <3> QED BY <2>5, <3>1 DEF Leaf
  <2>7. Inhabited(d, obj[o].region)'
    <3>1. \E r \in RegionName : Denotes(d, r) = obj[o].region /\ obj[o].region # NoHandle
      BY <2>1 DEF Inhabited
    <3> QED BY <1>1, <2>3, <3>1 DEF Inhabited
  <2> QED BY <2>1, <2>3, <2>6, <2>7
<1> QED BY <1>2, <1>3 DEF SoundAddress

(***************************************************************************)
(* The regions of the contexts.                                            *)
(***************************************************************************)
Skeleton == NoShadowing /\ Scoped /\ AtHome /\ SoundResults

LEMMA ResultKept ==
  ASSUME NEW d, NEW call, NEW binds, \A r : Denotes(d, r)' = Denotes(d, r), ResultMeans(d, call, binds)
  PROVE  ResultMeans(d, call, binds)'
<1>1. /\ call.type.base = call.ret.base
      /\ Len(call.type.regions) = Len(call.ret.regions)
      /\ \A k \in DOMAIN call.ret.regions : \A r :
           /\ call.ret.regions[k] \in DOMAIN binds
           /\ r = call.type.regions[k] => Denotes(d, r)' = binds[call.ret.regions[k]]
  BY DEF ResultMeans
<1> QED BY <1>1 DEF ResultMeans

\* The lower part of the stack is left.
LEMMA SkeletonKept ==
  ASSUME TypeInv, Skeleton, NEW n \in 0 .. Top, Top' = n, SamePrefix(n),
         \A d \in 1 .. n : \A r \in DOMAIN stack[d].binds : stack[d].binds[r] \in live'
  PROVE  Skeleton'
<1>1. Top \in Nat /\ n \in Nat /\ \A d \in 1 .. n : d \in 1 .. Top /\ d \in Nat
  BY StackMeans
<1>2. \A d \in 1 .. n : /\ stack'[d].kind = stack[d].kind /\ stack'[d].defaultRegion = stack[d].defaultRegion
                        /\ stack'[d].region = stack[d].region /\ stack'[d].binds = stack[d].binds
                        /\ stack'[d].call = stack[d].call
  BY DEF SamePrefix
<1>3. \A d \in 1 .. n : Frame(d)' = Frame(d) /\ Frame(d) \subseteq 1 .. n /\ \A r : Denotes(d, r)' = Denotes(d, r)
  <2> SUFFICES ASSUME NEW d \in 1 .. n
               PROVE  Frame(d)' = Frame(d) /\ Frame(d) \subseteq 1 .. n /\ \A r : Denotes(d, r)' = Denotes(d, r)
    OBVIOUS
  <2>1. Frame(d) \subseteq 1 .. d
    BY <1>1, BaseIs
  <2> QED BY <1>1, <2>1, PrefixKept
<1>4. NoShadowing'
  <2> SUFFICES ASSUME NEW d \in 1 .. n, NEW i \in Frame(d)', NEW j \in Frame(d)', i # j
               PROVE  DOMAIN stack'[i].binds \cap DOMAIN stack'[j].binds = {}
    BY DEF NoShadowing
  <2>1. i \in Frame(d) /\ j \in Frame(d) /\ i \in 1 .. n /\ j \in 1 .. n /\ d \in 1 .. Top
    BY <1>1, <1>3
  <2> QED BY <1>2, <2>1 DEF Skeleton, NoShadowing
<1>5. Scoped'
  <2> SUFFICES ASSUME NEW d \in 1 .. n, NEW r \in DOMAIN stack'[d].binds
               PROVE  /\ stack'[d].binds[r] \in live'
                      /\ \A e \in d + 1 .. n : stack'[e].kind = "on" => stack'[d].binds[r] # stack'[e].region
    BY DEF Scoped
  <2>1. \A e \in d + 1 .. n : e \in 1 .. n /\ e \in d + 1 .. Top
    BY <1>1
  <2> QED BY <1>1, <1>2, <2>1 DEF Skeleton, Scoped
<1>6. AtHome'
  <2> SUFFICES ASSUME NEW d \in 1 .. n, NEW r, r = stack'[d].defaultRegion
               PROVE  stack'[d].region = Denotes(d, r)'
    BY DEF AtHome, Denotes
  <2> QED BY <1>1, <1>2, <1>3 DEF Skeleton, AtHome
<1>7. SoundResults'
  <2> SUFFICES ASSUME NEW d \in 1 .. n, NEW e \in 1 .. n, e = d + 1, stack'[e].kind = "fn",
                      NEW call, call = stack'[e].call, NEW binds, binds = stack'[e].binds
               PROVE  ResultMeans(d, call, binds)'
    BY DEF SoundResults
  <2>1. ResultMeans(d, call, binds)
    BY <1>1, <1>2 DEF Skeleton, SoundResults
  <2>2. \A r : Denotes(d, r)' = Denotes(d, r)
    BY <1>3
  <2> QED BY <2>1, <2>2, ResultKept
<1> QED BY <1>4, <1>5, <1>6, <1>7 DEF Skeleton

\* What a context that is opened sees.
LEMMA FramePushed ==
  ASSUME TypeInv, NEW c, NEW T, T = Top + 1, Top' = T, SamePrefix(Top), stack'[T] = c,
         Top = 0 => c.kind = "fn"
  PROVE  Frame(T)' = IF c.kind = "fn" THEN {T} ELSE Frame(Top) \cup {T}
<1> DEFINE fns == {i \in 1 .. Top : stack[i].kind = "fn"}
           fns2 == {i \in 1 .. T : stack'[i].kind = "fn"}
<1>1. Top \in Nat /\ \A i \in 1 .. Top : stack'[i].kind = stack[i].kind
  BY StackMeans DEF SamePrefix
<1>2. BaseOf(T)' = Latest(fns2)
  BY DEF BaseOf
<1>3. CASE c.kind = "fn"
  <2>1. fns2 \in SUBSET (1 .. T) /\ T \in fns2 /\ T \in Nat
    BY <1>1, <1>3
  <2>2. Latest(fns2) \in fns2 /\ T <= Latest(fns2)
    BY <2>1, LatestIs
  <2>3. Latest(fns2) = T
    BY <2>1, <2>2
  <2>4. Frame(T)' = Latest(fns2) .. T
    BY <1>2 DEF Frame
  <2> QED BY <1>1, <1>3, <2>3, <2>4
<1>4. CASE c.kind # "fn"
  <2>1. fns2 = fns
    BY <1>1, <1>4
  <2>2. BaseOf(T)' = BaseOf(Top)
    BY <1>2, <2>1 DEF BaseOf
  <2>3. Top \in 1 .. Top
    BY <1>1, <1>4
  <2>4. BaseOf(Top) \in 1 .. Top
    BY <2>3, BaseIs
  <2>5. Frame(T)' = BaseOf(Top) .. T
    BY <2>2 DEF Frame
  <2>6. \A b \in 1 .. Top : b .. T = (b .. Top) \cup {T}
    BY <1>1
  <2>7. Frame(Top) = BaseOf(Top) .. Top
    BY DEF Frame
  <2> QED BY <1>4, <2>4, <2>5, <2>6, <2>7
<1> QED BY <1>3, <1>4

LEMMA DenotesPushed ==
  ASSUME TypeInv, NEW c, NEW T, T = Top + 1, Top' = T, SamePrefix(Top), stack'[T] = c,
         Top = 0 => c.kind = "fn"
  PROVE  \A r : Denotes(T, r)' =
           IF r \in DOMAIN c.binds THEN c.binds[r]
           ELSE IF c.kind = "fn" THEN NoHandle ELSE Denotes(Top, r)
<1>1. Top \in Nat /\ T \in Nat /\ \A i \in 1 .. Top : stack'[i].binds = stack[i].binds
  BY StackMeans DEF SamePrefix
<1>2. Frame(T)' = IF c.kind = "fn" THEN {T} ELSE Frame(Top) \cup {T}
  BY FramePushed
<1>3. c.kind # "fn" => Top \in 1 .. Top /\ Frame(Top) \subseteq 1 .. Top
  <2> SUFFICES ASSUME c.kind # "fn" PROVE Top \in 1 .. Top /\ Frame(Top) \subseteq 1 .. Top
    OBVIOUS
  <2>1. Top \in 1 .. Top
    BY <1>1
  <2> QED BY <2>1, BaseIs
<1>4. SUFFICES ASSUME NEW r
               PROVE  Denotes(T, r)' = IF r \in DOMAIN c.binds THEN c.binds[r]
                                       ELSE IF c.kind = "fn" THEN NoHandle ELSE Denotes(Top, r)
  OBVIOUS
<1> DEFINE binders  == {i \in Frame(Top) : r \in DOMAIN stack[i].binds}
           binders2 == {i \in Frame(T)' : r \in DOMAIN stack'[i].binds}
<1>5. Denotes(T, r)' = IF binders2 = {} THEN NoHandle ELSE stack'[Latest(binders2)].binds[r]
  BY DEF Denotes
<1>6. Denotes(Top, r) = IF binders = {} THEN NoHandle ELSE stack[Latest(binders)].binds[r]
  BY DEF Denotes
<1>7. CASE r \in DOMAIN c.binds
  <2>1. binders2 \in SUBSET (1 .. T) /\ T \in binders2
    <3>1. T \in 1 .. T /\ 1 .. Top \subseteq 1 .. T
      BY <1>1
    <3> QED BY <1>2, <1>3, <1>7, <3>1
  <2>2. Latest(binders2) \in binders2 /\ T <= Latest(binders2)
    BY <1>1, <2>1, LatestIs
  <2>3. Latest(binders2) = T
    BY <1>1, <2>1, <2>2
  <2> QED BY <1>5, <1>7, <2>1, <2>3
<1>8. CASE r \notin DOMAIN c.binds /\ c.kind = "fn"
  <2>1. binders2 = {}
    BY <1>2, <1>8
  <2> QED BY <1>5, <1>8, <2>1
<1>9. CASE r \notin DOMAIN c.binds /\ c.kind # "fn"
  <2>1. binders2 = binders /\ binders \in SUBSET (1 .. Top)
    BY <1>1, <1>2, <1>3, <1>9
  <2>2. binders # {} => Latest(binders) \in 1 .. Top
    BY <1>1, <2>1, LatestIs
  <2> HIDE DEF binders, binders2
  <2> QED BY <1>1, <1>5, <1>6, <1>9, <2>1, <2>2
<1> QED BY <1>7, <1>8, <1>9

\* A context is opened that is at home, binds no name of its frame again and,
\* if it has a region of its own, one that no name meant before.
Fits(c) ==
  /\ \A r \in DOMAIN c.binds : c.binds[r] \in live'
  /\ c.kind # "fn" => \A i \in Frame(Top) : DOMAIN stack[i].binds \cap DOMAIN c.binds = {}
  /\ c.kind = "on" => c.region \notin live
  /\ Top > 0 /\ c.kind = "fn" => ResultMeans(Top, c.call, c.binds)

LEMMA SkeletonPushed ==
  ASSUME TypeInv, Skeleton, NEW c, NEW T, T = Top + 1, Top' = T, SamePrefix(Top), stack'[T] = c,
         Top = 0 => c.kind = "fn",
         live \subseteq live', Fits(c),
         NEW home, home = c.defaultRegion, NEW h, h = c.region, h = Denotes(T, home)'
  PROVE  Skeleton'
<1>1. Top \in Nat /\ T \in Nat /\ T \in 1 .. T /\ \A d \in 1 .. T : d \in 1 .. Top \/ d = T
  BY StackMeans
<1>2. \A d \in 1 .. Top : /\ stack'[d].kind = stack[d].kind /\ stack'[d].defaultRegion = stack[d].defaultRegion
                          /\ stack'[d].region = stack[d].region /\ stack'[d].binds = stack[d].binds
                          /\ stack'[d].call = stack[d].call
  BY DEF SamePrefix
<1>3. \A d \in 1 .. Top : Frame(d)' = Frame(d) /\ Frame(d) \subseteq 1 .. Top /\ \A r : Denotes(d, r)' = Denotes(d, r)
  <2> SUFFICES ASSUME NEW d \in 1 .. Top
               PROVE  Frame(d)' = Frame(d) /\ Frame(d) \subseteq 1 .. Top /\ \A r : Denotes(d, r)' = Denotes(d, r)
    OBVIOUS
  <2>1. Frame(d) \subseteq 1 .. d /\ Top \in 0 .. Top
    BY <1>1, BaseIs
  <2> QED BY <1>1, <2>1, PrefixKept
<1>4. Frame(T)' = IF c.kind = "fn" THEN {T} ELSE Frame(Top) \cup {T}
  BY FramePushed
<1>5. c.kind # "fn" => Top \in 1 .. Top
  BY <1>1
<1>6. NoShadowing'
  <2> SUFFICES ASSUME NEW d \in 1 .. T, NEW i \in Frame(d)', NEW j \in Frame(d)', i # j
               PROVE  DOMAIN stack'[i].binds \cap DOMAIN stack'[j].binds = {}
    BY DEF NoShadowing
  <2>1. ASSUME NEW e \in 1 .. Top, i \in Frame(e), j \in Frame(e)
        PROVE  DOMAIN stack'[i].binds \cap DOMAIN stack'[j].binds = {}
    <3>1. i \in 1 .. Top /\ j \in 1 .. Top
      BY <1>3, <2>1
    <3> QED BY <1>2, <2>1, <3>1 DEF Skeleton, NoShadowing
  <2>2. CASE d \in 1 .. Top
    BY <1>3, <2>1, <2>2
  <2>3. CASE d = T /\ c.kind # "fn"
    <3>1. \A m \in Frame(Top) : m \in 1 .. Top /\ stack'[m].binds = stack[m].binds
      BY <1>2, <1>3, <1>5, <2>3
    <3>2. i \in Frame(Top) \cup {T} /\ j \in Frame(Top) \cup {T}
      BY <1>4, <2>3
    <3>3. \A m \in Frame(Top) : DOMAIN stack[m].binds \cap DOMAIN c.binds = {}
      BY <2>3 DEF Fits
    <3> QED BY <1>5, <2>1, <2>3, <3>1, <3>2, <3>3
  <2>4. CASE d = T /\ c.kind = "fn"
    BY <1>4, <2>4
  <2> QED BY <1>1, <2>2, <2>3, <2>4
<1>7. Scoped'
  <2> SUFFICES ASSUME NEW d \in 1 .. T, NEW r \in DOMAIN stack'[d].binds
               PROVE  /\ stack'[d].binds[r] \in live'
                      /\ \A e \in d + 1 .. T : stack'[e].kind = "on" => stack'[d].binds[r] # stack'[e].region
    BY DEF Scoped
  <2>1. CASE d = T
    BY <1>1, <2>1 DEF Fits
  <2>2. CASE d \in 1 .. Top
    <3>1. stack[d].binds[r] \in live /\ stack'[d].binds = stack[d].binds
      BY <1>2, <2>2 DEF Skeleton, Scoped
    <3>2. ASSUME NEW e \in d + 1 .. T, stack'[e].kind = "on"
          PROVE  stack'[d].binds[r] # stack'[e].region
      <4>1. CASE e = T
        BY <3>1, <3>2, <4>1 DEF Fits
      <4>2. CASE e # T
        <5>1. e \in 1 .. Top /\ e \in d + 1 .. Top
          BY <1>1, <2>2, <4>2
        <5> QED BY <1>2, <2>2, <3>2, <5>1 DEF Skeleton, Scoped
      <4> QED BY <4>1, <4>2
    <3> QED BY <3>1, <3>2
  <2> QED BY <1>1, <2>1, <2>2
<1>8. AtHome'
  <2> SUFFICES ASSUME NEW d \in 1 .. T, NEW r, r = stack'[d].defaultRegion
               PROVE  stack'[d].region = Denotes(d, r)'
    BY DEF AtHome, Denotes
  <2>1. CASE d = T
    BY <2>1
  <2>2. CASE d \in 1 .. Top
    BY <1>2, <1>3, <2>2 DEF Skeleton, AtHome
  <2> QED BY <1>1, <2>1, <2>2
<1>9. SoundResults'
  <2> SUFFICES ASSUME NEW d \in 1 .. T, NEW e \in 1 .. T, e = d + 1, stack'[e].kind = "fn",
                      NEW call, call = stack'[e].call, NEW binds, binds = stack'[e].binds
               PROVE  ResultMeans(d, call, binds)'
    BY DEF SoundResults
  <2>1. d \in 1 .. Top /\ \A r : Denotes(d, r)' = Denotes(d, r)
    BY <1>1, <1>3
  <2>2. CASE e = T
    <3>1. Top > 0 /\ d = Top /\ c.kind = "fn" /\ call = c.call /\ binds = c.binds
      BY <1>1, <2>1, <2>2
    <3>2. ResultMeans(d, call, binds)
      BY <3>1 DEF Fits
    <3> QED BY <2>1, <3>2, ResultKept
  <2>3. CASE e \in 1 .. Top
    <3>1. call = stack[e].call /\ stack[e].kind = "fn" /\ binds = stack[e].binds
      BY <1>2, <2>3
    <3>2. ResultMeans(d, call, binds)
      BY <2>1, <2>3, <3>1 DEF Skeleton, SoundResults
    <3> QED BY <2>1, <3>2, ResultKept
  <2> QED BY <1>1, <2>2, <2>3
<1> QED BY <1>6, <1>7, <1>8, <1>9 DEF Skeleton

(***************************************************************************)
(* The names of the contexts.                                              *)
(***************************************************************************)

\* A value that a step keeps, or whose address nothing reads any more.
KeptValue(d, v) ==
  \E w \in Values(d) :
    /\ v.type = w.type /\ v.obj = w.obj
    /\ \/ v.storeAddress = Unnamed
       \/ /\ v.storeAddress = w.storeAddress
          /\ w.storeAddress.in = "variable" => VariableKept(w.storeAddress.depth, w.storeAddress.name)

LEMMA ValueMeans ==
  ASSUME TypeInv, NEW d \in 1 .. Top, NEW v \in Values(d)
  PROVE  v \in ValueSet /\ AddressOK(v.storeAddress, d)
<1>1. PICK m \in DOMAIN stack[d].values : v = stack[d].values[m]
  BY DEF Values
<1> QED BY <1>1, StackMeans, ContextMeans DEF TypeInv, Addressed

LEMMA VariableMeans ==
  ASSUME TypeInv, NEW d \in 1 .. Top, NEW v \in Variables(d)
  PROVE  v \in VariableSet
<1>1. PICK m \in DOMAIN stack[d].variables : v = stack[d].variables[m]
  BY DEF Variables
<1> QED BY <1>1, StackMeans, ContextMeans

\* What is in a context of the lower part of the stack after a step.
LEMMA ContextStep ==
  ASSUME TypeInv, TypeInv', NEW n \in 0 .. Top, SamePrefix(n), NEW d \in 1 .. n, Mild(d), SoundContext(d),
         \A v \in Values(d)' : KeptValue(d, v) \/ SoundValue(d, v)',
         \A v \in Variables(d)' : v \in Variables(d) \/ SoundVariable(d, v)'
  PROVE  SoundContext(d)'
<1>1. d \in 1 .. Top
  BY StackMeans
<1>2. ASSUME NEW v, KeptValue(d, v), v.obj # Unset
      PROVE  SoundValue(d, v)'
  <2>1. PICK w \in Values(d) :
          /\ v.type = w.type /\ v.obj = w.obj
          /\ \/ v.storeAddress = Unnamed
             \/ /\ v.storeAddress = w.storeAddress
                /\ w.storeAddress.in = "variable" => VariableKept(w.storeAddress.depth, w.storeAddress.name)
    BY <1>2 DEF KeptValue
  <2> DEFINE t == w.type
             o == w.obj
             a == w.storeAddress
  <2>2. o \in Obj /\ AddressOK(a, d)
    BY <1>1, <1>2, <2>1, ValueMeans DEF ValueSet
  <2>3. Sound(d, t, o) /\ SoundAddress(d, t, a)
    BY <1>2, <2>1 DEF SoundContext, SoundValue
  <2>4. t \in RefType /\ \A k \in DOMAIN t.regions : Denotes(d, t.regions[k]) # NoHandle
    BY <2>3 DEF Sound
  <2> HIDE DEF t, o, a
  <2>5. Sound(d, t, o)'
    BY <2>2, <2>3, SoundKept
  <2>6. CASE v.storeAddress = Unnamed
    <3>1. \A u : SoundAddress(d, u, Unnamed)'
      BY DEF SoundAddress, Unnamed
    <3> QED BY <2>1, <2>5, <2>6, <3>1 DEF SoundValue, t, o
  <2>7. CASE v.storeAddress = a /\ (a.in = "variable" => VariableKept(a.depth, a.name))
    <3>1. SoundAddress(d, t, a)'
      BY <2>2, <2>3, <2>4, <2>7, SoundAddressKept
    <3> QED BY <2>1, <2>5, <2>7, <3>1 DEF SoundValue, t, o
  <2> QED BY <2>1, <2>6, <2>7 DEF a
<1>3. ASSUME NEW v \in Variables(d), v.obj # Unset
      PROVE  SoundVariable(d, v)'
  <2>1. v.obj \in Obj /\ Sound(d, v.type, v.obj)
    BY <1>1, <1>3, VariableMeans DEF VariableSet, SoundContext, SoundVariable
  <2>2. ASSUME NEW t, NEW o, t = v.type, o = v.obj PROVE Sound(d, t, o)'
    BY <2>1, <2>2, SoundKept
  <2> QED BY <2>2 DEF SoundVariable
<1>4. \A v : v.obj = Unset => SoundValue(d, v)' /\ SoundVariable(d, v)'
  BY DEF SoundValue, SoundVariable
<1> QED BY <1>2, <1>3, <1>4 DEF SoundContext

\* The variables of these contexts are kept.
TypesKept(d) == \A i \in 1 .. d : \A n \in DOMAIN stack[i].variables : VariableKept(i, n)

LEMMA AddressTypeKept ==
  ASSUME TypeInv, NEW d \in 1 .. Top, TypesKept(d), NEW a, AddressOK(a, d), a.in = "variable"
  PROVE  VariableKept(a.depth, a.name)
<1>1. a.depth \in Frame(d) /\ a.name \in DOMAIN stack[a.depth].variables
  BY DEF AddressOK, NoAddress, Unnamed
<1>2. a.depth \in 1 .. d
  BY <1>1, BaseIs
<1> QED BY <1>1, <1>2 DEF TypesKept

\* A context whose values stay.
LEMMA ContextKept ==
  ASSUME TypeInv, TypeInv', NEW n \in 0 .. Top, SamePrefix(n), NEW d \in 1 .. n, Mild(d), SoundContext(d),
         TypesKept(d), stack'[d].values = stack[d].values,
         \A v \in Variables(d)' : v \in Variables(d) \/ SoundVariable(d, v)'
  PROVE  SoundContext(d)'
<1>1. d \in 1 .. Top
  BY StackMeans
<1>2. ASSUME NEW v \in Values(d)'
      PROVE  KeptValue(d, v)
  <2>1. v \in Values(d)
    BY DEF Values
  <2>2. AddressOK(v.storeAddress, d)
    BY <1>1, <2>1, ValueMeans
  <2>3. v.storeAddress.in = "variable" => VariableKept(v.storeAddress.depth, v.storeAddress.name)
    BY <1>1, <2>2, AddressTypeKept
  <2> QED BY <2>1, <2>3 DEF KeptValue
<1> QED BY <1>2, ContextStep

\* Contexts that stay as they are.
LEMMA ContextsSame ==
  ASSUME TypeInv, TypeInv', NEW n \in 0 .. Top, SamePrefix(n), NEW d \in 1 .. n, Mild(d), SoundContext(d),
         \A i \in 1 .. d : stack'[i] = stack[i]
  PROVE  SoundContext(d)'
<1>1. d \in Nat /\ d \in 1 .. d
  BY StackMeans
<1>2. TypesKept(d) /\ stack'[d].values = stack[d].values /\ Variables(d)' = Variables(d)
  BY <1>1 DEF TypesKept, VariableKept, Variables
<1> QED BY <1>2, ContextKept

\* The context that declares a name.
LEMMA BoundContext ==
  ASSUME TypeInv, TypeInv', NEW n \in 0 .. Top, SamePrefix(n), NEW d \in 1 .. n, Mild(d), SoundContext(d),
         NEW m \in Name, NEW how \in {"let", "var"}, NEW ref \in ValueSet,
         stack'[d] = Bound(d, how, m, ref), \A i \in 1 .. d - 1 : stack'[i] = stack[i],
         ref.obj # Unset => /\ Sound(d, ref.type, ref.obj)'
                            /\ how = "let" => SoundAddress(d, ref.type, ref.storeAddress)'
  PROVE  SoundContext(d)'
<1>1. d \in 1 .. Top /\ d \in Nat /\ \A i \in 1 .. d : i = d \/ i \in 1 .. d - 1
  BY StackMeans
<1> DEFINE c == stack[d]
           c2 == stack'[d]
<1>2. /\ how = "let" => /\ c2.variables = c.variables
                        /\ c2.values = Put(c.values, m, [ref EXCEPT !.storeAddress = Kept(@)])
      /\ how = "var" => /\ c2.variables = Put(c.variables, m, [type |-> ref.type, obj |-> ref.obj])
                        /\ c2.values = [k \in DOMAIN c.values |->
                               IF c.values[k].storeAddress = AddressOf(d, m)
                               THEN [c.values[k] EXCEPT !.storeAddress = Unnamed]
                               ELSE c.values[k]]
  BY <1>1, BoundMeans
<1>3. ASSUME NEW v \in Variables(d)'
      PROVE  v \in Variables(d) \/ SoundVariable(d, v)'
  <2>1. PICK k \in DOMAIN c2.variables : v = c2.variables[k]
    BY DEF Variables
  <2>2. CASE how = "let"
    BY <1>2, <2>1, <2>2 DEF Variables
  <2>3. CASE how = "var" /\ k # m
    BY <1>2, <2>1, <2>3 DEF Variables, Put
  <2>4. CASE how = "var" /\ k = m
    <3>1. v = [type |-> ref.type, obj |-> ref.obj]
      BY <1>2, <2>1, <2>4 DEF Put
    <3> QED BY <3>1 DEF SoundVariable
  <2> QED BY <2>2, <2>3, <2>4
<1>4. ASSUME NEW w \in Values(d), NEW a, a = w.storeAddress, a.in = "variable", how = "let" \/ a # AddressOf(d, m)
      PROVE  VariableKept(a.depth, a.name)
  <2>1. w \in ValueSet /\ AddressOK(a, d)
    BY <1>1, <1>4, ValueMeans
  <2>2. a.depth \in Frame(d)
    BY <1>4, <2>1 DEF AddressOK, NoAddress, Unnamed
  <2>3. a.depth \in 1 .. d
    BY <1>1, <2>2, BaseIs
  <2>4. a = AddressOf(a.depth, a.name)
    <3>1. a \in [in : {"variable"}, depth : Nat, name : Name]
      BY <1>4, <2>1 DEF ValueSet, Address, NoAddress, Unnamed
    <3> QED BY <3>1 DEF AddressOf
  <2>5. CASE a.depth # d
    BY <1>1, <2>3, <2>5 DEF VariableKept
  <2>6. CASE a.depth = d /\ how = "let"
    BY <1>2, <2>6 DEF VariableKept
  <2>7. CASE a.depth = d /\ how = "var"
    <3>1. a.name # m
      BY <1>4, <2>4, <2>7
    <3>2. a.name \in DOMAIN stack[d].variables
      BY <1>4, <2>1, <2>7 DEF AddressOK, NoAddress, Unnamed
    <3> QED BY <1>2, <2>7, <3>1, <3>2 DEF Put, VariableKept
  <2> QED BY <2>5, <2>6, <2>7
<1>5. ASSUME NEW v \in Values(d)'
      PROVE  KeptValue(d, v) \/ SoundValue(d, v)'
  <2>1. PICK k \in DOMAIN c2.values : v = c2.values[k]
    BY DEF Values
  <2>2. CASE how = "let" /\ k = m
    <3>1. v = [ref EXCEPT !.storeAddress = Kept(@)]
      BY <1>2, <2>1, <2>2 DEF Put
    <3>2. /\ v.type = ref.type /\ v.obj = ref.obj
          /\ v.storeAddress = ref.storeAddress \/ v.storeAddress = NoAddress
      BY <3>1 DEF ValueSet, Kept
    <3>3. \A t : SoundAddress(d, t, NoAddress)'
      BY DEF SoundAddress, NoAddress
    <3> QED BY <2>2, <3>2, <3>3 DEF SoundValue
  <2>3. CASE how = "let" /\ k # m
    <3>1. k \in DOMAIN c.values /\ v = c.values[k]
      BY <1>2, <2>1, <2>3 DEF Put
    <3>2. v \in Values(d)
      BY <3>1 DEF Values
    <3> QED BY <1>4, <2>3, <3>2 DEF KeptValue
  <2>4. CASE how = "var"
    <3> DEFINE w == c.values[k]
    <3>1. k \in DOMAIN c.values /\ w \in Values(d)
      BY <1>2, <2>1, <2>4 DEF Values
    <3>2. w \in ValueSet
      BY <1>1, <3>1, ValueMeans
    <3>3. CASE w.storeAddress = AddressOf(d, m)
      <4>1. v = [w EXCEPT !.storeAddress = Unnamed]
        BY <1>2, <2>1, <2>4, <3>1, <3>3
      <4>2. v.type = w.type /\ v.obj = w.obj /\ v.storeAddress = Unnamed
        BY <3>2, <4>1 DEF ValueSet
      <4> QED BY <3>1, <4>2 DEF KeptValue
    <3>4. CASE w.storeAddress # AddressOf(d, m)
      <4>1. v = w
        BY <1>2, <2>1, <2>4, <3>1, <3>4
      <4> QED BY <1>4, <3>1, <3>4, <4>1 DEF KeptValue
    <3> QED BY <3>3, <3>4
  <2> QED BY <2>2, <2>3, <2>4
<1> QED BY <1>3, <1>5, ContextStep

(***************************************************************************)
(* Declarations.                                                           *)
(***************************************************************************)
LEMMA SoundParted ==
  ASSUME SoundInv
  PROVE  Skeleton /\ NoShadowing /\ AtHome /\ SoundNames /\ \A d \in 1 .. Top : SoundContext(d)
BY DEF SoundInv, Skeleton, SoundNames

LEMMA BindSound ==
  ASSUME TypeInv, TypeInv', SoundInv, Running, NEW m \in Name, NEW how \in {"let", "var"},
         NEW ref \in ValueSet, AddressOK(ref.storeAddress, Top), Declare(m, how, ref), live' = live,
         \A d \in 1 .. Top : Mild(d), NEW T, T = Top,
         ref.obj # Unset => /\ Sound(T, ref.type, ref.obj)'
                            /\ how = "let" => SoundAddress(T, ref.type, ref.storeAddress)'
  PROVE  SoundInv'
<1>1. T \in Nat /\ T \in 1 .. T /\ T \in 0 .. T
  BY RunningMeans
<1>2. stack' = [stack EXCEPT ![T] = Bound(T, how, m, ref)]
  BY DEF Declare
<1>3. Top' = T /\ SamePrefix(T)
  BY <1>1, <1>2, BindStep
<1>4. stack'[T] = Bound(T, how, m, ref) /\ \A i \in 1 .. T - 1 : stack'[i] = stack[i]
  BY <1>1, <1>2, StackMeans
<1>5. Skeleton /\ \A d \in 1 .. T : SoundContext(d) /\ Mild(d)
  BY SoundParted
<1>6. Skeleton'
  <2>1. \A d \in 1 .. T : \A r \in DOMAIN stack[d].binds : stack[d].binds[r] \in live'
    BY <1>5 DEF Skeleton, Scoped
  <2> QED BY <1>1, <1>3, <1>5, <2>1, SkeletonKept
<1>7. ASSUME NEW d \in 1 .. T
      PROVE  SoundContext(d)'
  <2>1. CASE d = T
    BY <1>1, <1>3, <1>4, <1>5, <2>1, BoundContext
  <2>2. CASE d # T
    <3>1. d \in 1 .. T /\ \A i \in 1 .. d : stack'[i] = stack[i]
      BY <1>1, <1>4, <2>2
    <3> QED BY <1>1, <1>3, <1>5, <3>1, ContextsSame
  <2> QED BY <2>1, <2>2
<1> QED BY <1>3, <1>6, <1>7 DEF SoundInv, Skeleton, SoundNames

LEMMA SoundSame ==
  ASSUME TypeInv, TypeInv', SoundInv, stack' = stack, obj' = obj, live' = live
  PROVE  SoundInv'
<1>1. Top' = Top
  BY DEF Top
<1>2. PICK T : T = Top
  OBVIOUS
<1>3. T \in Nat /\ T \in 0 .. T /\ SamePrefix(T)
  BY <1>2, StackMeans DEF SamePrefix
<1>4. Skeleton /\ \A d \in 1 .. T : SoundContext(d) /\ Mild(d)
  BY <1>2, SoundParted, MildIfSame
<1>5. Skeleton'
  <2>1. \A d \in 1 .. T : \A r \in DOMAIN stack[d].binds : stack[d].binds[r] \in live'
    BY <1>2, <1>4 DEF Skeleton, Scoped
  <2> QED BY <1>1, <1>2, <1>3, <1>4, <2>1, SkeletonKept
<1>6. \A d \in 1 .. T : SoundContext(d)'
  BY <1>2, <1>3, <1>4, ContextsSame
<1> QED BY <1>1, <1>2, <1>5, <1>6 DEF SoundInv, Skeleton, SoundNames

LEMMA DeclareReferenceSound ==
  ASSUME Disciplined, TypeInv, SoundInv, NEW n \in Name, NEW how \in {"let", "var"}, NEW ref \in References,
         DeclareReference(n, how, ref)
  PROVE  SoundInv'
<1>1. Running /\ Declare(n, how, ref) /\ obj' = obj /\ live' = live
  BY DEF DeclareReference
<1>2. ref \in ValueSet /\ ref.obj \in Obj /\ AddressOK(ref.storeAddress, Top)
  BY <1>1, ReferencesTyped, ReferenceIsValue
<1>3. TypeInv' /\ SamePrefix(Top)
  BY DeclareReferenceStep DEF Same
<1>4. PICK T : T = Top
  OBVIOUS
<1>5. T \in Nat /\ T \in 1 .. T /\ T \in 0 .. T
  BY <1>1, <1>4, RunningMeans
<1>6. \A d \in 1 .. T : Mild(d)
  BY <1>1, MildIfSame
<1>7. Sound(T, ref.type, ref.obj) /\ SoundAddress(T, ref.type, ref.storeAddress)
  BY <1>1, <1>4, SoundParted, ReferenceSound
<1>8. ASSUME NEW t, NEW o, NEW a, t = ref.type, o = ref.obj, a = ref.storeAddress
      PROVE  Sound(T, t, o)' /\ (how = "let" => SoundAddress(T, t, a)')
  <2>1. o \in Obj
    BY <1>2, <1>8
  <2>2. Sound(T, t, o)'
    BY <1>3, <1>4, <1>5, <1>6, <1>7, <1>8, <2>1, SoundKept
  <2>3. ASSUME how = "let"
        PROVE  SoundAddress(T, t, a)'
    <3>1. stack'[T] = Bound(T, how, n, ref) /\ \A i \in 1 .. T - 1 : stack'[i] = stack[i]
      BY <1>1, <1>4, <1>5, StackMeans DEF Declare
    <3>2. stack'[T].variables = stack[T].variables
      <4>1. ref \in ValueSet /\ T \in 1 .. Top /\ how \in {"let", "var"}
        BY <1>2, <1>4, <1>5
      <4>2. Bound(T, how, n, ref).variables = stack[T].variables
        BY <2>3, <4>1, BoundMeans
      <4> QED BY <3>1, <4>2
    <3>3. TypesKept(T)
      BY <1>5, <3>1, <3>2 DEF TypesKept, VariableKept
    <3>4. a.in = "variable" => VariableKept(a.depth, a.name)
      BY <1>2, <1>4, <1>5, <1>8, <3>3, AddressTypeKept
    <3>5. t \in RefType /\ \A k \in DOMAIN t.regions : Denotes(T, t.regions[k]) # NoHandle
      BY <1>7, <1>8 DEF Sound
    <3> QED BY <1>2, <1>3, <1>4, <1>5, <1>6, <1>7, <1>8, <3>4, <3>5, SoundAddressKept
  <2> QED BY <2>2, <2>3
<1> QED BY <1>1, <1>2, <1>3, <1>4, <1>6, <1>8, BindSound

\* A name for an object that the statement makes.
LEMMA BindNewSound ==
  ASSUME TypeInv, TypeInv', SoundInv, Running, NEW n \in Name, NEW how \in {"let", "var"},
         NEW t \in Type, NEW o \in Obj \cup {Unset}, Declare(n, how, Value(t, o, NoAddress)), live' = live,
         \A p \in Obj : Allocated(p) => obj'[p] = obj[p],
         NEW T, T = Top, o # Unset => Sound(T, t, o)'
  PROVE  SoundInv'
<1> DEFINE ref == Value(t, o, NoAddress)
<1>1. ref \in ValueSet /\ ref.type = t /\ ref.obj = o /\ ref.storeAddress = NoAddress
  BY DEF Value, ValueSet, Address
<1>2. AddressOK(NoAddress, Top) /\ \A u : SoundAddress(T, u, NoAddress)'
  BY DEF AddressOK, SoundAddress, NoAddress
<1>3. \A d \in 1 .. Top : Mild(d)
  BY MildIfSame
<1> HIDE DEF ref
<1>4. Declare(n, how, ref)
  BY DEF ref
<1> QED BY <1>1, <1>2, <1>3, <1>4, BindSound

LEMMA DeclareInstanceSound ==
  ASSUME Disciplined, TypeInv, SoundInv, NEW n \in Name, NEW how \in {"let", "var"},
         NEW r \in KnownRegions, NEW o \in Fresh, DeclareInstance(n, how, r, o)
  PROVE  SoundInv'
<1> DEFINE h == GetRegionHandle(r)
           t == Instance(r)
<1>1. TypeInv' /\ Running
  BY DeclareInstanceStep
<1>2. CASE UNCHANGED <<stack, obj, live>>
  BY <1>1, <1>2, SoundSame
<1>3. CASE h # NoHandle /\ Declare(n, how, Value(t, o, NoAddress)) /\ live' = live
           /\ obj' = [obj EXCEPT ![o] = [region |-> h, elems |-> << >>]]
  <2>1. PICK T : T = Top
    OBVIOUS
  <2>2. r \in RegionName /\ h = Denotes(T, r) /\ o \in Obj /\ ~Allocated(o)
    BY <1>1, <1>3, <2>1, KnownMeans, HandleDenotes, SoundParted DEF Fresh
  <2>3. t \in Type /\ t.base = A /\ t.regions = <<r>> /\ t \in RefType
    <3>1. t \in Type /\ t.base = A /\ t.regions = <<r>>
      BY <2>2, LanguageAssumption DEF Instance, Type
    <3> QED BY <2>2, <3>1 DEF RefType
  <2>4. obj'[o] = [region |-> h, elems |-> << >>] /\ \A p \in Obj : Allocated(p) => obj'[p] = obj[p]
    BY <1>3, <2>2 DEF TypeInv
  <2>5. Allocated(o)' /\ obj'[o].region = h /\ obj'[o].elems = << >>
    <3>1. [region |-> h, elems |-> << >>] \in [region : Handle, elems : Seq(Obj)]
      BY <1>1, <1>3, GetRegionHandleIs
    <3> HIDE DEF h
    <3>2. obj'[o] # NotAllocated
      BY <2>4, <3>1, SentinelAssumption
    <3> QED BY <2>4, <3>2 DEF Allocated
  <2>6. Sound(T, t, o)'
    <3>1. Same
      BY <1>1, <1>3, <2>2, <2>3, DeclareNewStep
    <3>2. Denotes(T, r)' = Denotes(T, r)
      BY <1>1, <2>1, <3>1, PrefixKept, RunningMeans DEF Same
    <3>3. ASSUME NEW u, u = t PROVE Sound(T, u, o)'
      <4>1. u \in RefType /\ Len(u.regions) = 1 /\ DOMAIN u.regions = {1} /\ u.regions[1] = r
        BY <2>3, <3>3
      <4>2. \A k \in DOMAIN u.regions : Denotes(T, u.regions[k])' # NoHandle
        BY <1>3, <2>2, <3>2, <4>1
      <4>3. obj'[o].region = Denotes(T, u.regions[Len(u.regions)])'
        BY <2>2, <2>5, <3>2, <4>1
      <4> QED BY <2>5, <4>1, <4>2, <4>3 DEF Sound
    <3> HIDE DEF t
    <3> QED BY <3>3
  <2> HIDE DEF t
  <2> QED BY <1>1, <1>3, <2>1, <2>2, <2>3, <2>4, <2>6, BindNewSound
<1> QED
  <2>1. "fields" \notin Features
    BY DEF Disciplined
  <2> QED BY <1>2, <1>3, <2>1 DEF DeclareInstance, Refuse

\* A name that a branch not taken declares hides one and is not used.
LEMMA DeclareSkippedSound ==
  ASSUME TypeInv, SoundInv, NEW n \in Name, NEW how \in {"let", "var"}, NEW t \in SkippedTypes(how),
         DeclareSkipped(n, how, t)
  PROVE  SoundInv'
<1>1. /\ TypeInv' /\ Running /\ Declare(n, how, Value(t, Unset, NoAddress))
      /\ UNCHANGED <<obj, live, outcome>>
  BY DeclareSkippedStep DEF DeclareSkipped
<1>2. t \in Type
  BY <1>1, SkippedTypesTyped
<1>3. PICK T, o : T = Top /\ o = Unset
  OBVIOUS
<1> QED BY <1>1, <1>2, <1>3, BindNewSound

LEMMA DeclareArraySound ==
  ASSUME Disciplined, TypeInv, SoundInv, NEW n \in Name, NEW how \in {"let", "var"},
         NEW len \in 1 .. MaxElements, NEW refs \in [1 .. len -> References], NEW o \in Fresh,
         DeclareArray(n, how, refs, o)
  PROVE  SoundInv'
<1>1. TypeInv' /\ Running /\ Same /\ live' = live
  BY DeclareArrayStep
<1>2. PICK T : T = Top
  OBVIOUS
<1>3. T \in Nat /\ T \in 1 .. T /\ T \in 0 .. T /\ stack[T] \in Context /\ SamePrefix(T)
  BY <1>1, <1>2, RunningMeans DEF Same
<1>4. 1 \in 1 .. len
  BY BoundAssumption
<1>5. PICK r \in RegionName : refs[1].type = Instance(r)
  BY DEF DeclareArray
<1>6. \A k \in 1 .. len : refs[k] \in References /\ refs[k].type = Instance(r)
  BY <1>5 DEF DeclareArray, Disciplined
<1> DEFINE es == [k \in DOMAIN refs |-> refs[k].obj]
<1>a. PICK dr, h, g : dr = stack[T].defaultRegion /\ h = stack[T].region /\ g = Denotes(T, r)
  OBVIOUS
<1>b. PICK t : t = ArrayOf(Instance(r), dr)
  OBVIOUS
<1>7. dr \in RegionName /\ h \in Handle /\ h = Denotes(T, dr)
  BY <1>2, <1>3, <1>a, ContextMeans, SoundParted DEF AtHome
<1>8. /\ t \in Type /\ t.base = A /\ Len(t.regions) = 2 /\ DOMAIN t.regions = {1, 2}
      /\ t.regions[1] = r /\ t.regions[2] = dr /\ t \in RefType
  <2>1. Instance(r) \in Type /\ Instance(r).base = A /\ Instance(r).regions = <<r>>
    BY LanguageAssumption DEF Instance, Type
  <2>2. t \in Type /\ t.base = A /\ t.regions = Append(<<r>>, dr)
    BY <1>7, <1>b, <2>1, ArrayIsType
  <2>3. Len(t.regions) = 2 /\ t.regions[1] = r /\ t.regions[2] = dr
    <3>1. <<r>> \in Seq(RegionName) /\ Len(<<r>>) = 1 /\ <<r>>[1] = r
      OBVIOUS
    <3>2. /\ Len(Append(<<r>>, dr)) = 2 /\ Append(<<r>>, dr)[2] = dr
          /\ \A k \in 1 .. 1 : Append(<<r>>, dr)[k] = <<r>>[k]
      BY <1>7, <3>1, AppendProperties
    <3> QED BY <2>2, <3>1, <3>2
  <2>4. DOMAIN t.regions = {1, 2}
    <3>1. DOMAIN t.regions = 1 .. 2
      BY <2>2, <2>3, LenProperties DEF Type
    <3> QED BY <3>1
  <2> QED BY <1>7, <2>2, <2>3, <2>4 DEF RefType
<1>9. \A k \in 1 .. len : Leaf(refs[k].obj, g) /\ g # NoHandle
  <2> SUFFICES ASSUME NEW k \in 1 .. len PROVE Leaf(refs[k].obj, g) /\ g # NoHandle
    OBVIOUS
  <2>1. Sound(T, Instance(r), refs[k].obj)
    BY <1>1, <1>2, <1>6, ReferenceSound, SoundParted
  <2>2. refs[k].obj \in Obj
    BY <1>1, <1>6, ReferencesTyped, ReferenceIsValue
  <2>3. Instance(r).regions = <<r>>
    BY DEF Instance
  <2> QED BY <1>a, <2>1, <2>2, <2>3 DEF Sound, Leaf
<1>10. o \in Obj /\ ~Allocated(o) /\ Declare(n, how, Value(t, o, NoAddress))
       /\ obj' = [obj EXCEPT ![o] = [region |-> h, elems |-> es]]
  BY <1>2, <1>5, <1>a, <1>b DEF Fresh, DeclareArray
<1>11. obj'[o] = [region |-> h, elems |-> es] /\ \A p \in Obj : Allocated(p) => obj'[p] = obj[p]
  BY <1>10 DEF TypeInv
<1>12. \A d : Mild(d)
  BY <1>11, MildIfSame
<1>13. Allocated(o)' /\ obj'[o].region = h /\ obj'[o].elems = es
  <2>1. es \in Seq(Obj)
    <3>1. DOMAIN refs = 1 .. len /\ \A k \in 1 .. len : refs[k].obj \in Obj
      BY <1>1, <1>6, ReferencesTyped, ReferenceIsValue
    <3> QED BY <3>1, BoundAssumption
  <2> HIDE DEF es
  <2>2. [region |-> h, elems |-> es] \in [region : Handle, elems : Seq(Obj)]
    BY <1>7, <2>1
  <2>3. obj'[o] # NotAllocated
    BY <1>11, <2>2, SentinelAssumption
  <2> QED BY <1>11, <2>3 DEF Allocated
<1>14. \A k \in 1 .. len : \A p, i : p = refs[k].obj /\ i = g => Leaf(p, i)'
  <2> SUFFICES ASSUME NEW k \in 1 .. len, NEW p, NEW i, p = refs[k].obj, i = g PROVE Leaf(p, i)'
    OBVIOUS
  <2>1. Leaf(p, i) /\ Inhabited(T, i)
    BY <1>2, <1>3, <1>9, <1>a, DenotesNames
  <2> QED BY <1>1, <1>12, <2>1, LeafKept
<1>15. Sound(T, t, o)'
  <2>1. \A s : Denotes(T, s)' = Denotes(T, s)
    BY <1>2, <1>3, PrefixKept
  <2> HIDE DEF es
  <2>3. \A k \in DOMAIN t.regions : Denotes(T, t.regions[k])' # NoHandle
    BY <1>4, <1>7, <1>8, <1>9, <1>a, <2>1, SentinelAssumption
  <2>4. obj'[o].region = Denotes(T, t.regions[Len(t.regions)])'
    BY <1>7, <1>8, <1>13, <2>1
  <2>5. ASSUME NEW k \in DOMAIN obj'[o].elems
        PROVE  Leaf(obj[o].elems[k], Denotes(T, t.regions[1]))'
    <3>1. k \in 1 .. len /\ obj'[o].elems[k] = refs[k].obj
      BY <1>13, <2>5 DEF es
    <3>2. Denotes(T, t.regions[1])' = g
      BY <1>8, <1>a, <2>1
    <3> QED BY <1>14, <3>1, <3>2 DEF Leaf
  <2> QED BY <1>8, <1>13, <2>3, <2>4, <2>5 DEF Sound
<1> QED BY <1>1, <1>2, <1>8, <1>10, <1>11, <1>15, BindNewSound

(***************************************************************************)
(* Stores.                                                                 *)
(***************************************************************************)

\* What a context below knows by name it sees as its frame's top does.
LEMMA SoundDown ==
  ASSUME TypeInv, NoShadowing, NEW d \in 1 .. Top, NEW e \in Frame(d), NEW t, NEW o, NEW q,
         Sound(d, t, o), Sound(e, t, q)
  PROVE  Sound(e, t, o)
<1>1. t \in RefType /\ \A k \in DOMAIN t.regions : Denotes(e, t.regions[k]) # NoHandle
  BY DEF Sound
<1>2. \A k \in DOMAIN t.regions : Denotes(d, t.regions[k]) = Denotes(e, t.regions[k])
  BY <1>1, DenotesUp
<1>3. 1 \in DOMAIN t.regions /\ Len(t.regions) \in DOMAIN t.regions
  BY <1>1, RefTypeMeans
<1> QED BY <1>1, <1>2, <1>3 DEF Sound

\* A variable is given another object.
LEMMA VariableStoreSound ==
  ASSUME TypeInv, TypeInv', SoundInv, Running, NEW e \in Frame(Top), NEW n \in DOMAIN stack[e].variables,
         NEW o \in Obj, stack' = [stack EXCEPT ![e].variables[n].obj = o], obj' = obj, live' = live,
         NEW t, t = stack[e].variables[n].type, stack[e].variables[n].obj # Unset, Sound(Top, t, o)
  PROVE  SoundInv'
<1>1. PICK T : T = Top
  OBVIOUS
<1>2. T \in Nat /\ T \in 1 .. T /\ T \in 0 .. T /\ e \in 1 .. T
  BY <1>1, RunningMeans, FrameOfTop
<1>3. Top' = T /\ SamePrefix(T)
  BY <1>1, <1>2, VariableStep
<1>4. \A d \in 1 .. T : SoundContext(d) /\ Mild(d) /\ stack[d] \in Context
  BY <1>1, SoundParted, MildIfSame, StackMeans
<1>5. Skeleton'
  <2>1. Skeleton /\ \A d \in 1 .. T : \A r \in DOMAIN stack[d].binds : stack[d].binds[r] \in live'
    BY <1>1, SoundParted DEF Skeleton, Scoped
  <2> QED BY <1>1, <1>2, <1>3, <2>1, SkeletonKept
<1> DEFINE c == stack[e]
           x == c.variables[n]
<1>6. /\ \A d \in 1 .. T : d # e => stack'[d] = stack[d]
      /\ stack'[e] = [c EXCEPT !.variables = [c.variables EXCEPT ![n] = [x EXCEPT !.obj = o]]]
  BY <1>1, <1>2, StackMeans
<1>7. /\ stack'[e].values = c.values
      /\ stack'[e].variables = [c.variables EXCEPT ![n] = [x EXCEPT !.obj = o]]
  <2>1. c = [kind |-> c.kind, defaultRegion |-> c.defaultRegion, region |-> c.region, binds |-> c.binds,
             values |-> c.values, variables |-> c.variables, call |-> c.call]
    BY <1>2, <1>4, ContextMeans
  <2> HIDE DEF c
  <2> QED BY <1>6, <2>1
<1>8. [x EXCEPT !.obj = o] = [type |-> t, obj |-> o]
  <2>1. x \in VariableSet
    BY <1>2, <1>4, ContextMeans
  <2> QED BY <2>1 DEF VariableSet
<1>9. Sound(e, t, o)
  <2>1. Sound(e, t, x.obj)
    BY <1>2, <1>4 DEF SoundContext, SoundVariable, Variables
  <2> QED BY <1>1, <1>2, <2>1, SoundDown, SoundParted
<1>10. Sound(e, t, o)'
  BY <1>1, <1>2, <1>3, <1>4, <1>9, SoundKept
<1>11. ASSUME NEW d \in 1 .. T
       PROVE  SoundContext(d)'
  <2>1. TypesKept(d)
    <3> SUFFICES ASSUME NEW i \in 1 .. d, NEW m \in DOMAIN stack[i].variables
                 PROVE  VariableKept(i, m)
      BY DEF TypesKept
    <3>1. i \in 1 .. T
      BY <1>2
    <3>2. CASE i # e
      BY <1>6, <3>1, <3>2 DEF VariableKept
    <3>3. CASE i = e /\ m # n
      BY <1>7, <3>3 DEF VariableKept
    <3>4. CASE i = e /\ m = n
      BY <1>7, <1>8, <3>4, SentinelAssumption DEF VariableKept
    <3> QED BY <3>2, <3>3, <3>4
  <2>2. stack'[d].values = stack[d].values
    BY <1>6, <1>7
  <2>3. ASSUME NEW v \in Variables(d)'
        PROVE  v \in Variables(d) \/ SoundVariable(d, v)'
    <3>1. PICK m \in DOMAIN stack'[d].variables : v = stack'[d].variables[m]
      BY DEF Variables
    <3>2. CASE d # e
      BY <1>6, <3>1, <3>2 DEF Variables
    <3>3. CASE d = e /\ m # n
      BY <1>7, <3>1, <3>3 DEF Variables
    <3>4. CASE d = e /\ m = n
      <4>1. v.type = t /\ v.obj = o
        BY <1>7, <1>8, <3>1, <3>4
      <4> QED BY <1>10, <3>4, <4>1 DEF SoundVariable
    <3> QED BY <3>2, <3>3, <3>4
  <2> QED BY <1>1, <1>2, <1>3, <1>4, <2>1, <2>2, <2>3, ContextKept
<1> QED BY <1>3, <1>5, <1>11 DEF SoundInv, Skeleton, SoundNames

\* An element that is an instance is replaced by an instance of its region.
LEMMA ElementStoreSound ==
  ASSUME TypeInv, TypeInv', SoundInv, NEW b \in Obj, Allocated(b), NEW k \in DOMAIN obj[b].elems,
         NEW g, Leaf(obj[b].elems[k], g), NEW p, Leaf(p, g),
         obj' = [obj EXCEPT ![b].elems[k] = p], stack' = stack, live' = live
  PROVE  SoundInv'
<1>1. PICK T : T = Top
  OBVIOUS
<1>2. T \in Nat /\ T \in 0 .. T /\ SamePrefix(T) /\ Top' = T
  BY <1>1, StackMeans DEF SamePrefix, Top
<1>3. obj[b] \in Object /\ obj[b].elems \in Seq(Obj) /\ p \in Obj
  BY ObjectMeans DEF Leaf
<1>4. /\ \A o \in Obj : o # b => obj'[o] = obj[o]
      /\ obj'[b] = [obj[b] EXCEPT !.elems = [obj[b].elems EXCEPT ![k] = p]]
  BY DEF TypeInv
<1>5. /\ obj'[b].region = obj[b].region
      /\ obj'[b].elems = [obj[b].elems EXCEPT ![k] = p]
  BY <1>3, <1>4 DEF Object
<1>6. Allocated(b)'
  <2>1. [obj[b].elems EXCEPT ![k] = p] \in Seq(Obj)
    BY <1>3, ExceptSeq
  <2> DEFINE es == [obj[b].elems EXCEPT ![k] = p]
  <2>2. obj'[b] \in [region : Handle, elems : Seq(Obj)]
    <3>1. obj[b].region \in Handle /\ obj'[b] = [obj[b] EXCEPT !.elems = es] /\ es \in Seq(Obj)
      BY <1>3, <1>4, <2>1 DEF Object
    <3>2. obj[b] = [region |-> obj[b].region, elems |-> obj[b].elems]
      BY <1>3 DEF Object
    <3> HIDE DEF es
    <3>3. obj'[b] = [region |-> obj[b].region, elems |-> es]
      BY <3>1, <3>2
    <3> QED BY <3>1, <3>3
  <2>3. obj'[b] # NotAllocated
    BY <2>2, SentinelAssumption
  <2> QED BY <2>3 DEF Allocated
<1>7. ASSUME NEW d PROVE Mild(d)
  <2> SUFFICES ASSUME NEW o \in Obj, Allocated(o)
               PROVE  /\ Allocated(o)' /\ obj'[o].region = obj[o].region
                      /\ DOMAIN obj'[o].elems = DOMAIN obj[o].elems
                      /\ \A m \in DOMAIN obj[o].elems :
                           \E q \in Obj : /\ q = obj'[o].elems[m]
                                          /\ \/ q = obj[o].elems[m]
                                             \/ \E h : Leaf(obj[o].elems[m], h) /\ Leaf(q, h)
    BY DEF Mild
  <2>1. \A m \in DOMAIN obj[o].elems : obj[o].elems[m] \in Obj
    BY ObjectMeans, ElementOfSeq, LenProperties
  <2>2. CASE o # b
    BY <1>4, <2>1, <2>2 DEF Allocated
  <2>3. CASE o = b
    <3>1. DOMAIN obj'[o].elems = DOMAIN obj[o].elems
      BY <1>5, <2>3
    <3>2. ASSUME NEW m \in DOMAIN obj[o].elems
          PROVE  \E q \in Obj : /\ q = obj'[o].elems[m]
                                /\ \/ q = obj[o].elems[m]
                                   \/ \E h : Leaf(obj[o].elems[m], h) /\ Leaf(q, h)
      <4>1. CASE m = k
        BY <1>3, <1>5, <2>3, <4>1
      <4>2. CASE m # k
        BY <1>5, <2>1, <2>3, <4>2
      <4> QED BY <4>1, <4>2
    <3> QED BY <1>5, <1>6, <2>3, <3>1, <3>2
  <2> QED BY <2>2, <2>3
<1>8. Skeleton /\ \A d \in 1 .. T : SoundContext(d)
  BY <1>1, SoundParted
<1>9. Skeleton'
  <2>1. \A d \in 1 .. T : \A r \in DOMAIN stack[d].binds : stack[d].binds[r] \in live'
    BY <1>1, <1>8 DEF Skeleton, Scoped
  <2> QED BY <1>1, <1>2, <1>8, <2>1, SkeletonKept
<1>10. \A d \in 1 .. T : SoundContext(d)'
  BY <1>1, <1>2, <1>7, <1>8, ContextsSame
<1> QED BY <1>2, <1>9, <1>10 DEF SoundInv, Skeleton, SoundNames

LEMMA StoreAtSound ==
  ASSUME TypeInv, TypeInv', SoundInv, Running, NEW a, AddressOK(a, Top), NEW ref \in Reference,
         Sound(Top, ref.type, ref.obj), SoundAddress(Top, ref.type, a), StoreAt(a, ref)
  PROVE  SoundInv'
<1>1. ref.obj \in Obj
  BY ReferenceIsValue
<1>2. CASE /\ a.in = "variable"
           /\ stack' = [stack EXCEPT ![a.depth].variables[a.name].obj = ref.obj]
           /\ UNCHANGED <<obj, live, outcome>>
  <2>1. a.depth \in Frame(Top) /\ a.name \in DOMAIN stack[a.depth].variables
    BY <1>2 DEF AddressOK, NoAddress, Unnamed
  <2>2. /\ stack[a.depth].variables[a.name].type = ref.type
        /\ stack[a.depth].variables[a.name].obj # Unset
    BY <1>2 DEF SoundAddress
  <2> QED BY <1>1, <1>2, <2>1, <2>2, VariableStoreSound
<1>3. CASE /\ a.in = "object"
           /\ obj' = [obj EXCEPT ![a.obj].elems[a.index] = ref.obj]
           /\ UNCHANGED <<stack, live, outcome>>
  <2>1. a.obj \in Obj
    BY <1>3 DEF AddressOK, NoAddress, Unnamed
  <2>2. /\ Len(ref.type.regions) = 1 /\ Allocated(a.obj) /\ a.index \in DOMAIN obj[a.obj].elems
        /\ Leaf(obj[a.obj].elems[a.index], Denotes(Top, ref.type.regions[1]))
    BY <1>3 DEF SoundAddress
  <2>3. Leaf(ref.obj, Denotes(Top, ref.type.regions[1]))
    BY <1>1, <2>2 DEF Sound, Leaf
  <2> QED BY <1>3, <2>1, <2>2, <2>3, ElementStoreSound
<1>4. CASE UNCHANGED vars
  BY <1>4, SoundSame DEF vars
<1> QED BY <1>2, <1>3, <1>4 DEF StoreAt

LEMMA RefuseSound ==
  ASSUME TypeInv, TypeInv', SoundInv, NEW why, Refuse(why)
  PROVE  SoundInv'
BY SoundSame DEF Refuse

LEMMA AssignSound ==
  ASSUME Disciplined, TypeInv, SoundInv, NEW n \in Visible, NEW ref \in References, Assign(n, ref)
  PROVE  SoundInv'
<1> DEFINE target == GetValue(n)
<1>1. TypeInv' /\ Running
  BY AssignStep
<1>2. target \in ValueSet /\ AddressOK(target.storeAddress, Top) /\ ref \in Reference /\ ref.type \in Type
  BY <1>1, GetValueTyped, ReferencesTyped, ReferenceIsValue DEF Visible
<1>3. Sound(Top, ref.type, ref.obj) /\ SoundAddress(Top, target.type, target.storeAddress)
  BY <1>1, SoundParted, GetValueSound, ReferenceSound
<1>4. CASE Assignable(target.type, ref.type) /\ StoreAt(target.storeAddress, ref)
  <2>1. target.type = ref.type
    BY <1>2, <1>4, AssignableIsSame DEF ValueSet
  <2> HIDE DEF target
  <2> QED BY <1>1, <1>2, <1>3, <1>4, <2>1, StoreAtSound
<1>5. CASE \E why : Refuse(why)
  BY <1>1, <1>5, RefuseSound
<1> QED BY <1>4, <1>5 DEF Assign

LEMMA StorePartSound ==
  ASSUME Disciplined, TypeInv, SoundInv, NEW n \in Visible, NEW k, NEW ref \in References,
         StorePart(n, k, ref)
  PROVE  SoundInv'
<1>0. PICK target \in Reads(n) :
        /\ Allocated(target.obj) /\ k \in DOMAIN obj[target.obj].elems
        /\ IF Assignable(PartType(target), ref.type)
           THEN StoreAt(PartAddress(target.obj, k), ref)
           ELSE Refuse("rejected")
  BY DEF StorePart
<1>1. TypeInv' /\ Running /\ Top \in 1 .. Top
  <2>1. TypeInv' /\ Running
    BY StorePartStep
  <2> QED BY <2>1, RunningMeans
<1>2. target \in Reference /\ ref \in Reference
  BY <1>1, ReadsTyped, ReferencesTyped
<1>3. Sound(Top, ref.type, ref.obj) /\ Sound(Top, target.type, target.obj)
  BY <1>1, SoundParted, ReadsSound, ReferenceSound
<1>4. Allocated(target.obj) /\ k \in DOMAIN obj[target.obj].elems
  BY <1>0
<1>5. CASE Assignable(PartType(target), ref.type) /\ StoreAt(PartAddress(target.obj, k), ref)
  <2>1. /\ SoundAddress(Top, PartType(target), PartAddress(target.obj, k))
        /\ Sound(Top, PartType(target), obj[target.obj].elems[k])
    BY <1>1, <1>2, <1>3, <1>4, SoundParts
  <2>2. PartType(target) \in Type /\ ref.type \in Type
    BY <1>2, <2>1, RefTypeMeans, ReferenceIsValue DEF Sound
  <2>3. PartType(target) = ref.type
    BY <1>5, <2>2, AssignableIsSame
  <2>4. AddressOK(PartAddress(target.obj, k), Top)
    BY <1>2, <1>4, PartTyped
  <2> QED BY <1>1, <1>2, <1>3, <1>5, <2>1, <2>3, <2>4, StoreAtSound
<1>6. CASE \E why : Refuse(why)
  BY <1>1, <1>6, RefuseSound
<1> QED BY <1>0, <1>5, <1>6

(***************************************************************************)
(* Contexts that are opened.                                               *)
(***************************************************************************)
LEMMA PushSound ==
  ASSUME TypeInv, TypeInv', SoundInv, NEW c \in Context, stack' = Append(stack, c),
         stack = << >> => c.kind = "fn", stack # << >> /\ c.kind = "fn" => c.call \in CallSet,
         \A m \in DOMAIN c.values : c.values[m].storeAddress = NoAddress, c.variables = << >>,
         live \subseteq live', obj' = obj, Fits(c),
         NEW T, T = Top + 1, NEW home, home = c.defaultRegion, NEW h, h = c.region, h = Denotes(T, home)',
         \A m \in DOMAIN c.values : \A v : v = c.values[m] => Sound(T, v.type, v.obj)'
  PROVE  SoundInv'
<1>1. Top \in Nat /\ (stack = << >> <=> Top = 0)
  BY StackMeans
<1>2. Top' = T /\ SamePrefix(Top) /\ stack'[T] = c /\ \A i \in 1 .. Top : stack'[i] = stack[i]
  BY PushStep
<1>3. Skeleton'
  BY <1>1, <1>2, SoundParted, SkeletonPushed
<1>4. ASSUME NEW d \in 1 .. T
      PROVE  SoundContext(d)'
  <2>1. CASE d = T
    <3>1. \A t : SoundAddress(T, t, NoAddress)'
      BY DEF SoundAddress, NoAddress
    <3>2. ASSUME NEW v \in Values(T)' PROVE SoundValue(T, v)'
      <4>1. PICK m \in DOMAIN c.values : v = c.values[m]
        BY <1>2, <3>2 DEF Values
      <4> QED BY <3>1, <4>1 DEF SoundValue
    <3>3. Variables(T)' = {}
      BY <1>2 DEF Variables
    <3> QED BY <2>1, <3>2, <3>3 DEF SoundContext
  <2>2. CASE d # T
    <3>0. d \in 1 .. Top /\ d \in Nat /\ Top \in 0 .. Top
      BY <1>1, <2>2
    <3>1. \A i \in 1 .. d : stack'[i] = stack[i]
      <4>1. \A i \in 1 .. d : i \in 1 .. Top
        BY <1>1, <3>0
      <4> QED BY <1>2, <4>1
    <3>2. SoundContext(d) /\ Mild(d)
      BY <3>0, SoundParted, MildIfSame
    <3> QED BY <1>2, <3>0, <3>1, <3>2, ContextsSame
  <2> QED BY <2>1, <2>2
<1> QED BY <1>2, <1>3, <1>4 DEF SoundInv, Skeleton, SoundNames

LEMMA StartSound ==
  ASSUME TypeInv, SoundInv, NEW h \in Handle, Start(h)
  PROVE  SoundInv'
<1>1. PICK c : c = FunctionContext(MainSignature, h, [r \in {MainRegion} |-> h], << >>, NoCall)
  OBVIOUS
<1>2. stack = << >> /\ live' = live \cup {h} /\ stack' = <<c>> /\ obj' = obj /\ Top = 0
  BY <1>1 DEF Start, Top
<1>3. c = [kind |-> "fn", defaultRegion |-> MainRegion, region |-> h, binds |-> [r \in {MainRegion} |-> h],
           values |-> << >>, variables |-> << >>, call |-> NoCall]
  BY <1>1 DEF FunctionContext, MainSignature
<1>4. [r \in {MainRegion} |-> h] \in Partial(RegionName, Handle) /\ MainRegion \in RegionName
  <2>1. {MainRegion} \in SUBSET RegionName /\ [r \in {MainRegion} |-> h] \in [{MainRegion} -> Handle]
    BY LanguageAssumption
  <2> QED BY <2>1, MakePartial
<1>5. /\ c \in Context /\ c.kind = "fn" /\ c.region = h /\ c.defaultRegion = MainRegion
      /\ DOMAIN c.values = {} /\ c.variables = << >>
      /\ DOMAIN c.binds = {MainRegion} /\ c.binds[MainRegion] = h
  BY <1>3, <1>4, EmptyPartial DEF Context
<1>6. stack' = Append(stack, c)
  BY <1>2
<1>7. TypeInv'
  BY StartStep
<1>8. Fits(c)
  BY <1>2, <1>5 DEF Fits
<1>9. PICK T, home : T = Top + 1 /\ home = MainRegion
  OBVIOUS
<1>10. Top' = T /\ SamePrefix(Top) /\ stack'[T] = c
  BY <1>2, <1>5, <1>6, <1>9, PushStep
<1>11. Denotes(T, home)' = h
  BY <1>2, <1>5, <1>9, <1>10, DenotesPushed
<1> QED BY <1>2, <1>5, <1>6, <1>7, <1>8, <1>9, <1>11, PushSound

LEMMA EnterOnSound ==
  ASSUME Disciplined, TypeInv, SoundInv, NEW r \in OnRegion, NEW h \in Handle, EnterOn(r, h)
  PROVE  SoundInv'
<1>1. PICK c : c = [Child("on") EXCEPT !.defaultRegion = r, !.region = h, !.binds = [s \in {r} |-> h]]
  OBVIOUS
<1>2. /\ Running /\ h \notin live /\ live' = live \cup {h} /\ stack' = Append(stack, c) /\ obj' = obj
      /\ r \notin KnownRegions
  BY <1>1 DEF EnterOn, Disciplined
<1>3. /\ c = [kind |-> "on", defaultRegion |-> r, region |-> h, binds |-> [s \in {r} |-> h],
              values |-> << >>, variables |-> << >>, call |-> NoCall]
      /\ [s \in {r} |-> h] \in Partial(RegionName, Handle) /\ r \in RegionName
  BY <1>1, <1>2, OnContextIs
<1>4. /\ c \in Context /\ c.kind = "on" /\ c.region = h /\ c.defaultRegion = r
      /\ DOMAIN c.values = {} /\ c.variables = << >>
      /\ DOMAIN c.binds = {r} /\ c.binds[r] = h
  BY <1>3, EmptyPartial DEF Context
<1>5. TypeInv' /\ Top > 0 /\ stack # << >>
  <2>1. Top \in Nat \ {0}
    BY <1>2, RunningMeans
  <2>2. TypeInv'
    BY EnterOnStep
  <2> QED BY <1>2, <2>1, <2>2 DEF Running
<1>6. Fits(c)
  <2>1. \A i \in Frame(Top) : r \notin DOMAIN stack[i].binds
    BY <1>2 DEF KnownRegions
  <2> QED BY <1>2, <1>4, <2>1 DEF Fits
<1>7. PICK T : T = Top + 1
  OBVIOUS
<1>8. Top' = T /\ SamePrefix(Top) /\ stack'[T] = c
  BY <1>2, <1>4, <1>5, <1>7, PushStep
<1>9. Denotes(T, r)' = h
  BY <1>4, <1>5, <1>7, <1>8, DenotesPushed
<1> QED BY <1>2, <1>4, <1>5, <1>6, <1>7, <1>9, PushSound

LEMMA EnterWhileSound ==
  ASSUME TypeInv, SoundInv, EnterWhile
  PROVE  SoundInv'
<1>1. PICK c : c = Child("while")
  OBVIOUS
<1>2. Running /\ stack' = Append(stack, c) /\ UNCHANGED <<obj, live, outcome>>
  BY <1>1 DEF EnterWhile
<1>3. TypeInv' /\ Top \in 1 .. Top /\ Top > 0 /\ stack # << >>
  BY <1>2, EnterWhileStep, RunningMeans DEF Running
<1>4. /\ c \in Context /\ c.kind = "while" /\ c.region = stack[Top].region
      /\ c.defaultRegion = stack[Top].defaultRegion
      /\ DOMAIN c.values = {} /\ c.variables = << >> /\ DOMAIN c.binds = {}
  BY <1>1, <1>2, ChildIs, EmptyPartial
<1>5. Fits(c)
  BY <1>4 DEF Fits
<1>6. PICK T, home, h : T = Top + 1 /\ home = c.defaultRegion /\ h = c.region
  OBVIOUS
<1>7. Top' = T /\ SamePrefix(Top) /\ stack'[T] = c
  BY <1>2, <1>3, <1>4, <1>6, PushStep
<1>8. Denotes(T, home)' = h
  <2>1. Denotes(T, home)' = Denotes(Top, home)
    BY <1>3, <1>4, <1>6, <1>7, DenotesPushed
  <2>2. h = Denotes(Top, home)
    BY <1>3, <1>4, <1>6, SoundParted DEF AtHome
  <2> QED BY <2>1, <2>2
<1> QED BY <1>2, <1>3, <1>4, <1>5, <1>6, <1>8, PushSound

(***************************************************************************)
(* Calls and returns.                                                      *)
(***************************************************************************)

\* A type of the declaration, in the callee, and the same type as the call
\* substitutes it, in the caller, are of the same regions.
LEMMA SubstitutedMeans ==
  ASSUME NEW t \in Type, NEW f \in Signature, NEW regions \in Seq(RegionName), Len(regions) = Len(f.regions),
         Closed(t, f.regions), NEW u, u = Substituted(t, regions, f.regions)
  PROVE  /\ u \in Type /\ u.base = t.base /\ Len(u.regions) = Len(t.regions)
         /\ DOMAIN u.regions = DOMAIN t.regions
         /\ \A k \in DOMAIN t.regions : \E j \in DOMAIN f.regions :
              t.regions[k] = f.regions[j] /\ u.regions[k] = regions[j]
<1>1. f.regions \in Seq(RegionName) /\ Apart(f.regions)
  BY SignatureMeans
<1>2. u \in Type /\ u.base = t.base /\ Len(u.regions) = Len(t.regions)
  BY <1>1, SubstitutedIsType
<1>3. DOMAIN u.regions = 1 .. Len(u.regions) /\ DOMAIN t.regions = 1 .. Len(t.regions)
  BY <1>2, LenProperties DEF Type
<1>4. ASSUME NEW k \in DOMAIN t.regions
      PROVE  \E j \in DOMAIN f.regions : t.regions[k] = f.regions[j] /\ u.regions[k] = regions[j]
  <2>1. PICK j \in DOMAIN f.regions : t.regions[k] = f.regions[j]
    BY DEF Closed
  <2>2. u.regions[k] = regions[j]
    BY <1>1, <1>3, <2>1, SubstitutedAtPlace
  <2> QED BY <2>1, <2>2
<1> QED BY <1>2, <1>3, <1>4

\* What a region name means exists.
LEMMA DenotesLive ==
  ASSUME TypeInv, Scoped, NEW d \in 1 .. Top, NEW r, Denotes(d, r) # NoHandle
  PROVE  Denotes(d, r) \in live
<1>1. PICK i \in Frame(d) : r \in DOMAIN stack[i].binds /\ Denotes(d, r) = stack[i].binds[r]
  BY DenotesBound
<1>2. i \in 1 .. Top
  BY <1>1, FrameNested
<1> QED BY <1>1, <1>2 DEF Scoped

LEMMA CalleeFits ==
  ASSUME TypeInv, SoundInv, Running, NEW n, NEW how, NEW f \in Signature,
         NEW regions \in [DOMAIN f.regions -> KnownRegions], NEW args, NEW c,
         IsCallee(c, n, how, f, regions, args), live' = live
  PROVE  Fits(c)
<1>1. /\ c.kind = "fn" /\ regions \in Seq(RegionName) /\ Len(regions) = Len(f.regions)
      /\ DOMAIN c.binds = {f.regions[k] : k \in DOMAIN f.regions}
      /\ \A k \in DOMAIN f.regions : c.binds[f.regions[k]] = Denotes(Top, regions[k])
      /\ c.call = [name |-> n, how |-> how, ret |-> f.ret, type |-> Substituted(f.ret, regions, f.regions)]
      /\ Closed(f.ret, f.regions)
  BY DEF IsCallee
<1>2. \A r \in DOMAIN c.binds : c.binds[r] \in live'
  <2> SUFFICES ASSUME NEW k \in DOMAIN f.regions PROVE Denotes(Top, regions[k]) \in live
    BY <1>1
  <2>1. Denotes(Top, regions[k]) \in Handle /\ Top \in 1 .. Top
    BY KnownMeans, RunningMeans
  <2> QED BY <2>1, DenotesLive, SentinelAssumption DEF SoundInv
<1>3. ResultMeans(Top, c.call, c.binds)
  <2> DEFINE t == f.ret
  <2>1. PICK u : u = Substituted(t, regions, f.regions)
    OBVIOUS
  <2>2. t \in Type
    BY SignatureMeans
  <2>3. /\ u.base = t.base /\ Len(u.regions) = Len(t.regions)
        /\ \A k \in DOMAIN t.regions : \E j \in DOMAIN f.regions :
             t.regions[k] = f.regions[j] /\ u.regions[k] = regions[j]
    BY <1>1, <2>1, <2>2, SubstitutedMeans
  <2>4. c.call.ret = t /\ c.call.type = u
    BY <1>1, <2>1
  <2> HIDE DEF t
  <2>5. \A k \in DOMAIN t.regions :
          t.regions[k] \in DOMAIN c.binds /\ Denotes(Top, u.regions[k]) = c.binds[t.regions[k]]
    BY <1>1, <2>3
  <2> QED BY <2>3, <2>4, <2>5 DEF ResultMeans
<1> QED BY <1>1, <1>2, <1>3 DEF Fits

LEMMA CallSound ==
  ASSUME Disciplined, TypeInv, SoundInv, NEW n \in Name, NEW how \in {"let", "var"}, NEW f \in Signature,
         NEW regions \in [DOMAIN f.regions -> KnownRegions],
         NEW args \in [DOMAIN f.params -> References], Call(n, how, f, regions, args)
  PROVE  SoundInv'
<1>1. PICK c : c = Callee(n, how, f, regions, args)
  OBVIOUS
<1>2. Running /\ IF Verdict(f, regions, args) = "accepted"
                 THEN stack' = Append(stack, c) /\ UNCHANGED <<obj, live, outcome>>
                 ELSE \E why : Refuse(why)
  BY <1>1 DEF Call, Callee, Verdict
<1>3. TypeInv'
  BY CallStep
<1>4. CASE Verdict(f, regions, args) # "accepted"
  BY <1>2, <1>3, <1>4, RefuseSound
<1>5. CASE Verdict(f, regions, args) = "accepted"
  <2>1. stack' = Append(stack, c) /\ obj' = obj /\ live' = live
    BY <1>2, <1>5
  <2>2. IsCallee(c, n, how, f, regions, args)
    BY <1>1, <1>2, <1>5, CalleeIs
  <2>3. /\ c \in Context /\ c.kind = "fn" /\ c.defaultRegion = f.regions[1]
        /\ c.region = GetRegionHandle(regions[1]) /\ GetRegionHandle(regions[1]) # NoHandle
        /\ regions \in Seq(RegionName) /\ Len(regions) = Len(f.regions)
        /\ DOMAIN c.binds = {f.regions[k] : k \in DOMAIN f.regions}
        /\ \A k \in DOMAIN f.regions : c.binds[f.regions[k]] = Denotes(Top, regions[k])
        /\ c.variables = << >> /\ c.call \in CallSet
    BY <2>2 DEF IsCallee
  <2>4. \A p \in DOMAIN c.values : \E k \in DOMAIN f.params :
          /\ c.values[p] = Value(f.params[k], args[k].obj, NoAddress)
          /\ args[k].type = Substituted(f.params[k], regions, f.regions)
          /\ Closed(f.params[k], f.regions)
    BY <2>2 DEF IsCallee
  <2>5. \A p \in DOMAIN c.values : c.values[p].storeAddress = NoAddress
    <3> SUFFICES ASSUME NEW p \in DOMAIN c.values PROVE c.values[p].storeAddress = NoAddress
      OBVIOUS
    <3>1. PICK k \in DOMAIN f.params : c.values[p] = Value(f.params[k], args[k].obj, NoAddress)
      BY <2>4
    <3> QED BY <3>1 DEF Value
  <2>6. Fits(c)
    BY <1>2, <2>1, <2>2, CalleeFits
  <2>7. PICK T, home, h : T = Top + 1 /\ home = c.defaultRegion /\ h = c.region
    OBVIOUS
  <2>8. Top \in 1 .. Top /\ Top \in Nat \ {0} /\ stack # << >>
    BY <1>2, RunningMeans DEF Running
  <2>9. Top' = T /\ SamePrefix(Top) /\ stack'[T] = c
    BY <2>1, <2>3, <2>5, <2>7, <2>8, PushStep
  <2>10. \A k \in DOMAIN f.regions : \A r : r = f.regions[k] => Denotes(T, r)' = Denotes(Top, regions[k])
    <3> SUFFICES ASSUME NEW k \in DOMAIN f.regions, NEW r, r = f.regions[k]
                 PROVE  Denotes(T, r)' = Denotes(Top, regions[k])
      OBVIOUS
    <3>1. r \in DOMAIN c.binds /\ c.binds[r] = Denotes(Top, regions[k])
      BY <2>3
    <3> QED BY <2>3, <2>7, <2>8, <2>9, <3>1, DenotesPushed
  <2>11. Denotes(T, home)' = h
    <3>1. 1 \in DOMAIN f.regions
      BY SignatureMeans
    <3>2. GetRegionHandle(regions[1]) = Denotes(Top, regions[1])
      BY <1>2, <2>3, HandleDenotes, SoundParted
    <3> QED BY <2>3, <2>7, <2>10, <3>1, <3>2
  <2>12. ASSUME NEW p \in DOMAIN c.values, NEW v, v = c.values[p]
         PROVE  Sound(T, v.type, v.obj)'
    <3>1. PICK k \in DOMAIN f.params :
            /\ v = Value(f.params[k], args[k].obj, NoAddress)
            /\ args[k].type = Substituted(f.params[k], regions, f.regions)
            /\ Closed(f.params[k], f.regions)
      BY <2>4, <2>12
    <3>2. PICK t, u, o : t = f.params[k] /\ u = args[k].type /\ o = args[k].obj
      OBVIOUS
    <3>3. t \in Type
      BY <3>2, SignatureMeans
    <3>4. /\ u.base = t.base /\ Len(u.regions) = Len(t.regions) /\ DOMAIN u.regions = DOMAIN t.regions
          /\ \A i \in DOMAIN t.regions : \E j \in DOMAIN f.regions :
               t.regions[i] = f.regions[j] /\ u.regions[i] = regions[j]
      <4>1. Closed(t, f.regions) /\ u = Substituted(t, regions, f.regions)
        BY <3>1, <3>2
      <4> QED BY <2>3, <3>3, <4>1, SubstitutedMeans
    <3>5. Sound(Top, u, o)
      BY <1>2, <3>2, ReferenceSound, SoundParted
    <3>6. u \in RefType /\ t \in RefType /\ 1 \in DOMAIN t.regions /\ Len(t.regions) \in DOMAIN t.regions
          /\ Len(t.regions) \in {1, 2}
      <4>1. u \in RefType
        BY <3>5 DEF Sound
      <4>2. \A j \in DOMAIN f.regions : f.regions[j] \in RegionName
        BY SignatureMeans
      <4>3. t \in RefType
        BY <3>3, <3>4, <4>1, <4>2 DEF RefType
      <4> QED BY <4>1, <4>3, RefTypeMeans
    <3>7. \A i \in DOMAIN t.regions : \A r : r = t.regions[i] => Denotes(T, r)' = Denotes(Top, u.regions[i])
      BY <2>10, <3>4
    <3>8. Sound(T, t, o)'
      <4>1. \A i \in DOMAIN t.regions : Denotes(T, t.regions[i])' # NoHandle
        BY <3>4, <3>5, <3>7 DEF Sound
      <4>2. Allocated(o)' /\ obj'[o].region = Denotes(T, t.regions[Len(t.regions)])'
        BY <2>1, <3>4, <3>5, <3>6, <3>7 DEF Sound, Allocated
      <4>3. Len(t.regions) = 1 => obj'[o].elems = << >>
        BY <2>1, <3>4, <3>5 DEF Sound
      <4>4. ASSUME Len(t.regions) = 2, NEW i \in DOMAIN obj'[o].elems
            PROVE  Leaf(obj[o].elems[i], Denotes(T, t.regions[1]))'
        <5>1. Leaf(obj[o].elems[i], Denotes(Top, u.regions[1]))
          BY <2>1, <3>4, <3>5, <4>4 DEF Sound
        <5>2. Denotes(T, t.regions[1])' = Denotes(Top, u.regions[1])
          BY <3>6, <3>7
        <5> QED BY <2>1, <5>1, <5>2 DEF Leaf, Allocated
      <4> QED BY <3>6, <4>1, <4>2, <4>3, <4>4 DEF Sound
    <3>9. v.type = t /\ v.obj = o
      BY <3>1, <3>2 DEF Value
    <3> QED BY <3>8, <3>9
  <2> QED BY <1>3, <2>1, <2>3, <2>5, <2>6, <2>7, <2>8, <2>11, <2>12, PushSound
<1> QED BY <1>4, <1>5

\* Without "result" the value is of the function's return type, and what it
\* refers to is sound for the caller in the caller's type.
LEMMA ResultSound ==
  ASSUME TypeInv, SoundInv, Running, stack[Top].kind = "fn", Top > 1,
         NEW d, d = Top - 1, NEW call, call = stack[Top].call, call \in CallSet,
         NEW o \in Obj, Sound(Top, call.ret, o)
  PROVE  Sound(d, call.type, o)
<1> DEFINE t == call.ret
           u == call.type
<1>1. Top \in 1 .. Top /\ d \in 1 .. Top /\ Top = d + 1 /\ Top \in Nat
  <2>1. Top \in Nat \ {0}
    BY RunningMeans
  <2> QED BY <2>1
<1>2. PICK binds : binds = stack[Top].binds
  OBVIOUS
<1>3. ResultMeans(d, call, binds)
  BY <1>1, <1>2 DEF SoundInv, SoundResults
<1>4. /\ u.base = t.base /\ Len(u.regions) = Len(t.regions)
      /\ \A k \in DOMAIN t.regions : t.regions[k] \in DOMAIN binds
                                     /\ Denotes(d, u.regions[k]) = binds[t.regions[k]]
  BY <1>3 DEF ResultMeans
<1>5. \A r \in DOMAIN binds : Denotes(Top, r) = binds[r]
  <2> SUFFICES ASSUME NEW r \in DOMAIN binds PROVE Denotes(Top, r) = binds[r]
    OBVIOUS
  <2>1. Top \in Frame(Top) /\ Frame(Top) \subseteq 1 .. Top
    BY <1>1, BaseIs
  <2>2. Denotes(Top, r) # NoHandle
    BY <1>1, <1>2, <2>1, DenotesBound
  <2>3. PICK i \in Frame(Top) : Denotes(Top, r) = stack[i].binds[r] /\ Top <= i
    BY <1>1, <1>2, <2>1, <2>2, DenotesBound
  <2>4. i = Top
    BY <1>1, <2>1, <2>3
  <2> QED BY <1>2, <2>3, <2>4
<1>6. t \in RefType /\ Len(t.regions) \in DOMAIN t.regions /\ 1 \in DOMAIN t.regions
      /\ DOMAIN t.regions = 1 .. Len(t.regions)
  <2>1. t \in RefType
    BY DEF Sound
  <2> HIDE DEF t
  <2> QED BY <2>1, RefTypeMeans
<1>7. u \in Type /\ DOMAIN u.regions = DOMAIN t.regions
  <2>1. u \in Type
    BY DEF CallSet
  <2>2. DOMAIN u.regions = 1 .. Len(u.regions)
    BY <2>1, LenProperties DEF Type
  <2> QED BY <1>4, <1>6, <2>1, <2>2
<1>8. \A k \in DOMAIN t.regions : Denotes(d, u.regions[k]) = Denotes(Top, t.regions[k])
                                  /\ Denotes(d, u.regions[k]) # NoHandle
  BY <1>4, <1>5 DEF Sound
<1>9. u \in RefType
  <2>1. \A k \in DOMAIN u.regions : u.regions[k] \in RegionName
    BY <1>1, <1>7, <1>8, DenotesNames
  <2> HIDE DEF t, u
  <2> QED BY <1>4, <1>6, <1>7, <2>1 DEF RefType
<1>10. /\ Allocated(o) /\ obj[o].region = Denotes(Top, t.regions[Len(t.regions)])
       /\ Len(t.regions) = 1 => obj[o].elems = << >>
       /\ Len(t.regions) = 2 => \A k \in DOMAIN obj[o].elems : Leaf(obj[o].elems[k], Denotes(Top, t.regions[1]))
  BY DEF Sound
<1> HIDE DEF t, u
<1>11. Sound(d, u, o)
  BY <1>4, <1>6, <1>7, <1>8, <1>9, <1>10 DEF Sound
<1> QED BY <1>11 DEF u

LEMMA ReturnSound ==
  ASSUME Disciplined, TypeInv, SoundInv, NEW ref \in References, Return(ref)
  PROVE  SoundInv'
<1>1. PICK d, call : d = Top - 1 /\ call = stack[Top].call
  OBVIOUS
<1>2. PICK value : value = Value(call.type, ref.obj, NoAddress)
  OBVIOUS
<1>3. /\ TypeInv' /\ Running /\ stack[Top].kind = "fn" /\ Top > 1 /\ obj' = obj /\ live' = live
      /\ Top' = d /\ SamePrefix(d) /\ call \in CallSet
      /\ stack'[d] = Bound(d, call.how, call.name, value)
      /\ \A i \in 1 .. Top - 2 : stack'[i] = stack[i]
  BY <1>1, <1>2, ReturnStep DEF Closed_top
<1>4. Top \in Nat \ {0} /\ d \in Nat /\ d \in 1 .. d /\ d \in 0 .. Top /\ d - 1 = Top - 2
      /\ \A e \in 1 .. d : e \in 1 .. Top /\ e \in Nat
  <2>1. Top \in Nat \ {0}
    BY <1>3, RunningMeans
  <2> QED BY <1>1, <1>3, <2>1
<1>5. ref.type = call.ret
  BY <1>1 DEF Return, Disciplined
<1>6. /\ value \in ValueSet /\ value.type = call.type /\ value.obj = ref.obj /\ value.storeAddress = NoAddress
      /\ ref.obj \in Obj /\ call.name \in Name /\ call.how \in {"let", "var"}
  <2>1. ref.obj \in Obj
    BY <1>3, ReferencesTyped, ReferenceIsValue
  <2> QED BY <1>2, <1>3, <2>1 DEF Value, ValueSet, Address, CallSet
<1>7. Sound(d, call.type, ref.obj)
  <2>1. Sound(Top, call.ret, ref.obj)
    BY <1>3, <1>5, ReferenceSound, SoundParted
  <2> QED BY <1>1, <1>3, <1>6, <2>1, ResultSound
<1>8. \A e \in 1 .. d : SoundContext(e) /\ Mild(e)
  BY <1>3, <1>4, SoundParted, MildIfSame
<1>9. PICK t, o : t = call.type /\ o = ref.obj
  OBVIOUS
<1>10. Sound(d, t, o)'
  BY <1>3, <1>4, <1>6, <1>7, <1>8, <1>9, SoundKept
<1>11. SoundContext(d)'
  <2>1. \A u : SoundAddress(d, u, NoAddress)'
    BY DEF SoundAddress, NoAddress
  <2>2. Sound(d, value.type, value.obj)' /\ SoundAddress(d, value.type, value.storeAddress)'
    BY <1>6, <1>9, <1>10, <2>1
  <2> QED BY <1>3, <1>4, <1>6, <1>8, <2>2, BoundContext
<1>12. ASSUME NEW e \in 1 .. d, e # d
       PROVE  SoundContext(e)'
  <2>1. \A i \in 1 .. e : i \in 1 .. Top - 2
    BY <1>1, <1>4, <1>12
  <2>2. \A i \in 1 .. e : stack'[i] = stack[i]
    BY <1>3, <2>1
  <2> QED BY <1>3, <1>4, <1>8, <2>2, ContextsSame
<1>13. Skeleton'
  <2>1. Skeleton /\ \A e \in 1 .. d : \A r \in DOMAIN stack[e].binds : stack[e].binds[r] \in live'
    BY <1>3, <1>4, SoundParted DEF Skeleton, Scoped
  <2> QED BY <1>3, <1>4, <2>1, SkeletonKept
<1> QED BY <1>3, <1>11, <1>12, <1>13 DEF SoundInv, Skeleton, SoundNames

(***************************************************************************)
(* The ends of scopes.                                                     *)
(***************************************************************************)
LEMMA PopSound ==
  ASSUME TypeInv, TypeInv', SoundInv, Running, stack' = Popped, NEW n, n = Top - 1,
         \A d \in 1 .. n : Mild(d) /\ \A r \in DOMAIN stack[d].binds : stack[d].binds[r] \in live'
  PROVE  SoundInv'
<1>1. Top \in Nat \ {0} /\ n \in Nat /\ n \in 0 .. Top /\ Top > 0
      /\ \A d \in 1 .. n : d \in 1 .. Top /\ \A i \in 1 .. d : i \in 1 .. n
  <2>1. Top \in Nat \ {0}
    BY RunningMeans
  <2> QED BY <2>1
<1>2. Top' = n /\ SamePrefix(n) /\ \A i \in 1 .. n : stack'[i] = stack[i]
  BY <1>1, PopStep
<1>3. Skeleton'
  BY <1>1, <1>2, SoundParted, SkeletonKept
<1>4. \A d \in 1 .. n : SoundContext(d)'
  <2> SUFFICES ASSUME NEW d \in 1 .. n PROVE SoundContext(d)'
    OBVIOUS
  <2>1. SoundContext(d) /\ Mild(d) /\ \A i \in 1 .. d : stack'[i] = stack[i]
    BY <1>1, <1>2, SoundParted
  <2> QED BY <1>1, <1>2, <2>1, ContextsSame
<1> QED BY <1>2, <1>3, <1>4 DEF SoundInv, Skeleton, SoundNames

\* A context that is closed without a region.
LEMMA CloseSound ==
  ASSUME TypeInv, TypeInv', SoundInv, Running, stack' = Popped, obj' = obj, live' = live
  PROVE  SoundInv'
<1>1. PICK n : n = Top - 1
  OBVIOUS
<1>2. \A d \in 1 .. n : d \in 1 .. Top
  <2>1. Top \in Nat \ {0}
    BY RunningMeans
  <2> QED BY <1>1, <2>1
<1>3. \A d \in 1 .. n : Mild(d) /\ \A r \in DOMAIN stack[d].binds : stack[d].binds[r] \in live'
  BY <1>2, MildIfSame DEF SoundInv, Scoped
<1> QED BY <1>1, <1>3, PopSound

\* The region of an on-scope: no context below knows it, so nothing that is
\* seen from there is deleted.
LEMMA LeaveOnSound ==
  ASSUME TypeInv, SoundInv, LeaveOn
  PROVE  SoundInv'
<1>1. PICK n, h : n = Top - 1 /\ h = stack[Top].region
  OBVIOUS
<1>2. TypeInv' /\ Running /\ stack[Top].kind = "on" /\ live' = live \ {h} /\ obj' = Released(h)
      /\ stack' = Popped
  BY <1>1, LeaveOnStep DEF LeaveOn
<1>3. Top \in Nat \ {0} /\ \A d \in 1 .. n : d \in 1 .. Top /\ d \in Nat /\ Top \in d + 1 .. Top
                                            /\ \A i \in 1 .. d : i \in 1 .. n
  <2>1. Top \in Nat \ {0}
    BY <1>2, RunningMeans
  <2> QED BY <1>1, <2>1
<1>4. \A d \in 1 .. n : \A r \in DOMAIN stack[d].binds : stack[d].binds[r] \in live /\ stack[d].binds[r] # h
  BY <1>1, <1>2, <1>3 DEF SoundInv, Scoped
<1>5. \A d \in 1 .. n : Mild(d)
  <2> SUFFICES ASSUME NEW d \in 1 .. n PROVE Mild(d)
    OBVIOUS
  <2>1. ASSUME NEW o \in Obj, Allocated(o), Inhabited(d, obj[o].region)
        PROVE  obj'[o] = obj[o]
    <3>1. PICK r \in RegionName : Denotes(d, r) = obj[o].region /\ Denotes(d, r) # NoHandle
      BY <2>1 DEF Inhabited
    <3>2. PICK i \in Frame(d) : r \in DOMAIN stack[i].binds /\ Denotes(d, r) = stack[i].binds[r]
      BY <1>3, <3>1, DenotesBound
    <3>3. i \in 1 .. n
      BY <1>3, <3>2, FrameNested
    <3>4. obj[o].region # h
      BY <1>4, <3>1, <3>2, <3>3
    <3> QED BY <1>2, <3>4, ReleasedIs
  <2> QED BY <2>1, MildIfApart
<1> QED BY <1>1, <1>2, <1>4, <1>5, PopSound

LEMMA MainReturnSound ==
  ASSUME TypeInv, SoundInv, MainReturn
  PROVE  SoundInv'
<1>1. Top' = 0
  BY MainReturnStep
<1>2. \A d \in 1 .. 0 : FALSE
  OBVIOUS
<1>3. Skeleton'
  BY <1>1, <1>2 DEF Skeleton, NoShadowing, Scoped, AtHome, SoundResults
<1>4. SoundNames'
  BY <1>1, <1>2 DEF SoundNames
<1> QED BY <1>3, <1>4 DEF SoundInv, Skeleton

(***************************************************************************)
(* All steps.                                                              *)
(***************************************************************************)
LEMMA DeclarationSound ==
  ASSUME Disciplined, TypeInv, SoundInv, Declaration
  PROVE  SoundInv'
<1>1. PICK n \in Name : \E how \in How(n) :
        \/ \E ref \in References : DeclareReference(n, how, ref)
        \/ \E r \in KnownRegions, o \in Fresh : DeclareInstance(n, how, r, o)
        \/ \E len \in 1 .. MaxElements : \E refs \in [1 .. len -> References], o \in Fresh :
             DeclareArray(n, how, refs, o)
        \/ \E t \in SkippedTypes(how) : DeclareSkipped(n, how, t)
  BY DEF Declaration
<1>2. PICK how \in How(n) :
        \/ \E ref \in References : DeclareReference(n, how, ref)
        \/ \E r \in KnownRegions, o \in Fresh : DeclareInstance(n, how, r, o)
        \/ \E len \in 1 .. MaxElements : \E refs \in [1 .. len -> References], o \in Fresh :
             DeclareArray(n, how, refs, o)
        \/ \E t \in SkippedTypes(how) : DeclareSkipped(n, how, t)
  BY <1>1
<1>3. how \in {"let", "var"}
  BY HowIs
<1>4. CASE \E ref \in References : DeclareReference(n, how, ref)
  BY <1>3, <1>4, DeclareReferenceSound
<1>5. CASE \E r \in KnownRegions, o \in Fresh : DeclareInstance(n, how, r, o)
  BY <1>3, <1>5, DeclareInstanceSound
<1>6. CASE \E len \in 1 .. MaxElements : \E refs \in [1 .. len -> References], o \in Fresh :
             DeclareArray(n, how, refs, o)
  BY <1>3, <1>6, DeclareArraySound
<1>7. CASE \E t \in SkippedTypes(how) : DeclareSkipped(n, how, t)
  BY <1>3, <1>7, DeclareSkippedSound
<1> QED BY <1>2, <1>4, <1>5, <1>6, <1>7

LEMMA NextSound ==
  ASSUME Disciplined, TypeInv, TypeInv', SoundInv, [Next]_vars
  PROVE  SoundInv'
<1>1. CASE \E h \in Handle : Start(h)
  BY <1>1, StartSound
<1>2. CASE Declaration
  BY <1>2, DeclarationSound
<1>3. CASE Store
  <2>1. PICK n \in Visible, ref \in References :
          Assign(n, ref) \/ \E k \in 1 .. MaxElements : StorePart(n, k, ref)
    BY <1>3 DEF Store
  <2> QED BY <2>1, AssignSound, StorePartSound
<1>4. CASE Invocation
  <2>1. PICK n \in Name, f \in Signature : \E how \in How(n) :
          \E regions \in [DOMAIN f.regions -> KnownRegions], args \in [DOMAIN f.params -> References] :
            Call(n, how, f, regions, args)
    BY <1>4 DEF Invocation
  <2>2. PICK how \in How(n) :
          \E regions \in [DOMAIN f.regions -> KnownRegions], args \in [DOMAIN f.params -> References] :
            Call(n, how, f, regions, args)
    BY <2>1
  <2> QED BY <2>2, HowIs, CallSound
<1>5. CASE Entry
  BY <1>5, EnterOnSound, EnterWhileSound DEF Entry
<1>6. CASE ReturnInside
  BY <1>6, RefuseSound DEF ReturnInside
<1>7. CASE LeaveOn
  BY <1>7, LeaveOnSound
<1>8. CASE LeaveWhile \/ ReturnVoid
  BY <1>8, CloseSound DEF LeaveWhile, ReturnVoid
<1>9. CASE \E ref \in References : Return(ref)
  BY <1>9, ReturnSound
<1>10. CASE MainReturn
  BY <1>10, MainReturnSound
<1>11. CASE UNCHANGED vars
  BY <1>11, SoundSame DEF vars
<1> QED
  BY <1>1, <1>2, <1>3, <1>4, <1>5, <1>6, <1>7, <1>8, <1>9, <1>10, <1>11 DEF Next, Statement, Leave, Over

LEMMA InitSound == Init => SoundInv
<1> SUFFICES ASSUME Init PROVE SoundInv
  OBVIOUS
<1>1. Top = 0 /\ \A d \in 1 .. 0 : FALSE
  BY DEF Init, Top
<1>2. NoShadowing /\ Scoped /\ AtHome
  BY <1>1 DEF NoShadowing, Scoped, AtHome
<1>3. SoundNames /\ SoundResults
  BY <1>1 DEF SoundNames, SoundResults
<1> QED BY <1>2, <1>3 DEF SoundInv

LEMMA SoundInvariant ==
  ASSUME Disciplined
  PROVE  Spec => [](TypeInv /\ SoundInv)
<1>1. TypeInv /\ TypeInv' /\ SoundInv /\ [Next]_vars => SoundInv'
  BY NextSound
<1> QED BY <1>1, InitSound, TypeInvariant, PTL DEF Spec

(***************************************************************************)
(* What follows for the properties.                                        *)
(***************************************************************************)

\* What a context holds is sound there.
LEMMA HeldSound ==
  ASSUME TypeInv, SoundInv, NEW d \in 1 .. Top, NEW ref \in Held(d)
  PROVE  Sound(d, ref.type, ref.obj)
BY SoundParted DEF Held, Bindings, SoundContext, Values, Variables, SoundValue, SoundVariable

LEMMA SoundNoDangling == TypeInv /\ SoundInv => NoDangling
<1> SUFFICES ASSUME TypeInv, SoundInv, NEW d \in 1 .. Top, NEW ref \in Held(d)
             PROVE  /\ Allocated(ref.obj)
                    /\ \A k \in DOMAIN obj[ref.obj].elems : Allocated(obj[ref.obj].elems[k])
  BY DEF NoDangling
<1>1. Sound(d, ref.type, ref.obj)
  BY HeldSound
<1>2. Len(ref.type.regions) \in {1, 2}
  BY <1>1, RefTypeMeans DEF Sound
<1>3. CASE Len(ref.type.regions) = 1
  BY <1>1, <1>3 DEF Sound
<1>4. CASE Len(ref.type.regions) = 2
  BY <1>1, <1>4 DEF Sound, Leaf
<1> QED BY <1>2, <1>3, <1>4

LEMMA SoundWellTyped == TypeInv /\ SoundInv => WellTyped
<1> SUFFICES ASSUME TypeInv, SoundInv, NEW d \in 1 .. Top, NEW ref \in Held(d)
             PROVE  /\ obj[ref.obj].region = Denotes(d, Region(ref.type, 1))
                    /\ IsArray(ref.type) => \A part \in Parts(ref) :
                         obj[part.obj].region = Denotes(d, Region(ref.type, 2))
  BY DEF WellTyped
<1> DEFINE t == ref.type
<1>1. Sound(d, t, ref.obj)
  BY HeldSound
<1>2. t \in RefType /\ Len(t.regions) \in {1, 2} /\ (IsArray(t) <=> Len(t.regions) = 2)
  <2>1. t \in RefType
    BY <1>1 DEF Sound
  <2> HIDE DEF t
  <2> QED BY <2>1, RefTypeMeans
<1>3. Region(t, 1) = t.regions[Len(t.regions)]
  <2>1. \A n \in {1, 2} : n + 1 - 1 = n
    OBVIOUS
  <2> QED BY <1>2, <2>1 DEF Region
<1>4. obj[ref.obj].region = Denotes(d, Region(t, 1))
  BY <1>1, <1>3 DEF Sound
<1>5. ASSUME IsArray(t), NEW part \in Parts(ref)
      PROVE  obj[part.obj].region = Denotes(d, Region(t, 2))
  <2>1. Len(t.regions) = 2
    BY <1>2, <1>5
  <2>2. Region(t, 2) = t.regions[1]
    <3>1. Len(t.regions) + 1 - 2 = 1
      BY <2>1
    <3> QED BY <3>1 DEF Region
  <2>3. PICK k \in DOMAIN obj[ref.obj].elems : part.obj = obj[ref.obj].elems[k]
    BY <1>5 DEF Parts, Value
  <2> QED BY <1>1, <2>1, <2>2, <2>3 DEF Sound, Leaf
<1> QED BY <1>4, <1>5

\* In disciplined programs no name that has been given a value refers to memory
\* of a region that has been deleted, whatever assignments, stores, calls and
\* returns do with references: the comparisons of regions in doStore and doCall
\* suffice, for every such program and every number of scopes, calls and
\* objects.  A program that uses a name which only a branch not taken declares
\* is none of them: the compiler accepts it, and what it reads there can dangle.
THEOREM DisciplinedNeverDangles ==
  ASSUME Disciplined
  PROVE  Spec => []NoDangling
BY SoundInvariant, SoundNoDangling, PTL

\* In disciplined programs the regions of a static type are those the object
\* and its elements live in, in every context that has a name for them and has
\* given it a value.
THEOREM DisciplinedWellTyped ==
  ASSUME Disciplined
  PROVE  Spec => []WellTyped
BY SoundInvariant, SoundWellTyped, PTL
=============================================================================
