---------------------------- MODULE ElismProofs ----------------------------
(***************************************************************************)
(* Proofs about Elism, for every program, whatever features it uses: the   *)
(* state keeps its types, and the regions of a run are made, passed on and *)
(* deleted as the run-time library demands.                                *)
(***************************************************************************)
EXTENDS Elism, RegionTypesProofs, SequenceTheorems

(***************************************************************************)
(* Partial functions, and the last of a set of places.                     *)
(***************************************************************************)
Partial(S, T) == UNION {[D -> T] : D \in SUBSET S}

LEMMA PartialMeans ==
  ASSUME NEW S, NEW T, NEW f \in Partial(S, T)
  PROVE  DOMAIN f \subseteq S /\ f \in [DOMAIN f -> T]
BY DEF Partial

LEMMA MakePartial ==
  ASSUME NEW S, NEW T, NEW D \in SUBSET S, NEW f \in [D -> T]
  PROVE  f \in Partial(S, T)
BY DEF Partial

LEMMA PutPartial ==
  ASSUME NEW S, NEW T, NEW f \in Partial(S, T), NEW x \in S, NEW v \in T
  PROVE  /\ Put(f, x, v) \in Partial(S, T)
         /\ DOMAIN Put(f, x, v) = DOMAIN f \cup {x}
         /\ Put(f, x, v)[x] = v
         /\ \A y \in DOMAIN f : y # x => Put(f, x, v)[y] = f[y]
<1>1. DOMAIN f \cup {x} \in SUBSET S
  BY PartialMeans
<1>2. Put(f, x, v) \in [DOMAIN f \cup {x} -> T]
  BY PartialMeans DEF Put
<1> QED BY <1>1, <1>2, MakePartial DEF Put

LEMMA EmptyPartial == ASSUME NEW S, NEW T PROVE << >> \in Partial(S, T) /\ DOMAIN << >> = {}
<1>1. << >> \in [{} -> T]
  OBVIOUS
<1> QED BY <1>1, MakePartial

LEMMA LatestIs ==
  ASSUME NEW n \in Nat, NEW S \in SUBSET (1 .. n), S # {}
  PROVE  Latest(S) \in S /\ \A j \in S : j <= Latest(S)
<1>1. \E i \in S : \A j \in S : j <= i
  BY GreatestNumber
<1> QED BY <1>1 DEF Latest

(***************************************************************************)
(* The types of the state.                                                 *)
(***************************************************************************)
Address ==
  {NoAddress, Unnamed} \cup [in : {"variable"}, depth : Nat, name : Name]
    \cup [in : {"object"}, obj : Obj, index : Nat]

ValueSet == [type : Type, obj : Obj \cup {Unset}, storeAddress : Address]

VariableSet == [type : Type, obj : Obj \cup {Unset}]

\* What a statement reads.
Reference == [type : Type, obj : Obj, storeAddress : Address]

LEMMA ReferenceIsValue ==
  ASSUME NEW ref \in Reference
  PROVE  ref \in ValueSet /\ ref.obj \in Obj /\ ref.type \in Type /\ ref.storeAddress \in Address
BY DEF Reference, ValueSet

CallSet == [name : Name, how : {"let", "var"}, ret : Type, type : Type]

Context ==
  [kind : {"fn", "on", "while"}, defaultRegion : RegionName, region : Handle,
   binds : Partial(RegionName, Handle), values : Partial(Name, ValueSet),
   variables : Partial(Name, VariableSet), call : {NoCall} \cup CallSet]

Object == [region : Handle, elems : Seq(Obj)]

Outcomes == {"running", "rejected", "aborted", "undefined", "done"}

\* The bottom of the stack is main, and a function above it was called.
Called ==
  /\ stack # << >> => stack[1].kind = "fn"
  /\ \A d \in 2 .. Top : stack[d].kind = "fn" => stack[d].call \in CallSet

Addressed == \A d \in 1 .. Top : \A n \in DOMAIN stack[d].values : AddressOK(stack[d].values[n].storeAddress, d)

TypeInv ==
  /\ stack \in Seq(Context)
  /\ obj \in [Obj -> Object \cup {NotAllocated}]
  /\ live \in SUBSET Handle
  /\ outcome \in Outcomes
  /\ Called
  /\ Addressed

LEMMA ContextMeans ==
  ASSUME NEW c \in Context
  PROVE  /\ c = [kind |-> c.kind, defaultRegion |-> c.defaultRegion, region |-> c.region, binds |-> c.binds,
                 values |-> c.values, variables |-> c.variables, call |-> c.call]
         /\ c.kind \in {"fn", "on", "while"} /\ c.defaultRegion \in RegionName /\ c.region \in Handle
         /\ DOMAIN c.binds \subseteq RegionName /\ \A r \in DOMAIN c.binds : c.binds[r] \in Handle
         /\ DOMAIN c.values \subseteq Name /\ \A n \in DOMAIN c.values : c.values[n] \in ValueSet
         /\ DOMAIN c.variables \subseteq Name /\ \A n \in DOMAIN c.variables : c.variables[n] \in VariableSet
         /\ c.call \in {NoCall} \cup CallSet
BY PartialMeans DEF Context

LEMMA StackMeans ==
  ASSUME TypeInv
  PROVE  /\ Top \in Nat /\ DOMAIN stack = 1 .. Top
         /\ \A d \in 1 .. Top : stack[d] \in Context
         /\ stack = << >> <=> Top = 0
         /\ Top > 0 => stack[1].kind = "fn"
<1>1. stack \in Seq(Context)
  BY DEF TypeInv
<1>2. Top \in Nat /\ DOMAIN stack = 1 .. Top
  BY <1>1 DEF Top
<1>3. \A d \in 1 .. Top : stack[d] \in Context
  BY <1>1, ElementOfSeq DEF Top
<1>4. stack = << >> <=> Top = 0
  BY <1>1, EmptySeq DEF Top
<1> QED BY <1>2, <1>3, <1>4 DEF TypeInv, Called

(***************************************************************************)
(* Frames.                                                                 *)
(***************************************************************************)
LEMMA BaseIs ==
  ASSUME TypeInv, NEW d \in 1 .. Top
  PROVE  /\ BaseOf(d) \in 1 .. d /\ stack[BaseOf(d)].kind = "fn"
         /\ \A i \in BaseOf(d) + 1 .. d : stack[i].kind # "fn"
         /\ d \in Frame(d) /\ Frame(d) \subseteq 1 .. d
<1> DEFINE S == {i \in 1 .. d : stack[i].kind = "fn"}
<1>1. d \in Nat /\ 1 \in S
  BY StackMeans
<1>2. S \in SUBSET (1 .. d) /\ S # {}
  BY <1>1
<1>3. Latest(S) \in S /\ \A j \in S : j <= Latest(S)
  BY <1>1, <1>2, LatestIs
<1>4. BaseOf(d) = Latest(S)
  BY DEF BaseOf
<1> HIDE DEF S
<1>5. BaseOf(d) \in S /\ \A j \in S : j <= BaseOf(d)
  BY <1>3, <1>4
<1> QED BY <1>1, <1>5 DEF S, Frame

LEMMA FrameNested ==
  ASSUME TypeInv, NEW d \in 1 .. Top, NEW e \in Frame(d)
  PROVE  e \in 1 .. Top /\ BaseOf(e) = BaseOf(d) /\ Frame(e) \subseteq Frame(d) /\ e \in 1 .. d
<1>1. e \in 1 .. d /\ e \in 1 .. Top /\ BaseOf(d) <= e /\ BaseOf(d) \in Nat /\ d \in Nat
  <2>1. Top \in Nat /\ BaseOf(d) \in 1 .. d
    BY StackMeans, BaseIs
  <2> QED BY <2>1 DEF Frame
<1>2. BaseOf(d) \in 1 .. d /\ stack[BaseOf(d)].kind = "fn"
      /\ \A i \in BaseOf(d) + 1 .. d : stack[i].kind # "fn"
  BY BaseIs
<1>3. BaseOf(e) \in 1 .. e /\ stack[BaseOf(e)].kind = "fn"
      /\ \A i \in BaseOf(e) + 1 .. e : stack[i].kind # "fn"
  BY <1>1, BaseIs
<1>4. BaseOf(e) = BaseOf(d)
  BY <1>1, <1>2, <1>3
<1> QED BY <1>1, <1>4 DEF Frame

\* A region name that is bound in the frame means a region.
LEMMA DenotesBound ==
  ASSUME TypeInv, NEW d \in 1 .. Top, NEW r
  PROVE  /\ Denotes(d, r) \in Handle \cup {NoHandle}
         /\ Denotes(d, r) # NoHandle <=> \E i \in Frame(d) : r \in DOMAIN stack[i].binds
         /\ Denotes(d, r) # NoHandle => \E i \in Frame(d) : r \in DOMAIN stack[i].binds /\ Denotes(d, r) = stack[i].binds[r]
                                          /\ \A j \in Frame(d) : r \in DOMAIN stack[j].binds => j <= i
<1> DEFINE binders == {i \in Frame(d) : r \in DOMAIN stack[i].binds}
<1>1. binders \in SUBSET (1 .. d) /\ d \in Nat
  BY BaseIs
<1>2. Denotes(d, r) = IF binders = {} THEN NoHandle ELSE stack[Latest(binders)].binds[r]
  BY DEF Denotes
<1>3. binders # {} => Latest(binders) \in binders /\ \A j \in binders : j <= Latest(binders)
  BY <1>1, LatestIs
<1>4. \A i \in binders : stack[i].binds[r] \in Handle
  <2>1. \A i \in binders : i \in 1 .. Top
    BY <1>1, StackMeans
  <2> QED BY <2>1, StackMeans, ContextMeans
<1> QED BY <1>2, <1>3, <1>4, SentinelAssumption

\* The lower part of the stack looks as before, values apart.
SamePrefix(n) ==
  \A i \in 1 .. n : /\ stack'[i].kind = stack[i].kind /\ stack'[i].defaultRegion = stack[i].defaultRegion
                    /\ stack'[i].region = stack[i].region /\ stack'[i].binds = stack[i].binds
                    /\ stack'[i].call = stack[i].call

LEMMA PrefixKept ==
  ASSUME TypeInv, NEW n \in 0 .. Top, SamePrefix(n), NEW d \in 1 .. n
  PROVE  BaseOf(d)' = BaseOf(d) /\ Frame(d)' = Frame(d) /\ \A r : Denotes(d, r)' = Denotes(d, r)
<1>1. d \in 1 .. Top /\ d \in Nat
  BY StackMeans
<1>2. \A i \in 1 .. d : stack'[i].kind = stack[i].kind /\ stack'[i].binds = stack[i].binds
  BY StackMeans DEF SamePrefix
<1>3. {i \in 1 .. d : stack'[i].kind = "fn"} = {i \in 1 .. d : stack[i].kind = "fn"}
  BY <1>2
<1>4. BaseOf(d)' = BaseOf(d) /\ Frame(d)' = Frame(d)
  BY <1>3 DEF BaseOf, Frame
<1>5. Frame(d) \subseteq 1 .. d
  BY <1>1, BaseIs
<1>6. ASSUME NEW r PROVE Denotes(d, r)' = Denotes(d, r)
  <2> DEFINE binders == {i \in Frame(d) : r \in DOMAIN stack[i].binds}
             binders2 == {i \in Frame(d) : r \in DOMAIN stack'[i].binds}
  <2>1. binders2 = binders /\ binders \in SUBSET (1 .. d)
    BY <1>2, <1>5
  <2>2. binders # {} => Latest(binders) \in 1 .. d
    BY <1>1, <2>1, LatestIs
  <2>3. Denotes(d, r) = IF binders = {} THEN NoHandle ELSE stack[Latest(binders)].binds[r]
    BY DEF Denotes
  <2>4. Denotes(d, r)' = IF binders2 = {} THEN NoHandle ELSE stack'[Latest(binders2)].binds[r]
    BY <1>4 DEF Denotes
  <2> HIDE DEF binders, binders2
  <2> QED BY <1>2, <2>1, <2>2, <2>3, <2>4
<1> QED BY <1>4, <1>6

\* The element type of an array is a type.
LEMMA ElementIsType ==
  ASSUME NEW t \in Type, IsArray(t)
  PROVE  /\ ElementType(t) \in Type /\ ElementType(t).base = t.base
         /\ Len(t.regions) >= 1 /\ Len(ElementType(t).regions) = Len(t.regions) - 1
         /\ \A k \in 1 .. Len(t.regions) - 1 : ElementType(t).regions[k] = t.regions[k]
<1>1. t.regions \in Seq(RegionName \cup {Global}) /\ Len(t.regions) \in Nat /\ Len(t.regions) >= 1
  BY LenProperties DEF Type, IsArray, Dimensions
<1>2. SubSeq(t.regions, 1, Len(t.regions) - 1) \in Seq(RegionName \cup {Global})
      /\ Len(SubSeq(t.regions, 1, Len(t.regions) - 1)) = Len(t.regions) - 1
      /\ \A k \in 1 .. Len(t.regions) - 1 : SubSeq(t.regions, 1, Len(t.regions) - 1)[k] = t.regions[k]
  BY <1>1, SubSeqProperties
<1> DEFINE rs == SubSeq(t.regions, 1, Len(t.regions) - 1)
<1>3. t = [base |-> t.base, regions |-> t.regions] /\ t.base \in Class \cup Scalar
  BY DEF Type
<1>4. ElementType(t) = [base |-> t.base, regions |-> rs]
  BY <1>3 DEF ElementType
<1> HIDE DEF rs
<1>5. rs \in Seq(RegionName \cup {Global}) /\ Len(rs) = Len(t.regions) - 1
      /\ \A k \in 1 .. Len(t.regions) - 1 : rs[k] = t.regions[k]
  BY <1>2 DEF rs
<1> QED BY <1>1, <1>3, <1>4, <1>5 DEF Type

\* So is that of an array with elements of a type.
LEMMA ArrayIsType ==
  ASSUME NEW t \in Type, NEW r \in RegionName \cup {Global}
  PROVE  /\ ArrayOf(t, r) \in Type /\ ArrayOf(t, r).base = t.base
         /\ ArrayOf(t, r).regions = Append(t.regions, r)
<1>1. t = [base |-> t.base, regions |-> t.regions] /\ t.base \in Class \cup Scalar
      /\ t.regions \in Seq(RegionName \cup {Global})
  BY DEF Type
<1>2. ArrayOf(t, r) = [base |-> t.base, regions |-> Append(t.regions, r)]
  BY <1>1 DEF ArrayOf
<1>3. Append(t.regions, r) \in Seq(RegionName \cup {Global})
  BY <1>1, AppendProperties
<1> QED BY <1>1, <1>2, <1>3 DEF Type

(***************************************************************************)
(* The values that a statement can name.                                   *)
(***************************************************************************)
LEMMA RunningMeans ==
  ASSUME TypeInv, Running
  PROVE  Top \in Nat \ {0} /\ Top \in 1 .. Top /\ stack[Top] \in Context /\ outcome = "running"
BY StackMeans DEF Running

LEMMA FrameOfTop ==
  ASSUME TypeInv, Running, NEW e \in Frame(Top)
  PROVE  e \in 1 .. Top /\ Frame(e) \subseteq Frame(Top) /\ stack[e] \in Context
BY RunningMeans, FrameNested, StackMeans

LEMMA GetValueTyped ==
  ASSUME TypeInv, Running, NEW n \in Known
  PROVE  /\ GetValue(n) \in ValueSet /\ AddressOK(GetValue(n).storeAddress, Top)
         /\ \E d \in Frame(Top) :
              \/ n \in DOMAIN stack[d].variables
                 /\ GetValue(n) = Value(stack[d].variables[n].type, stack[d].variables[n].obj, AddressOf(d, n))
              \/ n \in DOMAIN stack[d].values /\ n \notin DOMAIN stack[d].variables
                 /\ GetValue(n) = stack[d].values[n]
<1> DEFINE d == Latest(ScopesOf(n))
<1>1. n \in Name /\ ScopesOf(n) # {} /\ ScopesOf(n) \in SUBSET (1 .. Top) /\ Top \in Nat
  BY RunningMeans, BaseIs DEF Known, ScopesOf
<1>2. d \in ScopesOf(n)
  BY <1>1, LatestIs
<1>3. d \in Frame(Top) /\ d \in 1 .. Top /\ n \in DOMAIN stack[d].variables \cup DOMAIN stack[d].values
  BY <1>1, <1>2 DEF ScopesOf
<1>4. stack[d] \in Context
  BY <1>3, StackMeans
<1>5. GetValue(n) = IF n \in DOMAIN stack[d].variables
                    THEN Value(stack[d].variables[n].type, stack[d].variables[n].obj, AddressOf(d, n))
                    ELSE stack[d].values[n]
  BY DEF GetValue
<1> HIDE DEF d
<1>6. CASE n \in DOMAIN stack[d].variables
  <2>1. stack[d].variables[n] \in VariableSet
    BY <1>4, <1>6, ContextMeans
  <2>2. AddressOf(d, n) \in Address /\ d \in Nat
    BY <1>1, <1>3 DEF AddressOf, Address
  <2>3. AddressOK(AddressOf(d, n), Top)
    BY <1>3, <1>6 DEF AddressOK, AddressOf
  <2> QED BY <1>3, <1>5, <1>6, <2>1, <2>2, <2>3 DEF Value, ValueSet, VariableSet
<1>7. CASE n \notin DOMAIN stack[d].variables
  <2>1. n \in DOMAIN stack[d].values /\ GetValue(n) = stack[d].values[n]
    BY <1>3, <1>5, <1>7
  <2>2. stack[d].values[n] \in ValueSet
    BY <1>4, <2>1, ContextMeans
  <2>3. AddressOK(stack[d].values[n].storeAddress, d)
    BY <1>3, <2>1 DEF TypeInv, Addressed
  <2>4. AddressOK(stack[d].values[n].storeAddress, Top)
    BY <1>3, <2>3, FrameOfTop DEF AddressOK
  <2> QED BY <1>3, <1>7, <2>1, <2>2, <2>4
<1> QED BY <1>6, <1>7

LEMMA ObjectMeans ==
  ASSUME TypeInv, NEW o \in Obj
  PROVE  /\ obj[o] \in Object \cup {NotAllocated}
         /\ Allocated(o) <=> obj[o] \in Object
         /\ Allocated(o) => obj[o].region \in Handle /\ obj[o].elems \in Seq(Obj)
                            /\ obj[o] = [region |-> obj[o].region, elems |-> obj[o].elems]
BY SentinelAssumption DEF TypeInv, Object, Allocated

LEMMA PartTyped ==
  ASSUME TypeInv, NEW ref \in Reference, NEW k \in DOMAIN obj[ref.obj].elems, Allocated(ref.obj)
  PROVE  /\ Value(PartType(ref), obj[ref.obj].elems[k], PartAddress(ref.obj, k)) \in Reference
         /\ \A d : AddressOK(PartAddress(ref.obj, k), d)
         /\ k \in Nat
<1>1. ref.obj \in Obj /\ ref.type \in Type
  BY ReferenceIsValue
<1>2. obj[ref.obj].elems \in Seq(Obj) /\ k \in 1 .. Len(obj[ref.obj].elems) /\ k \in Nat
  <2>1. obj[ref.obj].elems \in Seq(Obj)
    BY <1>1, ObjectMeans
  <2> QED BY <2>1, LenProperties
<1>3. obj[ref.obj].elems[k] \in Obj
  BY <1>2, ElementOfSeq
<1>4. PartType(ref) \in Type
  <2>1. FieldType \in Type
    BY LanguageAssumption DEF FieldType, Type
  <2>2. IsArray(ref.type) => ElementType(ref.type) \in Type
    BY <1>1, ElementIsType
  <2> QED BY <2>1, <2>2 DEF PartType
<1>5. PartAddress(ref.obj, k) \in Address
  BY <1>1, <1>2 DEF PartAddress, Address
<1> QED BY <1>1, <1>2, <1>3, <1>4, <1>5 DEF Value, Reference, AddressOK, PartAddress

\* What a name gives to a statement is a reference, the stale ones included.
LEMMA ReadsTyped ==
  ASSUME TypeInv, Running, NEW n \in Visible, NEW ref \in Reads(n)
  PROVE  /\ ref \in Reference /\ AddressOK(ref.storeAddress, Top)
         /\ ref.type = GetValue(n).type /\ ref.storeAddress = GetValue(n).storeAddress
         /\ GetValue(n).obj # Unset => ref = GetValue(n)
<1> DEFINE v == GetValue(n)
<1>1. v \in ValueSet /\ AddressOK(v.storeAddress, Top)
  BY GetValueTyped DEF Visible
<1>2. PICK o \in IF v.obj = Unset THEN Obj ELSE {v.obj} : ref = [v EXCEPT !.obj = o]
  BY DEF Reads
<1> HIDE DEF v
<1>3. /\ v.type \in Type /\ v.obj \in Obj \cup {Unset} /\ v.storeAddress \in Address
      /\ v = [type |-> v.type, obj |-> v.obj, storeAddress |-> v.storeAddress]
  BY <1>1 DEF ValueSet
<1>4. ref = [type |-> v.type, obj |-> o, storeAddress |-> v.storeAddress]
  BY <1>2, <1>3
<1>5. o \in Obj /\ (v.obj # Unset => o = v.obj)
  BY <1>2, <1>3
<1> QED BY <1>1, <1>3, <1>4, <1>5 DEF Reference, v

\* So is what elements and fields give.
LEMMA ReferencesTyped ==
  ASSUME TypeInv, Running, NEW ref \in References
  PROVE  ref \in Reference /\ AddressOK(ref.storeAddress, Top)
<1>1. CASE \E n \in Visible : ref \in Reads(n)
  BY <1>1, ReadsTyped
<1>2. CASE \E n \in Visible : \E whole \in Reads(n) : ref \in Parts(whole)
  <2>0. PICK n \in Visible : \E whole \in Reads(n) : ref \in Parts(whole)
    BY <1>2
  <2>1. PICK whole \in Reads(n) : ref \in Parts(whole)
    BY <2>0
  <2>2. whole \in Reference
    BY ReadsTyped
  <2>3. Allocated(whole.obj) /\ \E k \in DOMAIN obj[whole.obj].elems :
          ref = Value(PartType(whole), obj[whole.obj].elems[k], PartAddress(whole.obj, k))
    BY <2>1 DEF Parts
  <2> QED BY <2>2, <2>3, PartTyped DEF Value
<1> QED BY <1>1, <1>2 DEF References

(***************************************************************************)
(* What statements do to the stack.  A step declares a name in a context,  *)
(* changes a variable, opens a context or closes the innermost one.        *)
(***************************************************************************)

\* The contexts up to n have all the variables that they had.
Kept_variables(n) == \A i \in 1 .. n : DOMAIN stack[i].variables \subseteq DOMAIN stack'[i].variables

LEMMA AddressKept ==
  ASSUME TypeInv, NEW n \in 0 .. Top, SamePrefix(n), Kept_variables(n), NEW d \in 1 .. n,
         NEW a, AddressOK(a, d)
  PROVE  AddressOK(a, d)'
<1>1. Frame(d)' = Frame(d) /\ d \in 1 .. Top
  BY PrefixKept, StackMeans
<1>2. Frame(d) \subseteq 1 .. n
  <2>1. Frame(d) \subseteq 1 .. d /\ Top \in Nat
    BY <1>1, BaseIs, StackMeans
  <2> QED BY <2>1
<1>3. CASE a \in {NoAddress, Unnamed}
  BY <1>3 DEF AddressOK
<1>4. CASE a.in = "variable" /\ a.depth \in Frame(d) /\ a.name \in DOMAIN stack[a.depth].variables
  BY <1>1, <1>2, <1>4 DEF AddressOK, Kept_variables
<1>5. CASE a.in = "object" /\ a.obj \in Obj
  BY <1>5 DEF AddressOK
<1> QED BY <1>3, <1>4, <1>5 DEF AddressOK

\* What a declaration does to its context.
LEMMA BoundMeans ==
  ASSUME TypeInv, NEW d \in 1 .. Top, NEW n \in Name, NEW how \in {"let", "var"}, NEW ref \in ValueSet
  PROVE  LET c == Bound(d, how, n, ref) IN
         /\ c \in Context /\ c.kind = stack[d].kind /\ c.defaultRegion = stack[d].defaultRegion
         /\ c.region = stack[d].region /\ c.binds = stack[d].binds /\ c.call = stack[d].call
         /\ how = "let" =>
              /\ c.variables = stack[d].variables
              /\ c.values = Put(stack[d].values, n, [ref EXCEPT !.storeAddress = Kept(@)])
         /\ how = "var" =>
              /\ c.variables = Put(stack[d].variables, n, [type |-> ref.type, obj |-> ref.obj])
              /\ c.values = [m \in DOMAIN stack[d].values |->
                               IF stack[d].values[m].storeAddress = AddressOf(d, n)
                               THEN [stack[d].values[m] EXCEPT !.storeAddress = Unnamed]
                               ELSE stack[d].values[m]]
<1> DEFINE s == stack[d]
           c == Bound(d, how, n, ref)
           vs == [m \in DOMAIN s.values |-> IF s.values[m].storeAddress = AddressOf(d, n)
                    THEN [s.values[m] EXCEPT !.storeAddress = Unnamed] ELSE s.values[m]]
<1>1. /\ s.kind \in {"fn", "on", "while"} /\ s.defaultRegion \in RegionName /\ s.region \in Handle
      /\ s.binds \in Partial(RegionName, Handle) /\ s.values \in Partial(Name, ValueSet)
      /\ s.variables \in Partial(Name, VariableSet) /\ s.call \in {NoCall} \cup CallSet
      /\ s = [kind |-> s.kind, defaultRegion |-> s.defaultRegion, region |-> s.region, binds |-> s.binds,
              values |-> s.values, variables |-> s.variables, call |-> s.call]
  BY StackMeans, ContextMeans DEF Context
<1>2. CASE how = "let"
  <2> DEFINE v == [ref EXCEPT !.storeAddress = Kept(@)]
             put == Put(s.values, n, v)
  <2>1. v \in ValueSet
    BY DEF Kept, ValueSet, Address
  <2>2. put \in Partial(Name, ValueSet)
    BY <1>1, <2>1, PutPartial
  <2>3. c = [s EXCEPT !.values = put]
    BY <1>2 DEF Bound
  <2> HIDE DEF put, s, c
  <2>4. c = [kind |-> s.kind, defaultRegion |-> s.defaultRegion, region |-> s.region, binds |-> s.binds,
             values |-> put, variables |-> s.variables, call |-> s.call]
    BY <1>1, <2>3
  <2> USE DEF s, c, put
  <2> QED
    <3> HIDE DEF s, c, put
    <3>1. c \in Context /\ c.kind = s.kind /\ c.defaultRegion = s.defaultRegion
          /\ c.region = s.region /\ c.binds = s.binds /\ c.call = s.call
          /\ c.variables = s.variables /\ c.values = put
      BY <1>1, <2>2, <2>4 DEF Context
    <3> QED BY <1>2, <3>1 DEF s, c, put
<1>3. CASE how = "var"
  <2> DEFINE v == [type |-> ref.type, obj |-> ref.obj]
             put == Put(s.variables, n, v)
  <2>1. v \in VariableSet
    BY DEF ValueSet, VariableSet
  <2>2. put \in Partial(Name, VariableSet)
    <3> HIDE DEF v, s
    <3> QED BY <1>1, <2>1, PutPartial
  <2>3. vs \in Partial(Name, ValueSet)
    <3>1. DOMAIN s.values \in SUBSET Name /\ \A m \in DOMAIN s.values : s.values[m] \in ValueSet
      BY <1>1, PartialMeans
    <3>2. \A m \in DOMAIN s.values : [s.values[m] EXCEPT !.storeAddress = Unnamed] \in ValueSet
      BY <3>1 DEF ValueSet, Address
    <3>3. vs \in [DOMAIN s.values -> ValueSet]
      BY <3>1, <3>2
    <3> QED BY <3>1, <3>3, MakePartial
  <2>4. c = [s EXCEPT !.variables = put, !.values = vs]
    BY <1>3 DEF Bound
  <2> HIDE DEF put, s, c, vs
  <2>5. c = [kind |-> s.kind, defaultRegion |-> s.defaultRegion, region |-> s.region, binds |-> s.binds,
             values |-> vs, variables |-> put, call |-> s.call]
    BY <1>1, <2>4
  <2>6. c \in Context /\ c.kind = s.kind /\ c.defaultRegion = s.defaultRegion
        /\ c.region = s.region /\ c.binds = s.binds /\ c.call = s.call
        /\ c.variables = put /\ c.values = vs
    BY <1>1, <2>2, <2>3, <2>5 DEF Context
  <2> QED BY <1>3, <2>6 DEF s, c, put, vs
<1> QED BY <1>2, <1>3

\* In all but what it names the context stays what it was.
LEMMA BoundLike ==
  ASSUME TypeInv, NEW d \in 1 .. Top, NEW n \in Name, NEW how \in {"let", "var"}, NEW ref \in ValueSet,
         NEW c, c = Bound(d, how, n, ref)
  PROVE  /\ c \in Context /\ c.kind = stack[d].kind /\ c.defaultRegion = stack[d].defaultRegion
         /\ c.region = stack[d].region /\ c.binds = stack[d].binds /\ c.call = stack[d].call
BY BoundMeans

\* A context is replaced by one that differs in what it names.
LEMMA ReplaceStep ==
  ASSUME TypeInv, NEW d \in 1 .. Top, NEW c \in Context, stack' = [stack EXCEPT ![d] = c],
         c.kind = stack[d].kind, c.defaultRegion = stack[d].defaultRegion,
         c.region = stack[d].region, c.binds = stack[d].binds, c.call = stack[d].call,
         DOMAIN stack[d].variables \subseteq DOMAIN c.variables,
         \A m \in DOMAIN c.values :
           \/ AddressOK(c.values[m].storeAddress, d)
           \/ c.values[m].storeAddress \in {NoAddress, Unnamed}
  PROVE  /\ stack' \in Seq(Context) /\ Top' = Top /\ SamePrefix(Top) /\ Called' /\ Addressed'
         /\ stack' # << >>
<1>1. stack \in Seq(Context) /\ Top \in Nat /\ DOMAIN stack = 1 .. Top
  BY StackMeans DEF TypeInv
<1>2. stack' \in Seq(Context) /\ Top' = Top
  BY <1>1, ExceptSeq DEF Top
<1>3. \A i \in 1 .. Top : stack'[i] = IF i = d THEN c ELSE stack[i]
  BY <1>1
<1>4. SamePrefix(Top) /\ Kept_variables(Top)
  BY <1>3 DEF SamePrefix, Kept_variables
<1>5. Called'
  <2>1. stack # << >> /\ 1 \in 1 .. Top
    BY <1>1, StackMeans
  <2> QED BY <1>2, <1>4, <2>1 DEF TypeInv, Called, SamePrefix
<1>6. Addressed'
  <2> SUFFICES ASSUME NEW e \in 1 .. Top, NEW m \in DOMAIN stack'[e].values,
                      NEW a, a = stack'[e].values[m].storeAddress
               PROVE  AddressOK(a, e)'
    BY <1>2 DEF Addressed, AddressOK
  <2>1. Top \in 0 .. Top
    BY <1>1
  <2>2. CASE a \in {NoAddress, Unnamed}
    BY <2>2 DEF AddressOK
  <2>3. CASE AddressOK(a, e)
    BY <1>4, <2>1, <2>3, AddressKept
  <2>4. CASE e # d
    BY <1>3, <2>3, <2>4 DEF TypeInv, Addressed
  <2>5. CASE e = d
    BY <1>3, <2>2, <2>3, <2>5
  <2> QED BY <2>4, <2>5
<1>7. stack' # << >>
  <2>1. Len(stack') = Top /\ Top > 0
    BY <1>1, <1>2 DEF Top
  <2> QED BY <2>1
<1> QED BY <1>2, <1>4, <1>5, <1>6, <1>7

\* A declaration adds to the variables, and values keep addresses of the frame.
LEMMA BoundNames ==
  ASSUME TypeInv, NEW d \in 1 .. Top, NEW n \in Name, NEW how \in {"let", "var"}, NEW ref \in ValueSet,
         AddressOK(ref.storeAddress, d), NEW new, new = Bound(d, how, n, ref)
  PROVE  /\ DOMAIN stack[d].variables \subseteq DOMAIN new.variables
         /\ \A m \in DOMAIN new.values : \/ AddressOK(new.values[m].storeAddress, d)
                                         \/ new.values[m].storeAddress \in {NoAddress, Unnamed}
<1> DEFINE c == Bound(d, how, n, ref)
           s == stack[d]
<1>1. stack[d] \in Context
  BY StackMeans
<1>2. c \in Context /\ c.kind = s.kind /\ c.defaultRegion = s.defaultRegion
      /\ c.region = s.region /\ c.binds = s.binds /\ c.call = s.call
  <2> HIDE DEF c, s
  <2>1. c = Bound(d, how, n, ref)
    BY DEF c
  <2> QED BY <2>1, BoundLike DEF s
<1>3. \A m \in DOMAIN s.values : AddressOK(s.values[m].storeAddress, d)
  BY DEF TypeInv, Addressed
<1>4. s.values \in Partial(Name, ValueSet) /\ s.variables \in Partial(Name, VariableSet)
  BY <1>1 DEF Context
<1>5. DOMAIN s.variables \subseteq DOMAIN c.variables
      /\ \A m \in DOMAIN c.values : \/ AddressOK(c.values[m].storeAddress, d)
                                    \/ c.values[m].storeAddress \in {NoAddress, Unnamed}
  <2>1. CASE how = "let"
    <3> DEFINE v == [ref EXCEPT !.storeAddress = Kept(@)]
    <3>1. v \in ValueSet /\ v.storeAddress \in {ref.storeAddress, NoAddress}
      BY DEF Kept, ValueSet, Address
    <3>2. c.variables = s.variables /\ c.values = Put(s.values, n, v)
      BY <2>1, BoundMeans
    <3> DEFINE put == Put(s.values, n, v)
    <3> HIDE DEF c, s, v
    <3>3. /\ DOMAIN put = DOMAIN s.values \cup {n}
          /\ put[n] = v
          /\ \A y \in DOMAIN s.values : y # n => put[y] = s.values[y]
      <4> DEFINE f == s.values
      <4>1. put = Put(f, n, v)
        OBVIOUS
      <4> HIDE DEF put, f
      <4>2. DOMAIN put = DOMAIN f \cup {n} /\ put[n] = v /\ \A y \in DOMAIN f : y # n => put[y] = f[y]
        BY <4>1 DEF Put
      <4> QED BY <4>2 DEF f
    <3> HIDE DEF put
    <3>4. c.values = put
      BY <3>2 DEF put
    <3> QED BY <1>3, <3>1, <3>2, <3>3, <3>4
  <2>2. CASE how = "var"
    <3> DEFINE v == [type |-> ref.type, obj |-> ref.obj]
    <3>1. v \in VariableSet
      BY DEF ValueSet, VariableSet
    <3>2. c.variables = Put(s.variables, n, v)
          /\ c.values = [m \in DOMAIN s.values |->
                            IF s.values[m].storeAddress = AddressOf(d, n)
                            THEN [s.values[m] EXCEPT !.storeAddress = Unnamed]
                            ELSE s.values[m]]
      BY <2>2, BoundMeans
    <3>3. \A m \in DOMAIN s.values : [s.values[m] EXCEPT !.storeAddress = Unnamed].storeAddress = Unnamed
      BY <1>4, PartialMeans DEF ValueSet
    <3> DEFINE put == Put(s.variables, n, v)
    <3> HIDE DEF c, s, v
    <3>4. DOMAIN put = DOMAIN s.variables \cup {n}
      BY DEF Put
    <3> HIDE DEF put
    <3> QED BY <1>3, <3>2, <3>3, <3>4 DEF put
  <2> QED BY <2>1, <2>2
<1>6. new = c
  OBVIOUS
<1> HIDE DEF c
<1> QED BY <1>5, <1>6

\* A name is declared in context d.
LEMMA BindStep ==
  ASSUME TypeInv, NEW d \in 1 .. Top, NEW n \in Name, NEW how \in {"let", "var"}, NEW ref \in ValueSet,
         AddressOK(ref.storeAddress, d), stack' = [stack EXCEPT ![d] = Bound(d, how, n, ref)]
  PROVE  /\ stack' \in Seq(Context) /\ Top' = Top /\ SamePrefix(Top) /\ Called' /\ Addressed'
         /\ stack' # << >>
<1> DEFINE c == Bound(d, how, n, ref)
<1>1. stack' = [stack EXCEPT ![d] = c] /\ c = Bound(d, how, n, ref)
  OBVIOUS
<1> HIDE DEF c
<1>2. c \in Context /\ c.kind = stack[d].kind /\ c.defaultRegion = stack[d].defaultRegion
      /\ c.region = stack[d].region /\ c.binds = stack[d].binds /\ c.call = stack[d].call
  BY <1>1, BoundLike
<1>3. DOMAIN stack[d].variables \subseteq DOMAIN c.variables
      /\ \A m \in DOMAIN c.values : \/ AddressOK(c.values[m].storeAddress, d)
                                    \/ c.values[m].storeAddress \in {NoAddress, Unnamed}
  BY <1>1, BoundNames
<1> QED BY <1>1, <1>2, <1>3, ReplaceStep

\* A variable of the frame of context d is assigned to.
LEMMA VariableStep ==
  ASSUME TypeInv, NEW d \in 1 .. Top, NEW n \in DOMAIN stack[d].variables, NEW o \in Obj,
         stack' = [stack EXCEPT ![d].variables[n].obj = o]
  PROVE  /\ stack' \in Seq(Context) /\ Top' = Top /\ SamePrefix(Top) /\ Called' /\ Addressed'
         /\ stack' # << >>
<1> DEFINE s == stack[d]
           vars2 == [s.variables EXCEPT ![n].obj = o]
           c == [s EXCEPT !.variables = vars2]
<1>1. s \in Context /\ s.variables \in Partial(Name, VariableSet)
  BY StackMeans DEF Context
<1>2. n \in Name /\ s.variables[n] \in VariableSet /\ DOMAIN s.variables \in SUBSET Name
      /\ s.variables \in [DOMAIN s.variables -> VariableSet]
  BY <1>1, PartialMeans
<1>3. [s.variables[n] EXCEPT !.obj = o] \in VariableSet
  BY <1>2 DEF VariableSet
<1>4. vars2 \in [DOMAIN s.variables -> VariableSet]
  BY <1>2, <1>3
<1>5. vars2 \in Partial(Name, VariableSet) /\ DOMAIN vars2 = DOMAIN s.variables
  BY <1>2, <1>4, MakePartial
<1>6. s = [kind |-> s.kind, defaultRegion |-> s.defaultRegion, region |-> s.region, binds |-> s.binds,
           values |-> s.values, variables |-> s.variables, call |-> s.call]
  BY <1>1, ContextMeans
<1>7. stack' = [stack EXCEPT ![d] = c]
  OBVIOUS
<1>8. \A m \in DOMAIN s.values : AddressOK(s.values[m].storeAddress, d)
  BY DEF TypeInv, Addressed
<1> HIDE DEF vars2
<1>9. c = [kind |-> s.kind, defaultRegion |-> s.defaultRegion, region |-> s.region, binds |-> s.binds,
           values |-> s.values, variables |-> vars2, call |-> s.call]
  <2> HIDE DEF s
  <2> QED BY <1>6
<1> HIDE DEF c
<1>10. c \in Context /\ c.kind = s.kind /\ c.defaultRegion = s.defaultRegion
      /\ c.region = s.region /\ c.binds = s.binds /\ c.call = s.call /\ c.values = s.values
      /\ c.variables = vars2
  BY <1>1, <1>5, <1>9 DEF Context
<1> QED BY <1>5, <1>7, <1>8, <1>10, ReplaceStep

\* A context is opened.
LEMMA PushStep ==
  ASSUME TypeInv, NEW c \in Context, stack' = Append(stack, c),
         stack = << >> => c.kind = "fn",
         stack # << >> /\ c.kind = "fn" => c.call \in CallSet,
         \A m \in DOMAIN c.values : c.values[m].storeAddress = NoAddress
  PROVE  /\ stack' \in Seq(Context) /\ Top' = Top + 1 /\ SamePrefix(Top) /\ Called' /\ Addressed'
         /\ stack'[Top + 1] = c /\ \A i \in 1 .. Top : stack'[i] = stack[i]
<1>1. stack \in Seq(Context) /\ Top \in Nat /\ DOMAIN stack = 1 .. Top /\ (stack = << >> <=> Top = 0)
  BY StackMeans DEF TypeInv
<1>2. stack' \in Seq(Context) /\ Top' = Top + 1 /\ stack'[Top + 1] = c
      /\ \A i \in 1 .. Top : stack'[i] = stack[i]
  BY <1>1, AppendProperties DEF Top
<1>3. SamePrefix(Top) /\ Kept_variables(Top)
  BY <1>2 DEF SamePrefix, Kept_variables
<1>4. Called'
  <2>1. stack'[1].kind = "fn"
    BY <1>1, <1>2 DEF TypeInv, Called
  <2>2. \A d \in 2 .. Top + 1 : stack'[d].kind = "fn" => stack'[d].call \in CallSet
    <3> SUFFICES ASSUME NEW d \in 2 .. Top + 1, stack'[d].kind = "fn" PROVE stack'[d].call \in CallSet
      OBVIOUS
    <3>1. d \in 2 .. Top \/ (d = Top + 1 /\ Top # 0)
      BY <1>1
    <3> QED BY <1>1, <1>2, <3>1 DEF TypeInv, Called
  <2> QED BY <1>2, <2>1, <2>2 DEF Called
<1>5. Addressed'
  <2> SUFFICES ASSUME NEW e \in 1 .. Top + 1, NEW m \in DOMAIN stack'[e].values,
                      NEW a, a = stack'[e].values[m].storeAddress
               PROVE  AddressOK(a, e)'
    BY <1>2 DEF Addressed, AddressOK
  <2>1. Top \in 0 .. Top
    BY <1>1
  <2>2. CASE e \in 1 .. Top
    <3>1. AddressOK(a, e)
      BY <1>2, <2>2 DEF TypeInv, Addressed
    <3> QED BY <1>3, <2>1, <2>2, <3>1, AddressKept
  <2>3. CASE e = Top + 1
    BY <1>2, <2>3 DEF AddressOK
  <2> QED BY <1>1, <2>2, <2>3
<1> QED BY <1>2, <1>3, <1>4, <1>5

\* The innermost context is closed.
LEMMA PopStep ==
  ASSUME TypeInv, Top > 0, stack' = Popped
  PROVE  /\ stack' \in Seq(Context) /\ Top' = Top - 1 /\ SamePrefix(Top - 1) /\ Called' /\ Addressed'
         /\ \A i \in 1 .. Top - 1 : stack'[i] = stack[i]
<1>1. stack \in Seq(Context) /\ Top \in Nat /\ DOMAIN stack = 1 .. Top /\ Top - 1 \in 0 .. Top
  BY StackMeans DEF TypeInv
<1>2. stack' \in Seq(Context) /\ Top' = Top - 1 /\ \A i \in 1 .. Top - 1 : stack'[i] = stack[i]
  BY <1>1, SubSeqProperties DEF Top, Popped
<1>3. SamePrefix(Top - 1) /\ Kept_variables(Top - 1)
  BY <1>2 DEF SamePrefix, Kept_variables
<1>4. Called'
  <2>1. stack' # << >> => stack'[1].kind = "fn"
    <3> SUFFICES ASSUME stack' # << >> PROVE stack'[1].kind = "fn"
      OBVIOUS
    <3>1. Top - 1 # 0
      BY <1>2, EmptySeq DEF Top
    <3> QED BY <1>1, <1>2, <3>1, StackMeans
  <2>2. \A d \in 2 .. Top - 1 : stack'[d].kind = "fn" => stack'[d].call \in CallSet
    BY <1>1, <1>2 DEF TypeInv, Called
  <2> QED BY <1>2, <2>1, <2>2 DEF Called
<1>5. Addressed'
  <2> SUFFICES ASSUME NEW e \in 1 .. Top - 1, NEW m \in DOMAIN stack'[e].values,
                      NEW a, a = stack'[e].values[m].storeAddress
               PROVE  AddressOK(a, e)'
    BY <1>2 DEF Addressed, AddressOK
  <2>1. AddressOK(a, e)
    BY <1>1, <1>2 DEF TypeInv, Addressed
  <2> QED BY <1>1, <1>3, <2>1, AddressKept
<1> QED BY <1>2, <1>3, <1>4, <1>5

(***************************************************************************)
(* The statements, one by one: each keeps the types of the state, and      *)
(* changes the contexts and the regions in one of a few ways.              *)
(***************************************************************************)
Same == Top' = Top /\ SamePrefix(Top)

Opened(c) == /\ Top' = Top + 1 /\ SamePrefix(Top)
             /\ stack'[Top + 1].kind = c.kind /\ stack'[Top + 1].region = c.region

Closed_top == Top' = Top - 1 /\ SamePrefix(Top - 1)

SameObjects == \A o \in Obj : /\ Allocated(o)' <=> Allocated(o)
                              /\ Allocated(o) => obj'[o].region = obj[o].region

\* The objects bs are new and in region h.
NewObjects(h, bs) ==
  \A o \in Obj : IF o \in bs THEN ~Allocated(o) /\ Allocated(o)' /\ obj'[o].region = h
                 ELSE obj'[o] = obj[o]

LEMMA SameObjectsIfSame == obj' = obj => SameObjects
BY DEF SameObjects, Allocated

LEMMA GetRegionHandleIs ==
  ASSUME TypeInv, Running, NEW r, GetRegionHandle(r) # NoHandle
  PROVE  \E i \in Frame(Top) : /\ stack[i].defaultRegion = r /\ GetRegionHandle(r) = stack[i].region
                               /\ \A j \in Frame(Top) : stack[j].defaultRegion = r => j <= i
                               /\ i \in 1 .. Top /\ GetRegionHandle(r) \in Handle
<1> DEFINE scopes == {i \in Frame(Top) : stack[i].defaultRegion = r}
<1>1. scopes \in SUBSET (1 .. Top) /\ Top \in Nat
  BY RunningMeans, BaseIs
<1>2. GetRegionHandle(r) = IF scopes = {} THEN NoHandle ELSE stack[Latest(scopes)].region
  BY DEF GetRegionHandle
<1>3. scopes # {}
  BY <1>2
<1>4. Latest(scopes) \in scopes /\ \A j \in scopes : j <= Latest(scopes)
  BY <1>1, <1>3, LatestIs
<1>5. Latest(scopes) \in 1 .. Top /\ stack[Latest(scopes)].region \in Handle
  BY <1>1, <1>4, StackMeans, ContextMeans
<1> QED BY <1>2, <1>3, <1>4, <1>5

LEMMA KnownMeans ==
  ASSUME TypeInv, Running, NEW r \in KnownRegions
  PROVE  r \in RegionName /\ Denotes(Top, r) \in Handle
<1>1. PICK i \in Frame(Top) : r \in DOMAIN stack[i].binds
  BY DEF KnownRegions
<1>2. r \in RegionName
  BY <1>1, FrameOfTop, ContextMeans
<1>3. Denotes(Top, r) \in Handle
  BY <1>1, RunningMeans, DenotesBound
<1> QED BY <1>2, <1>3

LEMMA RefuseStep ==
  ASSUME TypeInv, NEW why \in Outcomes, Refuse(why)
  PROVE  TypeInv' /\ UNCHANGED <<stack, obj, live>>
<1>1. UNCHANGED <<stack, obj, live>> /\ outcome' \in Outcomes
  BY DEF Refuse
<1>2. Called' /\ Addressed'
  BY <1>1 DEF TypeInv, Called, Addressed, AddressOK, Top, Frame, BaseOf
<1> QED BY <1>1, <1>2 DEF TypeInv

LEMMA DeclareReferenceStep ==
  ASSUME TypeInv, NEW n \in Name, NEW how \in {"let", "var"}, NEW ref \in References,
         DeclareReference(n, how, ref)
  PROVE  TypeInv' /\ Same /\ UNCHANGED <<obj, live, outcome>>
<1>1. Running /\ UNCHANGED <<obj, live, outcome>> /\ stack' = [stack EXCEPT ![Top] = Bound(Top, how, n, ref)]
  BY DEF DeclareReference, Declare
<1>2. ref \in ValueSet /\ AddressOK(ref.storeAddress, Top) /\ Top \in 1 .. Top
  BY <1>1, ReferencesTyped, ReferenceIsValue, RunningMeans
<1>3. stack' \in Seq(Context) /\ Top' = Top /\ SamePrefix(Top) /\ Called' /\ Addressed'
  BY <1>1, <1>2, BindStep
<1> QED BY <1>1, <1>3 DEF TypeInv, Same

LEMMA DeclareNewStep ==
  ASSUME TypeInv, Running, NEW n \in Name, NEW how \in {"let", "var"}, NEW t \in Type,
         NEW o \in Obj \cup {Unset}, Declare(n, how, Value(t, o, NoAddress))
  PROVE  stack' \in Seq(Context) /\ Same /\ Called' /\ Addressed'
<1> DEFINE ref == Value(t, o, NoAddress)
<1>1. ref \in ValueSet /\ AddressOK(ref.storeAddress, Top)
  BY DEF ValueSet, Value, Address, AddressOK
<1>2. stack' = [stack EXCEPT ![Top] = Bound(Top, how, n, ref)]
  BY DEF Declare
<1> HIDE DEF ref
<1> QED BY <1>1, <1>2, RunningMeans, BindStep DEF Same

LEMMA DeclareInstanceStep ==
  ASSUME TypeInv, NEW n \in Name, NEW how \in {"let", "var"}, NEW r \in KnownRegions, NEW o \in Fresh,
         DeclareInstance(n, how, r, o)
  PROVE  /\ TypeInv' /\ Running
         /\ \/ UNCHANGED <<stack, obj, live>>
            \/ Same /\ live' = live /\ GetRegionHandle(r) # NoHandle
               /\ \E bs \in SUBSET Obj : NewObjects(GetRegionHandle(r), bs)
<1> DEFINE h == GetRegionHandle(r)
<1>1. Running
  BY DEF DeclareInstance
<1>2. CASE h = NoHandle
  <2>1. Refuse("rejected")
    BY <1>2 DEF DeclareInstance
  <2> QED BY <1>1, <2>1, RefuseStep DEF Outcomes
<1>3. CASE h # NoHandle
  <2>1. h \in Handle /\ r \in RegionName
    BY <1>1, <1>3, GetRegionHandleIs, KnownMeans
  <2>2. Instance(r) \in Type
    <3>1. <<r>> \in Seq(RegionName \cup {Global})
      BY <2>1
    <3> QED BY <3>1, LanguageAssumption DEF Instance, Type
  <2>3. o \in Obj /\ ~Allocated(o)
    BY DEF Fresh
  <2>4. Declare(n, how, Value(Instance(r), o, NoAddress)) /\ UNCHANGED <<live, outcome>>
    BY <1>3 DEF DeclareInstance
  <2>5. stack' \in Seq(Context) /\ Same /\ Called' /\ Addressed'
    BY <1>1, <2>2, <2>3, <2>4, DeclareNewStep
  <2>6. obj' \in [Obj -> Object \cup {NotAllocated}] /\ \E bs \in SUBSET Obj : NewObjects(h, bs)
    <3>1. CASE "fields" \in Features
      <4>1. PICK f \in Fresh \ {o} : obj' = [obj EXCEPT ![o] = [region |-> h, elems |-> <<f>>],
                                                       ![f] = [region |-> h, elems |-> << >>]]
        BY <1>3, <3>1 DEF DeclareInstance
      <4>2. f \in Obj /\ ~Allocated(f) /\ f # o /\ obj \in [Obj -> Object \cup {NotAllocated}]
        BY DEF Fresh, TypeInv
      <4>3. [region |-> h, elems |-> <<f>>] \in Object /\ [region |-> h, elems |-> << >>] \in Object
        <5>1. <<f>> \in Seq(Obj) /\ << >> \in Seq(Obj)
          BY <4>2
        <5> QED BY <2>1, <5>1 DEF Object
      <4> HIDE DEF h
      <4>4. obj' \in [Obj -> Object \cup {NotAllocated}]
            /\ obj'[o] \in Object /\ obj'[o].region = h /\ obj'[f] \in Object /\ obj'[f].region = h
            /\ \A p \in Obj \ {o, f} : obj'[p] = obj[p]
        BY <2>3, <4>1, <4>2, <4>3
      <4>5. obj'[o] # NotAllocated /\ obj'[f] # NotAllocated
        BY <4>4, SentinelAssumption DEF Object
      <4>6. NewObjects(h, {o, f})
        BY <2>3, <4>2, <4>4, <4>5 DEF NewObjects, Allocated
      <4> QED BY <2>3, <4>2, <4>4, <4>6
    <3>2. CASE "fields" \notin Features
      <4>1. obj' = [obj EXCEPT ![o] = [region |-> h, elems |-> << >>]]
        BY <1>3, <3>2 DEF DeclareInstance
      <4>2. obj \in [Obj -> Object \cup {NotAllocated}]
        BY DEF TypeInv
      <4>3. [region |-> h, elems |-> << >>] \in Object
        BY <2>1 DEF Object
      <4> HIDE DEF h
      <4>4. obj' \in [Obj -> Object \cup {NotAllocated}]
            /\ obj'[o] \in Object /\ obj'[o].region = h /\ \A p \in Obj \ {o} : obj'[p] = obj[p]
        BY <2>3, <4>1, <4>2, <4>3
      <4>5. obj'[o] # NotAllocated
        BY <4>4, SentinelAssumption DEF Object
      <4>6. NewObjects(h, {o})
        BY <2>3, <4>4, <4>5 DEF NewObjects, Allocated
      <4> QED BY <2>3, <4>4, <4>6
    <3> QED BY <3>1, <3>2
  <2>7. TypeInv'
    BY <2>4, <2>5, <2>6 DEF TypeInv
  <2> QED BY <1>1, <1>3, <2>4, <2>5, <2>6, <2>7
<1> QED BY <1>2, <1>3

LEMMA DeclareArrayStep ==
  ASSUME TypeInv, NEW n \in Name, NEW how \in {"let", "var"}, NEW len \in 1 .. MaxElements,
         NEW refs \in [1 .. len -> References], NEW o \in Fresh, DeclareArray(n, how, refs, o)
  PROVE  /\ TypeInv' /\ Running /\ Same /\ live' = live
         /\ NewObjects(stack[Top].region, {o})
<1> DEFINE elems == [k \in DOMAIN refs |-> refs[k].obj]
           h == stack[Top].region
<1>1. Running /\ o \in Obj /\ ~Allocated(o) /\ UNCHANGED <<live, outcome>>
  BY DEF DeclareArray, Fresh
<1>2. len \in Nat /\ 1 \in 1 .. len /\ DOMAIN refs = 1 .. len
  BY BoundAssumption
<1>3. \A k \in 1 .. len : refs[k].obj \in Obj /\ refs[k].type \in Type
  BY <1>1, ReferencesTyped, ReferenceIsValue
<1>4. elems \in Seq(Obj)
  BY <1>2, <1>3
<1>5. h \in Handle /\ stack[Top].defaultRegion \in RegionName
  BY <1>1, RunningMeans, ContextMeans
<1>6. ArrayOf(refs[1].type, stack[Top].defaultRegion) \in Type
  BY <1>2, <1>3, <1>5, ArrayIsType
<1>7. stack' \in Seq(Context) /\ Same /\ Called' /\ Addressed'
  BY <1>1, <1>6, DeclareNewStep DEF DeclareArray
<1>8. obj' = [obj EXCEPT ![o] = [region |-> h, elems |-> elems]] /\ obj \in [Obj -> Object \cup {NotAllocated}]
  BY DEF DeclareArray, TypeInv
<1>9. [region |-> h, elems |-> elems] \in Object
  BY <1>4, <1>5 DEF Object
<1> HIDE DEF h, elems
<1>10. obj' \in [Obj -> Object \cup {NotAllocated}]
       /\ obj'[o] \in Object /\ obj'[o].region = h /\ \A p \in Obj \ {o} : obj'[p] = obj[p]
  BY <1>1, <1>8, <1>9
<1>11. obj'[o] # NotAllocated
  BY <1>10, SentinelAssumption DEF Object
<1>12. NewObjects(h, {o})
  BY <1>1, <1>10, <1>11 DEF NewObjects, Allocated
<1>13. TypeInv'
  BY <1>1, <1>7, <1>10 DEF TypeInv
<1> QED BY <1>1, <1>7, <1>12, <1>13 DEF h

LEMMA StoreAtStep ==
  ASSUME TypeInv, Running, NEW address \in Address, AddressOK(address, Top), NEW ref \in Reference,
         StoreAt(address, ref)
  PROVE  TypeInv' /\ Same /\ SameObjects /\ UNCHANGED <<live, outcome>>
<1>1. Top \in Nat /\ Top \in 1 .. Top /\ ref.obj \in Obj
  BY RunningMeans, ReferenceIsValue
<1>2. CASE address.in = "variable"
           /\ stack' = [stack EXCEPT ![address.depth].variables[address.name].obj = ref.obj]
           /\ UNCHANGED <<obj, live, outcome>>
  <2>1. address.depth \in Frame(Top) /\ address.name \in DOMAIN stack[address.depth].variables
    BY <1>2 DEF AddressOK, NoAddress, Unnamed
  <2>2. address.depth \in 1 .. Top
    BY <2>1, FrameOfTop
  <2>3. stack' \in Seq(Context) /\ Top' = Top /\ SamePrefix(Top) /\ Called' /\ Addressed'
    BY <1>1, <1>2, <2>1, <2>2, VariableStep
  <2> QED BY <1>2, <2>3, SameObjectsIfSame DEF TypeInv, Same
<1>3. CASE /\ address.in = "object"
           /\ Allocated(address.obj) /\ address.index \in DOMAIN obj[address.obj].elems
           /\ obj' = [obj EXCEPT ![address.obj].elems[address.index] = ref.obj]
           /\ UNCHANGED <<stack, live, outcome>>
  <2> DEFINE o == address.obj
             k == address.index
             es == [obj[o].elems EXCEPT ![k] = ref.obj]
  <2>1. o \in Obj
    BY <1>3 DEF AddressOK, NoAddress, Unnamed
  <2>2. /\ obj[o].region \in Handle /\ obj[o].elems \in Seq(Obj) /\ obj[o] = [region |-> obj[o].region, elems |-> obj[o].elems]
        /\ k \in DOMAIN obj[o].elems
    BY <1>3, <2>1, ObjectMeans
  <2>3. es \in Seq(Obj)
    BY <1>1, <2>2, ExceptSeq
  <2>4. obj' = [obj EXCEPT ![o] = [obj[o] EXCEPT !.elems = es]]
    BY <1>3
  <2>5. obj \in [Obj -> Object \cup {NotAllocated}]
    BY DEF TypeInv
  <2> HIDE DEF es, o, k
  <2>6. [obj[o] EXCEPT !.elems = es] = [region |-> obj[o].region, elems |-> es]
    BY <2>2
  <2>7. [region |-> obj[o].region, elems |-> es] \in Object
    BY <2>2, <2>3 DEF Object
  <2>8. obj' \in [Obj -> Object \cup {NotAllocated}] /\ obj'[o] \in Object /\ obj'[o].region = obj[o].region
        /\ \A p \in Obj \ {o} : obj'[p] = obj[p]
    BY <2>1, <2>4, <2>5, <2>6, <2>7
  <2>9. obj'[o] # NotAllocated /\ Allocated(o)
    BY <1>3, <2>8, SentinelAssumption DEF Object, o
  <2>10. SameObjects
    BY <2>8, <2>9 DEF SameObjects, Allocated
  <2>11. Called' /\ Addressed' /\ Same
    BY <1>3 DEF TypeInv, Called, Addressed, AddressOK, Top, Frame, BaseOf, Same, SamePrefix
  <2> QED BY <1>3, <2>8, <2>10, <2>11 DEF TypeInv
<1>4. CASE UNCHANGED vars
  <2>1. Called' /\ Addressed' /\ Same
    BY <1>4 DEF vars, TypeInv, Called, Addressed, AddressOK, Top, Frame, BaseOf, Same, SamePrefix
  <2> QED BY <1>4, <2>1, SameObjectsIfSame DEF vars, TypeInv
<1> QED BY <1>2, <1>3, <1>4 DEF StoreAt

LEMMA AssignStep ==
  ASSUME TypeInv, NEW n \in Visible, NEW ref \in References, Assign(n, ref)
  PROVE  /\ TypeInv' /\ Running
         /\ \/ UNCHANGED <<stack, obj, live>>
            \/ Same /\ SameObjects /\ live' = live
<1> DEFINE target == GetValue(n)
<1>1. Running /\ (StoreAt(target.storeAddress, ref) \/ Refuse("aborted") \/ Refuse("rejected"))
  BY DEF Assign
<1>2. target \in ValueSet /\ AddressOK(target.storeAddress, Top) /\ ref \in Reference
  BY <1>1, GetValueTyped, ReferencesTyped DEF Visible
<1>3. target.storeAddress \in Address
  BY <1>2 DEF ValueSet
<1>4. CASE StoreAt(target.storeAddress, ref)
  BY <1>1, <1>2, <1>3, <1>4, StoreAtStep
<1>5. CASE Refuse("aborted") \/ Refuse("rejected")
  BY <1>1, <1>5, RefuseStep DEF Outcomes
<1> QED BY <1>1, <1>4, <1>5

LEMMA StorePartStep ==
  ASSUME TypeInv, NEW n \in Visible, NEW k, NEW ref \in References, StorePart(n, k, ref)
  PROVE  /\ TypeInv' /\ Running
         /\ \/ UNCHANGED <<stack, obj, live>>
            \/ Same /\ SameObjects /\ live' = live
<1>0. PICK target \in Reads(n) :
        Running /\ Allocated(target.obj) /\ k \in DOMAIN obj[target.obj].elems
        /\ (StoreAt(PartAddress(target.obj, k), ref) \/ Refuse("rejected"))
  BY DEF StorePart
<1> DEFINE address == PartAddress(target.obj, k)
<1>1. Running /\ Allocated(target.obj) /\ k \in DOMAIN obj[target.obj].elems
      /\ (StoreAt(address, ref) \/ Refuse("rejected"))
  BY <1>0
<1>2. target \in Reference /\ ref \in Reference
  BY <1>1, ReadsTyped, ReferencesTyped
<1>3. address \in Address /\ AddressOK(address, Top)
  <2>1. k \in Nat /\ target.obj \in Obj /\ AddressOK(PartAddress(target.obj, k), Top)
    BY <1>1, <1>2, PartTyped, ReferenceIsValue
  <2> QED BY <2>1 DEF PartAddress, Address
<1> HIDE DEF address
<1>4. CASE StoreAt(address, ref)
  BY <1>1, <1>2, <1>3, <1>4, StoreAtStep
<1>5. CASE Refuse("rejected")
  BY <1>1, <1>5, RefuseStep DEF Outcomes
<1> QED BY <1>1, <1>4, <1>5

LEMMA StartStep ==
  ASSUME TypeInv, NEW h \in Handle, Start(h)
  PROVE  /\ TypeInv' /\ stack = << >> /\ obj' = obj /\ live' = live \cup {h}
         /\ Top' = 1 /\ stack'[1].region = h
<1> DEFINE c == FunctionContext(MainSignature, h, [r \in {MainRegion} |-> h], << >>, NoCall)
<1>1. stack = << >> /\ live' = live \cup {h} /\ stack' = <<c>> /\ UNCHANGED <<obj, outcome>>
  BY DEF Start
<1>2. c = [kind |-> "fn", defaultRegion |-> MainRegion, region |-> h, binds |-> [r \in {MainRegion} |-> h],
           values |-> << >>, variables |-> << >>, call |-> NoCall]
  BY DEF FunctionContext, MainSignature
<1>3. [r \in {MainRegion} |-> h] \in Partial(RegionName, Handle)
  <2>1. {MainRegion} \in SUBSET RegionName /\ [r \in {MainRegion} |-> h] \in [{MainRegion} -> Handle]
    BY LanguageAssumption
  <2> QED BY <2>1, MakePartial
<1>4. MainRegion \in RegionName
  BY LanguageAssumption
<1> HIDE DEF c
<1>5. c \in Context /\ c.kind = "fn" /\ c.region = h /\ DOMAIN c.values = {}
  BY <1>2, <1>3, <1>4, EmptyPartial DEF Context
<1>6. stack' = Append(stack, c)
  BY <1>1
<1>7. Top = 0
  BY <1>1 DEF Top
<1>8. stack' \in Seq(Context) /\ Top' = Top + 1 /\ Called' /\ Addressed' /\ stack'[Top + 1] = c
  BY <1>1, <1>5, <1>6, PushStep
<1> QED BY <1>1, <1>5, <1>7, <1>8 DEF TypeInv

LEMMA ChildIs ==
  ASSUME TypeInv, Running, NEW kind \in {"on", "while"}
  PROVE  /\ Child(kind) \in Context /\ Child(kind).kind = kind /\ Child(kind).region = stack[Top].region
         /\ Child(kind) = [kind |-> kind, defaultRegion |-> stack[Top].defaultRegion,
                           region |-> stack[Top].region, binds |-> << >>, values |-> << >>,
                           variables |-> << >>, call |-> NoCall]
<1>1. stack[Top].defaultRegion \in RegionName /\ stack[Top].region \in Handle
  BY RunningMeans, ContextMeans
<1>2. kind \in {"fn", "on", "while"}
  OBVIOUS
<1> QED BY <1>1, <1>2, EmptyPartial DEF Child, Context

\* The context of an on-scope.
LEMMA OnContextIs ==
  ASSUME TypeInv, Running, NEW r \in OnRegion, NEW h \in Handle
  PROVE  /\ [Child("on") EXCEPT !.defaultRegion = r, !.region = h, !.binds = [s \in {r} |-> h]]
            = [kind |-> "on", defaultRegion |-> r, region |-> h, binds |-> [s \in {r} |-> h],
               values |-> << >>, variables |-> << >>, call |-> NoCall]
         /\ [s \in {r} |-> h] \in Partial(RegionName, Handle) /\ r \in RegionName
<1>1. Child("on") = [kind |-> "on", defaultRegion |-> stack[Top].defaultRegion,
                     region |-> stack[Top].region, binds |-> << >>, values |-> << >>,
                     variables |-> << >>, call |-> NoCall]
  BY ChildIs
<1>2. [Child("on") EXCEPT !.defaultRegion = r, !.region = h, !.binds = [s \in {r} |-> h]]
      = [kind |-> "on", defaultRegion |-> r, region |-> h, binds |-> [s \in {r} |-> h],
           values |-> << >>, variables |-> << >>, call |-> NoCall]
  <2> DEFINE b == [s \in {r} |-> h]
             child == Child("on")
  <2> HIDE DEF b, child
  <2>1. child = [kind |-> "on", defaultRegion |-> stack[Top].defaultRegion,
                 region |-> stack[Top].region, binds |-> << >>, values |-> << >>,
                 variables |-> << >>, call |-> NoCall]
    BY <1>1 DEF child
  <2>2. [child EXCEPT !.defaultRegion = r, !.region = h, !.binds = b]
        = [kind |-> "on", defaultRegion |-> r, region |-> h, binds |-> b,
           values |-> << >>, variables |-> << >>, call |-> NoCall]
    <3> DEFINE once == [child EXCEPT !.defaultRegion = r]
               twice == [once EXCEPT !.region = h]
    <3>1. [child EXCEPT !.defaultRegion = r, !.region = h, !.binds = b] = [twice EXCEPT !.binds = b]
      OBVIOUS
    <3>2. once = [kind |-> "on", defaultRegion |-> r, region |-> stack[Top].region, binds |-> << >>,
                  values |-> << >>, variables |-> << >>, call |-> NoCall]
      BY <2>1
    <3> HIDE DEF once
    <3>3. twice = [kind |-> "on", defaultRegion |-> r, region |-> h, binds |-> << >>,
                   values |-> << >>, variables |-> << >>, call |-> NoCall]
      BY <3>2
    <3> HIDE DEF twice
    <3>4. [twice EXCEPT !.binds = b] = [kind |-> "on", defaultRegion |-> r, region |-> h, binds |-> b,
                   values |-> << >>, variables |-> << >>, call |-> NoCall]
      BY <3>3
    <3> QED BY <3>1, <3>4 DEF twice, once
  <2> QED BY <2>2 DEF b, child
<1>3. [s \in {r} |-> h] \in Partial(RegionName, Handle) /\ r \in RegionName
  <2>1. r \in RegionName
    BY LanguageAssumption
  <2>2. {r} \in SUBSET RegionName /\ [s \in {r} |-> h] \in [{r} -> Handle]
    BY <2>1
  <2> QED BY <2>1, <2>2, MakePartial
<1> QED BY <1>2, <1>3

LEMMA EnterOnStep ==
  ASSUME TypeInv, NEW r \in OnRegion, NEW h \in Handle, EnterOn(r, h)
  PROVE  /\ TypeInv' /\ Running /\ obj' = obj /\ h \notin live /\ live' = live \cup {h}
         /\ Opened([kind |-> "on", region |-> h])
<1> DEFINE c == [Child("on") EXCEPT !.defaultRegion = r, !.region = h, !.binds = [s \in {r} |-> h]]
<1>1. Running /\ h \notin live /\ live' = live \cup {h} /\ stack' = Append(stack, c) /\ UNCHANGED <<obj, outcome>>
  BY DEF EnterOn
<1>2. /\ c = [kind |-> "on", defaultRegion |-> r, region |-> h, binds |-> [s \in {r} |-> h],
              values |-> << >>, variables |-> << >>, call |-> NoCall]
      /\ [s \in {r} |-> h] \in Partial(RegionName, Handle) /\ r \in RegionName
  BY <1>1, OnContextIs
<1> HIDE DEF c
<1>3. c \in Context /\ c.kind = "on" /\ c.region = h /\ DOMAIN c.values = {}
  BY <1>2, EmptyPartial DEF Context
<1>4. stack' \in Seq(Context) /\ Top' = Top + 1 /\ Called' /\ Addressed' /\ stack'[Top + 1] = c /\ SamePrefix(Top)
  BY <1>1, <1>3, PushStep DEF Running
<1> QED BY <1>1, <1>3, <1>4 DEF TypeInv, Opened

LEMMA EnterWhileStep ==
  ASSUME TypeInv, EnterWhile
  PROVE  /\ TypeInv' /\ Running /\ UNCHANGED <<obj, live>>
         /\ Opened([kind |-> "while", region |-> stack[Top].region])
<1>1. Running /\ stack' = Append(stack, Child("while")) /\ UNCHANGED <<obj, live, outcome>>
  BY DEF EnterWhile
<1>2. Child("while") \in Context /\ Child("while").kind = "while" /\ Child("while").region = stack[Top].region
      /\ DOMAIN Child("while").values = {}
  BY <1>1, ChildIs, EmptyPartial
<1>3. stack' \in Seq(Context) /\ Top' = Top + 1 /\ Called' /\ Addressed' /\ stack'[Top + 1] = Child("while")
      /\ SamePrefix(Top)
  BY <1>1, <1>2, PushStep DEF Running
<1> QED BY <1>1, <1>2, <1>3 DEF TypeInv, Opened

\* Released is what DeleteRegion leaves.
LEMMA ReleasedIs ==
  ASSUME TypeInv, NEW h, obj' = Released(h)
  PROVE  /\ obj' \in [Obj -> Object \cup {NotAllocated}]
         /\ \A o \in Obj : obj'[o] = IF Allocated(o) /\ obj[o].region = h THEN NotAllocated ELSE obj[o]
BY DEF Released, TypeInv

LEMMA LeaveOnStep ==
  ASSUME TypeInv, LeaveOn
  PROVE  /\ TypeInv' /\ Running /\ stack[Top].kind = "on" /\ live' = live \ {stack[Top].region}
         /\ obj' = Released(stack[Top].region) /\ Closed_top
<1>1. /\ Running /\ stack[Top].kind = "on" /\ live' = live \ {stack[Top].region}
      /\ obj' = Released(stack[Top].region) /\ stack' = Popped /\ outcome' = outcome
  BY DEF LeaveOn
<1>2. stack' \in Seq(Context) /\ Top' = Top - 1 /\ SamePrefix(Top - 1) /\ Called' /\ Addressed'
  BY <1>1, RunningMeans, PopStep
<1>3. obj' \in [Obj -> Object \cup {NotAllocated}]
  BY <1>1, ReleasedIs
<1> QED BY <1>1, <1>2, <1>3 DEF TypeInv, Closed_top

LEMMA LeaveWhileStep ==
  ASSUME TypeInv, LeaveWhile
  PROVE  TypeInv' /\ Running /\ stack[Top].kind = "while" /\ UNCHANGED <<obj, live>> /\ Closed_top
<1>1. Running /\ stack[Top].kind = "while" /\ UNCHANGED <<obj, live, outcome>> /\ stack' = Popped
  BY DEF LeaveWhile
<1>2. stack' \in Seq(Context) /\ Top' = Top - 1 /\ SamePrefix(Top - 1) /\ Called' /\ Addressed'
  BY <1>1, RunningMeans, PopStep
<1> QED BY <1>1, <1>2 DEF TypeInv, Closed_top

LEMMA ReturnVoidStep ==
  ASSUME TypeInv, ReturnVoid
  PROVE  TypeInv' /\ Running /\ stack[Top].kind = "fn" /\ Top > 1 /\ UNCHANGED <<obj, live>> /\ Closed_top
<1>1. Running /\ stack[Top].kind = "fn" /\ Top > 1 /\ UNCHANGED <<obj, live, outcome>> /\ stack' = Popped
  BY DEF ReturnVoid
<1>2. stack' \in Seq(Context) /\ Top' = Top - 1 /\ SamePrefix(Top - 1) /\ Called' /\ Addressed'
  BY <1>1, RunningMeans, PopStep
<1> QED BY <1>1, <1>2 DEF TypeInv, Closed_top

LEMMA MainReturnStep ==
  ASSUME TypeInv, MainReturn
  PROVE  /\ TypeInv' /\ Running /\ Top = 1 /\ live' = live \ {stack[1].region}
         /\ obj' = Released(stack[1].region) /\ Top' = 0 /\ stack' = << >>
<1>1. /\ Running /\ Top = 1 /\ live' = live \ {stack[1].region}
      /\ obj' = Released(stack[1].region) /\ stack' = << >> /\ outcome' = "done"
  BY DEF MainReturn
<1>2. obj' \in [Obj -> Object \cup {NotAllocated}]
  BY <1>1, ReleasedIs
<1>3. stack' \in Seq(Context) /\ Top' = 0
  BY <1>1 DEF Top
<1>4. Called' /\ Addressed'
  BY <1>1, <1>3 DEF Called, Addressed
<1> QED BY <1>1, <1>2, <1>3, <1>4 DEF TypeInv, Outcomes

(***************************************************************************)
(* Calls and returns.                                                      *)
(***************************************************************************)

\* The context that an accepted call opens.
Callee(n, how, f, regions, args) ==
  FunctionContext(f, GetRegionHandle(regions[1]),
    [r \in {f.regions[k] : k \in DOMAIN f.regions} |->
       Denotes(Top, regions[CHOOSE k \in DOMAIN f.regions : f.regions[k] = r])],
    [p \in {ParamName[k] : k \in DOMAIN f.params} |->
       LET k == CHOOSE k \in DOMAIN f.params : ParamName[k] = p
       IN Value(f.params[k], args[k].obj, NoAddress)],
    [name |-> n, how |-> how, ret |-> f.ret, type |-> ResultType(f, regions)])

\* What the compiler says of the call.
Verdict(f, regions, args) ==
  CallVerdict(f, regions, [k \in DOMAIN args |-> args[k].type], GetRegionHandle(regions[1]) # NoHandle)

LEMMA SignatureMeans ==
  ASSUME NEW f \in Signature
  PROVE  /\ f.regions \in Seq(RegionName) /\ Len(f.regions) \in Nat /\ Len(f.regions) >= 1
         /\ DOMAIN f.regions = 1 .. Len(f.regions) /\ 1 \in DOMAIN f.regions
         /\ \A k \in DOMAIN f.regions : f.regions[k] \in RegionName
         /\ Apart(f.regions)
         /\ f.params \in Seq(Type) /\ DOMAIN f.params = 1 .. Len(f.params) /\ f.ret \in Type
         /\ \A k \in DOMAIN f.params : f.params[k] \in Type /\ ParamName[k] \in Name
<1>1. /\ f.regions \in Seq(RegionName) /\ Len(f.regions) >= 1
      /\ f.params \in Seq(Type) /\ Len(f.params) <= Len(ParamName) /\ f.ret \in Type
      /\ Apart(f.regions)
  BY SignatureAssumption DEF Apart
<1>2. ParamName \in Seq(Name)
  BY LanguageAssumption
<1>3. Len(f.regions) \in Nat /\ DOMAIN f.regions = 1 .. Len(f.regions)
      /\ Len(f.params) \in Nat /\ DOMAIN f.params = 1 .. Len(f.params) /\ Len(ParamName) \in Nat
  BY <1>1, <1>2, LenProperties
<1>4. \A k \in DOMAIN f.regions : f.regions[k] \in RegionName
  BY <1>1, <1>3, ElementOfSeq
<1>5. \A k \in DOMAIN f.params : f.params[k] \in Type
  BY <1>1, <1>3, ElementOfSeq
<1>6. \A k \in DOMAIN f.params : ParamName[k] \in Name
  <2> SUFFICES ASSUME NEW k \in DOMAIN f.params PROVE ParamName[k] \in Name
    OBVIOUS
  <2>1. k \in 1 .. Len(ParamName)
    BY <1>1, <1>3
  <2> QED BY <1>2, <2>1, ElementOfSeq
<1> QED BY <1>1, <1>3, <1>4, <1>5, <1>6

LEMMA VerdictMeans ==
  ASSUME NEW f, NEW regions, NEW types, NEW hasHandle
  PROVE  /\ CallVerdict(f, regions, types, hasHandle) \in {"rejected", "undefined", "aborted", "accepted"}
         /\ CallVerdict(f, regions, types, hasHandle) = "accepted" =>
              /\ hasHandle /\ Len(regions) = Len(f.regions)
              /\ Unequal(types, f.params, RegionsRemap(regions, f.regions)) = {}
              /\ Remappable(f.ret, Invert(RegionsRemap(regions, f.regions)))
<1> DEFINE remap == RegionsRemap(regions, f.regions)
<1>1. ArgumentVerdict(types, f.params, remap) \in {"rejected", "undefined"}
  BY DEF ArgumentVerdict
<1>2. ResultVerdict(f.ret, Invert(remap)) \in {"undefined", "aborted"}
  BY DEF ResultVerdict
<1>3. CallVerdict(f, regions, types, hasHandle) =
        IF ~hasHandle \/ Len(regions) # Len(f.regions) THEN "rejected"
        ELSE IF Unequal(types, f.params, remap) # {} THEN ArgumentVerdict(types, f.params, remap)
        ELSE IF ~Remappable(f.ret, Invert(remap)) THEN ResultVerdict(f.ret, Invert(remap))
        ELSE "accepted"
  BY DEF CallVerdict
<1> HIDE DEF remap
<1>4. CASE ~hasHandle \/ Len(regions) # Len(f.regions)
  BY <1>3, <1>4
<1>5. CASE ~(~hasHandle \/ Len(regions) # Len(f.regions)) /\ Unequal(types, f.params, remap) # {}
  BY <1>1, <1>3, <1>5
<1>6. CASE ~(~hasHandle \/ Len(regions) # Len(f.regions)) /\ Unequal(types, f.params, remap) = {}
  BY <1>2, <1>3, <1>6 DEF remap
<1> QED BY <1>4, <1>5, <1>6

\* What the frame of an accepted call looks like.
IsCallee(c, n, how, f, regions, args) ==
  /\ c \in Context /\ c.kind = "fn" /\ c.defaultRegion = f.regions[1]
  /\ c.region = GetRegionHandle(regions[1]) /\ GetRegionHandle(regions[1]) # NoHandle
  /\ regions \in Seq(RegionName) /\ Len(regions) = Len(f.regions)
  /\ DOMAIN c.binds = {f.regions[k] : k \in DOMAIN f.regions}
  /\ \A k \in DOMAIN f.regions : c.binds[f.regions[k]] = Denotes(Top, regions[k])
  /\ c.variables = << >>
  /\ DOMAIN c.values \subseteq Name
  /\ \A p \in DOMAIN c.values : \E k \in DOMAIN f.params :
       /\ c.values[p] = Value(f.params[k], args[k].obj, NoAddress)
       /\ args[k].type = Substituted(f.params[k], regions, f.regions)
       /\ Closed(f.params[k], f.regions)
  /\ c.call = [name |-> n, how |-> how, ret |-> f.ret,
               type |-> Substituted(f.ret, regions, f.regions)]
  /\ c.call \in CallSet
  /\ Closed(f.ret, f.regions)

LEMMA CalleeIs ==
  ASSUME TypeInv, Running, NEW n \in Name, NEW how \in {"let", "var"}, NEW f \in Signature,
         NEW regions \in [DOMAIN f.regions -> KnownRegions],
         NEW args \in [DOMAIN f.params -> References],
         Verdict(f, regions, args) = "accepted",
         NEW c, c = Callee(n, how, f, regions, args)
  PROVE  IsCallee(c, n, how, f, regions, args)
<1> DEFINE types   == [k \in DOMAIN args |-> args[k].type]
           handle  == GetRegionHandle(regions[1])
           binds   == [r \in {f.regions[k] : k \in DOMAIN f.regions} |->
                         Denotes(Top, regions[CHOOSE k \in DOMAIN f.regions : f.regions[k] = r])]
           values  == [p \in {ParamName[k] : k \in DOMAIN f.params} |->
                         LET k == CHOOSE k \in DOMAIN f.params : ParamName[k] = p
                         IN Value(f.params[k], args[k].obj, NoAddress)]
           call    == [name |-> n, how |-> how, ret |-> f.ret, type |-> ResultType(f, regions)]
           remap   == RegionsRemap(regions, f.regions)
<1>1. handle # NoHandle /\ Unequal(types, f.params, remap) = {} /\ Remappable(f.ret, Invert(remap))
  BY VerdictMeans DEF Verdict
<1>2. /\ f.regions \in Seq(RegionName) /\ Len(f.regions) \in Nat /\ Len(f.regions) >= 1
      /\ DOMAIN f.regions = 1 .. Len(f.regions) /\ 1 \in DOMAIN f.regions
      /\ \A k \in DOMAIN f.regions : f.regions[k] \in RegionName
      /\ Apart(f.regions)
      /\ f.ret \in Type
      /\ \A k \in DOMAIN f.params : f.params[k] \in Type /\ ParamName[k] \in Name
  BY SignatureMeans
<1>3. \A k \in DOMAIN f.regions : regions[k] \in RegionName /\ Denotes(Top, regions[k]) \in Handle
  BY KnownMeans
<1>4. regions \in Seq(RegionName) /\ Len(regions) = Len(f.regions)
  <2>1. regions \in [1 .. Len(f.regions) -> RegionName]
    BY <1>2, <1>3
  <2> QED BY <1>2, <2>1
<1>5. handle \in Handle
  BY <1>1, GetRegionHandleIs
<1>6. /\ DOMAIN binds = {f.regions[k] : k \in DOMAIN f.regions}
      /\ \A k \in DOMAIN f.regions : binds[f.regions[k]] = Denotes(Top, regions[k])
  <2> SUFFICES ASSUME NEW k \in DOMAIN f.regions
               PROVE  binds[f.regions[k]] = Denotes(Top, regions[k])
    OBVIOUS
  <2>1. (CHOOSE j \in DOMAIN f.regions : f.regions[j] = f.regions[k]) = k
    BY <1>2 DEF Apart
  <2> QED BY <2>1
<1>7. binds \in Partial(RegionName, Handle)
  <2> DEFINE D == {f.regions[k] : k \in DOMAIN f.regions}
  <2>1. D \in SUBSET RegionName
    BY <1>2
  <2>2. \A r \in D : binds[r] \in Handle
    BY <1>3, <1>6
  <2>3. binds = [r \in D |-> binds[r]]
    OBVIOUS
  <2> HIDE DEF binds, D
  <2>4. binds \in [D -> Handle]
    BY <2>2, <2>3
  <2> QED BY <2>1, <2>4, MakePartial
<1>8. \A p \in DOMAIN values : \E k \in DOMAIN f.params : values[p] = Value(f.params[k], args[k].obj, NoAddress)
  <2> SUFFICES ASSUME NEW p \in {ParamName[k] : k \in DOMAIN f.params}
               PROVE  \E k \in DOMAIN f.params : values[p] = Value(f.params[k], args[k].obj, NoAddress)
    OBVIOUS
  <2> DEFINE k == CHOOSE k \in DOMAIN f.params : ParamName[k] = p
  <2>1. k \in DOMAIN f.params
    OBVIOUS
  <2>2. values[p] = Value(f.params[k], args[k].obj, NoAddress)
    OBVIOUS
  <2> QED BY <2>1, <2>2
<1>9. \A k \in DOMAIN f.params : /\ args[k].obj \in Obj
                                 /\ args[k].type = Substituted(f.params[k], regions, f.regions)
                                 /\ Closed(f.params[k], f.regions)
  <2> SUFFICES ASSUME NEW k \in DOMAIN f.params
               PROVE  /\ args[k].obj \in Obj /\ args[k].type = Substituted(f.params[k], regions, f.regions)
                      /\ Closed(f.params[k], f.regions)
    OBVIOUS
  <2>1. args[k].obj \in Obj /\ args[k].type \in Type
    BY ReferencesTyped, ReferenceIsValue
  <2>2. k \in DOMAIN types \cap DOMAIN f.params /\ types[k] = args[k].type
    OBVIOUS
  <2>3. Equals(args[k].type, f.params[k], remap) = "equal"
    BY <1>1, <2>2 DEF Unequal
  <2>4. f.params[k] \in Type /\ Len(regions) >= 1
    BY <1>2, <1>4
  <2>5. args[k].type = Substituted(f.params[k], regions, f.regions)
    BY <1>2, <1>4, <2>1, <2>3, <2>4, EqualIsSubstituted
  <2>6. Closed(f.params[k], f.regions)
    BY <1>2, <1>4, <2>1, <2>3, <2>4, EqualIsClosed
  <2> QED BY <2>1, <2>5, <2>6
<1>10. values \in Partial(Name, ValueSet)
  <2> DEFINE D == {ParamName[k] : k \in DOMAIN f.params}
  <2>1. D \in SUBSET Name
    BY <1>2
  <2>2. \A k \in DOMAIN f.params : Value(f.params[k], args[k].obj, NoAddress) \in ValueSet
    BY <1>2, <1>9 DEF Value, ValueSet, Address
  <2>3. \A p \in D : values[p] \in ValueSet
    <3>1. DOMAIN values = D
      OBVIOUS
    <3> HIDE DEF values, D
    <3> QED BY <1>8, <2>2, <3>1
  <2>4. values = [p \in D |-> values[p]]
    OBVIOUS
  <2> HIDE DEF values, D
  <2>5. values \in [D -> ValueSet]
    BY <2>3, <2>4
  <2> QED BY <2>1, <2>5, MakePartial
<1>11. ResultType(f, regions) = Substituted(f.ret, regions, f.regions)
       /\ ResultType(f, regions) \in Type
  BY <1>1, <1>2, <1>4, ResultIsSubstituted, SubstitutedIsType DEF ResultType
<1>12. call = [name |-> n, how |-> how, ret |-> f.ret,
               type |-> Substituted(f.ret, regions, f.regions)] /\ call \in CallSet
  BY <1>2, <1>11 DEF CallSet
<1>13. c = [kind |-> "fn", defaultRegion |-> f.regions[1], region |-> handle,
            binds |-> binds, values |-> values, variables |-> << >>, call |-> call]
  BY DEF Callee, FunctionContext
<1>14. f.regions[1] \in RegionName
  BY <1>2
<1>15. DOMAIN values \subseteq Name
  BY <1>10, PartialMeans
<1> HIDE DEF binds, values, call, types, remap, handle
<1>16. /\ c \in Context /\ c.kind = "fn" /\ c.defaultRegion = f.regions[1] /\ c.region = handle
       /\ c.binds = binds /\ c.variables = << >> /\ c.values = values /\ c.call = call
  BY <1>5, <1>7, <1>10, <1>12, <1>13, <1>14, EmptyPartial DEF Context
<1>17. \A p \in DOMAIN values : \E k \in DOMAIN f.params :
              /\ values[p] = Value(f.params[k], args[k].obj, NoAddress)
              /\ args[k].type = Substituted(f.params[k], regions, f.regions)
              /\ Closed(f.params[k], f.regions)
  BY <1>8, <1>9
<1>18. Closed(f.ret, f.regions)
  BY <1>1, <1>2, <1>4, RemappableIsClosed DEF remap
<1> QED BY <1>1, <1>4, <1>6, <1>12, <1>15, <1>16, <1>17, <1>18 DEF IsCallee, handle, remap

LEMMA CallStep ==
  ASSUME TypeInv, NEW n \in Name, NEW how \in {"let", "var"}, NEW f \in Signature,
         NEW regions \in [DOMAIN f.regions -> KnownRegions],
         NEW args \in [DOMAIN f.params -> References], Call(n, how, f, regions, args)
  PROVE  /\ TypeInv' /\ Running /\ UNCHANGED <<obj, live>>
         /\ \/ stack' = stack
            \/ /\ GetRegionHandle(regions[1]) # NoHandle
               /\ Opened([kind |-> "fn", region |-> GetRegionHandle(regions[1])])
<1> DEFINE verdict == Verdict(f, regions, args)
           c == Callee(n, how, f, regions, args)
<1>1. Running /\ IF verdict = "accepted"
                 THEN stack' = Append(stack, c) /\ UNCHANGED <<obj, live, outcome>>
                 ELSE Refuse(verdict)
  BY DEF Call, Callee, Verdict
<1>2. CASE verdict # "accepted"
  <2>1. verdict \in Outcomes
    <3>1. verdict \in {"rejected", "undefined", "aborted", "accepted"}
      BY VerdictMeans DEF Verdict
    <3> QED BY <1>2, <3>1 DEF Outcomes
  <2>2. Refuse(verdict)
    BY <1>1, <1>2
  <2> HIDE DEF verdict
  <2> QED BY <1>1, <2>1, <2>2, RefuseStep
<1>3. CASE verdict = "accepted"
  <2> HIDE DEF c
  <2>1. c = Callee(n, how, f, regions, args)
    BY DEF c
  <2>0. IsCallee(c, n, how, f, regions, args)
    BY <1>1, <1>3, <2>1, CalleeIs
  <2>2. /\ c \in Context /\ c.kind = "fn" /\ c.region = GetRegionHandle(regions[1])
        /\ GetRegionHandle(regions[1]) # NoHandle /\ c.call \in CallSet
    BY <2>0 DEF IsCallee
  <2>3. \A p \in DOMAIN c.values : c.values[p].storeAddress = NoAddress
    <3> SUFFICES ASSUME NEW p \in DOMAIN c.values PROVE c.values[p].storeAddress = NoAddress
      OBVIOUS
    <3>1. PICK k \in DOMAIN f.params : c.values[p] = Value(f.params[k], args[k].obj, NoAddress)
      BY <2>0 DEF IsCallee
    <3> QED BY <3>1 DEF Value
  <2>4. stack' = Append(stack, c) /\ UNCHANGED <<obj, live, outcome>>
    BY <1>1, <1>3
  <2>5. stack' \in Seq(Context) /\ Top' = Top + 1 /\ Called' /\ Addressed' /\ stack'[Top + 1] = c /\ SamePrefix(Top)
    BY <1>1, <2>2, <2>3, <2>4, PushStep DEF Running
  <2> QED BY <1>1, <2>2, <2>4, <2>5 DEF TypeInv, Opened
<1> QED BY <1>2, <1>3

\* The caller's context with the result in it.
\* The types that a branch not taken can declare a name with.
LEMMA SkippedTypesTyped ==
  ASSUME TypeInv, Running, NEW how
  PROVE  SkippedTypes(how) \subseteq Type
<1> DEFINE type(n)  == GetValue(n).type
           parts    == UNION {PartTypes(type(n)) : n \in Known}
           read     == {n \in Known : how = "var" \/ n \in DOMAIN stack[Latest(ScopesOf(n))].variables}
           new      == {Instance(r) : r \in {s \in KnownRegions : GetRegionHandle(s) # NoHandle}}
           args     == {type(n) : n \in Known} \cup parts
           elements == args \cap {Instance(r) : r \in RegionName}
           calls(f) == {regions \in [DOMAIN f.regions -> KnownRegions] :
                          \E types \in [DOMAIN f.params -> args] :
                            CallVerdict(f, regions, types, GetRegionHandle(regions[1]) # NoHandle) = "accepted"}
           results(f) == IF f.ret = Void THEN {} ELSE {ResultType(f, regions) : regions \in calls(f)}
<1>1. FieldType \in Type
  BY LanguageAssumption DEF FieldType, Type
<1>2. \A n \in Known : type(n) \in Type
  BY GetValueTyped DEF ValueSet
<1>3. parts \subseteq Type
  <2> SUFFICES ASSUME NEW n \in Known, NEW t \in PartTypes(type(n)) PROVE t \in Type
    OBVIOUS
  <2>1. t = FieldType \/ (IsArray(type(n)) /\ t = ElementType(type(n)))
    BY DEF PartTypes
  <2> QED BY <1>1, <1>2, <2>1, ElementIsType
<1>4. new \subseteq Type
  <2>1. \A r \in KnownRegions : r \in RegionName
    BY KnownMeans
  <2>2. \A r \in RegionName : Instance(r) \in Type
    BY LanguageAssumption DEF Instance, Type
  <2> QED BY <2>1, <2>2
<1>5. {ArrayOf(t, stack[Top].defaultRegion) : t \in elements} \subseteq Type
  <2>1. stack[Top].defaultRegion \in RegionName
    BY RunningMeans, ContextMeans
  <2> HIDE DEF type, parts
  <2>2. args \subseteq Type
    BY <1>2, <1>3
  <2> QED BY <2>1, <2>2, ArrayIsType
<1>6. \A f \in Signature : results(f) \subseteq Type
  <2> SUFFICES ASSUME NEW f \in Signature, NEW regions \in calls(f) PROVE ResultType(f, regions) \in Type
    OBVIOUS
  <2>1. Remappable(f.ret, Invert(RegionsRemap(regions, f.regions)))
    BY VerdictMeans
  <2>2. /\ f.regions \in Seq(RegionName) /\ Len(f.regions) \in Nat /\ DOMAIN f.regions = 1 .. Len(f.regions)
        /\ Apart(f.regions) /\ f.ret \in Type
    BY SignatureMeans
  <2>3. \A k \in DOMAIN f.regions : regions[k] \in RegionName
    BY KnownMeans
  <2>4. regions \in Seq(RegionName) /\ Len(regions) = Len(f.regions)
    <3>1. regions \in [1 .. Len(f.regions) -> RegionName]
      BY <2>2, <2>3
    <3> QED BY <2>2, <3>1
  <2> QED BY <2>1, <2>2, <2>4, ResultIsSubstituted, SubstitutedIsType DEF ResultType
<1>7. SkippedTypes(how) = IF "leaks" \notin Features THEN {FieldType}
                          ELSE {type(n) : n \in read} \cup parts \cup new
                                 \cup {ArrayOf(t, stack[Top].defaultRegion) : t \in elements}
                                 \cup UNION {results(f) : f \in Signature}
  BY DEF SkippedTypes
<1>8. {type(n) : n \in read} \subseteq Type
  BY <1>2
<1> HIDE DEF type, parts, read, new, args, elements, results
<1> QED BY <1>1, <1>3, <1>4, <1>5, <1>6, <1>7, <1>8

\* A declaration in a branch not taken binds a name, and nothing else.
LEMMA DeclareSkippedStep ==
  ASSUME TypeInv, NEW n \in Name, NEW how \in {"let", "var"}, NEW t \in SkippedTypes(how),
         DeclareSkipped(n, how, t)
  PROVE  /\ TypeInv' /\ Running /\ Same /\ UNCHANGED <<obj, live, outcome>>
         /\ stack' = [stack EXCEPT ![Top] = Bound(Top, how, n, Value(t, Unset, NoAddress))]
<1>1. /\ Running /\ UNCHANGED <<obj, live, outcome>>
      /\ Declare(n, how, Value(t, Unset, NoAddress))
  BY DEF DeclareSkipped
<1>2. t \in Type
  BY <1>1, SkippedTypesTyped
<1>3. stack' \in Seq(Context) /\ Same /\ Called' /\ Addressed'
  BY <1>1, <1>2, DeclareNewStep
<1> QED BY <1>1, <1>3 DEF TypeInv, Declare

LEMMA ReturnStep ==
  ASSUME TypeInv, NEW ref \in References, Return(ref)
  PROVE  /\ TypeInv' /\ Running /\ stack[Top].kind = "fn" /\ Top > 1 /\ UNCHANGED <<obj, live, outcome>>
         /\ Closed_top
         /\ stack[Top].call \in CallSet
         /\ stack'[Top - 1] = Bound(Top - 1, stack[Top].call.how, stack[Top].call.name,
                                   Value(stack[Top].call.type, ref.obj, NoAddress))
         /\ \A i \in 1 .. Top - 2 : stack'[i] = stack[i]
<1> DEFINE call  == stack[Top].call
           value == Value(call.type, ref.obj, NoAddress)
           d     == Top - 1
           c     == Bound(d, call.how, call.name, value)
<1>1. /\ Running /\ stack[Top].kind = "fn" /\ Top > 1 /\ UNCHANGED <<obj, live, outcome>>
      /\ stack' = [Popped EXCEPT ![d] = c]
  BY DEF Return
<1>2. Top \in Nat /\ d \in 1 .. Top /\ Top \in 2 .. Top /\ DOMAIN stack = 1 .. Top
      /\ stack \in Seq(Context)
  BY <1>1, RunningMeans, StackMeans DEF TypeInv
<1>3. call \in CallSet /\ call.name \in Name /\ call.how \in {"let", "var"} /\ call.type \in Type
  BY <1>1, <1>2 DEF TypeInv, Called, CallSet
<1>4. value \in ValueSet /\ AddressOK(value.storeAddress, d)
  <2>1. ref.obj \in Obj
    BY <1>1, ReferencesTyped, ReferenceIsValue
  <2> QED BY <1>3, <2>1 DEF Value, ValueSet, Address, AddressOK
<1>5. c \in Context /\ c.kind = stack[d].kind /\ c.region = stack[d].region
  <2> HIDE DEF c, value, d, call
  <2>1. c = Bound(d, call.how, call.name, value)
    BY DEF c
  <2> QED BY <1>2, <1>3, <1>4, <2>1, BoundLike
<1>6. /\ stack' \in Seq(Context) /\ Len(stack') = d
      /\ \A i \in 1 .. d : stack'[i] = IF i = d THEN c ELSE stack[i]
  <2> HIDE DEF c, d
  <2>1. Popped \in Seq(Context) /\ Len(Popped) = d /\ \A i \in 1 .. d : Popped[i] = stack[i]
    BY <1>2, SubSeqProperties DEF Popped, Top, d
  <2>2. d \in 1 .. d
    BY <1>1, <1>2 DEF d
  <2>3. stack' \in Seq(Context) /\ Len(stack') = Len(Popped)
    BY <1>1, <1>5, <2>1, <2>2, ExceptSeq
  <2> QED BY <1>1, <2>1, <2>2, <2>3
<1>7. SamePrefix(d) /\ Kept_variables(d)
  <2>1. /\ DOMAIN stack[d].variables \subseteq DOMAIN c.variables
        /\ c.kind = stack[d].kind /\ c.defaultRegion = stack[d].defaultRegion
        /\ c.region = stack[d].region /\ c.binds = stack[d].binds /\ c.call = stack[d].call
    <3> HIDE DEF c, value, d, call
    <3>1. c = Bound(d, call.how, call.name, value)
      BY DEF c
    <3> QED BY <1>2, <1>3, <1>4, <3>1, BoundLike, BoundNames
  <2> HIDE DEF c, d
  <2> QED BY <1>6, <2>1 DEF SamePrefix, Kept_variables
<1>8. Called'
  <2>1. stack[1].kind = "fn" /\ 1 \in 1 .. d
    BY <1>1, <1>2, StackMeans
  <2>2. stack'[1].kind = "fn"
    BY <1>7, <2>1 DEF SamePrefix
  <2>3. \A e \in 2 .. d : stack'[e].kind = "fn" => stack'[e].call \in CallSet
    <3> SUFFICES ASSUME NEW e \in 2 .. d, stack'[e].kind = "fn" PROVE stack'[e].call \in CallSet
      OBVIOUS
    <3>1. e \in 1 .. d /\ e \in 2 .. Top
      BY <1>2
    <3> QED BY <1>7, <3>1 DEF SamePrefix, TypeInv, Called
  <2> QED BY <1>6, <2>2, <2>3 DEF Called, Top
<1>9. Addressed'
  <2> SUFFICES ASSUME NEW e \in 1 .. d, NEW m \in DOMAIN stack'[e].values,
                      NEW a, a = stack'[e].values[m].storeAddress
               PROVE  AddressOK(a, e)'
    <3>1. Top' = d
      BY <1>6 DEF Top
    <3> QED BY <3>1 DEF Addressed, AddressOK
  <2>1. e \in 1 .. Top /\ d \in 0 .. Top
    BY <1>2
  <2>2. AddressOK(a, e) \/ a \in {NoAddress, Unnamed}
    <3>1. CASE e = d
      <4>1. \A k \in DOMAIN c.values : \/ AddressOK(c.values[k].storeAddress, d)
                                       \/ c.values[k].storeAddress \in {NoAddress, Unnamed}
        <5> HIDE DEF c, value, d, call
        <5>1. c = Bound(d, call.how, call.name, value)
          BY DEF c
        <5> QED BY <1>2, <1>3, <1>4, <5>1, BoundNames
      <4> HIDE DEF c, d
      <4> QED BY <1>6, <3>1, <4>1
    <3>2. CASE e # d
      <4> HIDE DEF c, d
      <4>1. stack'[e] = stack[e]
        BY <1>6, <3>2
      <4> QED BY <2>1, <4>1 DEF TypeInv, Addressed
    <3> QED BY <3>1, <3>2
  <2>3. CASE a \in {NoAddress, Unnamed}
    BY <2>3 DEF AddressOK
  <2>4. CASE AddressOK(a, e)
    <3> HIDE DEF c, d
    <3> QED BY <1>7, <2>1, <2>4, AddressKept
  <2> QED BY <2>2, <2>3, <2>4
<1>10. Top' = Top - 1 /\ stack'[Top - 1] = c /\ \A i \in 1 .. Top - 2 : stack'[i] = stack[i]
  <2>1. Top' = d
    BY <1>6 DEF Top
  <2>2. d = Top - 1 /\ d \in 1 .. d /\ \A i \in 1 .. Top - 2 : i \in 1 .. d /\ i # d
    BY <1>1, <1>2
  <2> HIDE DEF c, d
  <2> QED BY <1>6, <2>1, <2>2
<1> HIDE DEF c
<1> QED BY <1>1, <1>3, <1>6, <1>7, <1>8, <1>9, <1>10 DEF TypeInv, Closed_top, c

(***************************************************************************)
(* The types are kept.                                                     *)
(***************************************************************************)
LEMMA HowIs == ASSUME NEW n \in Name, NEW how \in How(n) PROVE how \in {"let", "var"}
BY DEF How

LEMMA ReturnInsideStep ==
  ASSUME TypeInv, ReturnInside
  PROVE  TypeInv' /\ Running /\ UNCHANGED <<stack, obj, live>>
BY RefuseStep DEF ReturnInside, Outcomes

LEMMA StutterStep ==
  ASSUME TypeInv, UNCHANGED vars
  PROVE  TypeInv'
<1>1. stack' = stack /\ obj' = obj /\ live' = live /\ outcome' = outcome
  BY DEF vars
<1>2. Called' /\ Addressed'
  BY <1>1 DEF TypeInv, Called, Addressed, AddressOK, Top, Frame, BaseOf
<1> QED BY <1>1, <1>2 DEF TypeInv

LEMMA InitTyped == Init => TypeInv
<1> SUFFICES ASSUME Init PROVE TypeInv
  OBVIOUS
<1>1. stack = << >> /\ obj = [o \in Obj |-> NotAllocated] /\ live = {} /\ outcome = "running"
  BY DEF Init
<1>2. stack \in Seq(Context) /\ Top = 0
  BY <1>1 DEF Top
<1>3. obj \in [Obj -> Object \cup {NotAllocated}]
  BY <1>1
<1>4. Called /\ Addressed
  BY <1>1, <1>2 DEF Called, Addressed
<1> QED BY <1>1, <1>2, <1>3, <1>4 DEF TypeInv, Outcomes

\* Every step of the program or of its compiler keeps the types.
LEMMA NextTyped == TypeInv /\ [Next]_vars => TypeInv'
<1> SUFFICES ASSUME TypeInv, [Next]_vars PROVE TypeInv'
  OBVIOUS
<1>1. CASE \E h \in Handle : Start(h)
  BY <1>1, StartStep
<1>2. CASE Declaration
  <2>1. PICK n \in Name : \E how \in How(n) :
          \/ \E ref \in References : DeclareReference(n, how, ref)
          \/ \E r \in KnownRegions, o \in Fresh : DeclareInstance(n, how, r, o)
          \/ \E len \in 1 .. MaxElements : \E refs \in [1 .. len -> References], o \in Fresh :
               DeclareArray(n, how, refs, o)
          \/ \E t \in SkippedTypes(how) : DeclareSkipped(n, how, t)
    BY <1>2 DEF Declaration
  <2>2. PICK how \in How(n) :
          \/ \E ref \in References : DeclareReference(n, how, ref)
          \/ \E r \in KnownRegions, o \in Fresh : DeclareInstance(n, how, r, o)
          \/ \E len \in 1 .. MaxElements : \E refs \in [1 .. len -> References], o \in Fresh :
               DeclareArray(n, how, refs, o)
          \/ \E t \in SkippedTypes(how) : DeclareSkipped(n, how, t)
    BY <2>1
  <2>3. how \in {"let", "var"}
    BY HowIs
  <2>4. CASE \E ref \in References : DeclareReference(n, how, ref)
    BY <2>3, <2>4, DeclareReferenceStep
  <2>5. CASE \E r \in KnownRegions, o \in Fresh : DeclareInstance(n, how, r, o)
    BY <2>3, <2>5, DeclareInstanceStep
  <2>6. CASE \E len \in 1 .. MaxElements : \E refs \in [1 .. len -> References], o \in Fresh :
               DeclareArray(n, how, refs, o)
    BY <2>3, <2>6, DeclareArrayStep
  <2>7. CASE \E t \in SkippedTypes(how) : DeclareSkipped(n, how, t)
    BY <2>3, <2>7, DeclareSkippedStep
  <2> QED BY <2>2, <2>4, <2>5, <2>6, <2>7
<1>3. CASE Store
  <2>1. PICK n \in Visible, ref \in References :
          Assign(n, ref) \/ \E k \in 1 .. MaxElements : StorePart(n, k, ref)
    BY <1>3 DEF Store
  <2> QED BY <2>1, AssignStep, StorePartStep
<1>4. CASE Invocation
  <2>1. PICK n \in Name, f \in Signature : \E how \in How(n) :
          \E regions \in [DOMAIN f.regions -> KnownRegions], args \in [DOMAIN f.params -> References] :
            Call(n, how, f, regions, args)
    BY <1>4 DEF Invocation
  <2>2. PICK how \in How(n) :
          \E regions \in [DOMAIN f.regions -> KnownRegions], args \in [DOMAIN f.params -> References] :
            Call(n, how, f, regions, args)
    BY <2>1
  <2> QED BY <2>2, HowIs, CallStep
<1>5. CASE Entry
  BY <1>5, EnterOnStep, EnterWhileStep DEF Entry
<1>6. CASE ReturnInside
  BY <1>6, ReturnInsideStep
<1>7. CASE Leave
  BY <1>7, LeaveOnStep, LeaveWhileStep, ReturnStep, ReturnVoidStep, MainReturnStep DEF Leave
<1>8. CASE Over
  BY <1>8, StutterStep DEF Over
<1>9. CASE UNCHANGED vars
  BY <1>9, StutterStep
<1> QED BY <1>1, <1>2, <1>3, <1>4, <1>5, <1>6, <1>7, <1>8, <1>9 DEF Next, Statement

LEMMA TypeInvariant == Spec => []TypeInv
BY InitTyped, NextTyped, PTL DEF Spec

LEMMA TypeInvTypeOK == TypeInv => TypeOK
<1> SUFFICES ASSUME TypeInv PROVE TypeOK
  OBVIOUS
<1>1. ASSUME NEW d \in 1 .. Top
      PROVE  /\ stack[d].kind \in {"fn", "on", "while"}
             /\ stack[d].defaultRegion \in RegionName
             /\ stack[d].region \in Handle
             /\ \A r \in DOMAIN stack[d].binds : r \in RegionName /\ stack[d].binds[r] \in Handle \cup {NoHandle}
             /\ DOMAIN stack[d].values \cup DOMAIN stack[d].variables \subseteq Name
             /\ \A ref \in Bindings(d) : ref.type \in Type /\ ref.obj \in Obj \cup {Unset}
             /\ \A n \in DOMAIN stack[d].values : AddressOK(stack[d].values[n].storeAddress, d)
             /\ stack[d].call # NoCall => stack[d].call.type \in Type \cup {Void}
  <2>1. stack[d] \in Context
    BY StackMeans
  <2> DEFINE c == stack[d]
  <2>2. /\ c.kind \in {"fn", "on", "while"} /\ c.defaultRegion \in RegionName /\ c.region \in Handle
        /\ DOMAIN c.binds \subseteq RegionName /\ \A r \in DOMAIN c.binds : c.binds[r] \in Handle
        /\ DOMAIN c.values \subseteq Name /\ \A n \in DOMAIN c.values : c.values[n] \in ValueSet
        /\ DOMAIN c.variables \subseteq Name /\ \A n \in DOMAIN c.variables : c.variables[n] \in VariableSet
        /\ c.call \in {NoCall} \cup CallSet
    BY <2>1, ContextMeans
  <2>3. \A ref \in Bindings(d) : ref.type \in Type /\ ref.obj \in Obj \cup {Unset}
    BY <2>2 DEF Bindings, ValueSet, VariableSet
  <2>4. \A n \in DOMAIN c.values : AddressOK(c.values[n].storeAddress, d)
    BY DEF TypeInv, Addressed
  <2>5. c.call # NoCall => c.call.type \in Type
    BY <2>2 DEF CallSet
  <2> QED BY <2>2, <2>3, <2>4, <2>5
<1>2. \A o \in Obj : Allocated(o) => obj[o].region \in Handle /\ obj[o].elems \in Seq(Obj)
  BY ObjectMeans
<1> QED BY <1>1, <1>2 DEF TypeOK, TypeInv, Outcomes

\* In every reachable state the contexts, the objects and the regions are of
\* their types: a let's address is one that its context can name, a region of a
\* static type is a region name, and nothing is half declared.
THEOREM TypesCorrect == Spec => []TypeOK
BY TypeInvariant, TypeInvTypeOK, PTL

(***************************************************************************)
(* Regions and their owners.  A region belongs to main or to the on-scope  *)
(* that made it.  A context passes on the region of an older one, but no   *)
(* on-scope's region is that of a context below it.                        *)
(***************************************************************************)
Owners == {d \in 1 .. Top : d = 1 \/ stack[d].kind = "on"}

OwnedStack ==
  /\ live = {stack[d].region : d \in Owners}
  /\ \A d \in 1 .. Top : stack[d].region \in live
  /\ \A d, e \in 1 .. Top : d < e /\ stack[e].kind = "on" => stack[d].region # stack[e].region

OwnedObjects == \A o \in Obj : Allocated(o) => obj[o].region \in live

Owned == OwnedStack /\ OwnedObjects

LEMMA OwnedIfSame ==
  ASSUME TypeInv, OwnedStack, Same, live' = live
  PROVE  OwnedStack'
<1>1. Top' = Top /\ \A d \in 1 .. Top : stack'[d].kind = stack[d].kind /\ stack'[d].region = stack[d].region
  BY DEF Same, SamePrefix
<1>2. Owners' = Owners
  BY <1>1 DEF Owners
<1>3. {stack'[d].region : d \in Owners} = {stack[d].region : d \in Owners}
  BY <1>1 DEF Owners
<1>4. live' = {stack'[d].region : d \in Owners'}
  BY <1>2, <1>3 DEF OwnedStack
<1>5. \A d \in 1 .. Top : stack'[d].region \in live'
  BY <1>1 DEF OwnedStack
<1>6. \A d, e \in 1 .. Top : d < e /\ stack'[e].kind = "on" => stack'[d].region # stack'[e].region
  BY <1>1 DEF OwnedStack
<1> QED BY <1>1, <1>4, <1>5, <1>6 DEF OwnedStack

\* A context that takes over the region of one that there is.
LEMMA OwnedIfOpened ==
  ASSUME TypeInv, OwnedStack, NEW c, Opened(c), c.kind # "on", Top > 0,
         c.region \in live, live' = live
  PROVE  OwnedStack'
<1>1. /\ Top' = Top + 1 /\ Top \in Nat
      /\ \A d \in 1 .. Top : stack'[d].kind = stack[d].kind /\ stack'[d].region = stack[d].region
      /\ stack'[Top + 1].kind = c.kind /\ stack'[Top + 1].region = c.region
  BY StackMeans DEF Opened, SamePrefix
<1>2. Owners' = Owners
  BY <1>1 DEF Owners
<1>3. {stack'[d].region : d \in Owners} = {stack[d].region : d \in Owners}
  BY <1>1 DEF Owners
<1>4. live' = {stack'[d].region : d \in Owners'}
  BY <1>2, <1>3 DEF OwnedStack
<1>5. \A d \in 1 .. Top + 1 : stack'[d].region \in live'
  BY <1>1 DEF OwnedStack
<1>6. \A d, e \in 1 .. Top + 1 : d < e /\ stack'[e].kind = "on" => stack'[d].region # stack'[e].region
  BY <1>1 DEF OwnedStack
<1> QED BY <1>1, <1>4, <1>5, <1>6 DEF OwnedStack

\* A context with a region of its own: an on-scope, or main.
LEMMA OwnedIfMade ==
  ASSUME TypeInv, OwnedStack, NEW c, Opened(c), NEW h, h \notin live, c.region = h,
         Top = 0 \/ c.kind = "on", live' = live \cup {h}
  PROVE  OwnedStack'
<1>1. /\ Top' = Top + 1 /\ Top \in Nat
      /\ \A d \in 1 .. Top : stack'[d].kind = stack[d].kind /\ stack'[d].region = stack[d].region
      /\ stack'[Top + 1].kind = c.kind /\ stack'[Top + 1].region = h
  BY StackMeans DEF Opened, SamePrefix
<1>2. Owners' = Owners \cup {Top + 1}
  BY <1>1 DEF Owners
<1>3. {stack'[d].region : d \in Owners} = live
  <2>1. \A d \in Owners : stack'[d].region = stack[d].region
    BY <1>1 DEF Owners
  <2>2. {stack[d].region : d \in Owners} = live
    BY DEF OwnedStack
  <2> DEFINE os == Owners
  <2>3. (\A d \in os : stack'[d].region = stack[d].region) /\ {stack[d].region : d \in os} = live
    BY <2>1, <2>2
  <2> HIDE DEF os
  <2>4. {stack'[d].region : d \in os} = live
    BY <2>3
  <2> QED BY <2>4 DEF os
<1>4. live' = {stack'[d].region : d \in Owners'}
  <2> DEFINE os == Owners
             os2 == Owners'
  <2>1. os2 = os \cup {Top + 1} /\ {stack'[d].region : d \in os} = live /\ stack'[Top + 1].region = h
    BY <1>1, <1>2, <1>3
  <2> HIDE DEF os, os2
  <2>2. live' = {stack'[d].region : d \in os2}
    BY <2>1
  <2> QED BY <2>2 DEF os2
<1>5. \A d \in 1 .. Top + 1 : stack'[d].region \in live'
  BY <1>1 DEF OwnedStack
<1>6. \A d, e \in 1 .. Top + 1 : d < e /\ stack'[e].kind = "on" => stack'[d].region # stack'[e].region
  BY <1>1 DEF OwnedStack
<1> QED BY <1>1, <1>4, <1>5, <1>6 DEF OwnedStack

\* The end of a context that had taken over its region.
LEMMA OwnedIfClosed ==
  ASSUME TypeInv, OwnedStack, Closed_top, Top > 1, stack[Top].kind # "on", live' = live
  PROVE  OwnedStack'
<1>1. /\ Top' = Top - 1 /\ Top \in Nat
      /\ \A d \in 1 .. Top - 1 : stack'[d].kind = stack[d].kind /\ stack'[d].region = stack[d].region
  BY StackMeans DEF Closed_top, SamePrefix
<1>2. Owners' = Owners
  BY <1>1 DEF Owners
<1>3. \A d \in Owners : d \in 1 .. Top - 1
  BY <1>1 DEF Owners
<1>4. live' = {stack'[d].region : d \in Owners'}
  BY <1>1, <1>2, <1>3 DEF OwnedStack
<1>5. \A d \in 1 .. Top - 1 : stack'[d].region \in live'
  BY <1>1 DEF OwnedStack
<1>6. \A d, e \in 1 .. Top - 1 : d < e /\ stack'[e].kind = "on" => stack'[d].region # stack'[e].region
  BY <1>1 DEF OwnedStack
<1> QED BY <1>1, <1>4, <1>5, <1>6 DEF OwnedStack

\* The end of an on-scope takes its region along, and no other.
LEMMA OwnedIfLeft ==
  ASSUME TypeInv, OwnedStack, Closed_top, Top > 1, stack[Top].kind = "on", live' = live \ {stack[Top].region}
  PROVE  OwnedStack'
<1>1. /\ Top' = Top - 1 /\ Top \in Nat
      /\ \A d \in 1 .. Top - 1 : stack'[d].kind = stack[d].kind /\ stack'[d].region = stack[d].region
  BY StackMeans DEF Closed_top, SamePrefix
<1>2. Owners' = Owners \ {Top} /\ Owners = Owners' \cup {Top} /\ Owners' \subseteq 1 .. Top - 1
  BY <1>1 DEF Owners
<1>3. \A d \in 1 .. Top - 1 : stack[d].region # stack[Top].region
  BY <1>1 DEF OwnedStack
<1>4. live' = {stack'[d].region : d \in Owners'}
  <2>1. live = {stack[d].region : d \in Owners}
    BY DEF OwnedStack
  <2>2. \A d \in Owners' : stack'[d].region = stack[d].region /\ stack[d].region # stack[Top].region
    BY <1>1, <1>2, <1>3
  <2> DEFINE os == Owners
             os2 == Owners'
  <2>3. os = os2 \cup {Top} /\ (\A d \in os2 : stack'[d].region = stack[d].region /\ stack[d].region # stack[Top].region)
        /\ live = {stack[d].region : d \in os}
    BY <1>2, <2>1, <2>2
  <2> HIDE DEF os, os2
  <2>4. live' = {stack'[d].region : d \in os2}
    BY <2>3
  <2> QED BY <2>4 DEF os2
<1>5. \A d \in 1 .. Top - 1 : stack'[d].region \in live'
  BY <1>1, <1>3 DEF OwnedStack
<1>6. \A d, e \in 1 .. Top - 1 : d < e /\ stack'[e].kind = "on" => stack'[d].region # stack'[e].region
  BY <1>1 DEF OwnedStack
<1> QED BY <1>1, <1>4, <1>5, <1>6 DEF OwnedStack

LEMMA ObjectsIfSame ==
  ASSUME OwnedObjects, SameObjects, live \subseteq live'
  PROVE  OwnedObjects'
BY DEF OwnedObjects, SameObjects, Allocated

LEMMA ObjectsIfNew ==
  ASSUME OwnedObjects, NEW h \in live, NEW bs \in SUBSET Obj, NewObjects(h, bs), live' = live
  PROVE  OwnedObjects'
BY DEF OwnedObjects, NewObjects, Allocated

LEMMA ObjectsIfReleased ==
  ASSUME TypeInv, OwnedObjects, NEW h, obj' = Released(h), live' = live \ {h}
  PROVE  OwnedObjects'
<1>1. \A o \in Obj : obj'[o] = IF Allocated(o) /\ obj[o].region = h THEN NotAllocated ELSE obj[o]
  BY ReleasedIs
<1> QED BY <1>1 DEF OwnedObjects, Allocated

\* What a step does to regions and objects: nothing, some objects are new in a
\* region, a region is new, or a region and its objects go.
Untouched == live' = live /\ SameObjects
Allocates == \E h \in live, bs \in SUBSET Obj : live' = live /\ NewObjects(h, bs)
Makes     == \E h \in Handle : h \notin live /\ live' = live \cup {h} /\ obj' = obj
Deletes   == \E h \in live : live' = live \ {h} /\ obj' = Released(h)

StepKind == Untouched \/ Allocates \/ Makes \/ Deletes

LEMMA HandleOfNameLive ==
  ASSUME TypeInv, Running, OwnedStack, NEW r, GetRegionHandle(r) # NoHandle
  PROVE  GetRegionHandle(r) \in live
BY GetRegionHandleIs DEF OwnedStack

LEMMA DeclarationOwned ==
  ASSUME TypeInv, OwnedStack, Declaration
  PROVE  OwnedStack' /\ StepKind
<1>1. PICK n \in Name : \E how \in How(n) :
        \/ \E ref \in References : DeclareReference(n, how, ref)
        \/ \E r \in KnownRegions, o \in Fresh : DeclareInstance(n, how, r, o)
        \/ \E len \in 1 .. MaxElements : \E refs \in [1 .. len -> References], o \in Fresh :
             DeclareArray(n, how, refs, o)
        \/ \E t \in SkippedTypes(how) : DeclareSkipped(n, how, t)
  BY DEF Declaration
<1>2. PICK how \in How(n) :
        \/ \E ref \in References : DeclareReference(n, how, ref)
        \/ \E r \in KnownRegions, o \in Fresh : DeclareInstance(n, how, r, o)
        \/ \E len \in 1 .. MaxElements : \E refs \in [1 .. len -> References], o \in Fresh :
             DeclareArray(n, how, refs, o)
        \/ \E t \in SkippedTypes(how) : DeclareSkipped(n, how, t)
  BY <1>1
<1>3. how \in {"let", "var"}
  BY HowIs
<1>4. ASSUME NEW ref \in References, DeclareReference(n, how, ref)
      PROVE  OwnedStack' /\ StepKind
  <2>1. Same /\ UNCHANGED <<obj, live>>
    BY <1>3, <1>4, DeclareReferenceStep
  <2> QED BY <2>1, OwnedIfSame, SameObjectsIfSame DEF StepKind, Untouched
<1>5. ASSUME NEW r \in KnownRegions, NEW o \in Fresh, DeclareInstance(n, how, r, o)
      PROVE  OwnedStack' /\ StepKind
  <2>1. Running
    BY <1>3, <1>5, DeclareInstanceStep
  <2>2. CASE UNCHANGED <<stack, obj, live>>
    <3>1. Same
      BY <2>2 DEF Same, SamePrefix, Top
    <3> QED BY <2>2, <3>1, OwnedIfSame, SameObjectsIfSame DEF StepKind, Untouched
  <2>3. CASE Same /\ live' = live /\ GetRegionHandle(r) # NoHandle
             /\ \E bs \in SUBSET Obj : NewObjects(GetRegionHandle(r), bs)
    <3>1. GetRegionHandle(r) \in live
      BY <2>1, <2>3, HandleOfNameLive
    <3> QED BY <2>3, <3>1, OwnedIfSame DEF StepKind, Allocates
  <2> QED BY <1>3, <1>5, <2>2, <2>3, DeclareInstanceStep
<1>6. ASSUME NEW len \in 1 .. MaxElements, NEW refs \in [1 .. len -> References], NEW o \in Fresh,
             DeclareArray(n, how, refs, o)
      PROVE  OwnedStack' /\ StepKind
  <2>1. Running /\ Same /\ live' = live /\ NewObjects(stack[Top].region, {o})
    BY <1>3, <1>6, DeclareArrayStep
  <2>2. stack[Top].region \in live /\ {o} \in SUBSET Obj
    BY <2>1, RunningMeans DEF OwnedStack, Fresh
  <2> QED BY <2>1, <2>2, OwnedIfSame DEF StepKind, Allocates
<1>7. ASSUME NEW t \in SkippedTypes(how), DeclareSkipped(n, how, t)
      PROVE  OwnedStack' /\ StepKind
  <2>1. Same /\ UNCHANGED <<obj, live>>
    BY <1>3, <1>7, DeclareSkippedStep
  <2> QED BY <2>1, OwnedIfSame, SameObjectsIfSame DEF StepKind, Untouched
<1> QED BY <1>2, <1>4, <1>5, <1>6, <1>7

LEMMA StoreOwned ==
  ASSUME TypeInv, OwnedStack, Store
  PROVE  OwnedStack' /\ StepKind
<1>1. PICK n \in Visible, ref \in References :
        Assign(n, ref) \/ \E k \in 1 .. MaxElements : StorePart(n, k, ref)
  BY DEF Store
<1>2. UNCHANGED <<stack, obj, live>> \/ (Same /\ SameObjects /\ live' = live)
  BY <1>1, AssignStep, StorePartStep
<1>3. Same /\ SameObjects /\ live' = live
  BY <1>2, SameObjectsIfSame DEF Same, SamePrefix, Top
<1> QED BY <1>3, OwnedIfSame DEF StepKind, Untouched

LEMMA InvocationOwned ==
  ASSUME TypeInv, OwnedStack, Invocation
  PROVE  OwnedStack' /\ StepKind
<1>1. PICK n \in Name, f \in Signature : \E how \in How(n) :
        \E regions \in [DOMAIN f.regions -> KnownRegions], args \in [DOMAIN f.params -> References] :
          Call(n, how, f, regions, args)
  BY DEF Invocation
<1>2. PICK how \in How(n) :
        \E regions \in [DOMAIN f.regions -> KnownRegions], args \in [DOMAIN f.params -> References] :
          Call(n, how, f, regions, args)
  BY <1>1
<1>3. PICK regions \in [DOMAIN f.regions -> KnownRegions], args \in [DOMAIN f.params -> References] :
          Call(n, how, f, regions, args)
  BY <1>2
<1> DEFINE h == GetRegionHandle(regions[1])
           c == [kind |-> "fn", region |-> h]
<1>4. /\ Running /\ UNCHANGED <<obj, live>>
      /\ stack' = stack \/ (h # NoHandle /\ Opened(c))
  BY <1>3, HowIs, CallStep
<1>5. CASE stack' = stack
  <2>1. Same
    BY <1>5 DEF Same, SamePrefix, Top
  <2> QED BY <1>4, <2>1, OwnedIfSame, SameObjectsIfSame DEF StepKind, Untouched
<1>6. CASE h # NoHandle /\ Opened(c)
  <2>1. h \in live
    BY <1>4, <1>6, HandleOfNameLive
  <2>2. c.kind # "on" /\ c.region \in live
    BY <2>1
  <2> HIDE DEF c, h
  <2>3. Top > 0
    BY <1>4, RunningMeans
  <2> QED BY <1>4, <1>6, <2>2, <2>3, OwnedIfOpened, SameObjectsIfSame DEF StepKind, Untouched
<1> QED BY <1>4, <1>5, <1>6

LEMMA EntryOwned ==
  ASSUME TypeInv, OwnedStack, Entry
  PROVE  OwnedStack' /\ StepKind
<1>1. ASSUME NEW r \in OnRegion, NEW h \in Handle, EnterOn(r, h)
      PROVE  OwnedStack' /\ StepKind
  <2> DEFINE c == [kind |-> "on", region |-> h]
  <2>1. obj' = obj /\ h \notin live /\ live' = live \cup {h} /\ Opened(c)
    BY <1>1, EnterOnStep
  <2>2. c.kind = "on" /\ c.region = h
    OBVIOUS
  <2> HIDE DEF c
  <2> QED BY <2>1, <2>2, OwnedIfMade DEF StepKind, Makes
<1>2. CASE EnterWhile
  <2> DEFINE c == [kind |-> "while", region |-> stack[Top].region]
  <2>1. Running /\ UNCHANGED <<obj, live>> /\ Opened(c)
    BY <1>2, EnterWhileStep
  <2>2. c.kind # "on" /\ c.region = stack[Top].region
    OBVIOUS
  <2> HIDE DEF c
  <2>3. c.region \in live /\ Top > 0
    BY <2>1, <2>2, RunningMeans DEF OwnedStack
  <2> QED BY <2>1, <2>2, <2>3, OwnedIfOpened, SameObjectsIfSame DEF StepKind, Untouched
<1> QED BY <1>1, <1>2 DEF Entry

LEMMA LeaveOwned ==
  ASSUME TypeInv, OwnedStack, Leave
  PROVE  OwnedStack' /\ StepKind
<1>1. CASE LeaveOn
  <2>1. Running /\ stack[Top].kind = "on" /\ live' = live \ {stack[Top].region}
        /\ obj' = Released(stack[Top].region) /\ Closed_top
    BY <1>1, LeaveOnStep
  <2>2. Top > 1 /\ stack[Top].region \in live
    BY <2>1, RunningMeans, StackMeans DEF OwnedStack
  <2> QED BY <2>1, <2>2, OwnedIfLeft DEF StepKind, Deletes
<1>2. CASE LeaveWhile
  <2>1. Running /\ stack[Top].kind = "while" /\ UNCHANGED <<obj, live>> /\ Closed_top
    BY <1>2, LeaveWhileStep
  <2>2. Top > 1
    BY <2>1, RunningMeans, StackMeans
  <2> QED BY <2>1, <2>2, OwnedIfClosed, SameObjectsIfSame DEF StepKind, Untouched
<1>3. CASE \E ref \in References : Return(ref)
  <2>1. stack[Top].kind = "fn" /\ Top > 1 /\ UNCHANGED <<obj, live>> /\ Closed_top
    BY <1>3, ReturnStep
  <2> QED BY <2>1, OwnedIfClosed, SameObjectsIfSame DEF StepKind, Untouched
<1>4. CASE ReturnVoid
  <2>1. stack[Top].kind = "fn" /\ Top > 1 /\ UNCHANGED <<obj, live>> /\ Closed_top
    BY <1>4, ReturnVoidStep
  <2> QED BY <2>1, OwnedIfClosed, SameObjectsIfSame DEF StepKind, Untouched
<1>5. CASE MainReturn
  <2>1. Top = 1 /\ live' = live \ {stack[1].region} /\ obj' = Released(stack[1].region) /\ Top' = 0
    BY <1>5, MainReturnStep
  <2>2. live = {stack[1].region}
    <3>1. Owners = {1}
      BY <2>1 DEF Owners
    <3> QED BY <3>1 DEF OwnedStack
  <2>3. live' = {} /\ Owners' = {}
    BY <2>1, <2>2 DEF Owners
  <2>4. live' = {stack'[d].region : d \in Owners'}
    BY <2>3
  <2>5. OwnedStack'
    <3>1. \A d \in 1 .. Top' : stack'[d].region \in live'
      BY <2>1
    <3>2. \A d, e \in 1 .. Top' : d < e /\ stack'[e].kind = "on" => stack'[d].region # stack'[e].region
      BY <2>1
    <3> QED BY <2>4, <3>1, <3>2 DEF OwnedStack
  <2> QED BY <2>1, <2>2, <2>5 DEF StepKind, Deletes
<1> QED BY <1>1, <1>2, <1>3, <1>4, <1>5 DEF Leave

LEMMA StepOwned ==
  ASSUME TypeInv, OwnedStack, [Next]_vars
  PROVE  OwnedStack' /\ StepKind
<1>1. ASSUME NEW h \in Handle, Start(h)
      PROVE  OwnedStack' /\ StepKind
  <2> DEFINE c == [kind |-> "fn", region |-> h]
  <2>1. stack = << >> /\ obj' = obj /\ live' = live \cup {h} /\ Top' = 1 /\ stack'[1].region = h
        /\ TypeInv'
    BY <1>1, StartStep
  <2>2. Top = 0 /\ live = {}
    <3>1. Top = 0
      BY <2>1, StackMeans
    <3>2. Owners = {}
      BY <3>1 DEF Owners
    <3> QED BY <3>1, <3>2 DEF OwnedStack
  <2>3. stack'[1].kind = "fn"
    <3>1. stack' # << >>
      BY <1>1 DEF Start
    <3> QED BY <2>1, <3>1 DEF TypeInv, Called
  <2>4. Opened(c)
    BY <2>1, <2>2, <2>3 DEF Opened, SamePrefix
  <2>5. c.region = h /\ h \notin live
    BY <2>2
  <2> HIDE DEF c
  <2> QED BY <2>1, <2>2, <2>4, <2>5, OwnedIfMade DEF StepKind, Makes
<1>2. CASE UNCHANGED <<stack, obj, live>>
  <2>1. Same
    BY <1>2 DEF Same, SamePrefix, Top
  <2> QED BY <1>2, <2>1, OwnedIfSame, SameObjectsIfSame DEF StepKind, Untouched
<1>3. CASE Statement
  <2>1. CASE ReturnInside
    BY <1>2, <2>1, ReturnInsideStep
  <2> QED BY <1>3, <2>1, DeclarationOwned, StoreOwned, InvocationOwned, EntryOwned DEF Statement
<1>4. CASE Leave
  BY <1>4, LeaveOwned
<1>5. CASE Over \/ UNCHANGED vars
  BY <1>2, <1>5 DEF Over, vars
<1> QED BY <1>1, <1>3, <1>4, <1>5 DEF Next

LEMMA ObjectsOwned ==
  ASSUME TypeInv, OwnedObjects, StepKind
  PROVE  OwnedObjects'
<1>1. CASE Untouched
  BY <1>1, ObjectsIfSame DEF Untouched
<1>2. CASE Allocates
  BY <1>2, ObjectsIfNew DEF Allocates
<1>3. CASE Makes
  BY <1>3, ObjectsIfSame, SameObjectsIfSame DEF Makes
<1>4. CASE Deletes
  BY <1>4, ObjectsIfReleased DEF Deletes
<1> QED BY <1>1, <1>2, <1>3, <1>4 DEF StepKind

LEMMA InitOwned == Init => Owned
<1> SUFFICES ASSUME Init PROVE Owned
  OBVIOUS
<1>1. stack = << >> /\ live = {} /\ Top = 0 /\ \A o \in Obj : obj[o] = NotAllocated
  BY DEF Init, Top
<1>2. Owners = {}
  BY <1>1 DEF Owners
<1> QED BY <1>1, <1>2 DEF Owned, OwnedStack, OwnedObjects, Allocated

LEMMA OwnedInvariant == Spec => [](TypeInv /\ Owned)
<1>1. TypeInv /\ Owned /\ [Next]_vars => TypeInv' /\ Owned'
  BY NextTyped, StepOwned, ObjectsOwned DEF Owned
<1> QED BY <1>1, InitTyped, InitOwned, PTL DEF Spec

\* The region of every open context exists, in the frames of callers too.
THEOREM RegionsStayLive == Spec => []HandlesLive
<1>1. TypeInv /\ Owned => HandlesLive
  BY DEF Owned, OwnedStack, HandlesLive
<1> QED BY <1>1, OwnedInvariant, PTL

\* The regions that exist are main's and one for each open on-scope.
THEOREM RegionsHaveOwners == Spec => []RegionsOwned
<1>1. TypeInv /\ Owned => RegionsOwned
  <2> SUFFICES ASSUME TypeInv, Owned PROVE RegionsOwned
    OBVIOUS
  <2>1. live = {stack[d].region : d \in Owners}
    BY DEF Owned, OwnedStack
  <2>2. ASSUME NEW d \in Owners, NEW e \in Owners, stack[d].region = stack[e].region
        PROVE  d = e
    <3>1. d \in 1 .. Top /\ e \in 1 .. Top /\ Top \in Nat
      BY StackMeans DEF Owners
    <3>2. d < e => stack[e].kind = "on"
      BY <3>1 DEF Owners
    <3>3. e < d => stack[d].kind = "on"
      BY <3>1 DEF Owners
    <3> QED BY <2>2, <3>1, <3>2, <3>3 DEF Owned, OwnedStack
  <2> QED BY <2>1, <2>2 DEF RegionsOwned, Owners
<1> QED BY <1>1, OwnedInvariant, PTL

(***************************************************************************)
(* The compiled program uses the run-time library as it allows.            *)
(***************************************************************************)
Blocks == [h \in Handle |-> {o \in Obj : Allocated(o) /\ obj[o].region = h}]

LEMMA InitUses == Init => Library!StoreInit
<1> SUFFICES ASSUME Init PROVE Library!StoreInit
  OBVIOUS
<1>1. live = {} /\ \A o \in Obj : ~Allocated(o)
  BY DEF Init, Allocated
<1>2. \A h \in Handle : {o \in Obj : Allocated(o) /\ obj[o].region = h} = {}
  BY <1>1
<1>3. Blocks = [h \in Handle |-> {}]
  BY <1>2 DEF Blocks
<1> QED BY <1>1, <1>3 DEF Library!StoreInit, Blocks

LEMMA UntouchedUses ==
  ASSUME TypeInv, Untouched
  PROVE  live' = live /\ Blocks' = Blocks
<1>1. ASSUME NEW h \in Handle
      PROVE  {o \in Obj : Allocated(o)' /\ obj'[o].region = h} = {o \in Obj : Allocated(o) /\ obj[o].region = h}
  BY DEF Untouched, SameObjects
<1> QED BY <1>1 DEF Untouched, Blocks

LEMMA AllocatesUses ==
  ASSUME TypeInv, OwnedObjects, Allocates
  PROVE  \E h \in Handle : \E bs \in SUBSET Obj : Library!StoreAlloc(h, bs)
<1>1. PICK h \in live, bs \in SUBSET Obj : live' = live /\ NewObjects(h, bs)
  BY DEF Allocates
<1>2. h \in Handle
  BY DEF TypeInv
<1>3. \A o \in Obj : IF o \in bs THEN ~Allocated(o) /\ Allocated(o)' /\ obj'[o].region = h
                     ELSE obj'[o] = obj[o]
  BY <1>1 DEF NewObjects
<1>4. \A o \in Obj : o \notin bs => (Allocated(o)' <=> Allocated(o)) /\ obj'[o] = obj[o]
  BY <1>3 DEF Allocated
<1>5. Blocks' = [Blocks EXCEPT ![h] = @ \cup bs]
  <2>1. ASSUME NEW g \in Handle
        PROVE  {o \in Obj : Allocated(o)' /\ obj'[o].region = g}
               = IF g = h THEN {o \in Obj : Allocated(o) /\ obj[o].region = g} \cup bs
                 ELSE {o \in Obj : Allocated(o) /\ obj[o].region = g}
    BY <1>3, <1>4
  <2>2. Blocks' = [g \in Handle |-> IF g = h THEN Blocks[g] \cup bs ELSE Blocks[g]]
    BY <2>1 DEF Blocks
  <2>3. [Blocks EXCEPT ![h] = @ \cup bs] = [g \in Handle |-> IF g = h THEN Blocks[g] \cup bs ELSE Blocks[g]]
    BY DEF Blocks
  <2> QED BY <2>2, <2>3
<1>6. bs \cap UNION {Blocks[g] : g \in Handle} = {}
  BY <1>3 DEF Blocks
<1>7. Library!StoreAlloc(h, bs)
  BY <1>1, <1>5, <1>6 DEF Library!StoreAlloc, Library!Allocated, Blocks
<1> QED BY <1>2, <1>7

LEMMA MakesUses ==
  ASSUME TypeInv, Makes
  PROVE  \E h \in Handle : Library!StoreNew(h)
<1>1. Blocks' = Blocks
  BY DEF Makes, Blocks, Allocated
<1> QED BY <1>1 DEF Makes, Library!StoreNew, Blocks

LEMMA DeletesUses ==
  ASSUME TypeInv, Deletes
  PROVE  \E h \in Handle : Library!StoreDelete(h)
<1>1. PICK h \in live : live' = live \ {h} /\ obj' = Released(h)
  BY DEF Deletes
<1>2. h \in Handle
  BY DEF TypeInv
<1>3. \A o \in Obj : obj'[o] = IF Allocated(o) /\ obj[o].region = h THEN NotAllocated ELSE obj[o]
  BY <1>1, ReleasedIs
<1>4. \A o \in Obj : /\ Allocated(o)' <=> Allocated(o) /\ obj[o].region # h
                     /\ Allocated(o)' => obj'[o] = obj[o]
  BY <1>3 DEF Allocated
<1>5. Blocks' = [Blocks EXCEPT ![h] = {}]
  <2>1. ASSUME NEW g \in Handle
        PROVE  {o \in Obj : Allocated(o)' /\ obj'[o].region = g}
               = IF g = h THEN {} ELSE {o \in Obj : Allocated(o) /\ obj[o].region = g}
    BY <1>4
  <2>2. Blocks' = [g \in Handle |-> IF g = h THEN {} ELSE Blocks[g]]
    BY <2>1 DEF Blocks
  <2>3. [Blocks EXCEPT ![h] = {}] = [g \in Handle |-> IF g = h THEN {} ELSE Blocks[g]]
    BY DEF Blocks
  <2> QED BY <2>2, <2>3
<1>6. Library!StoreDelete(h)
  BY <1>1, <1>5 DEF Library!StoreDelete, Blocks
<1> QED BY <1>2, <1>6

LEMMA StepUses ==
  ASSUME TypeInv, Owned, [Next]_vars
  PROVE  [Library!StoreNext]_<<live, Blocks>>
<1>1. StepKind
  BY StepOwned DEF Owned
<1>2. CASE Untouched
  BY <1>2, UntouchedUses
<1>3. CASE Allocates
  BY <1>3, AllocatesUses DEF Owned, Library!StoreNext
<1>4. CASE Makes
  BY <1>4, MakesUses DEF Library!StoreNext
<1>5. CASE Deletes
  BY <1>5, DeletesUses DEF Library!StoreNext
<1> QED BY <1>1, <1>2, <1>3, <1>4, <1>5 DEF StepKind

\* Seen from the library every run is one that RegionStore describes: objects
\* are allocated in regions that exist, a handle that is in use is not made
\* again, and no region is deleted twice.
THEOREM LibraryUsed == Spec => UsesLibrary
<1>1. TypeInv /\ Owned /\ [Next]_vars => [Library!StoreNext]_(Library!storeVars)
  BY StepUses DEF Library!storeVars, Blocks
<1> QED BY <1>1, InitUses, OwnedInvariant, PTL DEF Spec, UsesLibrary, Library!StoreSpec
=============================================================================
