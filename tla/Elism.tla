------------------------------- MODULE Elism -------------------------------
(***************************************************************************)
(* Programs of the language, compiled and run in step: every path that an  *)
(* accepted program can take through straight-line code, on-scopes, while  *)
(* bodies and calls.  The state of the compiler (a stack of CodegenContext)*)
(* and that of the compiled program (objects and regions) are changed      *)
(* together, statement by statement.  Statements are in a normal form in   *)
(* which an expression is a name, an element, a field, an allocation or a  *)
(* call.  The run ends when the compiler turns the program down.           *)
(*                                                                         *)
(* Features lists what programs may do beyond the disciplined use of       *)
(* regions:                                                                *)
(*   "shadow"   an on-scope reuses the name of a region that is visible    *)
(*   "mixed"    a literal has elements of different types                  *)
(*   "result"   a function returns a value that is not of its return type  *)
(*   "fields"   classes have an array field                                *)
(*   "lets"     the name of a let or of a parameter is assigned to         *)
(*   "leaks"    a name is used that only a branch of an if which has not   *)
(*              been taken declares                                        *)
(* The compiler accepts all of them.                                       *)
(*                                                                         *)
(* An if has no context of its own: its branches declare in the context    *)
(* around it, the one that is not taken as well.  A branch that is taken   *)
(* is the sequence of its statements, one that is not is a sequence of     *)
(* DeclareSkipped: the compiler binds the name and nothing is stored.      *)
(***************************************************************************)
EXTENDS RegionTypes

CONSTANTS
  Handle,       \* addresses of Region structs
  NoHandle,     \* nullptr for a handle
  Obj,          \* addresses of objects (instances and arrays)
  NotAllocated, \* nothing at this address
  Unset,        \* in a variable or register that has not been written
  Name,         \* names of values and variables
  LetName,      \* bound: the names that let statements and
  VarName,      \* var statements declare
  ParamName,    \* sequence of the names that parameters have
  MainRegion,   \* "fn_default"
  OnRegion,     \* names that on-scopes give to regions
  A,            \* the class
  Signature,    \* the functions: [regions, params, ret]
  Void,         \* the type void
  NoCall,       \* this context is not that of a function
  Features,     \* see above
  MaxDepth,     \* bound: contexts that are open at once
  MaxElements   \* bound: elements of an array literal

VARIABLES
  stack,    \* the contexts, the global one left out; frames of callers below
  obj,      \* address -> NotAllocated or [region, elems]
  live,     \* handles of the regions that exist
  outcome   \* "running", "rejected", "aborted" or "undefined" (by the
            \* compiler), "done"

vars == <<stack, obj, live, outcome>>

ASSUME BoundAssumption == MaxDepth \in Nat /\ MaxElements \in Nat
ASSUME SignatureAssumption ==
  \A f \in Signature : /\ f.regions \in Seq(RegionName) /\ Len(f.regions) >= 1
                       /\ f.params \in Seq(Type) /\ Len(f.params) <= Len(ParamName)
                       /\ f.ret \in Type
                       /\ \A i, j \in DOMAIN f.regions : f.regions[i] = f.regions[j] => i = j

\* What is named is a name of its kind.
ASSUME LanguageAssumption ==
  /\ LetName \cup VarName \subseteq Name /\ ParamName \in Seq(Name)
  /\ OnRegion \cup {MainRegion} \subseteq RegionName
  /\ A \in Class /\ "i64" \in Scalar

\* What stands for nothing can be told apart from what there is.
ASSUME SentinelAssumption ==
  /\ NoHandle \notin Handle
  /\ NotAllocated \notin [region : Handle, elems : Seq(Obj)]
  /\ Unset \notin Obj
  /\ NoCall \notin [name : Name, how : {"let", "var"}, ret : Type, type : Type]

\* How a name can be declared.
How(n) == {how \in {"let", "var"} : n \in IF how = "let" THEN LetName ELSE VarName}

Instance(r) == [base |-> A, regions |-> <<r>>]

\* Type of the array field of a class: initialisers are compiled in the
\* class's context, whose defaultRegion is the global one.
FieldType == [base |-> "i64", regions |-> <<Global>>]

(***************************************************************************)
(* The contexts.  binds tells, for the properties, which region a region   *)
(* name means in the scope that introduces it; the compiler has no such    *)
(* table.                                                                  *)
(***************************************************************************)

Top == Len(stack)

Latest(S) == CHOOSE i \in S : \A j \in S : j <= i

BaseOf(d) == Latest({i \in 1 .. d : stack[i].kind = "fn"})

\* The contexts from a function's own to the innermost: getValue and
\* getRegionHandle go from parent to parent and end in the global context.
Frame(d) == BaseOf(d) .. d

Denotes(d, r) ==
  LET binders == {i \in Frame(d) : r \in DOMAIN stack[i].binds} IN
  IF binders = {} THEN NoHandle ELSE stack[Latest(binders)].binds[r]

KnownRegions == UNION {DOMAIN stack[i].binds : i \in Frame(Top)}

\* Slip: the handle of the current region, whatever the name.
GetRegionHandle_current(r) == stack[Top].region

\* getRegionHandle(r): the region of the innermost context that has r as its
\* default region.
GetRegionHandle(r) ==
  LET scopes == {i \in Frame(Top) : stack[i].defaultRegion = r} IN
  IF scopes = {} THEN NoHandle ELSE stack[Latest(scopes)].region

\* storeAddress of a CodegenValue: of a loaded variable its alloca, of an
\* element or field its slot, null of anything else.  A let keeps the address
\* of the expression that it names, and assigning to the let stores there.
NoAddress == [in |-> "nowhere"]
AddressOf(d, n) == [in |-> "variable", depth |-> d, name |-> n]
PartAddress(o, k) == [in |-> "object", obj |-> o, index |-> k]

\* An address whose contents no name reads: the alloca of a variable whose
\* name has been given to another.
Unnamed == [in |-> "unnamed"]

\* Without "lets" nothing is stored through a let, and its address is forgotten.
Kept(address) == IF "lets" \in Features THEN address ELSE NoAddress

Value(type, o, address) == [type |-> type, obj |-> o, storeAddress |-> address]

\* getValue(n): the innermost context that has n, as a variable or else as a
\* value.
ScopesOf(n) == {i \in Frame(Top) : n \in DOMAIN stack[i].variables \cup DOMAIN stack[i].values}

GetValue(n) ==
  LET d == Latest(ScopesOf(n))
      c == stack[d]
  IN IF n \in DOMAIN c.variables
     THEN Value(c.variables[n].type, c.variables[n].obj, AddressOf(d, n))
     ELSE c.values[n]

Known == {n \in Name : ScopesOf(n) # {}}

\* The names that a statement may use.
Visible == {n \in Known : "leaks" \in Features \/ GetValue(n).obj # Unset}

Put(f, x, v) == [y \in DOMAIN f \cup {x} |-> IF y = x THEN v ELSE f[y]]

\* addVariable for var, which makes an alloca; addValue for let.
Bound(d, how, n, ref) ==
  IF how = "let"
  THEN [stack[d] EXCEPT !.values = Put(@, n, [ref EXCEPT !.storeAddress = Kept(@)])]
  ELSE [stack[d] EXCEPT
          !.variables = Put(@, n, [type |-> ref.type, obj |-> ref.obj]),
          !.values = [m \in DOMAIN @ |-> IF @[m].storeAddress = AddressOf(d, n)
                                         THEN [@[m] EXCEPT !.storeAddress = Unnamed] ELSE @[m]]]

\* A child context of the given kind: region and default region as in the
\* parent (the constructor of ChildCodegenContext).
Child(kind) ==
  [kind |-> kind, defaultRegion |-> stack[Top].defaultRegion, region |-> stack[Top].region,
   binds |-> << >>, values |-> << >>, variables |-> << >>, call |-> NoCall]

FunctionContext(sig, handle, binds, values, call) ==
  [kind |-> "fn", defaultRegion |-> sig.regions[1], region |-> handle,
   binds |-> binds, values |-> values, variables |-> << >>, call |-> call]

MainSignature == [regions |-> <<MainRegion>>, params |-> << >>, ret |-> [base |-> "i32", regions |-> << >>]]

(***************************************************************************)
(* The values that a statement can name.                                   *)
(***************************************************************************)

Allocated(o) == obj[o] # NotAllocated

PartType(ref) == IF IsArray(ref.type) THEN ElementType(ref.type) ELSE FieldType

\* Elements of an array, the field of an instance.  Memory that is gone is
\* not followed.
Parts(ref) ==
  IF ~Allocated(ref.obj) THEN {}
  ELSE {Value(PartType(ref), obj[ref.obj].elems[k], PartAddress(ref.obj, k)) :
          k \in DOMAIN obj[ref.obj].elems}

\* What is read under a name.  In memory that has not been written there is
\* what happens to be there, such as the reference of an earlier round.
Reads(n) ==
  {[GetValue(n) EXCEPT !.obj = o] : o \in IF GetValue(n).obj = Unset THEN Obj ELSE {GetValue(n).obj}}

References == LET named == UNION {Reads(n) : n \in Visible}
              IN named \cup UNION {Parts(ref) : ref \in named}

Fresh == {o \in Obj : ~Allocated(o)}

Running == outcome = "running" /\ stack # << >>

Refuse(why) == outcome' = why /\ UNCHANGED <<stack, obj, live>>

Declare(n, how, ref) == stack' = [stack EXCEPT ![Top] = Bound(Top, how, n, ref)]

\* CreateStore(ref, address).
StoreAt(address, ref) ==
  \/ /\ address.in = "variable"
     /\ stack' = [stack EXCEPT ![address.depth].variables[address.name].obj = ref.obj]
     /\ UNCHANGED <<obj, live, outcome>>
  \/ /\ address.in = "object"
     /\ Allocated(address.obj) /\ address.index \in DOMAIN obj[address.obj].elems
     /\ obj' = [obj EXCEPT ![address.obj].elems[address.index] = ref.obj]
     /\ UNCHANGED <<stack, live, outcome>>
  \/ /\ address.in = "unnamed"
     /\ UNCHANGED vars

(***************************************************************************)
(* Statements.                                                             *)
(***************************************************************************)

\* runProgram: a region for main, then main.
Start(h) ==
  /\ outcome = "running" /\ stack = << >>
  /\ live' = live \cup {h}
  /\ stack' = <<FunctionContext(MainSignature, h, [r \in {MainRegion} |-> h], << >>, NoCall)>>
  /\ UNCHANGED <<obj, outcome>>

\* let n = ref; var n = ref;
DeclareReference(n, how, ref) ==
  /\ Running
  /\ Declare(n, how, ref)
  /\ UNCHANGED <<obj, live, outcome>>

\* Slip: a null handle is not noticed.
DeclareInstance_null(n, how, r, o) ==
  /\ Running
  /\ Declare(n, how, Value(Instance(r), o, NoAddress))
  /\ obj' = [obj EXCEPT ![o] = [region |-> GetRegionHandle(r), elems |-> << >>]]
  /\ UNCHANGED <<live, outcome>>

\* let n = A @r (): the constructor needs a handle.  With "fields" the
\* initialiser allocates the field's array in the region of the instance.
DeclareInstance(n, how, r, o) ==
  LET handle == GetRegionHandle(r)
      instance(fields) == [region |-> handle, elems |-> fields]
  IN
  /\ Running
  /\ IF handle = NoHandle THEN Refuse("rejected")
     ELSE /\ Declare(n, how, Value(Instance(r), o, NoAddress))
          /\ IF "fields" \in Features
             THEN \E f \in Fresh \ {o} :
                    obj' = [obj EXCEPT ![o] = instance(<<f>>), ![f] = instance(<< >>)]
             ELSE obj' = [obj EXCEPT ![o] = instance(<< >>)]
          /\ UNCHANGED <<live, outcome>>

\* let n = [refs]: an array in the current region, typed by its first element.
\* An element of another shape has another LLVM type, which its store asserts.
DeclareArray(n, how, refs, o) ==
  /\ Running
  /\ \A k \in DOMAIN refs : \/ refs[k].type = refs[1].type
                            \/ "mixed" \in Features /\ SameShape(refs[k].type, refs[1].type)
  /\ refs[1].type \in {Instance(r) : r \in RegionName}  \* bound: no arrays of arrays
  /\ Declare(n, how, Value(ArrayOf(refs[1].type, stack[Top].defaultRegion), o, NoAddress))
  /\ obj' = [obj EXCEPT ![o] = [region |-> stack[Top].region,
                                elems |-> [k \in DOMAIN refs |-> refs[k].obj]]]
  /\ UNCHANGED <<live, outcome>>

\* Slip: the regions of the types are not compared.
Assign_unchecked(n, ref) ==
  LET target == GetValue(n) IN
  /\ Running
  /\ Dimensions(target.type) = Dimensions(ref.type)
  /\ StoreAt(target.storeAddress, ref)

\* n = ref: doStore compares the types, then stores to the address of n; for
\* a parameter or a new object it is null and the compiler dies.
Assign(n, ref) ==
  LET target == GetValue(n) IN
  /\ Running
  /\ "lets" \in Features \/ target.storeAddress # NoAddress
  /\ target.obj = Unset => target.storeAddress # NoAddress  \* bound: not through a skipped let
  /\ IF Assignable(target.type, ref.type)
     THEN \/ StoreAt(target.storeAddress, ref)
          \/ target.storeAddress = NoAddress /\ Refuse("aborted")
     ELSE Refuse("rejected")

\* n[k] = ref, and n.field = ref.
StorePart(n, k, ref) ==
  \E target \in Reads(n) :
    /\ Running
    /\ Allocated(target.obj) /\ k \in DOMAIN obj[target.obj].elems
    /\ IF Assignable(PartType(target), ref.type)
       THEN StoreAt(PartAddress(target.obj, k), ref)
       ELSE Refuse("rejected")

\* What the compiler can say of the parts of a value.
PartTypes(t) ==
  IF IsArray(t) THEN {ElementType(t)} ELSE IF t.base = A /\ "fields" \in Features THEN {FieldType} ELSE {}

\* Types of the expressions in a branch that is not taken: a name, an element
\* or a field, a new object, an array of those, a call.  For a name that is
\* not a variable's nothing is read: let gives the same value a second name.
\* Without "leaks" the name is not used and nothing looks at its type: any will do.
SkippedTypes(how) ==
  LET type(n)    == GetValue(n).type
      parts      == UNION {PartTypes(type(n)) : n \in Known}
      read       == {n \in Known : how = "var" \/ n \in DOMAIN stack[Latest(ScopesOf(n))].variables}
      new        == {Instance(r) : r \in {s \in KnownRegions : GetRegionHandle(s) # NoHandle}}
      args       == {type(n) : n \in Known} \cup parts
      elements   == args \cap {Instance(r) : r \in RegionName}
      calls(f)   == {regions \in [DOMAIN f.regions -> KnownRegions] :
                       \E types \in [DOMAIN f.params -> args] :
                         CallVerdict(f, regions, types, GetRegionHandle(regions[1]) # NoHandle) = "accepted"}
      results(f) == IF f.ret = Void THEN {} ELSE {ResultType(f, regions) : regions \in calls(f)}
  IN IF "leaks" \notin Features THEN {FieldType}
     ELSE {type(n) : n \in read} \cup parts \cup new
            \cup {ArrayOf(t, stack[Top].defaultRegion) : t \in elements}
            \cup UNION {results(f) : f \in Signature}

\* let n and var n with a value of type t, in a branch that is not taken: n is
\* bound, as in one that is, and what would be evaluated and stored is not.
\* What the compiler turns down there it turns down in a branch that is taken.
DeclareSkipped(n, how, t) ==
  /\ Running
  /\ Declare(n, how, Value(t, Unset, NoAddress))
  /\ UNCHANGED <<obj, live, outcome>>

\* on r = NewRegion() {
EnterOn(r, h) ==
  /\ Running
  /\ Top < MaxDepth
  /\ "shadow" \in Features \/ r \notin KnownRegions
  /\ h \notin live
  /\ live' = live \cup {h}
  /\ stack' = Append(stack, [Child("on") EXCEPT !.defaultRegion = r, !.region = h,
                                               !.binds = [s \in {r} |-> h]])
  /\ UNCHANGED <<obj, outcome>>

\* DeleteRegion: every object of the region is gone.
Released(h) ==
  [o \in Obj |-> IF Allocated(o) /\ obj[o].region = h THEN NotAllocated ELSE obj[o]]

Popped == SubSeq(stack, 1, Top - 1)

\* Slip: no DeleteRegion is emitted.
LeaveOn_leaks ==
  /\ Running
  /\ stack[Top].kind = "on"
  /\ stack' = Popped
  /\ UNCHANGED <<obj, live, outcome>>

\* Slip: the region of the enclosing context is deleted.
LeaveOn_outer ==
  /\ Running
  /\ stack[Top].kind = "on"
  /\ live' = live \ {stack[Top - 1].region}
  /\ obj' = Released(stack[Top - 1].region)
  /\ stack' = Popped
  /\ UNCHANGED outcome

\* } of an on-scope: DeleteRegion of its region.
LeaveOn ==
  /\ Running
  /\ stack[Top].kind = "on"
  /\ live' = live \ {stack[Top].region}
  /\ obj' = Released(stack[Top].region)
  /\ stack' = Popped
  /\ UNCHANGED outcome

\* One round of a while statement has a context of its own.
EnterWhile ==
  /\ Running
  /\ Top < MaxDepth
  /\ stack' = Append(stack, Child("while"))
  /\ UNCHANGED <<obj, live, outcome>>

LeaveWhile ==
  /\ Running
  /\ stack[Top].kind = "while"
  /\ stack' = Popped
  /\ UNCHANGED <<obj, live, outcome>>

\* let n = f @regions (args): doCall, then the body of f in a frame of its own.
Call(n, how, f, regions, args) ==
  LET handle  == GetRegionHandle(regions[1])
      verdict == CallVerdict(f, regions, [k \in DOMAIN args |-> args[k].type], handle # NoHandle)
      binds   == [r \in {f.regions[k] : k \in DOMAIN f.regions} |->
                    Denotes(Top, regions[CHOOSE k \in DOMAIN f.regions : f.regions[k] = r])]
      values  == [p \in {ParamName[k] : k \in DOMAIN f.params} |->
                    LET k == CHOOSE k \in DOMAIN f.params : ParamName[k] = p
                    IN Value(f.params[k], args[k].obj, NoAddress)]
  IN
  /\ Running
  /\ Top < MaxDepth
  /\ IF verdict = "accepted"
     THEN /\ stack' = Append(stack, FunctionContext(f, handle, binds, values,
                        [name |-> n, how |-> how, ret |-> f.ret, type |-> ResultType(f, regions)]))
          /\ UNCHANGED <<obj, live, outcome>>
     ELSE Refuse(verdict)

\* return ref; the caller declares the name with the type doCall computed.
Return(ref) ==
  LET call == stack[Top].call IN
  /\ Running
  /\ stack[Top].kind = "fn" /\ Top > 1 /\ call.ret # Void
  /\ ref.type = call.ret \/ ("result" \in Features /\ SameShape(ref.type, call.ret))
  /\ stack' = [Popped EXCEPT ![Top - 1] =
                 Bound(Top - 1, call.how, call.name, Value(call.type, ref.obj, NoAddress))]
  /\ UNCHANGED <<obj, live, outcome>>

\* The end of a function without a result.
ReturnVoid ==
  /\ Running
  /\ stack[Top].kind = "fn" /\ Top > 1 /\ stack[Top].call.ret = Void
  /\ stack' = Popped
  /\ UNCHANGED <<obj, live, outcome>>

\* return within an on-scope or a while body: codegenReturn is only
\* implemented by a function's own context, a child's asserts.
ReturnInside == Running /\ stack[Top].kind # "fn" /\ Refuse("aborted")

\* Slip: runProgram forgets the region that it has made for main.
MainReturn_leaks ==
  /\ Running
  /\ Top = 1
  /\ stack' = << >>
  /\ outcome' = "done"
  /\ UNCHANGED <<obj, live>>

\* main returns and runProgram deletes its region.
MainReturn ==
  /\ Running
  /\ Top = 1
  /\ live' = live \ {stack[1].region}
  /\ obj' = Released(stack[1].region)
  /\ stack' = << >>
  /\ outcome' = "done"

\* The program has run, or it has been turned down and never will.
Over == outcome # "running" /\ UNCHANGED vars

Init == /\ stack = << >>
        /\ obj = [o \in Obj |-> NotAllocated]
        /\ live = {}
        /\ outcome = "running"

Declaration ==
  \E n \in Name : \E how \in How(n) :
    \/ \E ref \in References : DeclareReference(n, how, ref)
    \/ \E r \in KnownRegions, o \in Fresh : DeclareInstance(n, how, r, o)
    \/ \E len \in 1 .. MaxElements : \E refs \in [1 .. len -> References], o \in Fresh :
         DeclareArray(n, how, refs, o)
    \/ \E t \in SkippedTypes(how) : DeclareSkipped(n, how, t)

Store ==
  \E n \in Visible, ref \in References :
    \/ Assign(n, ref)
    \/ \E k \in 1 .. MaxElements : StorePart(n, k, ref)

Invocation ==
  \E n \in Name, f \in Signature : \E how \in How(n) :
    \E regions \in [DOMAIN f.regions -> KnownRegions], args \in [DOMAIN f.params -> References] :
      Call(n, how, f, regions, args)

Entry == (\E r \in OnRegion, h \in Handle : EnterOn(r, h)) \/ EnterWhile

\* What programs do between the start and the end of their scopes.
Statement == Declaration \/ Store \/ Invocation \/ Entry \/ ReturnInside

\* The ends of scopes.
Leave == LeaveOn \/ LeaveWhile \/ (\E ref \in References : Return(ref)) \/ ReturnVoid \/ MainReturn

Next == (\E h \in Handle : Start(h)) \/ (Running /\ (Statement \/ Leave)) \/ Over

Spec == Init /\ [][Next]_vars

(***************************************************************************)
(* Properties.                                                             *)
(***************************************************************************)

Bindings(d) == {stack[d].values[n] : n \in DOMAIN stack[d].values}
                 \cup {stack[d].variables[n] : n \in DOMAIN stack[d].variables}

\* Those with a value.
Held(d) == {ref \in Bindings(d) : ref.obj # Unset}

AddressOK(a, d) ==
  \/ a \in {NoAddress, Unnamed}
  \/ a.in = "variable" /\ a.depth \in Frame(d) /\ a.name \in DOMAIN stack[a.depth].variables
  \/ a.in = "object" /\ a.obj \in Obj

TypeOK ==
  /\ \A d \in 1 .. Top : LET c == stack[d] IN
       /\ c.kind \in {"fn", "on", "while"}
       /\ c.defaultRegion \in RegionName
       /\ c.region \in Handle
       /\ \A r \in DOMAIN c.binds : r \in RegionName /\ c.binds[r] \in Handle \cup {NoHandle}
       /\ DOMAIN c.values \cup DOMAIN c.variables \subseteq Name
       /\ \A ref \in Bindings(d) : ref.type \in Type /\ ref.obj \in Obj \cup {Unset}
       /\ \A n \in DOMAIN c.values : AddressOK(c.values[n].storeAddress, d)
       /\ c.call # NoCall => c.call.type \in Type \cup {Void}
  /\ \A o \in Obj : Allocated(o) => obj[o].region \in Handle /\ obj[o].elems \in Seq(Obj)
  /\ live \in SUBSET Handle
  /\ outcome \in {"running", "rejected", "aborted", "undefined", "done"}

\* What a name refers to has not been deleted, and neither have the elements
\* of the array it refers to: a program of the class that Features leaves uses no
\* memory of a region that an on-scope has given back, in whatever way
\* assignments, stores, calls and returns carry a reference from scope to
\* scope.
NoDangling ==
  \A d \in 1 .. Top : \A ref \in Held(d) :
    /\ Allocated(ref.obj)
    /\ \A k \in DOMAIN obj[ref.obj].elems : Allocated(obj[ref.obj].elems[k])

\* The regions in a static type are true: seen from the scope that declares a
\* name, the outer region of its type is the region its object lives in, and
\* for an array the inner region is that of every element.  The compiler never
\* sees the regions of a run, it compares names of different scopes.
WellTyped ==
  \A d \in 1 .. Top : \A ref \in Held(d) :
    Allocated(ref.obj) =>
      /\ obj[ref.obj].region = Denotes(d, Region(ref.type, 1))
      /\ IsArray(ref.type) =>
           \A part \in Parts(ref) : Allocated(part.obj) =>
             obj[part.obj].region = Denotes(d, Region(ref.type, 2))

\* The handle that a context allocates in, or passes on, is that of a region
\* that exists, in the frames of callers too: a call cannot take a region away
\* from its caller.
HandlesLive == \A d \in 1 .. Top : stack[d].region \in live

\* The regions that exist are main's and those of the open on-scopes, each
\* scope having one of its own: every region is deleted when its scope ends,
\* once, and none is left when the program is done.
RegionsOwned ==
  LET owners == {d \in 1 .. Top : d = 1 \/ stack[d].kind = "on"} IN
  /\ live = {stack[d].region : d \in owners}
  /\ \A d, e \in owners : stack[d].region = stack[e].region => d = e

\* The compiled program uses the run-time library as RegionStore allows: it
\* allocates in regions that exist and deletes no region twice.
Library ==
  INSTANCE RegionStore WITH
    Block  <- Obj,
    blocks <- [h \in Handle |-> {o \in Obj : Allocated(o) /\ obj[o].region = h}]
UsesLibrary == Library!StoreSpec
=============================================================================
