------------------------- MODULE DeclarationsProofs -------------------------
(***************************************************************************)
(* Proofs about Compiler, for every library and every set of files without *)
(* syntax errors: which programs are compiled, what the names in bodies    *)
(* mean, what the fields of classes hold, and what is read of the files.   *)
(*                                                                         *)
(* The invariant is ProcessInv.  While code is generated it is GenInv,     *)
(* which says of each table what it has after so many declarations;        *)
(* Mentioned and AsMember say what a name means from the source alone.     *)
(* ReadSoFar says of the reader what it has made of the lexemes up to a    *)
(* place of a file.                                                        *)
(***************************************************************************)
EXTENDS CompilerProofs

\* A call that the compiler dies of.
LEMMA CallFails ==
  ASSUME NEW v, NEW region, NEW handle,
         v.type.kind \in {"null"} \cup Plain \/ (v.type.kind = "method" /\ v.type.instance # region)
  PROVE  Fails(doCall(v, region, handle))
<1>1. ~Fails(v)
  BY DEF Fails, Plain
<1>2. CASE v.type.kind \in {"null"} \cup Plain
  <2>1. v.type.kind \notin {"function", "method"}
    BY <1>2 DEF Plain
  <2>2. doCall(v, region, handle) = Failed("aborted")
    BY <1>1, <2>1 DEF doCall
  <2> QED BY <2>2, FailureIs
<1>3. CASE v.type.kind = "method" /\ v.type.instance # region
  <2>1. doCall(v, region, handle) = Failed("rejected")
    BY <1>1, <1>3 DEF doCall
  <2> QED BY <2>1, FailureIs
<1> QED BY <1>2, <1>3

\* The value of a call is right.
LEMMA CallRight ==
  ASSUME GenState, body # Absent, body.todo # << >>, Head(body.todo).kind = "call"
  PROVE  NodeRight(doCall(body.last, body.region, body.value.code.fn))
<1>1. PICK id, n, nodes, site, decl, last, region, r :
        /\ id = body.value.code.fn /\ n = Len(module[id].code) /\ site = Site /\ nodes = Written(site).nodes
        /\ decl = Mentioned(site) /\ last = body.last /\ region = body.region /\ r = doCall(last, region, id)
  OBVIOUS
<1> SUFFICES NodeRight(r)
  BY <1>1
<1>2. /\ n \in Nat /\ n + 1 \in 1 .. Len(nodes) /\ Len(nodes) \in Nat /\ nodes[n + 1].kind = "call"
      /\ decl[n + 1] = Reference(site, decl, n + 1)
  BY <1>1, NextNodeIs
<1>3. n > 0 /\ nodes[n].kind \in {"name", "child"} /\ n + 1 - 1 = n
  <2>1. n > 0 /\ nodes[n].kind \in {"name", "child"}
    <3>1. PICK i : i = n + 1
      OBVIOUS
    <3>2. i \in 1 .. Len(nodes) /\ nodes[i].kind = "call"
      BY <1>2, <3>1
    <3>3. i > 1 /\ nodes[i - 1].kind \in {"name", "child"}
      BY <1>1, <3>2, ChainedIs
    <3>4. i - 1 = n /\ n > 0
      BY <1>2, <3>1, <3>3
    <3> QED BY <3>3, <3>4
  <2>2. n + 1 - 1 = n
    BY <1>2
  <2> QED BY <2>1, <2>2
<1>4. PICK d, near : d = decl[n] /\ near = IF nodes[n].kind = "name" THEN "" ELSE region
  OBVIOUS
<1>5. Before(d, ClassesDone) /\ TypeMeans(last.type, d, near)
  <2>1. LastOK(nodes, decl, n, last.type, region) /\ \A i \in 1 .. n : Before(decl[i], ClassesDone)
    BY <1>1, <1>3, LastIs
  <2>2. n \in 1 .. n
    BY <1>2, <1>3
  <2> QED BY <1>3, <1>4, <2>1, <2>2 DEF LastOK
<1>6. region # ""
  BY <1>1 DEF GenState, GenInv, BodyInv
<1>7. NodeAccepted(nodes, decl, n + 1) <=> Callable(d) /\ (nodes[n].kind = "name" /\ IsMethod(d) => IsField(d))
  <2>1. decl[n + 1 - 1] = d /\ nodes[n + 1 - 1] = nodes[n]
    BY <1>3, <1>4
  <2> QED BY <1>2, <2>1 DEF NodeAccepted
<1>8. decl[n + 1] = Calling
  BY <1>1, <1>2 DEF Reference
<1>9. ASSUME Fails(r), ~NodeAccepted(nodes, decl, n + 1) PROVE NodeRight(r)
  <2>1. ~Accepted
    BY <1>1, <1>2, <1>9, BodySite, NodeRejected DEF GenState
  <2> QED BY <1>9, <2>1 DEF NodeRight
<1>10. ASSUME last.type.kind \in {"function", "method"}, last.type.kind = "method" => last.type.instance = region,
              ReturnFits(last.type.ret, Target(d)), NodeAccepted(nodes, decl, n + 1)
       PROVE  NodeRight(r)
  <2>1. PICK t : t = Target(d)
    OBVIOUS
  <2>2. ~Fails(r) /\ ~IsNull(r) /\ r.code.op = "call" /\ ResultFits(r.type, t, region)
    <3>1. Ready(last, region, t)
      BY <1>6, <1>10, <2>1 DEF Ready
    <3>2. r = doCall(last, region, id)
      BY <1>1
    <3> QED BY <3>1, <3>2, CallResult
  <2>3. Means(r.code, Calling)
    BY <2>2 DEF Means, ItemOK, Refers
  <2>4. LastOK(nodes, decl, n + 1, r.type, region)
    <3>1. Target(decl[n + 1 - 1]) = t
      BY <1>3, <1>4, <2>1
    <3> QED BY <1>2, <2>2, <3>1 DEF LastOK
  <2>5. Before(Calling, ClassesDone)
    <3>1. ClassesDone \in Nat
      BY StateIs
    <3>2. PICK c : c = ClassesDone /\ c \in Nat /\ 0 \in 0 .. c + 1 /\ c + 1 # 0
      BY <3>1
    <3> QED BY <3>2 DEF Before, Calling
  <2>6. NodeFits(r)
    BY <1>1, <1>8, <1>10, <2>2, <2>3, <2>4, <2>5 DEF NodeFits
  <2> QED BY <2>2, <2>6 DEF NodeRight
<1>11. ~IsField(d) => Target(d) = d
  <2>1. ClassesDone \in Nat /\ ClassesDone <= Len(classes)
    <3>1. PICK a, b, c : a = ClassesDone /\ b = Class /\ c = Len(classes) /\ a \in Nat /\ b \in Nat /\ c \in Nat
                         /\ a <= b /\ b <= c
      BY StateIs
    <3> QED BY <3>1
  <2> QED BY <1>5, <2>1, TargetBefore DEF GenState
<1>12. CASE d = << >>
  <2>1. last.type.kind = "null"
    BY <1>5, <1>12 DEF TypeMeans
  <2>2. ~NodeAccepted(nodes, decl, n + 1)
    BY <1>7, <1>12 DEF Callable
  <2>3. Fails(r)
    BY <1>1, <2>1, CallFails
  <2> QED BY <1>9, <2>2, <2>3
<1>13. CASE d # << >> /\ IsField(d) /\ Written(d).op # "name"
  <2>1. last.type.kind \in Plain
    BY <1>5, <1>13 DEF TypeMeans, FieldFits
  <2>2. ~NodeAccepted(nodes, decl, n + 1)
    BY <1>7, <1>13 DEF Callable
  <2>3. Fails(r)
    BY <1>1, <2>1, CallFails
  <2> QED BY <1>9, <2>2, <2>3
<1>14. CASE d # << >> /\ IsField(d) /\ Written(d).op = "name"
  <2>1. CallFits(last.type, "function", Target(d))
    BY <1>5, <1>14 DEF TypeMeans, FieldFits
  <2>2. NodeAccepted(nodes, decl, n + 1)
    BY <1>7, <1>14 DEF Callable
  <2> QED BY <1>10, <2>1, <2>2 DEF CallFits
<1>15. CASE d # << >> /\ ~IsField(d) /\ IsMethod(d)
  <2>1. CallFits(last.type, "method", d) /\ last.type.instance = near
    BY <1>5, <1>15 DEF TypeMeans
  <2>2. CASE nodes[n].kind = "name"
    <3>1. ~NodeAccepted(nodes, decl, n + 1)
      BY <1>7, <1>15, <2>2
    <3>2. Fails(r)
      BY <1>1, <1>4, <1>6, <2>1, <2>2, CallFails DEF CallFits
    <3> QED BY <1>9, <3>1, <3>2
  <2>3. CASE nodes[n].kind # "name"
    <3>1. NodeAccepted(nodes, decl, n + 1)
      BY <1>7, <1>15, <2>3 DEF Callable
    <3> QED BY <1>4, <1>10, <1>11, <1>15, <2>1, <2>3, <3>1 DEF CallFits
  <2> QED BY <2>2, <2>3
<1>16. CASE d # << >> /\ ~IsField(d) /\ ~IsMethod(d)
  <2>1. CallFits(last.type, "function", d)
    BY <1>5, <1>16 DEF TypeMeans
  <2>2. NodeAccepted(nodes, decl, n + 1)
    BY <1>7, <1>16 DEF Callable
  <2> QED BY <1>10, <1>11, <1>16, <2>1, <2>2 DEF CallFits
<1> QED BY <1>12, <1>13, <1>14, <1>15, <1>16

\* The steps of a body.
LEMMA NodesKeep ==
  ASSUME GenState, HandlesInv', GenName \/ GenChild \/ GenCall
  PROVE  GenInv' /\ (outcome' # outcome => ~Accepted)
<1>1. body # Absent /\ body.todo # << >>
  BY DEF GenName, GenChild, GenCall, NextNode
<1>2. CASE GenName
  BY <1>1, <1>2, NameRight, NodeKeeps DEF GenName, NextNode
<1>3. CASE GenChild
  BY <1>1, <1>3, ChildRight, NodeKeeps DEF GenChild, NextNode
<1>4. CASE GenCall
  BY <1>1, <1>4, CallRight, NodeKeeps DEF GenCall, NextNode
<1> QED BY <1>2, <1>3, <1>4

\* A function that is added to the module.
LEMMA AddedFunction ==
  ASSUME HandlesInv, HandlesInv', NEW f, module' = Append(module, f)
  PROVE  /\ Len(module) \in Nat /\ Len(module') = Len(module) + 1
         /\ \A id \in 1 .. Len(module) : module'[id] = module[id]
         /\ module'[Len(module) + 1] = f /\ DOMAIN module' = 1 .. Len(module) + 1
<1>1. PICK m : m = module
  OBVIOUS
<1>2. IsList(m)
  BY <1>1 DEF HandlesInv, IsModule
<1>3. PICK n : n = Len(m)
  OBVIOUS
<1>4. /\ Len(module') = n + 1 /\ n \in Nat /\ \A id \in 1 .. n : module'[id] = m[id]
      /\ module'[n + 1] = f
  BY <1>1, <1>2, <1>3, AppendedList
<1>5. IsModule(module')
  BY DEF HandlesInv
<1>6. DOMAIN module' = 1 .. Len(module')
  BY <1>5, ModuleLength
<1> QED BY <1>1, <1>3, <1>4, <1>6

\* It does not change a class, nor what is there.
LEMMA AddedStable ==
  ASSUME GenState, UNCHANGED <<classes, functions, classTypes, local>>,
         Len(module') = Len(module) + 1, \A id \in 1 .. Len(module) : module'[id] = module[id]
  PROVE  Kept /\ Stable
<1>1. Len(module) \in Nat
  BY StateIs
<1>2. Kept
  <2>1. PICK n : n = Len(module)
    OBVIOUS
  <2>2. n \in Nat /\ Len(module') = n + 1
    BY <1>1, <2>1
  <2>3. n <= n + 1 /\ n + 1 \in Nat
    BY <2>2
  <2> QED BY <1>1, <2>1, <2>2, <2>3 DEF Kept
<1>3. PICK c : c = Class /\ c \in Nat /\ Class' = c
  BY StateIs DEF Class
<1>4. \A k : LaidOut(k)' = LaidOut(k)
  BY <1>3 DEF LaidOut, InClass
<1>5. \A k \in 1 .. Class : classTypes[k].init \in 1 .. Len(module)
  BY DEF GenState, GenInv, SupersInv
<1>6. ASSUME NEW k \in 1 .. Class PROVE module'[classTypes[k].init].code = module[classTypes[k].init].code
  BY <1>1, <1>5
<1> QED BY <1>2, <1>3, <1>4, <1>6 DEF Stable

\* How many functions there are then.
LEMMA AddedDone ==
  ASSUME GenState, HandlesInv', NEW f, module' = Append(module, f), IsDecl(f.decl),
         f.decl[1] > 0 => Done = 0, f.decl[1] = 0 => f.decl[2] = Done + 1
  PROVE  Done' = IF f.decl[1] = 0 THEN Done + 1 ELSE 0
<1>1. PICK m : m = module /\ IsModule(m) /\ IsList(m)
  BY DEF GenState, HandlesInv, IsModule
<1>2. Sorted(m)
  BY <1>1 DEF GenState, ModuleInv
<1>3. Done = Cardinality(FunctionIds(m))
  BY <1>1, CountIs
<1>4. Cardinality(FunctionIds(Append(m, f))) = IF f.decl[1] = 0 THEN f.decl[2] ELSE 0
  BY <1>1, <1>2, <1>3, SortedAppended
<1>5. (IsModule(module))'
  BY DEF HandlesInv
<1>6. Done' = Cardinality(FunctionIds(module'))
  <2>1. (IsModule(module) => Done = Cardinality(FunctionIds(module)))'
    BY CountIs, PTL
  <2> QED BY <1>5, <2>1
<1>7. module' = Append(m, f)
  BY <1>1
<1>8. Done' = IF f.decl[1] = 0 THEN f.decl[2] ELSE 0
  BY <1>4, <1>6, <1>7
<1> QED BY <1>8

\* codegenFunction of what is next.
IsNextSite(site) ==
  /\ IsSite(site) /\ KnownClasses(site) = ClassesDone /\ Written(site) \in FunctionNodes
  /\ IF InClass THEN local.laidOut /\ local.todo # {} /\ site = <<Class, Least(local.todo)>>
     ELSE Done < Len(functions) /\ Class = Len(classes) /\ site = <<0, Done + 1>>

\* A body is begun.
LEMMA BegunKeeps ==
  ASSUME GenState, HandlesInv', NEW site, IsNextSite(site), NEW region, region = IF InClass THEN "this" ELSE "fn_default",
         codegenFunction(Written(site), site, region)
  PROVE  GenInv' /\ (outcome' # outcome => ~Accepted)
<1>1. PICK node, ret, id : /\ node = Written(site) /\ ret = TypeNamed(node.ret, global.types, region)
                           /\ id = Len(module) + 1
  OBVIOUS
<1>2. /\ IsSite(site) /\ KnownClasses(site) = ClassesDone /\ node \in FunctionNodes
      /\ IF InClass THEN local.laidOut /\ local.todo # {} /\ site = <<Class, Least(local.todo)>>
         ELSE Done < Len(functions) /\ Class = Len(classes) /\ site = <<0, Done + 1>>
  BY <1>1 DEF IsNextSite
<1>3. IF RetAccepted(site) THEN ret.kind # "aborted" /\ ReturnFits(ret, site) ELSE ret.kind = "aborted"
  <2>1. region # ""
    OBVIOUS
  <2> QED BY <1>1, <1>2, <2>1, ReturnNamed DEF GenState, GenInv
<1>4. body = Absent /\ UNCHANGED <<classes, functions, classTypes, global, local>>
  BY DEF codegenFunction
<1>5. CASE ret.kind = "aborted"
  <2>1. UNCHANGED <<module, body>>
    BY <1>1, <1>5 DEF codegenFunction
  <2>2. ~Accepted
    BY <1>2, <1>3, <1>5, ReturnRejected DEF GenState
  <2> QED BY <1>4, <2>1, <2>2, IdleKeeps
<1>6. CASE ret.kind # "aborted"
  <2>1. PICK f : f = [name |-> NewName(node.name), decl |-> site, code |-> << >>]
    OBVIOUS
  <2>2. /\ module' = Append(module, f) /\ outcome' = outcome
        /\ body' = [value |-> FunctionValue(id, ret, FALSE), region |-> region, todo |-> node.nodes, last |-> Null]
    BY <1>1, <1>6, <2>1 DEF codegenFunction
  <2>3. /\ Len(module) \in Nat /\ Len(module') = id /\ (\A k \in 1 .. Len(module) : module'[k] = module[k])
        /\ module'[id] = f
    BY <1>1, <2>2, AddedFunction DEF GenState
  <2>4. Kept /\ Stable
    BY <1>1, <1>4, <2>3, AddedStable
  <2>5. ProgramOK /\ SupersInv
    BY DEF GenState, GenInv
  <2>6. SupersInv' /\ MethodsInv' /\ VariablesInv' /\ LayoutInv' /\ MembersAccepted' /\ ClassesDone' = ClassesDone
    BY <1>2, <1>4, <2>4, QuietFrame
  <2>7. site # << >> /\ site[2] \in Nat /\ site[2] > 0
    BY <1>2, <2>5, SiteIs
  <2>8. PICK c, d : /\ c = Class /\ d = Done /\ c \in Nat /\ d \in Nat
                    /\ (InClass => d = 0 /\ c > 0 /\ Least(local.todo) \in Nat)
    <3>1. InClass => Least(local.todo) \in Nat
      BY <1>2, TodoIs
    <3> QED BY <3>1, StateIs
  <2>9. Done' = IF InClass THEN 0 ELSE d + 1
    <3>1. CASE InClass
      <4>1. PICK j : j = Least(local.todo) /\ j \in Nat
        BY <2>8, <3>1
      <4>2. f.decl = <<c, j>> /\ IsDecl(f.decl)
        BY <1>2, <2>1, <2>8, <3>1, <4>1 DEF IsDecl
      <4>3. f.decl[1] = c /\ c > 0 /\ c # 0
        BY <2>8, <3>1, <4>2
      <4>4. Done = 0
        BY <2>8, <3>1
      <4> QED BY <2>2, <3>1, <4>2, <4>3, <4>4, AddedDone
    <3>2. CASE ~InClass
      <4>1. f.decl = <<0, d + 1>> /\ IsDecl(f.decl)
        BY <1>2, <2>1, <2>8, <3>2 DEF IsDecl
      <4> QED BY <2>2, <2>8, <3>2, <4>1, AddedDone
    <3> QED BY <3>1, <3>2
  <2>10. body' # Absent
    BY <2>2 DEF Absent
  <2>11. InClass' = InClass /\ Class' = Class
    BY <1>4 DEF InClass, Class
  <2>12. FunctionsDone' = FunctionsDone
    BY <1>4, <2>8, <2>9, <2>10, <2>11 DEF FunctionsDone
  <2>13. TypesInv' /\ ValuesInv'
    BY <1>4, <2>4, <2>6, <2>12, TypesFrame, ValuesFrame DEF GenState, GenInv
  <2>14. TodoInv'
    <3>1. TodoInv
      BY DEF GenState, GenInv
    <3>2. \A k, kind : Places(MembersOf(k), kind)' = Places(MembersOf(k), kind)
      BY <1>4 DEF Places, MembersOf
    <3> QED BY <1>2, <1>4, <2>8, <2>9, <2>11, <3>1, <3>2 DEF TodoInv
  <2>15. FunctionsAccepted'
    <3>1. FunctionsDone \in Nat /\ FunctionsDone <= Len(functions)
      BY StateIs, DoneBound
    <3> QED BY <1>4, <2>5, <2>12, <3>1, FunctionsFrame DEF GenState, GenInv
  <2>16. /\ Site' = site /\ body'.value = FunctionValue(id, ret, FALSE) /\ body'.value.code.fn = id
         /\ module'[id].decl = site /\ module'[id].code = << >>
    <3>1. Site' = site
      BY <1>2, <1>4, <2>8, <2>9, <2>11 DEF Site
    <3> QED BY <2>1, <2>2, <2>3, <3>1 DEF FunctionValue, Pointer
  <2>17. Mentioned(site)' = Mentioned(site) /\ Written(site)' = node /\ IsSite(site)'
    BY <1>1, <1>2, <1>4, MentionedKept, ProgramKept DEF IsSite
  <2>18. BodiesInv'
    <3>1. ASSUME NEW k \in 1 .. Len(module'), module'[k].decl[2] > 0, k # id
          PROVE  /\ IsSite(module[k].decl)' /\ BodyMeans(k)'
                 /\ ~InBody(k)' => Len(module[k].code)' = Len(Written(module[k].decl).nodes)'
      <4>1. k \in 1 .. Len(module) /\ module'[k] = module[k]
        BY <1>1, <2>3, <3>1
      <4>2. IsSite(module[k].decl) /\ BodyMeans(k) /\ Len(module[k].code) = Len(Written(module[k].decl).nodes)
        BY <1>4, <3>1, <4>1 DEF GenState, GenInv, BodiesInv, InBody
      <4> QED BY <2>4, <2>5, <2>6, <4>1, <4>2, BodyFrame
    <3>2. IsSite(module[id].decl)' /\ BodyMeans(id)' /\ InBody(id)'
      <4>1. InBody(id)'
        BY <2>10, <2>16 DEF InBody
      <4>2. BodyMeans(id)'
        BY <2>16, EmptyList DEF BodyMeans
      <4> QED BY <2>16, <2>17, <4>1, <4>2
    <3> QED BY <3>1, <3>2 DEF BodiesInv
  <2>19. FunctionOK(body.value, site)'
    <3>1. PICK v : v = FunctionValue(id, ret, FALSE)
      OBVIOUS
    <3>2. v.type.kind = "function" /\ v.type.ret = ret /\ v.type.native = FALSE /\ v.width = 0 /\ v.code.op = "fn" /\ v.code.fn = id
      BY <3>1 DEF FunctionValue, Pointer
    <3>3. ReturnFits(ret, site)'
      BY <1>3, <1>4, <1>6, ReturnKept
    <3>4. site # <<0, -1>>
      BY <2>7
    <3>5. CallFits(v.type, "function", site)'
      BY <3>2, <3>3, <3>4 DEF CallFits
    <3>6. IsFn(v.code, site)'
      BY <1>1, <2>3, <2>16, <3>2 DEF IsFn
    <3>7. body'.value = v
      BY <2>16, <3>1
    <3> QED BY <3>2, <3>5, <3>6, <3>7 DEF FunctionOK
  <2>20. BodyInv'
    <3>1. PICK nodes : nodes = node.nodes /\ IsList(nodes) /\ Len(nodes) \in Nat
      BY <1>2, FunctionNode
    <3>2. RetAccepted(site)'
      BY <1>3, <1>4, <1>6, <2>5, AcceptedKept
    <3>3. body'.region = IF InClass' THEN "this" ELSE "fn_default"
      BY <2>2, <2>11
    <3>4. body' = [value |-> body'.value, region |-> body'.region, todo |-> body'.todo, last |-> body'.last]
          /\ body'.todo = nodes
      BY <2>2, <3>1
    <3>5. Len(module'[id].code) = 0
      BY <2>16, EmptyList
    <3>6. IsList(body'.todo) /\ Len(nodes) = 0 + Len(body'.todo) /\ \A i \in 1 .. Len(body'.todo) : body'.todo[i] = nodes[0 + i]
      BY <3>1, <3>4
    <3>7. FunctionOK(body.value, Site)' /\ RetAccepted(Site)' /\ Written(Site)'.nodes = nodes
      BY <2>16, <2>17, <2>19, <3>1, <3>2
    <3>8. PICK n : n = Len(module'[body'.value.code.fn].code) /\ n = 0
      BY <2>16, <3>5
    <3>9. /\ Len(nodes) = n + Len(body'.todo) /\ (\A i \in 1 .. Len(body'.todo) : body'.todo[i] = nodes[n + i])
          /\ ~(n > 0) /\ (\A i : i \notin 1 .. n)
      BY <3>6, <3>8
    <3>10. n = (Len(module[body.value.code.fn].code))' /\ nodes = (Written(Site).nodes)'
      BY <3>7, <3>8
    <3> HIDE DEF FunctionOK, RetAccepted
    <3> QED BY <3>3, <3>4, <3>6, <3>7, <3>9, <3>10 DEF BodyInv
  <2> QED BY <2>2, <2>6, <2>13, <2>14, <2>15, <2>18, <2>20 DEF GenInv
<1> QED BY <1>5, <1>6

\* The same of a function.
LEMMA BeginFunctionKeeps ==
  ASSUME GenState, HandlesInv', BeginFunction
  PROVE  GenInv' /\ (outcome' # outcome => ~Accepted)
<1>1. ~InClass /\ Class = Len(classes) /\ Done < Len(functions)
  BY DEF BeginFunction, InClass, Class
<1>2. PICK i : i = Done + 1 /\ i \in 1 .. Len(functions)
  <2>1. PICK d, n : d = Done /\ n = Len(functions) /\ d \in Nat /\ n \in Nat /\ d < n
    BY <1>1, StateIs
  <2> QED BY <2>1
<1>3. PICK site : site = <<0, i>>
  OBVIOUS
<1>4. IsNextSite(site) /\ Written(site) = functions[i]
  BY <1>1, <1>2, <1>3, FunctionSite DEF IsNextSite
<1>5. codegenFunction(Written(site), site, "fn_default")
  BY <1>2, <1>3, <1>4 DEF BeginFunction
<1>6. PICK region : region = "fn_default" /\ region = IF InClass THEN "this" ELSE "fn_default"
  BY <1>1
<1>7. codegenFunction(Written(site), site, region)
  BY <1>5, <1>6
<1> QED BY <1>4, <1>6, <1>7, BegunKeeps

\* The same of a method.
LEMMA BeginMethodKeeps ==
  ASSUME GenState, HandlesInv', BeginMethod
  PROVE  GenInv' /\ (outcome' # outcome => ~Accepted)
<1>1. InClass /\ local.laidOut /\ local.todo # {}
  BY DEF BeginMethod, InClass
<1>2. PICK site, region : site = <<Class, Least(local.todo)>> /\ region = "this"
  OBVIOUS
<1>3. Site = site
  BY <1>1, <1>2, ClassSite
<1>4. IsNextSite(site) /\ Written(site) = Node.members[Least(local.todo)]
  BY <1>1, <1>2, <1>3, ClassSite DEF IsNextSite
<1>5. codegenFunction(Written(site), site, region)
  BY <1>2, <1>4 DEF BeginMethod
<1>6. region = IF InClass THEN "this" ELSE "fn_default"
  BY <1>1, <1>2
<1> QED BY <1>4, <1>5, <1>6, BegunKeeps

\* A body that is complete.
LEMMA BodyComplete ==
  ASSUME GenState, body # Absent, body.todo = << >>
  PROVE  /\ BodyAccepted(Site)
         /\ Len(module[body.value.code.fn].code) = Len(Written(Site).nodes)
<1>1. PICK id, n, nodes, site, decl :
        /\ id = body.value.code.fn /\ n = Len(module[id].code) /\ site = Site /\ nodes = Written(site).nodes
        /\ decl = Mentioned(site)
  OBVIOUS
<1>2. /\ Len(nodes) = n + Len(body.todo)
      /\ (\A i \in 1 .. n : NodeAccepted(nodes, decl, i)) /\ RetAccepted(site)
  BY <1>1 DEF GenState, GenInv, BodyInv
<1>3. n \in Nat /\ Len(nodes) = n
  <2>1. IsList(module[id].code)
    BY <1>1, BodySite DEF GenState, HandlesInv, IsModule, IsFunction, IsCode
  <2>2. n \in Nat
    BY <1>1, <2>1, LengthOfList
  <2> QED BY <1>2, <2>2, EmptyList
<1>4. DOMAIN nodes = 1 .. n
  BY <1>1, <1>3, BodySite, FunctionNode
<1>5. BodyAccepted(site)
  BY <1>1, <1>2, <1>4 DEF BodyAccepted, RetAccepted
<1> QED BY <1>1, <1>3, <1>5

\* A body without nodes left is a body that is done.
LEMMA BodiesDone ==
  ASSUME GenState, body # Absent, body.todo = << >>, Stable, SupersInv', UNCHANGED module
  PROVE  BodiesInv'
<1>1. PICK f : f = body.value.code.fn
  OBVIOUS
<1>2. module[f].decl = Site /\ Len(module[f].code) = Len(Written(Site).nodes)
  BY <1>1, BodySite, BodyComplete
<1>3. ASSUME NEW id \in 1 .. Len(module), module[id].decl[2] > 0
      PROVE  /\ IsSite(module[id].decl)' /\ BodyMeans(id)'
             /\ Len(module[id].code)' = Len(Written(module[id].decl).nodes)'
  <2>1. IsSite(module[id].decl) /\ BodyMeans(id) /\ (~InBody(id) => Len(module[id].code) = Len(Written(module[id].decl).nodes))
    BY <1>3 DEF GenState, GenInv, BodiesInv
  <2>2. Len(module[id].code) = Len(Written(module[id].decl).nodes)
    <3>1. CASE InBody(id)
      BY <1>1, <1>2, <3>1 DEF InBody
    <3>2. CASE ~InBody(id)
      BY <2>1, <3>2
    <3> QED BY <3>1, <3>2
  <2> QED BY <2>1, <2>2, BodyFrame DEF GenState, GenInv
<1> QED BY <1>3 DEF BodiesInv

\* The names that global values mean.
ValuesMean(values, c, f) ==
  \A name : LET decl == Globally(name, c, f) IN
    IF decl = << >> THEN name \notin DOMAIN values
    ELSE name \in DOMAIN values /\ FunctionOK(values[name], decl)

\* The invariant of the global values, from what they mean.
LEMMA ValuesAre ==
  ASSUME Kept, NEW values, global'.values = values, NEW c, NEW f, ClassesDone' = c, FunctionsDone' = f,
         ValuesMean(values, c, f)
  PROVE  ValuesInv'
<1>1. \A name : Globally(name, c, f)' = Globally(name, c, f)
  BY ProgramKept DEF Kept
<1>2. \A v, decl : FunctionOK(v, decl) => FunctionOK(v, decl)'
  BY FunctionKept
<1>3. ASSUME NEW name, NEW decl, decl = Globally(name, c, f)
      PROVE  /\ Globally(name, ClassesDone, FunctionsDone)' = decl
             /\ IF decl = << >> THEN name \notin DOMAIN global'.values
                ELSE name \in DOMAIN global'.values /\ FunctionOK(global.values[name], decl)'
  <2>1. Globally(name, ClassesDone, FunctionsDone)' = decl
    <3>1. Globally(name, c, f)' = decl
      BY <1>1, <1>3
    <3>2. (ClassesDone = c /\ FunctionsDone = f => Globally(name, ClassesDone, FunctionsDone) = Globally(name, c, f))'
      OBVIOUS
    <3> QED BY <3>1, <3>2
  <2>2. IF decl = << >> THEN name \notin DOMAIN values
        ELSE name \in DOMAIN values /\ FunctionOK(values[name], decl)
    BY <1>3 DEF ValuesMean
  <2>3. CASE decl = << >>
    BY <2>1, <2>2, <2>3
  <2>4. CASE decl # << >>
    <3>1. PICK v : v = values[name]
      OBVIOUS
    <3>2. FunctionOK(v, decl)'
      BY <1>2, <2>2, <2>4, <3>1
    <3>3. global'.values[name] = v
      BY <3>1
    <3> QED BY <2>1, <2>2, <2>4, <3>2, <3>3
  <2> QED BY <2>3, <2>4
<1> QED BY <1>3 DEF ValuesInv

\* A new entry replaces the old one of its name, as the new declaration does.
LEMMA PutMeans ==
  ASSUME NEW old, NEW c, NEW f, ValuesMean(old, c, f), NEW name, NEW v, NEW d, d # << >>, FunctionOK(v, d),
         NEW k, NEW g, \A n : Globally(n, k, g) = IF name = n THEN d ELSE Globally(n, c, f)
  PROVE  ValuesMean(Put(old, name, v), k, g)
<1>1. PICK values : values = Put(old, name, v)
  OBVIOUS
<1>2. ASSUME NEW n, NEW decl, decl = Globally(n, k, g)
      PROVE  IF decl = << >> THEN n \notin DOMAIN values
             ELSE n \in DOMAIN values /\ FunctionOK(values[n], decl)
  <2>1. CASE name = n
    <3>1. n \in DOMAIN values /\ values[n] = v /\ decl = d
      BY <1>1, <1>2, <2>1 DEF Put
    <3> QED BY <3>1
  <2>2. CASE name # n
    <3>1. (n \in DOMAIN values <=> n \in DOMAIN old) /\ (n \in DOMAIN old => values[n] = old[n])
      BY <1>1, <2>2 DEF Put
    <3>2. decl = Globally(n, c, f)
      BY <1>2, <2>2
    <3>3. IF decl = << >> THEN n \notin DOMAIN old ELSE n \in DOMAIN old /\ FunctionOK(old[n], decl)
      BY <3>2 DEF ValuesMean
    <3> QED BY <3>1, <3>3
  <2> QED BY <2>1, <2>2
<1> QED BY <1>1, <1>2 DEF ValuesMean

\* A function is known after its body.
LEMMA EndFunctionKeeps ==
  ASSUME GenState, HandlesInv', EndFunction
  PROVE  GenInv'
<1>1. /\ body # Absent /\ body.todo = << >> /\ ~InClass /\ body' = Absent
      /\ UNCHANGED <<classes, functions, module, classTypes, local>>
      /\ global' = [global EXCEPT !.values = Put(@, functions[Done].name, body.value)]
  BY DEF EndFunction, BodyDone, InClass
<1>2. PICK d, f, c : /\ d = Done /\ f = FunctionsDone /\ c = ClassesDone /\ d \in Nat /\ f \in Nat /\ d = f + 1 /\ c \in Nat
                     /\ c = Len(classes) /\ d \in 1 .. Len(functions) /\ f >= 0
  <2>1. PICK d, f : d = Done /\ f = FunctionsDone /\ d \in Nat /\ f \in Nat /\ d > 0 /\ f = d - 1
    BY <1>1, StateIs
  <2>2. d = f + 1
    BY <2>1
  <2>3. ClassesDone = Len(classes) /\ ClassesDone \in Nat /\ Done \in 1 .. Len(functions)
    BY <1>1, BodySite, StateIs
  <2> QED BY <2>1, <2>2, <2>3
<1>3. /\ Class' = Class /\ Done' = d /\ InClass' = InClass /\ Class \in Nat /\ Class <= Len(classes)
      /\ \A k, kind : Ahead(k, kind)' = Ahead(k, kind)
      /\ \A k : MembersOf(k)' = MembersOf(k) /\ LaidOut(k)' = LaidOut(k)
  BY <1>1, <1>2, StateIs DEF Class, Done, InClass, Ahead, MembersOf, LaidOut
<1>4. Kept /\ Stable
  <2>1. Kept
    BY <1>1, StateIs DEF Kept
  <2> QED BY <1>1, <1>3, <2>1 DEF Stable
<1>5. ~InClass \/ local.laidOut
  BY <1>1
<1>6. SupersInv' /\ MethodsInv' /\ VariablesInv' /\ LayoutInv' /\ MembersAccepted' /\ ClassesDone' = c
  BY <1>1, <1>2, <1>4, <1>5, QuietFrame
<1>7. FunctionsDone' = d
  BY <1>1, <1>3 DEF FunctionsDone
<1>8. Site = <<0, d>> /\ Written(Site) = functions[d] /\ Written(Site) \in FunctionNodes
  BY <1>1, <1>2, BodySite
<1>9. PICK name, v, old : name = functions[d].name /\ v = body.value /\ old = global.values
  OBVIOUS
<1>10. global'.types = global.types /\ global'.values = Put(old, name, v)
  <2>1. global = [values |-> global.values, types |-> global.types, region |-> global.region]
    BY DEF GenState, HandlesInv, GlobalOK
  <2>2. global' = [global EXCEPT !.values = Put(old, name, v)]
    BY <1>1, <1>2, <1>9
  <2> QED BY <2>1, <2>2
<1>11. TypesInv'
  BY <1>1, <1>2, <1>6, <1>10, TypesFrame DEF GenState, GenInv
<1>12. ValuesInv'
  <2>1. ValuesMean(old, c, f)
    BY <1>2, <1>9 DEF GenState, GenInv, ValuesInv, ValuesMean
  <2>2. FunctionOK(v, <<0, d>>)
    BY <1>1, <1>8, <1>9 DEF GenState, GenInv, BodyInv
  <2>3. \A n : Globally(n, c, d) = IF name = n THEN <<0, d>> ELSE Globally(n, c, f)
    BY <1>2, <1>9, NextFunction
  <2>4. PICK decl : decl = <<0, d>> /\ decl # << >>
    <3>1. Site # << >>
      BY <1>1, BodySite, SiteIs DEF GenState
    <3> QED BY <1>8, <3>1
  <2>5. ValuesMean(Put(old, name, v), c, d)
    BY <2>1, <2>2, <2>3, <2>4, PutMeans
  <2> QED BY <1>4, <1>6, <1>7, <1>10, <2>5, ValuesAre
<1>13. TodoInv'
  BY <1>1, <1>3 DEF TodoInv
<1>14. BodiesInv' /\ BodyInv'
  BY <1>1, <1>4, <1>6, BodiesDone DEF BodyInv
<1>15. FunctionsAccepted'
  <2>1. \A i \in 1 .. d : BodyAccepted(<<0, i>>)
    <3>1. BodyAccepted(<<0, d>>)
      BY <1>1, <1>8, BodyComplete
    <3>2. \A i \in 1 .. f : BodyAccepted(<<0, i>>)
      BY <1>2 DEF GenState, GenInv, FunctionsAccepted
    <3>3. \A i \in 1 .. d : i \in 1 .. f \/ i = d
      BY <1>2
    <3> QED BY <3>1, <3>2, <3>3
  <2>2. ASSUME NEW i \in 1 .. d PROVE BodyAccepted(<<0, i>>)'
    <3>1. ProgramOK /\ i \in DOMAIN functions
      <4>1. DOMAIN functions = 1 .. Len(functions) /\ Len(functions) \in Nat
        BY StateIs DEF GenState, ProgramOK
      <4>2. i \in 1 .. Len(functions)
        BY <1>2, <4>1
      <4> QED BY <4>1, <4>2 DEF GenState
    <3>2. Written(<<0, i>>) \in FunctionNodes
      BY <3>1, WrittenNodes
    <3> QED BY <1>1, <2>1, <3>1, <3>2, AcceptedKept
  <2> QED BY <1>7, <2>2 DEF FunctionsAccepted
<1> QED BY <1>6, <1>11, <1>12, <1>13, <1>14, <1>15 DEF GenInv

\* One member less to come.
LEMMA TodoNext ==
  ASSUME GenState, InClass, local.todo # {}, UNCHANGED classes, Class' = Class, Done' = 0, body' = Absent,
         local' # Absent, local'.laidOut = local.laidOut, local'.todo = local.todo \ {Least(local.todo)},
         NEW kind, kind = IF local.laidOut THEN "fn" ELSE "field"
  PROVE  /\ TodoInv'
         /\ \A k : \A other \in {"fn", "field"} : <<k, other>> # <<Class, kind>> => Ahead(k, other)' = Ahead(k, other)
         /\ Least(local.todo) \in Places(MembersOf(Class), kind)
         /\ Known(Class, kind)' = Known(Class, kind) \cup {Least(local.todo)}
         /\ \A j \in Known(Class, kind) : j < Least(local.todo)
<1>1. PICK todo, l, c, P : todo = local.todo /\ l = Least(todo) /\ c = Class /\ P = Places(MembersOf(c), kind)
  OBVIOUS
<1>2. /\ todo \subseteq P /\ (\A j \in P \ todo : \A i \in todo : j < i) /\ local.laidOut \in BOOLEAN
  BY <1>1 DEF GenState, GenInv, TodoInv
<1>3. /\ l \in todo /\ todo \in SUBSET Nat /\ \A i \in todo : l <= i
  BY <1>1, TodoIs
<1>4. P \in SUBSET (Nat \ {0})
  BY <1>1, PlacesAre
<1>5. InClass' /\ Class' = c /\ local'.todo = todo \ {l} /\ local'.laidOut = local.laidOut
  BY <1>1 DEF InClass
<1>6. \A k, other : Places(MembersOf(k), other)' = Places(MembersOf(k), other)
  BY DEF Places, MembersOf
<1>7. TodoInv'
  <2>1. todo \ {l} \subseteq P
    BY <1>2
  <2>2. ASSUME NEW j \in P \ (todo \ {l}), NEW i \in todo \ {l} PROVE j < i
    <3>1. CASE j = l
      <4>1. l <= i /\ i # l /\ l \in Nat /\ i \in Nat
        BY <1>3
      <4> QED BY <3>1, <4>1
    <3>2. CASE j # l
      BY <1>2, <3>2
    <3> QED BY <3>1, <3>2
  <2>3. Places(MembersOf(Class), kind)' = P
    BY <1>1, <1>5, <1>6
  <2> QED BY <1>2, <1>5, <2>1, <2>2, <2>3 DEF TodoInv
<1>8. ASSUME NEW k, NEW other \in {"fn", "field"}, <<k, other>> # <<Class, kind>> PROVE Ahead(k, other)' = Ahead(k, other)
  <2>1. CASE k # c
    BY <1>1, <1>5, <2>1 DEF Ahead
  <2>2. CASE k = c
    <3>1. other # kind
      BY <1>1, <1>8, <2>2
    <3>2. CASE local.laidOut
      BY <1>1, <1>5, <2>2, <3>1, <3>2 DEF Ahead
    <3>3. CASE ~local.laidOut
      <4>1. CASE other = "fn"
        BY <1>1, <1>5, <1>6, <2>2, <3>3, <4>1 DEF Ahead
      <4>2. CASE other # "fn"
        BY <1>8, <3>1, <3>3, <4>2
      <4> QED BY <4>1, <4>2
    <3> QED BY <3>2, <3>3
  <2> QED BY <2>1, <2>2
<1>9. Ahead(Class, kind) = todo /\ Ahead(Class, kind)' = todo \ {l}
  <2>1. CASE local.laidOut
    BY <1>1, <1>5, <2>1 DEF Ahead
  <2>2. CASE ~local.laidOut
    <3>1. kind = "field" /\ kind # "fn"
      BY <2>2
    <3> QED BY <1>1, <1>5, <2>2, <3>1 DEF Ahead
  <2> QED BY <2>1, <2>2
<1>10. Known(Class, kind) = P \ todo /\ Known(Class, kind)' = P \ (todo \ {l})
  <2>1. Places(MembersOf(Class), kind)' = P
    BY <1>1, <1>5, <1>6
  <2> QED BY <1>1, <1>9, <2>1 DEF Known
<1>11. P \ (todo \ {l}) = (P \ todo) \cup {l}
  BY <1>2, <1>3
<1> QED BY <1>1, <1>2, <1>3, <1>7, <1>8, <1>10, <1>11

\* So is a method.
LEMMA EndMethodKeeps ==
  ASSUME GenState, HandlesInv', EndMethod
  PROVE  GenInv'
<1>1. PICK c, l, name, v, old :
        /\ c = Class /\ l = Least(local.todo) /\ name = MembersOf(c)[l].name /\ v = body.value
        /\ old = classTypes[c].functions
  OBVIOUS
<1>2. /\ body # Absent /\ body.todo = << >> /\ InClass /\ body' = Absent
      /\ UNCHANGED <<classes, functions, module, global>>
  BY DEF EndMethod, BodyDone, InClass
<1>3. local.laidOut /\ local.todo # {} /\ IsMethod(Site) /\ Site = <<c, l>> /\ Written(Site) \in FunctionNodes
  BY <1>1, <1>2, BodySite
<1>4. c \in Nat /\ c \in 1 .. c /\ c > 0 /\ c <= Len(classes) /\ c = Len(classTypes)
  <2>1. c \in Nat /\ c > 0 /\ c <= Len(classes) /\ c = Len(classTypes)
    BY <1>1, <1>2, StateIs DEF Class
  <2> QED BY <2>1
<1>5. PICK new : new = Put(old, name, v)
  OBVIOUS
<1>6. classTypes' = [classTypes EXCEPT ![c].functions = new]
  BY <1>1, <1>5 DEF EndMethod, Node, MembersOf
<1>7. /\ local' = [local EXCEPT !.todo = local.todo \ {l}, !.values = Put(local.values, name, v)]
      /\ local = [values |-> local.values, variables |-> local.variables, region |-> local.region,
                  laidOut |-> local.laidOut, todo |-> local.todo]
      /\ local.values = old
  <2>1. local.values = old
    BY <1>1, <1>2 DEF GenState, GenInv, MethodsInv
  <2>2. local = [values |-> local.values, variables |-> local.variables, region |-> local.region,
                  laidOut |-> local.laidOut, todo |-> local.todo]
    BY <1>2 DEF GenState, HandlesInv, LocalOK, InClass
  <2> QED BY <1>1, <2>1, <2>2 DEF EndMethod, Node, MembersOf
<1>8. /\ local' = [values |-> new, variables |-> local.variables, region |-> local.region,
                   laidOut |-> local.laidOut, todo |-> local.todo \ {l}]
  BY <1>5, <1>7
<1>9. local' # Absent
  BY <1>8 DEF Absent
<1>10. /\ IsList(classTypes') /\ Class' = c
       /\ \A k \in 1 .. c : k # c => classTypes'[k] = classTypes[k]
       /\ classTypes'[c] = [classTypes[c] EXCEPT !.functions = new]
  <2>1. IsList(classTypes) /\ DOMAIN classTypes = 1 .. c
    BY <1>1, StateIs DEF GenState, ModuleInv, Phase
  <2>2. PICK e : e = [classTypes[c] EXCEPT !.functions = new]
    OBVIOUS
  <2>3. classTypes' = [classTypes EXCEPT ![c] = e]
    BY <1>6, <2>2
  <2>4. IsList(classTypes') /\ Class' = c
    BY <1>4, <2>1, <2>3, ChangedList DEF Class
  <2> QED BY <1>4, <2>1, <2>2, <2>3, <2>4
<1>11. classTypes[c] = [super |-> classTypes[c].super, children |-> classTypes[c].children, functions |-> old,
                        slots |-> classTypes[c].slots, init |-> classTypes[c].init]
  BY <1>1, <1>4 DEF GenState, GenInv, SupersInv
<1>12. classTypes'[c] = [super |-> classTypes[c].super, children |-> classTypes[c].children, functions |-> new,
                         slots |-> classTypes[c].slots, init |-> classTypes[c].init]
  BY <1>10, <1>11
<1>13. \A k \in 1 .. c : /\ classTypes'[k] = [super |-> classTypes'[k].super, children |-> classTypes'[k].children,
                                               functions |-> classTypes'[k].functions,
                                               slots |-> classTypes'[k].slots, init |-> classTypes'[k].init]
                         /\ classTypes'[k].super = classTypes[k].super /\ classTypes'[k].init = classTypes[k].init
                         /\ classTypes'[k].slots = classTypes[k].slots /\ classTypes'[k].children = classTypes[k].children
  <2>1. ASSUME NEW k \in 1 .. c, k # c
        PROVE classTypes'[k] = classTypes[k]
              /\ classTypes[k] = [super |-> classTypes[k].super, children |-> classTypes[k].children,
                                  functions |-> classTypes[k].functions,
                                  slots |-> classTypes[k].slots, init |-> classTypes[k].init]
    BY <1>1, <1>10, <2>1 DEF GenState, GenInv, SupersInv
  <2>2. PICK a, b, f, e, i : /\ a = classTypes[c].super /\ b = classTypes[c].children /\ f = new
                             /\ e = classTypes[c].slots /\ i = classTypes[c].init
    OBVIOUS
  <2>3. classTypes'[c] = [super |-> a, children |-> b, functions |-> f, slots |-> e, init |-> i]
    BY <1>12, <2>2
  <2>4. /\ classTypes'[c].super = a /\ classTypes'[c].children = b /\ classTypes'[c].functions = f
        /\ classTypes'[c].slots = e /\ classTypes'[c].init = i
    BY <2>3
  <2> QED BY <2>1, <2>2, <2>3, <2>4
<1>14. Kept
  BY <1>2, StateIs DEF Kept
<1>15. InClass' /\ \A k : LaidOut(k) /\ LaidOut(k)'
  <2>1. InClass'
    BY <1>9 DEF InClass
  <2>2. local'.laidOut = local.laidOut
    BY <1>8
  <2> QED BY <1>3, <2>1, <2>2 DEF LaidOut
<1>16. Stable
  <2>1. \A k \in 1 .. c : module'[classTypes[k].init].code = module[classTypes[k].init].code
    BY <1>2
  <2>2. Class \in Nat /\ Class' \in Nat /\ Class <= Class' /\ Class = c
    BY <1>1, <1>4, <1>10
  <2> QED BY <1>13, <1>14, <1>15, <2>1, <2>2 DEF Stable
<1>17. Done = 0 /\ Done' = 0 /\ ClassesDone' = ClassesDone /\ FunctionsDone' = FunctionsDone
  <2>1. Done = 0
    BY <1>2, StateIs
  <2>2. Done' = 0
    BY <1>2, <2>1 DEF Done
  <2> QED BY <1>1, <1>2, <1>10, <1>15, <2>1, <2>2 DEF ClassesDone, FunctionsDone
<1>18. SupersInv'
  <2>1. SupersInv
    BY DEF GenState, GenInv
  <2>2. \A k : SuperOf(k)' = SuperOf(k)
    BY <1>2 DEF SuperOf, ClassNamed
  <2>3. local'.region = local.region
    BY <1>8
  <2> QED BY <1>1, <1>2, <1>4, <1>10, <1>13, <1>15, <2>1, <2>2, <2>3, ZenonT(30) DEF SupersInv
<1>19. TypesInv' /\ ValuesInv'
  BY <1>2, <1>14, <1>17, TypesFrame, ValuesFrame DEF GenState, GenInv
<1>20. /\ TodoInv' /\ \A k : \A other \in {"fn", "field"} : <<k, other>> # <<c, "fn">> => Ahead(k, other)' = Ahead(k, other)
       /\ l \in Places(MembersOf(c), "fn")
       /\ Known(c, "fn")' = Known(c, "fn") \cup {l}
       /\ \A j \in Known(c, "fn") : j < l
  <2>1. local'.laidOut = local.laidOut /\ local'.todo = local.todo \ {Least(local.todo)}
    BY <1>1, <1>8
  <2>2. PICK kind : kind = "fn" /\ kind = IF local.laidOut THEN "fn" ELSE "field"
    BY <1>3
  <2>3. /\ TodoInv'
        /\ \A k : \A other \in {"fn", "field"} : <<k, other>> # <<Class, kind>> => Ahead(k, other)' = Ahead(k, other)
        /\ Least(local.todo) \in Places(MembersOf(Class), kind)
        /\ Known(Class, kind)' = Known(Class, kind) \cup {Least(local.todo)}
        /\ \A j \in Known(Class, kind) : j < Least(local.todo)
    BY <1>1, <1>2, <1>3, <1>9, <1>10, <1>17, <2>1, <2>2, TodoNext
  <2>4. Known(Class, kind)' = Known(c, "fn")'
    BY <1>10, <2>2 DEF Known, Ahead
  <2> QED BY <1>1, <2>2, <2>3, <2>4
<1>21. VariablesInv'
  <2>1. Ahead(Class, "field")' = Ahead(Class, "field")
    BY <1>3, <1>8, <1>15 DEF Ahead, Class
  <2>2. local'.variables = local.variables /\ local # Absent
    BY <1>2, <1>8 DEF InClass
  <2> QED BY <1>1, <1>2, <1>9, <1>10, <2>1, <2>2, VariablesFrame DEF GenState, GenInv
<1>22. LayoutInv'
  BY <1>1, <1>10, <1>15, <1>16, LayoutFrame DEF GenState, GenInv
<1>23. MethodsInv'
  <2>1. \A w, decl : FunctionOK(w, decl) => FunctionOK(w, decl)'
    BY <1>14, FunctionKept
  <2>2. \A k, name2 : k # c => KnownOf(k, "fn", name2)' = KnownOf(k, "fn", name2)
    BY <1>2, <1>20 DEF KnownOf, Known, MembersOf
  <2>3. ASSUME NEW k \in 1 .. c, k # c, NEW n, NEW known, known = KnownOf(k, "fn", n)'
        PROVE  IF known = {} THEN n \notin DOMAIN classTypes'[k].functions
               ELSE /\ n \in DOMAIN classTypes'[k].functions
                    /\ FunctionOK(classTypes[k].functions[n], <<k, Latest(known)>>)'
    <3>1. PICK w : w = classTypes[k].functions[n]
      OBVIOUS
    <3>0. known = KnownOf(k, "fn", n)
      BY <2>2, <2>3
    <3>2. IF known = {} THEN n \notin DOMAIN classTypes[k].functions
          ELSE n \in DOMAIN classTypes[k].functions /\ FunctionOK(w, <<k, Latest(known)>>)
      BY <1>1, <3>0, <3>1 DEF GenState, GenInv, MethodsInv
    <3>3. known # {} => FunctionOK(w, <<k, Latest(known)>>)'
      BY <2>1, <3>2
    <3>4. classTypes'[k] = classTypes[k]
      BY <1>10, <2>3
    <3>5. classTypes'[k].functions[n] = w
      BY <3>1, <3>4
    <3> QED BY <3>2, <3>3, <3>4, <3>5
  <2>4. ASSUME NEW n, NEW more, more = KnownOf(c, "fn", n)'
        PROVE  IF more = {} THEN n \notin DOMAIN classTypes'[c].functions
               ELSE /\ n \in DOMAIN classTypes'[c].functions
                    /\ FunctionOK(classTypes[c].functions[n], <<c, Latest(more)>>)'
    <3>1. PICK known : known = KnownOf(c, "fn", n)
      OBVIOUS
    <3>2. IF known = {} THEN n \notin DOMAIN old
          ELSE n \in DOMAIN old /\ FunctionOK(old[n], <<c, Latest(known)>>)
      BY <1>1, <1>4, <3>1 DEF GenState, GenInv, MethodsInv
    <3>3. classTypes'[c].functions = new
      BY <1>12
    <3>4. CASE name = n
      <4>1. more = known \cup {l}
        BY <1>1, <1>2, <1>20, <2>4, <3>1, <3>4 DEF KnownOf, MembersOf
      <4>2. Latest(more) = l
        <5>1. l \in Nat /\ \A j \in known : j \in Nat /\ j > 0 /\ j <= l
          BY <1>20, <2>4, <3>1, PlacesAre DEF KnownOf, Known
        <5>2. l \in Nat \ {0}
          BY <1>20, PlacesAre
        <5>3. more \in SUBSET (1 .. l) /\ l \in more /\ \A j \in more : j <= l
          BY <4>1, <5>1, <5>2
        <5> QED BY <5>1, <5>3, GreatestIs
      <4>3. n \in DOMAIN new /\ new[n] = v
        BY <1>5, <3>4 DEF Put
      <4>4. FunctionOK(v, <<c, l>>)
        BY <1>1, <1>2, <1>3 DEF GenState, GenInv, BodyInv
      <4>5. FunctionOK(v, <<c, l>>)'
        BY <2>1, <4>4
      <4>6. classTypes'[c].functions[n] = v
        BY <3>3, <4>3
      <4>7. FunctionOK(classTypes[c].functions[n], <<c, l>>)'
        BY <4>5, <4>6
      <4> QED BY <3>1, <3>3, <4>1, <4>2, <4>3, <4>7
    <3>5. CASE name # n
      <4>1. more = known
        BY <1>1, <1>2, <1>20, <2>4, <3>1, <3>5 DEF KnownOf, MembersOf
      <4>2. (n \in DOMAIN new <=> n \in DOMAIN old) /\ (n \in DOMAIN old => new[n] = old[n])
        BY <1>5, <3>5 DEF Put
      <4>3. CASE known = {}
        BY <3>1, <3>2, <3>3, <4>1, <4>2, <4>3
      <4>4. CASE known # {}
        <5>1. PICK w : w = old[n]
          OBVIOUS
        <5>2. FunctionOK(w, <<c, Latest(known)>>)'
          BY <2>1, <3>2, <4>4, <5>1
        <5>3. classTypes'[c].functions[n] = w
          BY <3>2, <3>3, <4>2, <4>4, <5>1
        <5>4. FunctionOK(classTypes[c].functions[n], <<c, Latest(known)>>)'
          BY <5>2, <5>3
        <5> QED BY <3>1, <3>2, <3>3, <4>1, <4>2, <4>4, <5>4
      <4> QED BY <4>3, <4>4
    <3> QED BY <3>4, <3>5
  <2>5. local'.values = classTypes'[c].functions
    BY <1>8, <1>12
  <2> QED BY <1>10, <2>3, <2>4, <2>5 DEF MethodsInv
<1>24. BodiesInv' /\ BodyInv'
  BY <1>2, <1>16, <1>18, BodiesDone DEF BodyInv
<1>25. MembersAccepted'
  <2>1. ProgramOK /\ MembersAccepted
    BY DEF GenState, GenInv
  <2>2. ASSUME NEW k \in 1 .. c, k # c
        PROVE  /\ \A j \in Known(k, "field")' : FieldAccepted(<<k, j>>)'
               /\ \A j \in Known(k, "fn")' : BodyAccepted(<<k, j>>)'
    <3>1. \A kind \in {"fn", "field"} : Ahead(k, kind)' = Ahead(k, kind)
      BY <1>20, <2>2
    <3> QED BY <1>1, <1>2, <1>4, <2>1, <3>1, MembersFrame
  <2>3. Known(c, "field")' = Known(c, "field")
    BY <1>2, <1>20 DEF Known, MembersOf
  <2>4. \A decl : /\ FieldAccepted(decl)' = FieldAccepted(decl)
                  /\ Written(decl) \in FunctionNodes => BodyAccepted(decl)' = BodyAccepted(decl)
    BY <1>2, <2>1, AcceptedKept
  <2>5. \A j \in Known(c, "field")' : FieldAccepted(<<c, j>>)'
    BY <1>1, <1>4, <2>1, <2>3, <2>4 DEF MembersAccepted
  <2>6. ASSUME NEW j \in Known(c, "fn")' PROVE BodyAccepted(<<c, j>>)'
    <3>1. BodyAccepted(<<c, j>>)
      <4>1. CASE j = l
        BY <1>2, <1>3, <4>1, BodyComplete
      <4>2. CASE j # l
        BY <1>1, <1>4, <1>20, <2>1, <2>6, <4>2 DEF MembersAccepted
      <4> QED BY <4>1, <4>2
    <3>2. Written(<<c, j>>) \in FunctionNodes
      <4>1. j \in Places(MembersOf(c), "fn") /\ c \in 1 .. Len(classes)
        BY <1>1, <1>4, <1>20, <2>6, StateIs DEF Known
      <4>2. IsSite(<<c, j>>)
        BY <4>1 DEF IsSite, MembersOf
      <4> QED BY <2>1, <4>2, SiteNode
    <3> QED BY <2>4, <3>1, <3>2
  <2> QED BY <1>10, <2>2, <2>5, <2>6 DEF MembersAccepted
<1>26. FunctionsAccepted'
  <2>1. FunctionsDone \in Nat /\ FunctionsDone <= Len(functions)
    BY StateIs, DoneBound
  <2> QED BY <1>2, <1>17, <2>1, FunctionsFrame DEF GenState, GenInv
<1> QED BY <1>18, <1>19, <1>20, <1>21, <1>22, <1>23, <1>24, <1>25, <1>26 DEF GenInv

\* The names of types.
LEMMA TypeIs ==
  ASSUME GenState, NEW name
  PROVE  /\ name \in DOMAIN global.types <=> ClassNamed(name, ClassesDone) # 0
         /\ name \in DOMAIN global.types => global.types[name] = ClassNamed(name, ClassesDone)
<1>1. PICK k : k = ClassNamed(name, ClassesDone)
  OBVIOUS
<1>2. IF k = 0 THEN name \notin DOMAIN global.types ELSE name \in DOMAIN global.types /\ global.types[name] = k
  BY <1>1 DEF GenState, GenInv, TypesInv
<1> QED BY <1>1, <1>2

\* A class is begun: it is found by no name yet.
LEMMA BeginClassKeeps ==
  ASSUME GenState, HandlesInv', BeginClass
  PROVE  GenInv' /\ (outcome' # outcome => ~Accepted)
<1>1. PICK c, k, node, named, super, id :
        /\ c = Class /\ k = c + 1 /\ node = classes[k] /\ named = ClassNamed(node.super, c)
        /\ super = IF node.super = None THEN 0 ELSE global.types[node.super]
        /\ id = Len(module) + 1
  OBVIOUS
<1>2. ~InClass /\ local = Absent /\ c < Len(classes) /\ UNCHANGED <<classes, functions, global, body>>
  BY <1>1 DEF BeginClass, InClass
<1>3. c \in Nat /\ Len(classes) \in Nat /\ ClassesDone = c /\ k \in 1 .. Len(classes) /\ k - 1 = c /\ k \in Nat
  <2>1. c \in Nat /\ Len(classes) \in Nat /\ ClassesDone = c
    BY <1>1, <1>2, StateIs
  <2> QED BY <1>1, <1>2, <2>1
<1>4. body = Absent /\ Done = 0
  <2>1. ~(Class = Len(classes))
    BY <1>1, <1>2, <1>3
  <2>2. Done = 0
    <3>1. Done \in Nat /\ ~(Done > 0)
      BY <2>1, StateIs
    <3> QED BY <3>1
  <2> QED BY <1>2, <2>2, StateIs
<1>5. ProgramOK /\ SupersInv /\ MethodsInv /\ LayoutInv /\ BodiesInv /\ MembersAccepted /\ FunctionsAccepted
  BY DEF GenState, GenInv
<1>6. /\ node.super \in DOMAIN global.types <=> named # 0
      /\ node.super \in DOMAIN global.types => global.types[node.super] = named
  BY <1>1, <1>3, TypeIs
<1>7. CASE node.super # None /\ node.super \notin DOMAIN global.types
  <2>1. UNCHANGED <<module, classTypes, local>>
    BY <1>1, <1>7 DEF BeginClass
  <2>2. ~Accepted
    <3>1. k \in DOMAIN classes
      BY <1>3, <1>5 DEF ProgramOK
    <3>2. classes[k].super # None /\ ClassNamed(classes[k].super, k - 1) = 0
      BY <1>1, <1>3, <1>6, <1>7
    <3> QED BY <3>1, <3>2 DEF Accepted
  <2> QED BY <1>2, <2>1, <2>2, IdleKeeps
<1>8. CASE node.super = None \/ node.super \in DOMAIN global.types
  <2>1. PICK type, f : type = NewClassType(super, id) /\ f = [name |-> None, decl |-> <<k, 0>>, code |-> << >>]
    OBVIOUS
  <2>2. /\ classTypes' = Append(classTypes, type) /\ module' = Append(module, f)
        /\ local' = NewClassContext(id, node.members) /\ outcome' = outcome
    BY <1>1, <1>8, <2>1 DEF BeginClass
  <2>3. super = SuperOf(k) /\ (node.super # None => super # 0)
    <3>1. super = named /\ (node.super # None => super # 0)
      <4>1. CASE node.super = None
        <5>1. c \in 0 .. Len(classes)
          BY <1>2, <1>3
        <5> QED BY <1>1, <1>5, <4>1, <5>1, NoneNamed
      <4>2. CASE node.super # None
        BY <1>1, <1>6, <1>8, <4>2
      <4> QED BY <4>1, <4>2
    <3>2. SuperOf(k) = named
      BY <1>1, <1>3 DEF SuperOf
    <3> QED BY <3>1, <3>2
  <2>4. /\ Len(module) \in Nat /\ Len(module') = id /\ (\A i \in 1 .. Len(module) : module'[i] = module[i])
        /\ module'[id] = f /\ id \in 1 .. Len(module')
    <3>1. /\ Len(module) \in Nat /\ Len(module') = id /\ (\A i \in 1 .. Len(module) : module'[i] = module[i])
          /\ module'[id] = f
      BY <1>1, <2>2, AddedFunction DEF GenState
    <3> QED BY <1>1, <3>1
  <2>5. /\ Class' = k /\ (\A i \in 1 .. c : classTypes'[i] = classTypes[i]) /\ classTypes'[k] = type
    <3>1. IsList(classTypes) /\ Len(classTypes) = c
      BY <1>1 DEF GenState, ModuleInv, Phase, Class
    <3> QED BY <1>1, <2>2, <3>1, AppendedList DEF Class
  <2>6. local' = [values |-> << >>, variables |-> << >>, region |-> id, laidOut |-> FALSE,
                  todo |-> Places(MembersOf(k), "field")]
    BY <1>1, <2>2 DEF NewClassContext, MembersOf
  <2>7. InClass' /\ local' # Absent
    BY <2>6 DEF InClass, Absent
  <2>8. type = [super |-> super, children |-> << >>, functions |-> << >>, slots |-> << >>, init |-> id]
    BY <2>1 DEF NewClassType
  <2>9. Kept
    <3>1. PICK n : n = Len(module) /\ n \in Nat /\ Len(module') = n + 1
      BY <1>1, <2>4
    <3>2. n <= n + 1 /\ n + 1 \in Nat
      BY <3>1
    <3>3. \A i \in 1 .. Len(module) : module'[i].decl = module[i].decl
      BY <2>4
    <3> QED BY <1>2, <3>1, <3>2, <3>3 DEF Kept
  <2>10. \A i \in 1 .. c : i < k /\ i # k /\ LaidOut(i) /\ LaidOut(i)'
    BY <1>1, <1>2, <1>3, <2>5 DEF LaidOut
  <2>11. \A i \in 1 .. c : classTypes[i].init \in 1 .. Len(module)
    BY <1>1, <1>5 DEF SupersInv
  <2>12. Stable
    <3>1. \A i \in 1 .. c : module'[classTypes[i].init].code = module[classTypes[i].init].code
      BY <2>4, <2>11
    <3>2. Class = c /\ Class' = k /\ c <= k
      BY <1>1, <1>3, <2>5
    <3> QED BY <1>3, <2>5, <2>9, <2>10, <3>1, <3>2 DEF Stable
  <2>13. Done' = 0
    <3>1. f.decl = <<k, 0>> /\ f.decl[1] = k /\ k # 0 /\ IsDecl(f.decl)
      BY <1>3, <2>1 DEF IsDecl
    <3> QED BY <1>4, <2>2, <3>1, AddedDone
  <2>14. ClassesDone' = ClassesDone /\ FunctionsDone' = FunctionsDone
    <3>1. ClassesDone' = c
      BY <1>3, <2>5, <2>7 DEF ClassesDone
    <3> QED BY <1>2, <1>3, <1>4, <2>13, <3>1 DEF FunctionsDone
  <2>15. \A i \in 1 .. k : i \in 1 .. c \/ i = k
    BY <1>1, <1>3
  <2>16. SupersInv'
    <3>1. \A i : SuperOf(i)' = SuperOf(i)
      BY <1>2 DEF SuperOf, ClassNamed
    <3>2. ASSUME NEW i \in 1 .. c
          PROVE  /\ classTypes'[i] = [super |-> classTypes'[i].super, children |-> classTypes'[i].children,
                                      functions |-> classTypes'[i].functions,
                                      slots |-> classTypes'[i].slots, init |-> classTypes'[i].init]
                 /\ classTypes'[i].super = SuperOf(i)' /\ (classes'[i].super # None => classTypes'[i].super # 0)
                 /\ classTypes'[i].init \in 1 .. Len(module') /\ module'[classTypes'[i].init].decl = <<i, 0>>
      <4>1. PICK t : t = classTypes[i]
        OBVIOUS
      <4>2. /\ t = [super |-> t.super, children |-> t.children, functions |-> t.functions,
                    slots |-> t.slots, init |-> t.init]
            /\ t.super = SuperOf(i) /\ (classes[i].super # None => t.super # 0)
            /\ t.init \in 1 .. Len(module) /\ module[t.init].decl = <<i, 0>>
        BY <1>1, <1>5, <4>1 DEF SupersInv
      <4>3. classTypes'[i] = t
        BY <2>5, <4>1
      <4>4. t.init \in 1 .. Len(module') /\ module'[t.init].decl = <<i, 0>>
        BY <1>1, <2>4, <4>2
      <4> QED BY <1>2, <3>1, <4>2, <4>3, <4>4
    <3>3. /\ classTypes'[k] = [super |-> classTypes'[k].super, children |-> classTypes'[k].children,
                                      functions |-> classTypes'[k].functions,
                                      slots |-> classTypes'[k].slots, init |-> classTypes'[k].init]
          /\ classTypes'[k].super = SuperOf(k)' /\ (classes'[k].super # None => classTypes'[k].super # 0)
          /\ classTypes'[k].init \in 1 .. Len(module') /\ module'[classTypes'[k].init].decl = <<k, 0>>
      <4>1. type.super = super /\ type.children = << >> /\ type.functions = << >> /\ type.slots = << >> /\ type.init = id
        BY <2>8
      <4>2. module'[id].decl = <<k, 0>>
        BY <2>1, <2>4
      <4>3. classes'[k].super = node.super
        BY <1>1, <1>2
      <4> QED BY <2>3, <2>4, <2>5, <2>8, <3>1, <4>1, <4>2, <4>3
    <3>4. Class' <= Len(classes') /\ Class' > 0
      BY <1>2, <1>3, <2>5
    <3>5. local'.region = classTypes'[Class'].init
      BY <2>5, <2>6, <2>8
    <3>6. \A i \in 1 .. Class' : i \in 1 .. c \/ i = k
      BY <2>5, <2>15
    <3> QED BY <3>2, <3>3, <3>4, <3>5, <3>6 DEF SupersInv
  <2>17. TypesInv' /\ ValuesInv'
    BY <1>2, <2>9, <2>14, TypesFrame, ValuesFrame DEF GenState, GenInv
  <2>18. \A i, kind : MembersOf(i)' = MembersOf(i) /\ Places(MembersOf(i), kind)' = Places(MembersOf(i), kind)
    BY <1>2 DEF MembersOf, Places
  <2>19. local'.todo = Places(MembersOf(k), "field") /\ local'.laidOut = FALSE
    BY <2>6
  <2>20. TodoInv'
    <3>1. Places(MembersOf(Class), "field")' = Places(MembersOf(k), "field")
      <4>1. (\A i : i = Class => Places(MembersOf(Class), "field") = Places(MembersOf(i), "field"))'
        OBVIOUS
      <4>2. Places(MembersOf(Class), "field")' = Places(MembersOf(k), "field")'
        BY <2>5, <4>1
      <4> QED BY <2>18, <4>2
    <3> QED BY <1>2, <1>4, <2>13, <2>19, <3>1 DEF TodoInv
  <2>21. /\ \A i \in 1 .. c : \A kind : Ahead(i, kind) = {} /\ Ahead(i, kind)' = {}
         /\ \A kind \in {"fn", "field"} : Ahead(k, kind)' = Places(MembersOf(k), kind)
    <3>1. \A i \in 1 .. c : \A kind : Ahead(i, kind) = {}
      BY <1>2 DEF Ahead
    <3>2. \A i \in 1 .. c : \A kind : Ahead(i, kind)' = {}
      BY <2>5, <2>10 DEF Ahead
    <3>3. \A kind \in {"fn", "field"} : Ahead(k, kind)' = Places(MembersOf(k), kind)
      <4>1. Ahead(k, "fn")' = Places(MembersOf(k), "fn")
        BY <2>5, <2>7, <2>18, <2>19 DEF Ahead
      <4>2. Ahead(k, "field")' = Places(MembersOf(k), "field")
        BY <2>5, <2>7, <2>18, <2>19 DEF Ahead
      <4> QED BY <4>1, <4>2
    <3> QED BY <3>1, <3>2, <3>3
  <2>22. /\ \A i \in 1 .. c : \A kind : Known(i, kind)' = Known(i, kind)
         /\ \A kind \in {"fn", "field"} : Known(k, kind)' = {}
    BY <2>18, <2>21 DEF Known
  <2>23. MethodsInv'
    <3>1. \A w, decl : FunctionOK(w, decl) => FunctionOK(w, decl)'
      BY <2>9, FunctionKept
    <3>2. ASSUME NEW i \in 1 .. c, NEW n, NEW known, known = KnownOf(i, "fn", n)'
          PROVE  IF known = {} THEN n \notin DOMAIN classTypes'[i].functions
                 ELSE /\ n \in DOMAIN classTypes'[i].functions
                      /\ FunctionOK(classTypes[i].functions[n], <<i, Latest(known)>>)'
      <4>1. PICK w : w = classTypes[i].functions[n]
        OBVIOUS
      <4>2. known = KnownOf(i, "fn", n)
        BY <2>18, <2>22, <3>2 DEF KnownOf
      <4>3. IF known = {} THEN n \notin DOMAIN classTypes[i].functions
            ELSE n \in DOMAIN classTypes[i].functions /\ FunctionOK(w, <<i, Latest(known)>>)
        BY <1>1, <1>5, <4>1, <4>2 DEF MethodsInv
      <4>4. known # {} => FunctionOK(w, <<i, Latest(known)>>)'
        BY <3>1, <4>3
      <4>5. classTypes'[i] = classTypes[i]
        BY <2>5
      <4>6. classTypes'[i].functions[n] = w
        BY <4>1, <4>5
      <4> QED BY <4>3, <4>4, <4>5, <4>6
    <3>3. ASSUME NEW n, NEW known, known = KnownOf(k, "fn", n)'
          PROVE  known = {} /\ n \notin DOMAIN classTypes'[k].functions
      <4>1. known = {}
        BY <2>22, <3>3 DEF KnownOf
      <4>2. classTypes'[k].functions = << >> /\ DOMAIN << >> = {}
        BY <2>5, <2>8
      <4> QED BY <4>1, <4>2
    <3>4. local'.values = classTypes'[Class'].functions
      BY <2>5, <2>6, <2>8
    <3>5. \A i \in 1 .. Class' : i \in 1 .. c \/ i = k
      BY <2>5, <2>15
    <3> QED BY <3>2, <3>3, <3>4, <3>5 DEF MethodsInv
  <2>24. VariablesInv'
    <3>1. local'.variables = << >> /\ Len(local'.variables) = 0
      BY <2>6, EmptyList
    <3>2. Known(Class, "field")' = {}
      <4>1. (\A i : i = Class => Known(Class, "field") = Known(i, "field"))'
        OBVIOUS
      <4> QED BY <2>5, <2>22, <4>1
    <3> QED BY <3>1, <3>2 DEF VariablesInv
  <2>25. LayoutInv'
    <3>1. ASSUME NEW i \in 1 .. c PROVE LaidOut(i)' /\ LayoutOK(i)'
      <4>1. i \in 1 .. Class /\ LaidOut(i) /\ LayoutOK(i)
        BY <1>1, <1>5, <2>10 DEF LayoutInv
      <4> QED BY <2>10, <2>12, <4>1, LayoutKept
    <3>2. ~LaidOut(k)'
      <4>1. ~(k < Class')
        BY <1>3, <2>5
      <4> QED BY <2>7, <2>19, <4>1 DEF LaidOut
    <3>3. /\ classTypes'[k].children = << >> /\ classTypes'[k].functions = << >> /\ classTypes'[k].slots = << >>
          /\ classTypes'[k].init = id
      BY <2>5, <2>8
    <3>4. DOMAIN InitCode(k)' = {}
      <4>1. module'[id].code = << >>
        BY <2>1, <2>4
      <4> QED BY <3>3, <4>1 DEF InitCode
    <3>5. \A i \in 1 .. Class' : i \in 1 .. c \/ i = k
      BY <2>5, <2>15
    <3> QED BY <3>1, <3>2, <3>3, <3>4, <3>5 DEF LayoutInv
  <2>26. BodiesInv' /\ BodyInv'
    <3>1. ASSUME NEW i \in 1 .. Len(module'), module'[i].decl[2] > 0
          PROVE  i \in 1 .. Len(module) /\ module'[i].code = module[i].code
      <4>1. i # id
        BY <2>1, <2>4, <3>1
      <4> QED BY <1>1, <2>4, <4>1
    <3>2. \A i : ~InBody(i)
      BY <1>4 DEF InBody
    <3> QED BY <1>2, <1>4, <1>5, <2>12, <2>16, <3>1, <3>2, BodiesFrame DEF BodyInv
  <2>27. MembersAccepted'
    <3>1. ASSUME NEW i \in 1 .. c
          PROVE  /\ \A j \in Known(i, "field")' : FieldAccepted(<<i, j>>)'
                 /\ \A j \in Known(i, "fn")' : BodyAccepted(<<i, j>>)'
      <4>1. \A kind \in {"fn", "field"} : Ahead(i, kind)' = Ahead(i, kind)
        BY <2>21
      <4>2. Class \in Nat /\ Class <= Len(classes) /\ i \in 1 .. Class
        BY <1>1, <1>2, <1>3
      <4> QED BY <1>2, <1>5, <4>1, <4>2, MembersFrame
    <3>2. \A i \in 1 .. Class' : i \in 1 .. c \/ i = k
      BY <2>5, <2>15
    <3>3. Known(k, "field")' = {} /\ Known(k, "fn")' = {}
      BY <2>22
    <3> QED BY <3>1, <3>2, <3>3 DEF MembersAccepted
  <2>28. FunctionsAccepted'
    <3>1. FunctionsDone \in Nat /\ FunctionsDone <= Len(functions)
      BY StateIs, DoneBound
    <3> QED BY <1>2, <1>5, <2>14, <3>1, FunctionsFrame
  <2> QED BY <2>2, <2>16, <2>17, <2>20, <2>23, <2>24, <2>25, <2>26, <2>27, <2>28 DEF GenInv
<1> QED BY <1>7, <1>8

\* The field whose initialiser is next.
LEMMA FieldSite ==
  ASSUME GenState, InClass, ~local.laidOut, local.todo # {}
  PROVE  LET c == Class
             l == Least(local.todo)
         IN /\ c \in 1 .. Len(classes) /\ l \in Places(MembersOf(c), "field") /\ IsField(<<c, l>>)
            /\ Written(<<c, l>>) = MembersOf(c)[l] /\ MembersOf(c)[l] \in FieldNodes
            /\ KnownClasses(<<c, l>>) = ClassesDone /\ ClassesDone \in Nat /\ FunctionsDone = 0
            /\ Node.members[l] = MembersOf(c)[l]
<1>1. PICK c, l : c = Class /\ l = Least(local.todo)
  OBVIOUS
<1>2. c \in 1 .. Len(classes) /\ c \in Nat /\ c > 0 /\ ClassesDone = c - 1 /\ ProgramOK /\ FunctionsDone = 0
      /\ ClassesDone \in Nat
  BY <1>1, StateIs DEF GenState
<1>3. l \in Places(MembersOf(c), "field")
  BY <1>1, TodoIs
<1>4. l \in DOMAIN classes[c].members /\ c \in DOMAIN classes
  BY <1>2, <1>3, MemberNode DEF Places, MembersOf, ProgramOK
<1>5. MembersOf(c)[l] \in FieldNodes
  BY <1>2, <1>3, MemberNode DEF MembersOf
<1>6. IsField(<<c, l>>)
  <2>1. l \notin Places(classes[c].members, "fn")
    BY <1>2, <1>3, <1>4, MemberNode DEF MembersOf
  <2> QED BY <1>2, <1>4, <2>1, WrittenNodes
<1>7. KnownClasses(<<c, l>>) = c - 1 /\ Written(<<c, l>>) = MembersOf(c)[l]
  <2>1. PICK decl : decl = <<c, l>>
    OBVIOUS
  <2>2. decl[1] = c /\ decl[2] = l /\ c # 0
    BY <1>2, <2>1
  <2> QED BY <2>1, <2>2 DEF KnownClasses, Written, MembersOf
<1> QED BY <1>1, <1>2, <1>3, <1>5, <1>6, <1>7 DEF Node, MembersOf

\* A program with a field that is not accepted is not accepted.
LEMMA FieldRejected ==
  ASSUME ProgramOK, NEW k \in 1 .. Len(classes), NEW j \in Places(MembersOf(k), "field"), ~FieldAccepted(<<k, j>>)
  PROVE  ~Accepted
<1>1. k \in DOMAIN classes /\ j \in DOMAIN classes[k].members
  BY MemberNode DEF ProgramOK, Places, MembersOf
<1>2. IsField(<<k, j>>)
  <2>1. j \notin Places(classes[k].members, "fn")
    BY <1>1, MemberNode DEF MembersOf
  <2> QED BY <1>1, <2>1, WrittenNodes
<1> QED BY <1>1, <1>2 DEF Accepted

\* Constants.
LEMMA ConstantIs ==
  /\ Bits # 1 /\ IntBits # Bits /\ Bits \in Nat
  /\ StoreWidth(64) = Bits /\ StoreWidth(32) = Bits
BY BitsAssumption DEF StoreWidth

\* The value of a literal.
LEMMA NumberIs ==
  ASSUME NEW n
  PROVE  /\ Const(n).type.kind = "int" /\ Const(n).type.bits = 64 /\ Const(n).width = Bits
         /\ Const(n).code.op = "const"
BY DEF Const, ConstantInt, IntType

\* The value of an operator on two literals.
LEMMA BinaryIs ==
  ASSUME NEW op, NEW m, NEW n
  PROVE  LET v == Binary(op, Const(m), Const(n)) IN
         /\ v.type.kind = "int" /\ v.type.bits = 64
         /\ v.width = IF op \in Comparisons THEN 1 ELSE Bits
         /\ v.code.op \in {"const", "undef"}
<1>1. PICK x, y, z : x = Const(m) /\ y = Const(n) /\ z = Binary(op, x, y)
  OBVIOUS
<1>2. x.type.kind = "int" /\ x.type.bits = 64 /\ x.width = Bits
  BY <1>1, NumberIs
<1>3. \A b, w, k : LET c == ConstantInt(b, w, k) IN
        c.type.kind = "int" /\ c.type.bits = b /\ c.width = w /\ c.code.op = "const"
  BY DEF ConstantInt, IntType
<1>4. \A b, w : LET c == Undefined(b, w) IN
        c.type.kind = "int" /\ c.type.bits = b /\ c.width = w /\ c.code.op = "undef"
  BY DEF Undefined, IntType
<1>5. CASE op \in Comparisons
  BY <1>1, <1>2, <1>3, <1>5 DEF Binary
<1>6. CASE op \notin Comparisons
  <2>1. z = Undefined(64, Bits) \/ \E k : z = ConstantInt(64, Bits, k)
    BY <1>1, <1>2, <1>6 DEF Binary
  <2> QED BY <1>1, <1>3, <1>4, <1>6, <2>1
<1> QED BY <1>5, <1>6

\* The type that a field is given.
LEMMA FieldType ==
  ASSUME NEW name, NEW types
  PROVE  LET type == TypeNamed(name, types, "") IN
         /\ type.kind = "aborted" <=> name \notin BuiltIn
         /\ type.kind = "int" <=> name \in DOMAIN IntTypes
         /\ type.kind = "int" => type = IntType(type.bits)
<1>1. "void" \notin DOMAIN IntTypes
  BY DEF IntTypes
<1>2. CASE name = "void"
  BY <1>1, <1>2 DEF TypeNamed, BuiltIn, Void
<1>3. CASE name # "void" /\ name \in DOMAIN IntTypes
  <2>1. PICK b, type : b = IntTypes[name] /\ type = TypeNamed(name, types, "")
    OBVIOUS
  <2>2. type = IntType(b)
    BY <1>3, <2>1 DEF TypeNamed
  <2>3. type.kind = "int" /\ type.bits = b
    BY <2>2 DEF IntType
  <2> QED BY <1>3, <2>1, <2>2, <2>3 DEF BuiltIn
<1>4. CASE name # "void" /\ name \notin DOMAIN IntTypes
  <2>1. PICK type : type = TypeNamed(name, types, "")
    OBVIOUS
  <2>2. type.kind = "aborted"
    <3>1. type = [kind |-> "aborted"]
      BY <1>4, <2>1 DEF TypeNamed
    <3> QED BY <3>1
  <2>3. name \notin BuiltIn
    BY <1>4 DEF BuiltIn
  <2>4. type = TypeNamed(name, types, "")
    BY <2>1
  <2> QED BY <1>4, <2>2, <2>3, <2>4
<1> QED BY <1>2, <1>3, <1>4

\* What a name means globally where there are no functions yet.
NotMember(d, c) == (\E k \in 1 .. c : d = <<k, 0>>) \/ d \in {<<0, -1>>, <<0, -2>>}

\* A global name never means a member.
LEMMA GlobalKinds ==
  ASSUME NEW name, NEW c \in Nat
  PROVE  LET d == Globally(name, c, 0) IN
         d = << >> \/ NotMember(d, c)
<1>1. PICK d : d = Globally(name, c, 0)
  OBVIOUS
<1>2. \A i \in 1 .. 0 : FALSE
  OBVIOUS
<1>3. \/ \E i \in 1 .. 0 : d = <<0, i>> /\ functions[i].name = name
      \/ \E k \in 1 .. c : d = <<k, 0>> /\ classes[k].name = name
      \/ d \in {<<0, -1>>, <<0, -2>>, << >>}
  BY <1>1, GloballyIs
<1>4. d = << >> \/ (\E k \in 1 .. c : d = <<k, 0>>) \/ d \in {<<0, -1>>, <<0, -2>>}
  BY <1>2, <1>3, Zenon
<1> QED BY <1>1, <1>4 DEF NotMember

\* The call of a function where no class is complete but those in front.
Callee(v, d, c) == c \in Nat /\ ~Fails(v) /\ FunctionOK(v, d) /\ NotMember(d, c)

CalledRight(value, d) ==
  IF Fails(value) THEN d[1] # 0
  ELSE d[1] = 0 /\ value.type.kind \in Plain /\ value.code.op = "call"
       /\ (value.type.kind = "int" => value.width # StoreWidth(value.type.bits))

\* The call of a value in the initialiser of a field.
FieldCall(v, handle) == doCall(v, "", handle)

\* A field that is called holds what the call returns.
LEMMA CalledField ==
  ASSUME NEW c, NEW d, NEW v, Callee(v, d, c), NEW handle, NEW made, made = FieldCall(v, handle)
  PROVE  CalledRight(made, d)
<1>1. PICK value : value = doCall(v, "", handle) /\ value = made
  BY DEF FieldCall
<1>2. c \in Nat /\ ~Fails(v) /\ FunctionOK(v, d) /\ NotMember(d, c)
  BY DEF Callee
<1>3. PICK ret : ret = v.type.ret
  OBVIOUS
<1>4. v.type.kind = "function" /\ ReturnFits(ret, d) /\ (v.type.native <=> d = <<0, -1>>)
  BY <1>2, <1>3 DEF FunctionOK, CallFits
<1>5. ASSUME NEW k \in 1 .. c, d = <<k, 0>>
      PROVE  Fails(value) /\ d[1] # 0
  <2>1. d[1] = k /\ d[2] = 0 /\ k # 0
    BY <1>5, <1>2
  <2>2. ResultClass(d) = k
    <3>1. d # << >>
      BY <1>5
    <3> QED BY <2>1, <3>1 DEF ResultClass
  <2>3. ret.kind = "class"
    BY <1>4, <2>1, <2>2 DEF ReturnFits, ClassType
  <2>4. value = Failed("aborted")
    BY <1>2, <1>1, <1>3, <1>4, <2>3 DEF doCall
  <2> QED BY <2>1, <2>4, FailureIs
<1>6. ASSUME d \in {<<0, -1>>, <<0, -2>>}
      PROVE  ~Fails(value) /\ d[1] = 0 /\ value.type.kind \in Plain /\ value.code.op = "call"
              /\ (value.type.kind = "int" => value.width # StoreWidth(value.type.bits))
  <2>1. d[1] = 0 /\ d[2] < 0
    BY <1>6
  <2>2. ResultClass(d) = 0
    BY <2>1 DEF ResultClass
  <2>3. (d = <<0, -1>> => ret = IntType(32)) /\ (d = <<0, -2>> => ret.kind = "region")
    BY <1>4, <2>2 DEF ReturnFits
  <2>4. ret.kind \in {"int", "region"} /\ (ret.kind = "int" => ret = IntType(32) /\ v.type.native)
    BY <1>4, <1>6, <2>3 DEF IntType
  <2>5. PICK code : code = [op |-> "call", handle |-> IF v.type.native THEN 0 ELSE handle]
    OBVIOUS
  <2>6. value = [type |-> ret, width |-> ReturnWidth(v.type), code |-> code]
    BY <1>2, <1>1, <1>3, <1>4, <2>4, <2>5 DEF doCall
  <2>7. value.type = ret /\ value.width = ReturnWidth(v.type) /\ value.code = code
    BY <2>6
  <2>8. ret.kind = "int" => ret.bits = 32 /\ ReturnWidth(v.type) = IntBits
    BY <1>3, <2>4 DEF ReturnWidth, IntType
  <2>9. ~Fails(value)
    BY <2>4, <2>7 DEF Fails
  <2>10. value.code.op = "call"
    BY <2>5, <2>7
  <2> QED BY <2>1, <2>4, <2>7, <2>8, <2>9, <2>10, ConstantIs DEF Plain
<1>7. CASE \E k \in 1 .. c : d = <<k, 0>>
  BY <1>1, <1>5, <1>7 DEF CalledRight
<1>8. CASE d \in {<<0, -1>>, <<0, -2>>}
  BY <1>1, <1>6, <1>8 DEF CalledRight
<1> QED BY <1>2, <1>7, <1>8 DEF NotMember

\* What an initialiser computes.
LEMMA InitialiserRight ==
  ASSUME GenState, InClass, ~local.laidOut, local.todo # {},
         NEW l, l = Least(local.todo), NEW value, value = Initialiser(MembersOf(Class)[l])
  PROVE  IF Fails(value) THEN ~FieldAccepted(<<Class, l>>) ELSE FieldAccepted(<<Class, l>>) /\ FieldOK(Class, l, value)
<1>1. PICK c, field, decl, type, named, d :
        /\ c = Class /\ field = MembersOf(c)[l] /\ decl = <<c, l>> /\ type = TypeNamed(field.type, global.types, "")
        /\ named = Find(global.values, field.arg) /\ d = Globally(field.arg, ClassesDone, 0)
  OBVIOUS
<1>2. /\ IsField(decl) /\ Written(decl) = field /\ KnownClasses(decl) = ClassesDone /\ ClassesDone \in Nat /\ FunctionsDone = 0
  BY <1>1, FieldSite
<1>3. /\ type.kind = "aborted" <=> field.type \notin BuiltIn
      /\ type.kind = "int" <=> field.type \in DOMAIN IntTypes
      /\ type.kind = "int" => type = IntType(type.bits)
  BY <1>1, FieldType
<1>4. Found(named, d, "") /\ (d # << >> => FunctionOK(named, d)) /\ ~IsField(d) /\ ~IsMethod(d)
  <2>1. Globally(field.arg, ClassesDone, FunctionsDone) = d /\ FunctionsDone \in Nat /\ ~(FunctionsDone > 0)
    <3>1. PICK f : f = FunctionsDone /\ f = 0
      BY <1>2
    <3>2. Globally(field.arg, ClassesDone, f) = d
      BY <1>1, <3>1
    <3>3. f \in Nat /\ ~(f > 0)
      BY <3>1
    <3> QED BY <3>1, <3>2, <3>3
  <2>2. PICK e : e = Globally(field.arg, ClassesDone, FunctionsDone)
    OBVIOUS
  <2>3. Found(named, e, "") /\ (e # << >> => FunctionOK(named, e)) /\ ~IsField(e) /\ ~IsMethod(e)
    BY <1>1, <1>2, <2>1, <2>2, GlobalFound DEF GenState, GenInv
  <2> QED BY <2>1, <2>2, <2>3
<1>5. FieldAccepted(decl) <=>
        /\ field.type \in BuiltIn \cup {None}
        /\ CASE field.op = "none" -> field.type \in DOMAIN IntTypes
             [] field.op = "fill" -> FALSE
             [] field.op = "name" -> d # << >>
             [] field.op = "call" -> d # << >> /\ d[1] = 0
             [] OTHER             -> TRUE
  BY <1>1, <1>2 DEF FieldAccepted
<1>6. PICK op : op = field.op
  OBVIOUS
<1>7. FieldOK(c, l, value) <=>
        /\ FieldFits(value.type, decl)
        /\ value.type.kind = "int" => (value.width = StoreWidth(value.type.bits) <=> op \notin Comparisons \cup {"call"})
        /\ value.code.op \notin {"store", "init"}
  BY <1>1, <1>6 DEF FieldOK
<1>8. FieldFits(value.type, decl) <=>
        IF op = "name" THEN d # << >> /\ CallFits(value.type, "function", d) ELSE value.type.kind \in Plain
  <2>1. op = "name" => Target(decl) = d
    BY <1>1, <1>2, <1>6 DEF Target
  <2> QED BY <1>2, <1>6, <2>1 DEF FieldFits
<1>9. \A how : how \in {"aborted", "rejected"} => Fails(Failed(how))
  BY FailureIs
<1>10. SUFFICES IF Fails(value) THEN ~FieldAccepted(decl) ELSE FieldAccepted(decl) /\ FieldOK(c, l, value)
  BY <1>1
<1>11. value = IF field.type # None /\ type.kind = "aborted" THEN Failed("aborted")
               ELSE CASE op = "none"   -> IF type.kind = "int" THEN ConstantInt(type.bits, StoreWidth(type.bits), 0)
                                          ELSE Failed("aborted")
                      [] op = "number" -> Const(field.operands[1])
                      [] op = "string" -> Pointer(StringType, [op |-> "string"])
                      [] op = "array"  -> Pointer(ArrayType, [op |-> "alloc", handle |-> local.region])
                      [] op = "fill"   -> Failed("aborted")
                      [] op = "name"   -> Resolved(named)
                      [] op = "call"   -> doCall(Resolved(named), "", local.region)
                      [] OTHER         -> Binary(op, Const(field.operands[1]), Const(field.operands[2]))
  BY <1>1, <1>6 DEF Initialiser
<1>12. CASE field.type # None /\ type.kind = "aborted"
  <2>1. field.type \notin BuiltIn \cup {None}
    BY <1>3, <1>12
  <2> QED BY <1>5, <1>9, <1>11, <1>12, <2>1
<1>13. CASE ~(field.type # None /\ type.kind = "aborted")
  <2>0. field.type \in BuiltIn \cup {None}
    BY <1>3, <1>13
  <2>1. CASE op = "none"
    <3>1. CASE type.kind = "int"
      <4>1. PICK b : b = type.bits
        OBVIOUS
      <4>2. value = ConstantInt(b, StoreWidth(b), 0)
        BY <1>11, <1>13, <2>1, <3>1, <4>1
      <4>3. /\ value.type.kind = "int" /\ value.type.bits = b /\ value.width = StoreWidth(b) /\ value.code.op = "const"
        BY <4>2 DEF ConstantInt, IntType
      <4>4. ~Fails(value)
        BY <4>3 DEF Fails
      <4>5. FieldAccepted(decl)
        BY <1>3, <1>5, <1>6, <2>0, <2>1, <3>1
      <4>6. op \notin Comparisons \cup {"call"}
        BY <2>1 DEF Comparisons
      <4>7. FieldFits(value.type, decl)
        BY <1>8, <2>1, <4>3 DEF Plain
      <4> QED BY <1>7, <4>3, <4>4, <4>5, <4>6, <4>7
    <3>2. CASE type.kind # "int"
      <4>1. value = Failed("aborted")
        BY <1>11, <1>13, <2>1, <3>2
      <4>2. ~FieldAccepted(decl)
        BY <1>3, <1>5, <1>6, <2>1, <3>2
      <4> QED BY <1>9, <4>1, <4>2
    <3> QED BY <3>1, <3>2
  <2>2. CASE op = "number"
    <3>1. PICK n : n = field.operands[1]
      OBVIOUS
    <3>2. value = Const(n)
      BY <1>11, <1>13, <2>2, <3>1
    <3>3. value.type.kind = "int" /\ value.type.bits = 64 /\ value.width = Bits /\ value.code.op = "const"
      BY <3>2, NumberIs
    <3>4. ~Fails(value)
      BY <3>3 DEF Fails
    <3>5. FieldAccepted(decl)
      BY <1>5, <1>6, <2>0, <2>2
    <3>6. op \notin Comparisons \cup {"call"}
      BY <2>2 DEF Comparisons
    <3>7. FieldFits(value.type, decl)
      BY <1>8, <2>2, <3>3 DEF Plain
    <3> QED BY <1>7, <3>3, <3>4, <3>5, <3>6, <3>7, ConstantIs
  <2>3. CASE op \in {"string", "array"}
    <3>1. /\ value.type.kind \in {"string", "array"} /\ value.code.op \in {"string", "alloc"}
      <4>1. CASE op = "string"
        <5>1. value = Pointer(StringType, [op |-> "string"])
          BY <1>11, <1>13, <4>1
        <5> QED BY <5>1 DEF Pointer, StringType
      <4>2. CASE op = "array"
        <5>1. value = Pointer(ArrayType, [op |-> "alloc", handle |-> local.region])
          BY <1>11, <1>13, <4>2
        <5> QED BY <5>1 DEF Pointer, ArrayType
      <4> QED BY <2>3, <4>1, <4>2
    <3>2. ~Fails(value)
      BY <3>1 DEF Fails
    <3>3. FieldAccepted(decl)
      BY <1>5, <1>6, <2>0, <2>3
    <3>4. FieldFits(value.type, decl)
      BY <1>8, <2>3, <3>1 DEF Plain
    <3> QED BY <1>7, <3>1, <3>2, <3>3, <3>4
  <2>4. CASE op = "fill"
    <3>1. value = Failed("aborted")
      BY <1>11, <1>13, <2>4
    <3>2. ~FieldAccepted(decl)
      BY <1>5, <1>6, <2>4
    <3> QED BY <1>9, <3>1, <3>2
  <2>5. CASE op = "name"
    <3>1. value = Resolved(named)
      BY <1>11, <1>13, <2>5
    <3>2. FieldAccepted(decl) <=> d # << >>
      BY <1>5, <1>6, <2>0, <2>5
    <3>3. CASE d = << >>
      <4>1. value = Failed("aborted")
        BY <1>4, <3>1, <3>3, NothingIs DEF Found, Resolved
      <4> QED BY <1>9, <3>2, <3>3, <4>1
    <3>4. CASE d # << >>
      <4>1. value = named /\ ~Fails(named) /\ FunctionOK(named, d)
        BY <1>4, <3>1, <3>4 DEF Found, Resolved
      <4>2. CallFits(value.type, "function", d) /\ value.code.op = "fn"
        BY <4>1 DEF FunctionOK, IsFn
      <4>3. value.type.kind = "function"
        BY <4>2 DEF CallFits
      <4> QED BY <1>7, <1>8, <2>5, <3>2, <3>4, <4>1, <4>2, <4>3
    <3> QED BY <3>3, <3>4
  <2>6. CASE op = "call"
    <3>1. value = doCall(Resolved(named), "", local.region)
      BY <1>11, <1>13, <2>6
    <3>2. FieldAccepted(decl) <=> d # << >> /\ d[1] = 0
      BY <1>5, <1>6, <2>0, <2>6
    <3>3. CASE d = << >>
      <4>1. Resolved(named) = Failed("aborted")
        BY <1>4, <3>3, NothingIs DEF Found, Resolved
      <4>2. value = Failed("aborted")
        BY <1>9, <3>1, <4>1 DEF doCall
      <4> QED BY <1>9, <3>2, <3>3, <4>2
    <3>4. CASE d # << >>
      <4>1. Resolved(named) = named /\ ~Fails(named) /\ FunctionOK(named, d)
        BY <1>4, <3>4 DEF Found, Resolved
      <4>2. NotMember(d, ClassesDone)
        BY <1>1, <1>2, <3>4, GlobalKinds
      <4>3. IF Fails(value) THEN d[1] # 0
            ELSE d[1] = 0 /\ value.type.kind \in Plain /\ value.code.op = "call"
                 /\ (value.type.kind = "int" => value.width # StoreWidth(value.type.bits))
        <5>1. value = doCall(named, "", local.region)
          BY <3>1, <4>1
        <5>2. Callee(named, d, ClassesDone)
          BY <1>2, <4>1, <4>2 DEF Callee
        <5>3. PICK w, h, c2 : w = named /\ h = local.region /\ c2 = ClassesDone
          OBVIOUS
        <5>4. Callee(w, d, c2) /\ value = FieldCall(w, h)
          BY <5>1, <5>2, <5>3 DEF FieldCall
        <5>5. CalledRight(value, d)
          BY <5>4, CalledField
        <5> QED BY <5>5 DEF CalledRight
      <4>4. CASE Fails(value)
        BY <3>2, <4>3, <4>4
      <4>5. CASE ~Fails(value)
        <5>1. FieldAccepted(decl)
          BY <3>2, <3>4, <4>3, <4>5
        <5>2. FieldFits(value.type, decl)
          BY <1>8, <2>6, <4>3, <4>5
        <5>3. op \in Comparisons \cup {"call"}
          BY <2>6
        <5> QED BY <1>7, <4>3, <4>5, <5>1, <5>2, <5>3
      <4> QED BY <4>4, <4>5
    <3> QED BY <3>3, <3>4
  <2>7. CASE op \notin {"none", "number", "string", "array", "fill", "name", "call"}
    <3>1. PICK m, n : m = field.operands[1] /\ n = field.operands[2]
      OBVIOUS
    <3>2. value = Binary(op, Const(m), Const(n))
      BY <1>11, <1>13, <2>7, <3>1
    <3>3. /\ value.type.kind = "int" /\ value.type.bits = 64 /\ value.width = IF op \in Comparisons THEN 1 ELSE Bits
          /\ value.code.op \in {"const", "undef"}
      BY <3>2, BinaryIs
    <3>4. ~Fails(value)
      BY <3>3 DEF Fails
    <3>5. FieldAccepted(decl)
      BY <1>5, <1>6, <2>0, <2>7
    <3>6. value.width = StoreWidth(value.type.bits) <=> op \notin Comparisons \cup {"call"}
      BY <2>7, <3>3, ConstantIs
    <3>7. FieldFits(value.type, decl)
      BY <1>8, <2>7, <3>3 DEF Plain
    <3> QED BY <1>7, <3>3, <3>4, <3>5, <3>6, <3>7
  <2> QED BY <2>1, <2>2, <2>3, <2>4, <2>5, <2>6, <2>7
<1> QED BY <1>12, <1>13

\* A function that gets other code.
LEMMA EmittedAt ==
  ASSUME GenState, NEW id \in 1 .. Len(module), NEW more, module' = [module EXCEPT ![id].code = more]
  PROVE  /\ Len(module') = Len(module) /\ \A k \in 1 .. Len(module) : module'[k].decl = module[k].decl
         /\ module'[id].code = more /\ \A k \in 1 .. Len(module) : k # id => module'[k].code = module[k].code
<1>1. IsModule(module) /\ DOMAIN module = 1 .. Len(module)
  BY StateIs DEF GenState, HandlesInv
<1>2. Len(module') = Len(module) /\ \A k \in 1 .. Len(module) : module'[k].decl = module[k].decl
  BY <1>1, EmittedHeads DEF SameHeads
<1>3. module[id] = [name |-> module[id].name, decl |-> module[id].decl, code |-> module[id].code]
  BY <1>1 DEF IsModule, IsFunction
<1>4. \A k \in 1 .. Len(module) : k # id => module'[k] = module[k]
  BY <1>1
<1>5. module'[id] = [module[id] EXCEPT !.code = more]
  BY <1>1
<1> QED BY <1>2, <1>3, <1>4, <1>5

\* Emitting into the initialiser of the class that is being generated.
LEMMA EmittedStable ==
  ASSUME GenState, InClass, ~local.laidOut, UNCHANGED <<classes, functions>>, NEW c, c = Class, Class' = c,
         Len(module') = Len(module), \A k \in 1 .. Len(module) : module'[k].decl = module[k].decl,
         \A k \in 1 .. Len(module) : k # local.region => module'[k].code = module[k].code,
         \A k \in 1 .. Len(classTypes) : k # c => classTypes'[k] = classTypes[k]
  PROVE  /\ Kept /\ Stable /\ c \in Nat /\ c > 0 /\ c \in 1 .. c
         /\ local.region \in 1 .. Len(module) /\ module[local.region].decl = <<c, 0>> /\ local.region = classTypes[c].init
         /\ \A k \in 1 .. c : k # c => LaidOut(k) /\ LaidOut(k)'
         /\ \A id \in 1 .. Len(module) : module[id].decl[2] > 0 => module'[id].code = module[id].code
<1>1. PICK r : r = local.region
  OBVIOUS
<1>2. c \in Nat /\ c > 0 /\ Len(module) \in Nat /\ Len(classTypes) = c /\ c \in 1 .. c
  <2>1. c \in Nat /\ c > 0 /\ Len(module) \in Nat /\ Len(classTypes) = c
    BY StateIs DEF Class
  <2> QED BY <2>1
<1>3. r = classTypes[c].init /\ r \in 1 .. Len(module) /\ module[r].decl = <<c, 0>>
  BY <1>1, <1>2 DEF GenState, GenInv, SupersInv
<1>4. Kept
  BY <1>2 DEF Kept
<1>5. \A k \in 1 .. c : k # c => k < c
  BY <1>2
<1>6. \A k \in 1 .. c : k # c => LaidOut(k) /\ LaidOut(k)'
  BY <1>5 DEF LaidOut
<1>7. ~LaidOut(c)
  BY <1>2 DEF LaidOut
<1>8. ASSUME NEW k \in 1 .. c, k # c
      PROVE  module'[classTypes[k].init].code = module[classTypes[k].init].code
  <2>1. PICK i : i = classTypes[k].init
    OBVIOUS
  <2>2. i \in 1 .. Len(module) /\ module[i].decl = <<k, 0>>
    BY <2>1 DEF GenState, GenInv, SupersInv
  <2>3. i # r
    BY <1>3, <1>8, <2>2
  <2> QED BY <1>1, <2>1, <2>2, <2>3
<1>9. Stable
  <2>1. Class \in Nat /\ Class' \in Nat /\ Class <= Class'
    BY <1>2
  <2>2. ASSUME NEW k \in 1 .. Class, LaidOut(k)
        PROVE  /\ LaidOut(k)'
               /\ classTypes'[k].init = classTypes[k].init /\ classTypes'[k].super = classTypes[k].super
               /\ classTypes'[k].slots = classTypes[k].slots /\ classTypes'[k].children = classTypes[k].children
               /\ module'[classTypes[k].init].code = module[classTypes[k].init].code
    <3>1. k \in 1 .. c /\ k # c
      BY <1>7, <2>2
    <3> QED BY <1>2, <1>6, <1>8, <3>1
  <2> QED BY <1>4, <2>1, <2>2 DEF Stable
<1>10. ASSUME NEW id \in 1 .. Len(module), module[id].decl[2] > 0 PROVE module'[id].code = module[id].code
  <2>1. module[r].decl[2] = 0
    BY <1>3
  <2>2. id # r
    BY <1>10, <2>1
  <2> QED BY <1>1, <2>2
<1> QED BY <1>1, <1>2, <1>3, <1>4, <1>6, <1>9, <1>10

\* A field is added to the class.
LEMMA GenFieldKeeps ==
  ASSUME GenState, HandlesInv', GenField
  PROVE  GenInv' /\ (outcome' # outcome => ~Accepted)
<1>1. PICK c, l, field, value, r :
        /\ c = Class /\ l = Least(local.todo) /\ field = MembersOf(c)[l] /\ value = Initialiser(field) /\ r = local.region
  OBVIOUS
<1>2. /\ InClass /\ local # Absent /\ ~local.laidOut /\ local.todo # {}
      /\ UNCHANGED <<classes, functions, classTypes, global, body>> /\ Class' = c
  BY <1>1 DEF GenField, InClass, Class
<1>3. /\ c \in 1 .. Len(classes) /\ l \in Places(MembersOf(c), "field") /\ field \in FieldNodes /\ field = Node.members[l]
  BY <1>1, <1>2, FieldSite
<1>4. IF Fails(value) THEN ~FieldAccepted(<<c, l>>) ELSE FieldAccepted(<<c, l>>) /\ FieldOK(c, l, value)
  BY <1>1, <1>2, InitialiserRight
<1>5. ProgramOK
  BY DEF GenState
<1>6. CASE Fails(value)
  <2>1. UNCHANGED <<module, local>>
    BY <1>1, <1>3, <1>6 DEF GenField
  <2>2. ~Accepted
    BY <1>3, <1>4, <1>5, <1>6, FieldRejected
  <2> QED BY <1>2, <2>1, <2>2, IdleKeeps
<1>7. CASE ~Fails(value)
  <2>1. PICK new, code, more, vs : /\ new = [name |-> field.name, value |-> value, field |-> l]
                               /\ code = module[r].code /\ more = Append(code, value.code)
                               /\ vs = Append(local.variables, new)
    OBVIOUS
  <2>2. /\ module' = [module EXCEPT ![r].code = more] /\ outcome' = outcome
        /\ local' = [local EXCEPT !.todo = local.todo \ {l}, !.variables = vs]
    BY <1>1, <1>3, <1>7, <2>1 DEF GenField
  <2>3. /\ local' = [values |-> local.values, variables |-> vs, region |-> r,
                     laidOut |-> local.laidOut, todo |-> local.todo \ {l}]
        /\ IsList(local.variables) /\ r \in 1 .. Len(module)
    BY <1>1, <1>2, <2>2 DEF GenState, HandlesInv, LocalOK
  <2>4. /\ local' # Absent /\ local'.values = local.values /\ local'.variables = vs /\ local'.region = local.region
        /\ local'.laidOut = local.laidOut /\ local'.todo = local.todo \ {l} /\ InClass'
    BY <1>1, <2>3 DEF Absent, InClass
  <2>5. /\ Len(module') = Len(module) /\ \A k \in 1 .. Len(module) : module'[k].decl = module[k].decl
        /\ module'[r].code = more /\ \A k \in 1 .. Len(module) : k # r => module'[k].code = module[k].code
    BY <2>2, <2>3, EmittedAt
  <2>6. /\ Kept /\ Stable /\ c \in Nat /\ c > 0 /\ c \in 1 .. c /\ r = classTypes[c].init
        /\ \A k \in 1 .. c : k # c => LaidOut(k) /\ LaidOut(k)'
        /\ \A id \in 1 .. Len(module) : module[id].decl[2] > 0 => module'[id].code = module[id].code
    BY <1>1, <1>2, <2>5, EmittedStable
  <2>7. Done = 0 /\ Done' = 0 /\ ClassesDone' = ClassesDone /\ FunctionsDone' = FunctionsDone
    <3>1. Done = 0
      BY <1>2, StateIs
    <3>2. Done' = Done
      BY <1>2, <2>2, <2>3, EmittedStep DEF GenState
    <3> QED BY <1>1, <1>2, <2>4, <3>1, <3>2 DEF ClassesDone, FunctionsDone
  <2>8. body = Absent /\ body' = Absent
    BY <1>2 DEF GenState, GenInv, TodoInv
  <2>9. SupersInv'
    BY <1>2, <2>4, <2>6, SupersFrame DEF GenState, GenInv
  <2>10. TypesInv' /\ ValuesInv'
    BY <1>2, <2>6, <2>7, TypesFrame, ValuesFrame DEF GenState, GenInv
  <2>11. /\ TodoInv' /\ \A k : \A other \in {"fn", "field"} : <<k, other>> # <<c, "field">> => Ahead(k, other)' = Ahead(k, other)
         /\ Known(c, "field")' = Known(c, "field") \cup {l}
         /\ \A j \in Known(c, "field") : j < l
    <3>1. PICK kind : kind = "field" /\ kind = IF local.laidOut THEN "fn" ELSE "field"
      BY <1>2
    <3>2. local'.todo = local.todo \ {Least(local.todo)}
      BY <1>1, <2>4
    <3>3. /\ TodoInv'
          /\ \A k : \A other \in {"fn", "field"} : <<k, other>> # <<Class, kind>> => Ahead(k, other)' = Ahead(k, other)
          /\ Known(Class, kind)' = Known(Class, kind) \cup {Least(local.todo)}
          /\ \A j \in Known(Class, kind) : j < Least(local.todo)
      BY <1>1, <1>2, <2>4, <2>7, <2>8, <3>1, <3>2, TodoNext
    <3>4. Known(Class, kind)' = Known(c, "field")'
      BY <1>2, <3>1 DEF Known, Ahead
    <3> QED BY <1>1, <3>1, <3>3, <3>4
  <2>12. MethodsInv'
    <3>1. \A k \in 1 .. Class : Ahead(k, "fn")' = Ahead(k, "fn")
      BY <2>11
    <3> QED BY <1>2, <2>4, <2>6, <3>1, MethodsFrame DEF GenState, GenInv
  <2>13. VariablesInv'
    <3>1. PICK old, n : old = local.variables /\ n = Len(old)
      OBVIOUS
    <3>2. /\ n \in Nat /\ Len(vs) = n + 1 /\ (\A i \in 1 .. n : vs[i] = old[i]) /\ vs[n + 1] = new
      BY <2>1, <2>3, <3>1, AppendedList
    <3>3. PICK known : known = Known(c, "field")
      OBVIOUS
    <3>4. /\ \A i \in 1 .. n :
               /\ old[i] = [name |-> old[i].name, value |-> old[i].value, field |-> old[i].field]
               /\ old[i].field \in known /\ old[i].name = MembersOf(c)[old[i].field].name
               /\ FieldOK(c, old[i].field, old[i].value)
          /\ \A i, j \in 1 .. n : i < j => old[i].field < old[j].field
          /\ \A f \in known : \E i \in 1 .. n : old[i].field = f
      BY <1>1, <1>2, <3>1, <3>3 DEF GenState, GenInv, VariablesInv
    <3>5. Known(Class, "field")' = known \cup {l}
      <4>1. (\A i : i = Class => Known(Class, "field") = Known(i, "field"))'
        OBVIOUS
      <4> QED BY <1>2, <2>11, <3>3, <4>1
    <3>6. \A k, j, v : FieldOK(k, j, v)' = FieldOK(k, j, v) /\ MembersOf(k)' = MembersOf(k)
      BY <1>2, ReturnKept DEF MembersOf
    <3>7. new.name = field.name /\ new.value = value /\ new.field = l
      BY <2>1
    <3>8. \A i \in 1 .. n + 1 : i \in 1 .. n \/ i = n + 1
      BY <3>2
    <3>9. ASSUME NEW i \in 1 .. n + 1
          PROVE  /\ vs[i] = [name |-> vs[i].name, value |-> vs[i].value, field |-> vs[i].field]
                 /\ vs[i].field \in known \cup {l} /\ vs[i].name = MembersOf(c)[vs[i].field].name
                 /\ FieldOK(c, vs[i].field, vs[i].value)
      <4>1. CASE i \in 1 .. n
        BY <3>2, <3>4, <4>1
      <4>2. CASE i = n + 1
        BY <1>1, <1>4, <1>7, <2>1, <3>2, <3>7, <4>2
      <4> QED BY <3>8, <4>1, <4>2
    <3>10. ASSUME NEW i \in 1 .. n + 1, NEW j \in 1 .. n + 1, i < j PROVE vs[i].field < vs[j].field
      <4>1. i \in 1 .. n
        BY <3>2, <3>10
      <4>2. CASE j \in 1 .. n
        BY <3>2, <3>4, <3>10, <4>1, <4>2
      <4>3. CASE j = n + 1
        BY <2>11, <3>2, <3>3, <3>4, <3>7, <4>1, <4>3
      <4> QED BY <3>8, <4>2, <4>3
    <3>11. ASSUME NEW f \in known \cup {l} PROVE \E i \in 1 .. n + 1 : vs[i].field = f
      <4>1. CASE f \in known
        <5>1. PICK i \in 1 .. n : old[i].field = f
          BY <3>4, <4>1
        <5>2. i \in 1 .. n + 1 /\ vs[i].field = f
          BY <3>2, <5>1
        <5> QED BY <5>2
      <4>2. CASE f = l
        <5>1. n + 1 \in 1 .. n + 1
          BY <3>2
        <5> QED BY <3>2, <3>7, <4>2, <5>1
      <4> QED BY <4>1, <4>2
    <3>12. Len(local'.variables) = n + 1
      BY <2>4, <3>2
    <3>13. \A i \in 1 .. n + 1 :
             FieldOK(c, vs[i].field, vs[i].value)' /\ vs[i].name = MembersOf(c)[vs[i].field].name'
      <4> TAKE i \in 1 .. n + 1
      <4>1. PICK k, v : k = vs[i].field /\ v = vs[i].value
        OBVIOUS
      <4>2. FieldOK(c, k, v) /\ vs[i].name = MembersOf(c)[k].name
        BY <3>9, <4>1
      <4>3. FieldOK(c, k, v)' /\ vs[i].name = MembersOf(c)[k].name'
        BY <3>6, <4>2
      <4> QED BY <4>1, <4>3
    <3> QED BY <1>2, <2>4, <3>5, <3>9, <3>10, <3>11, <3>12, <3>13 DEF VariablesInv
  <2>14. LayoutInv'
    <3>1. LayoutInv
      BY DEF GenState, GenInv
    <3>2. ASSUME NEW i \in 1 .. c, i # c PROVE LaidOut(i)' /\ LayoutOK(i)'
      <4>1. i \in 1 .. Class /\ LaidOut(i) /\ LayoutOK(i)
        BY <1>1, <2>6, <3>1, <3>2 DEF LayoutInv
      <4> QED BY <2>6, <3>2, <4>1, LayoutKept
    <3>3. ~LaidOut(c) /\ ~LaidOut(c)'
      BY <1>1, <1>2, <2>4, <2>6 DEF LaidOut
    <3>4. /\ classTypes[c].children = << >> /\ classTypes[c].functions = << >> /\ classTypes[c].slots = << >>
          /\ \A i \in DOMAIN code : code[i].op \notin {"store", "init"}
      BY <1>1, <2>1, <2>6, <3>1, <3>3 DEF LayoutInv, InitCode
    <3>5. IsList(code)
      BY <2>1, <2>3 DEF GenState, HandlesInv, IsModule, IsFunction, IsCode
    <3>6. /\ Len(code) \in Nat /\ DOMAIN code = 1 .. Len(code) /\ DOMAIN more = 1 .. Len(code) + 1
          /\ (\A i \in 1 .. Len(code) : more[i] = code[i]) /\ more[Len(code) + 1] = value.code
      BY <2>1, <3>5, AppendedList, ListDomain
    <3>7. value.code.op \notin {"store", "init"}
      BY <1>4, <1>7 DEF FieldOK
    <3>8. \A i \in DOMAIN more : more[i].op \notin {"store", "init"}
      <4>1. \A i \in 1 .. Len(code) + 1 : i \in 1 .. Len(code) \/ i = Len(code) + 1
        BY <3>6
      <4> QED BY <3>4, <3>6, <3>7, <4>1
    <3>9. classTypes'[c] = classTypes[c] /\ InitCode(c)' = more
      BY <1>2, <2>5, <2>6 DEF InitCode
    <3> QED BY <1>2, <3>2, <3>3, <3>4, <3>8, <3>9 DEF LayoutInv
  <2>15. BodiesInv' /\ BodyInv'
    <3>1. \A id \in 1 .. Len(module') : module'[id].decl[2] > 0 =>
            id \in 1 .. Len(module) /\ module'[id].code = module[id].code
      BY <2>5, <2>6
    <3>2. \A id : ~InBody(id)
      BY <2>8 DEF InBody
    <3> QED BY <2>6, <2>8, <2>9, <3>1, <3>2, BodiesFrame DEF BodyInv, GenState, GenInv
  <2>16. MembersAccepted'
    <3>1. MembersAccepted
      BY DEF GenState, GenInv
    <3>2. ASSUME NEW k \in 1 .. c, k # c
          PROVE  /\ \A j \in Known(k, "field")' : FieldAccepted(<<k, j>>)'
                 /\ \A j \in Known(k, "fn")' : BodyAccepted(<<k, j>>)'
      <4>1. \A kind \in {"fn", "field"} : Ahead(k, kind)' = Ahead(k, kind)
        BY <2>11, <3>2
      <4>2. Class \in Nat /\ Class <= Len(classes) /\ k \in 1 .. Class
        BY <1>1, StateIs
      <4> QED BY <1>2, <1>5, <3>1, <4>1, <4>2, MembersFrame
    <3>3. Known(c, "fn")' = Known(c, "fn")
      BY <1>2, <2>11 DEF Known, MembersOf, Places
    <3>4. \A decl : /\ FieldAccepted(decl)' = FieldAccepted(decl)
                    /\ Written(decl) \in FunctionNodes => BodyAccepted(decl)' = BodyAccepted(decl)
      BY <1>2, <1>5, AcceptedKept
    <3>5. ASSUME NEW j \in Known(c, "field")' PROVE FieldAccepted(<<c, j>>)'
      <4>1. j \in Known(c, "field") \/ j = l
        BY <2>11, <3>5
      <4>2. FieldAccepted(<<c, j>>)
        BY <1>1, <1>4, <1>7, <2>6, <3>1, <4>1 DEF MembersAccepted
      <4> QED BY <3>4, <4>2
    <3>6. ASSUME NEW j \in Known(c, "fn")' PROVE BodyAccepted(<<c, j>>)'
      <4>1. j \in Known(c, "fn") /\ BodyAccepted(<<c, j>>)
        BY <1>1, <2>6, <3>1, <3>3, <3>6 DEF MembersAccepted
      <4>2. j \in Places(MembersOf(c), "fn")
        BY <4>1 DEF Known
      <4>3. IsSite(<<c, j>>)
        BY <1>3, <4>2 DEF IsSite, MembersOf
      <4>4. Written(<<c, j>>) \in FunctionNodes
        BY <1>5, <4>3, SiteNode
      <4> QED BY <3>4, <4>1, <4>4
    <3> QED BY <1>2, <3>2, <3>5, <3>6 DEF MembersAccepted
  <2>17. FunctionsAccepted'
    <3>1. FunctionsDone \in Nat /\ FunctionsDone <= Len(functions)
      BY StateIs, DoneBound
    <3> QED BY <1>2, <1>5, <2>7, <3>1, FunctionsFrame DEF GenState, GenInv
  <2> QED BY <2>2, <2>9, <2>10, <2>11, <2>12, <2>13, <2>14, <2>15, <2>16, <2>17 DEF GenInv
<1> QED BY <1>6, <1>7

\* The code of an initialiser ends with stores of all variables.
Stored(code, vs, n, offset, m) ==
  /\ \A k \in 1 .. n : /\ m + k \in DOMAIN code /\ code[m + k].op = "store" /\ code[m + k].index = offset + k - 1
                       /\ code[m + k].value = vs[k].value /\ code[m + k].field = vs[k].field
  /\ \A i \in DOMAIN code : code[i].op = "store" => \E k \in 1 .. n : i = m + k

NamedIn(vs, n, name) == {k \in 1 .. n : vs[k].name = name}

\* What ClassNode::codegen leaves of the variables of class c.
Made(c, vs, n, offset) ==
  /\ c \in 1 .. Len(classes) /\ n \in Nat /\ offset = Offset(classTypes[c])
  /\ Len(classTypes[c].slots) = offset + n
  /\ \A k \in 1 .. n : classTypes[c].slots[offset + k] = vs[k].value.width
  /\ \A k \in 1 .. n : /\ vs[k].field \in Places(MembersOf(c), "field")
                       /\ vs[k].name = MembersOf(c)[vs[k].field].name /\ FieldOK(c, vs[k].field, vs[k].value)
  /\ \A i, j \in 1 .. n : i < j => vs[i].field < vs[j].field
  /\ \A f \in Places(MembersOf(c), "field") : \E k \in 1 .. n : vs[k].field = f
  /\ \A name : IF NamedIn(vs, n, name) = {} THEN name \notin DOMAIN classTypes[c].children
               ELSE /\ name \in DOMAIN classTypes[c].children
                    /\ classTypes[c].children[name].index = offset + Latest(NamedIn(vs, n, name)) - 1
                    /\ classTypes[c].children[name].type = vs[Latest(NamedIn(vs, n, name))].value.type
  /\ \E m \in Nat : Stored(InitCode(c), vs, n, offset, m)

\* The layout is right if the parts are made from the variables one by one.
LEMMA LayoutMade ==
  ASSUME ProgramOK, NEW c, NEW vs, NEW n, NEW offset, Made(c, vs, n, offset)
  PROVE  LayoutOK(c)
<1>1. PICK class, code, last, P :
        class = classTypes[c] /\ code = InitCode(c) /\ last = Len(class.slots) - 1 /\ P = Places(MembersOf(c), "field")
  OBVIOUS
<1>2. /\ c \in 1 .. Len(classes) /\ n \in Nat /\ offset = Offset(class) /\ Len(class.slots) = offset + n
      /\ \A k \in 1 .. n : class.slots[offset + k] = vs[k].value.width
      /\ \A k \in 1 .. n : /\ vs[k].field \in P
                           /\ vs[k].name = MembersOf(c)[vs[k].field].name /\ FieldOK(c, vs[k].field, vs[k].value)
      /\ \A i, j \in 1 .. n : i < j => vs[i].field < vs[j].field
      /\ \A f \in P : \E k \in 1 .. n : vs[k].field = f
  BY <1>1 DEF Made
<1>3. offset \in {0, 1} /\ last = offset + n - 1
  <2>1. offset \in {0, 1}
    BY <1>2 DEF Offset
  <2> QED BY <1>1, <1>2, <2>1
<1>4. PICK m \in Nat : Stored(code, vs, n, offset, m)
  BY <1>1 DEF Made
<1>5. StoresOf(c) = {i \in DOMAIN code : code[i].op = "store"}
  BY <1>1 DEF StoresOf
<1>6. \A k \in 1 .. n : /\ m + k \in StoresOf(c) /\ code[m + k].index = offset + k - 1
                        /\ code[m + k].value = vs[k].value /\ code[m + k].field = vs[k].field
  BY <1>4, <1>5 DEF Stored
<1>7. \A i \in StoresOf(c) : \E k \in 1 .. n : i = m + k
  BY <1>4, <1>5 DEF Stored
<1>8. \A k \in 1 .. n : k \in Nat /\ offset + k - 1 \in offset .. last
  BY <1>2, <1>3
<1>9. Len(class.slots) \in Nat
  BY <1>2, <1>3
<1>10. ASSUME NEW i \in StoresOf(c)
       PROVE  /\ code[i].index \in offset .. last /\ code[i].value.width = class.slots[code[i].index + 1]
              /\ code[i].field \in P /\ FieldOK(c, code[i].field, code[i].value)
              /\ \A j \in StoresOf(c) : code[j].index = code[i].index => j = i
  <2>1. PICK k \in 1 .. n : i = m + k
    BY <1>7
  <2>2. code[i].index = offset + k - 1 /\ code[i].value = vs[k].value /\ code[i].field = vs[k].field
    BY <1>6, <2>1
  <2>3. code[i].index + 1 = offset + k
    BY <1>3, <1>8, <2>2
  <2>4. ASSUME NEW j \in StoresOf(c), code[j].index = code[i].index PROVE j = i
    <3>1. PICK h \in 1 .. n : j = m + h
      BY <1>7
    <3>2. offset + h - 1 = offset + k - 1
      BY <1>6, <2>2, <2>4, <3>1
    <3>3. h = k
      BY <1>3, <1>8, <3>2
    <3> QED BY <2>1, <3>1, <3>3
  <2> QED BY <1>2, <1>8, <2>2, <2>3, <2>4
<1>11. ASSUME NEW index \in offset .. last PROVE \E i \in StoresOf(c) : code[i].index = index
  <2>1. PICK k : k = index - offset + 1
    OBVIOUS
  <2>2. k \in 1 .. n /\ index = offset + k - 1
    BY <1>2, <1>3, <2>1, SMTT(30)
  <2>3. m + k \in StoresOf(c) /\ code[m + k].index = index
    BY <1>6, <2>2
  <2> QED BY <2>3
<1>12. ASSUME NEW name
       PROVE  IF FieldsOf(c, name) = {} THEN name \notin DOMAIN class.children
              ELSE /\ name \in DOMAIN class.children
                   /\ class.children[name].index \in offset .. last
                   /\ StoreOf(c, class.children[name].index, Latest(FieldsOf(c, name)), class.children[name].type)
  <2>1. PICK S, F, child : S = NamedIn(vs, n, name) /\ F = FieldsOf(c, name) /\ child = class.children[name]
    OBVIOUS
  <2>2. S = {k \in 1 .. n : vs[k].name = name} /\ F = {j \in P : MembersOf(c)[j].name = name}
    BY <1>1, <2>1 DEF NamedIn, FieldsOf
  <2>3. \A k \in S : vs[k].field \in F
    BY <1>2, <2>2
  <2>4. \A f \in F : \E k \in S : vs[k].field = f
    BY <1>2, <2>2
  <2>5. IF S = {} THEN name \notin DOMAIN class.children
        ELSE /\ name \in DOMAIN class.children /\ child.index = offset + Latest(S) - 1
             /\ child.type = vs[Latest(S)].value.type
    BY <1>1, <2>1 DEF Made
  <2>6. CASE S = {}
    BY <2>1, <2>4, <2>5, <2>6
  <2>7. CASE S # {}
    <3>1. PICK k : k = Latest(S)
      OBVIOUS
    <3>2. S \in SUBSET (1 .. n)
      BY <2>2
    <3>3. k \in S /\ \A i \in S : i <= k
      BY <1>2, <2>7, <3>1, <3>2, LatestIs
    <3>4. vs[k].field \in F /\ k \in 1 .. n
      BY <2>3, <3>2, <3>3
    <3>5. P \in SUBSET (1 .. Len(MembersOf(c))) /\ Len(MembersOf(c)) \in Nat
      BY <1>1, <1>2, MemberNode DEF Places, MembersOf
    <3>6. ASSUME NEW j \in F PROVE j <= vs[k].field
      <4>1. PICK i \in S : vs[i].field = j
        BY <2>4
      <4>2. i \in 1 .. n /\ i <= k
        BY <3>2, <3>3
      <4>3. CASE i = k
        <5>1. j \in Nat
          BY <2>2, <3>5
        <5> QED BY <4>1, <4>3, <5>1
      <4>4. CASE i # k
        <5>1. i < k
          BY <3>4, <4>2, <4>4
        <5>2. vs[i].field < vs[k].field
          BY <1>2, <3>4, <4>2, <5>1
        <5>3. vs[i].field \in Nat /\ vs[k].field \in Nat
          BY <2>2, <3>4, <3>5, <4>1
        <5> QED BY <4>1, <5>2, <5>3
      <4> QED BY <4>3, <4>4
    <3>7. Latest(F) = vs[k].field
      <4>1. F \in SUBSET (1 .. Len(MembersOf(c)))
        BY <2>2, <3>5
      <4> QED BY <3>4, <3>5, <3>6, <4>1, GreatestIs
    <3>8. child.index = offset + k - 1 /\ child.type = vs[k].value.type /\ name \in DOMAIN class.children
      BY <2>5, <2>7, <3>1
    <3>9. StoreOf(c, child.index, vs[k].field, child.type)
      <4>1. PICK i : i = m + k
        OBVIOUS
      <4>2. /\ i \in StoresOf(c) /\ InitCode(c)[i].index = child.index /\ InitCode(c)[i].field = vs[k].field
            /\ InitCode(c)[i].value.type = child.type
        BY <1>1, <1>6, <3>4, <3>8, <4>1
      <4> QED BY <4>2 DEF StoreOf
    <3> QED BY <1>8, <2>1, <3>4, <3>7, <3>8, <3>9
  <2> QED BY <2>6, <2>7
<1>13. /\ class = classTypes[c] /\ code = InitCode(c) /\ offset = Offset(classTypes[c]) /\ last = Len(classTypes[c].slots) - 1
       /\ P = Places(MembersOf(c), "field")
  BY <1>1, <1>2
<1> QED BY <1>9, <1>10, <1>11, <1>12, <1>13 DEF LayoutOK

\* What is put together for the initialiser, and for the slots.
Whole(code, start, stores) == code \o start \o stores

SlotsOf(vs, offset) == [k \in 1 .. offset |-> 0] \o [k \in DOMAIN vs |-> vs[k].value.width]

Parts(code, start, stores, vs, n, offset) ==
  /\ IsList(code) /\ IsList(start) /\ IsList(stores) /\ n = Len(stores)
  /\ \A i \in DOMAIN code : code[i].op \notin {"store", "init"}
  /\ \A i \in 1 .. Len(start) : start[i].op = "init"
  /\ \A k \in 1 .. n : stores[k].op = "store" /\ stores[k].index = offset + k - 1
                       /\ stores[k].value = vs[k].value /\ stores[k].field = vs[k].field

\* The code of the initialiser behind what was there before.
LEMMA LaidCode ==
  ASSUME NEW code, NEW start, NEW stores, NEW all, all = Whole(code, start, stores),
         NEW vs, NEW n, NEW offset, Parts(code, start, stores, vs, n, offset)
  PROVE  \E m \in Nat : Stored(all, vs, n, offset, m)
<1>1. IsList(code) /\ IsList(start) /\ IsList(stores)
  BY DEF Parts
<1>2. n = Len(stores)
  BY DEF Parts
<1>3. PICK front, a, b, m : front = code \o start /\ a = Len(code) /\ b = Len(start) /\ m = a + b
  OBVIOUS
<1>4. /\ IsList(front) /\ a \in Nat /\ b \in Nat /\ m \in Nat /\ Len(front) = m
      /\ \A i \in 1 .. a : front[i] = code[i]
      /\ \A i \in 1 .. b : front[a + i] = start[i]
  <2>1. /\ IsList(code \o start) /\ Len(code) \in Nat /\ Len(start) \in Nat
        /\ Len(code \o start) = Len(code) + Len(start)
        /\ \A i \in 1 .. Len(code) : (code \o start)[i] = code[i]
        /\ \A i \in 1 .. Len(start) : (code \o start)[Len(code) + i] = start[i]
    BY <1>1, ConcatenatedList
  <2> QED BY <1>3, <2>1
<1>5. /\ n \in Nat /\ DOMAIN all = 1 .. m + n
      /\ \A i \in 1 .. m : all[i] = front[i]
      /\ \A k \in 1 .. n : all[m + k] = stores[k]
  <2>1. all = front \o stores
    BY <1>3 DEF Whole
  <2>2. /\ IsList(front \o stores) /\ Len(front) \in Nat /\ Len(stores) \in Nat
        /\ Len(front \o stores) = Len(front) + Len(stores)
        /\ \A i \in 1 .. Len(front) : (front \o stores)[i] = front[i]
        /\ \A i \in 1 .. Len(stores) : (front \o stores)[Len(front) + i] = stores[i]
    <3>1. IsList(front) /\ IsList(stores)
      BY <1>4, <1>1
    <3> QED BY <3>1, ConcatenatedList
  <2>3. IsList(all) /\ Len(all) = m + n /\ n \in Nat
    BY <1>4, <1>2, <2>1, <2>2
  <2>4. DOMAIN all = 1 .. m + n
    BY <2>3, ListDomain
  <2> QED BY <1>4, <1>2, <2>1, <2>2, <2>3, <2>4
<1>6. DOMAIN code = 1 .. a
  BY <1>3, <1>1, ListDomain
<1>7. /\ \A i \in DOMAIN code : code[i].op \notin {"store", "init"}
      /\ \A i \in 1 .. Len(start) : start[i].op = "init"
      /\ \A k \in 1 .. n : stores[k].op = "store" /\ stores[k].index = offset + k - 1
                           /\ stores[k].value = vs[k].value /\ stores[k].field = vs[k].field
  BY DEF Parts
<1>8. ASSUME NEW i \in DOMAIN all
      PROVE  \/ i \in 1 .. a /\ all[i] = code[i]
             \/ \E j \in 1 .. b : i = a + j /\ all[i] = start[j]
             \/ \E k \in 1 .. n : i = m + k /\ all[i] = stores[k]
  <2>1. CASE i <= a
    <3>1. i \in 1 .. a /\ i \in 1 .. m
      BY <1>3, <1>4, <1>5, <2>1
    <3> QED BY <1>4, <1>5, <3>1
  <2>2. CASE i > a /\ i <= m
    <3>1. PICK j : j = i - a
      OBVIOUS
    <3>2. j \in 1 .. b /\ i = a + j /\ i \in 1 .. m
      BY <1>3, <1>4, <1>5, <2>2, <3>1
    <3> QED BY <1>4, <1>5, <3>2
  <2>3. CASE i > m
    <3>1. PICK k : k = i - m
      OBVIOUS
    <3>2. k \in 1 .. n /\ i = m + k
      BY <1>4, <1>5, <2>3, <3>1
    <3> QED BY <1>5, <3>2
  <2> QED BY <1>3, <1>4, <1>5, <2>1, <2>2, <2>3
<1>9. Stored(all, vs, n, offset, m)
  <2>1. \A k \in 1 .. n : m + k \in DOMAIN all
    BY <1>4, <1>5
  <2>2. ASSUME NEW i \in DOMAIN all, all[i].op = "store" PROVE \E k \in 1 .. n : i = m + k
    <3>1. CASE i \in 1 .. a /\ all[i] = code[i]
      BY <1>6, <1>7, <2>2, <3>1
    <3>2. ASSUME NEW j \in 1 .. b, all[i] = start[j] PROVE FALSE
      BY <1>3, <1>7, <2>2, <3>2
    <3>3. \/ i \in 1 .. a /\ all[i] = code[i]
          \/ \E j \in 1 .. b : i = a + j /\ all[i] = start[j]
          \/ \E k \in 1 .. n : i = m + k /\ all[i] = stores[k]
      BY <1>8, <2>2
    <3> QED BY <3>1, <3>2, <3>3
  <2>3. ASSUME NEW k \in 1 .. n
        PROVE  /\ m + k \in DOMAIN all /\ all[m + k].op = "store" /\ all[m + k].index = offset + k - 1
               /\ all[m + k].value = vs[k].value /\ all[m + k].field = vs[k].field
    <3>1. PICK item : item = stores[k]
      OBVIOUS
    <3>2. all[m + k] = item /\ m + k \in DOMAIN all
      BY <1>5, <2>1, <3>1
    <3>3. /\ item.op = "store" /\ item.index = offset + k - 1
          /\ item.value = vs[k].value /\ item.field = vs[k].field
      BY <1>7, <3>1
    <3> QED BY <3>2, <3>3
  <2> QED BY <2>2, <2>3 DEF Stored
<1> QED BY <1>4, <1>9

\* The stores of the initialiser, one for each variable.
LEMMA StoresAre ==
  ASSUME NEW class, IsList(local.variables), NEW n, n = Len(local.variables), NEW offset, offset = Offset(class)
  PROVE  /\ IsList(Stores(class)) /\ Len(Stores(class)) = n /\ n \in Nat
         /\ \A k \in 1 .. n : /\ Stores(class)[k].op = "store" /\ Stores(class)[k].index = offset + k - 1
                              /\ Stores(class)[k].value = local.variables[k].value
                              /\ Stores(class)[k].field = local.variables[k].field
<1> DEFINE item(k) == [op |-> "store", index |-> offset + k - 1, value |-> local.variables[k].value,
                       field |-> local.variables[k].field]
<1>1. n \in Nat /\ DOMAIN local.variables = 1 .. n
  BY ListDomain
<1>2. Stores(class) = [k \in 1 .. n |-> item(k)]
  BY <1>1 DEF Stores
<1>3. \A k : /\ item(k).op = "store" /\ item(k).index = offset + k - 1
             /\ item(k).value = local.variables[k].value /\ item(k).field = local.variables[k].field
  OBVIOUS
<1> HIDE DEF item
<1>4. Stores(class) \in [1 .. n -> {item(k) : k \in 1 .. n}]
  BY <1>2
<1>5. Stores(class) \in Seq({item(k) : k \in 1 .. n}) /\ Len(Stores(class)) = n
  BY <1>1, <1>4, <1>2
<1>6. \A k \in 1 .. n : Stores(class)[k] = item(k)
  BY <1>2
<1>7. IsList(Stores(class))
  BY <1>5 DEF IsList
<1> QED BY <1>1, <1>3, <1>5, <1>6, <1>7

\* A call of the initialiser of the super class, if there is one.
LEMMA InitSuperIs ==
  ASSUME NEW class
  PROVE  /\ IsList(InitSuper(class))
         /\ \A i \in 1 .. Len(InitSuper(class)) : InitSuper(class)[i].op = "init"
<1>1. PICK item : item = [op |-> "init", class |-> class.super, handle |-> local.region, passed |-> FALSE]
  OBVIOUS
<1>2. item.op = "init"
  BY <1>1
<1>3. PICK s : s = InitSuper(class)
  OBVIOUS
<1>4. CASE class.super = 0
  <2>1. s = << >>
    BY <1>3, <1>4 DEF InitSuper
  <2>2. IsList(s) /\ Len(s) = 0
    BY <2>1, EmptyList
  <2> QED BY <1>3, <1>4, <2>2
<1>5. CASE class.super # 0
  <2>1. s = <<item>>
    BY <1>1, <1>3, <1>5 DEF InitSuper
  <2>2. s \in Seq({item}) /\ Len(s) = 1 /\ s[1] = item
    BY <2>1
  <2>3. IsList(s)
    BY <2>2 DEF IsList
  <2> QED BY <1>2, <1>3, <2>2, <2>3
<1> QED BY <1>4, <1>5

\* The slots of a class, one for each variable behind that of the super class.
LEMMA SlotsAre ==
  ASSUME NEW vs, IsList(vs), NEW n, n = Len(vs), NEW offset \in {0, 1},
         NEW slots, slots = SlotsOf(vs, offset)
  PROVE  n \in Nat /\ Len(slots) = offset + n /\ \A k \in 1 .. n : slots[offset + k] = vs[k].value.width
<1>1. n \in Nat /\ DOMAIN vs = 1 .. n
  BY ListDomain
<1>2. PICK s, t : s = [k \in 1 .. offset |-> 0] /\ t = [k \in 1 .. n |-> vs[k].value.width]
  OBVIOUS
<1>3. IsList(s) /\ Len(s) = offset
  <2>1. s \in [1 .. offset -> {0}] /\ offset \in Nat
    BY <1>2
  <2>2. s \in Seq({0}) /\ Len(s) = offset
    BY <1>2, <2>1
  <2> QED BY <2>2 DEF IsList
<1>4. \A k \in 1 .. n : t[k] = vs[k].value.width
  BY <1>2
<1>5. IsList(t) /\ Len(t) = n
  <2>1. t \in [1 .. n -> {vs[k].value.width : k \in 1 .. n}]
    BY <1>2
  <2>2. t \in Seq({vs[k].value.width : k \in 1 .. n}) /\ Len(t) = n
    BY <1>1, <1>2, <2>1
  <2>3. IsList(t)
    BY <2>2 DEF IsList
  <2> QED BY <2>2, <2>3
<1>6. slots = s \o t
  BY <1>1, <1>2 DEF SlotsOf
<1>7. /\ Len(s \o t) = Len(s) + Len(t) /\ \A i \in 1 .. Len(t) : (s \o t)[Len(s) + i] = t[i]
  <2>1. IsList(s) /\ IsList(t)
    BY <1>3, <1>5
  <2> QED BY <2>1, ConcatenatedList
<1> QED BY <1>1, <1>3, <1>5, <1>6, <1>7, <1>4

\* The child of a name is the last variable of that name.
LEMMA ChildrenAre ==
  ASSUME NEW class, IsList(local.variables), NEW n, n = Len(local.variables), NEW offset, offset = Offset(class), NEW name
  PROVE  IF NamedIn(local.variables, n, name) = {} THEN name \notin DOMAIN Children(class)
         ELSE /\ name \in DOMAIN Children(class)
              /\ Children(class)[name].index = offset + Latest(NamedIn(local.variables, n, name)) - 1
              /\ Children(class)[name].type = local.variables[Latest(NamedIn(local.variables, n, name))].value.type
<1>1. n \in Nat /\ DOMAIN local.variables = 1 .. n
  BY ListDomain
<1>2. \A m : {j \in DOMAIN local.variables : local.variables[j].name = m} = NamedIn(local.variables, n, m)
  BY <1>1 DEF NamedIn
<1> DEFINE child(m) == [index |-> offset + Latest(NamedIn(local.variables, n, m)) - 1,
                        type |-> local.variables[Latest(NamedIn(local.variables, n, m))].value.type]
<1>3. Children(class) = [m \in VariableNames |-> child(m)]
  BY <1>2 DEF Children
<1>4. \A m : /\ child(m).index = offset + Latest(NamedIn(local.variables, n, m)) - 1
             /\ child(m).type = local.variables[Latest(NamedIn(local.variables, n, m))].value.type
  OBVIOUS
<1>5. name \in VariableNames <=> NamedIn(local.variables, n, name) # {}
  BY <1>1 DEF VariableNames, NamedIn
<1> HIDE DEF child
<1> QED BY <1>3, <1>4, <1>5

\* The variables of a class whose fields are all there.
LEMMA VariablesAre ==
  ASSUME GenState, InClass, ~local.laidOut, local.todo = {}, NEW vs, vs = local.variables, NEW n, n = Len(vs), NEW c, c = Class
  PROVE  /\ \A k \in 1 .. n : /\ vs[k].field \in Places(MembersOf(c), "field")
                              /\ vs[k].name = MembersOf(c)[vs[k].field].name /\ FieldOK(c, vs[k].field, vs[k].value)
         /\ \A i, j \in 1 .. n : i < j => vs[i].field < vs[j].field
         /\ \A f \in Places(MembersOf(c), "field") : \E k \in 1 .. n : vs[k].field = f
<1>1. Known(c, "field") = Places(MembersOf(c), "field")
  <2>1. Ahead(c, "field") = {}
    BY DEF Ahead
  <2> QED BY <2>1 DEF Known
<1> QED BY <1>1, ZenonT(30) DEF GenState, GenInv, VariablesInv

\* The class as LayOut leaves it.
LEMMA LaidOutClass ==
  ASSUME GenState, HandlesInv', LayOut, NEW c, c = Class, NEW class, class = classTypes[c]
  PROVE  /\ IsList(classTypes') /\ Class' = c /\ \A k \in 1 .. c : k # c => classTypes'[k] = classTypes[k]
         /\ classTypes'[c] = [super |-> class.super, children |-> Children(class), functions |-> class.functions,
                              slots |-> SlotsOf(local.variables, Offset(class)), init |-> class.init]
         /\ \A k \in 1 .. c : k # c => k < c
<1>1. c \in Nat /\ c > 0 /\ c \in 1 .. c /\ IsList(classTypes) /\ Len(classTypes) = c /\ DOMAIN classTypes = 1 .. c
  <2>1. c \in Nat /\ c > 0 /\ IsList(classTypes) /\ Len(classTypes) = c /\ DOMAIN classTypes = 1 .. c
    BY StateIs DEF GenState, ModuleInv, Phase, Class, LayOut, InClass
  <2> QED BY <2>1
<1>2. PICK children, slots : children = Children(class) /\ slots = SlotsOf(local.variables, Offset(class))
  OBVIOUS
<1>3. classTypes' = [classTypes EXCEPT ![c].children = children, ![c].slots = slots]
  BY <1>2 DEF LayOut, SlotsOf
<1>4. PICK e : e = [class EXCEPT !.children = children, !.slots = slots]
  OBVIOUS
<1>5. classTypes' = [classTypes EXCEPT ![c] = e]
  BY <1>1, <1>3, <1>4
<1>6. IsList(classTypes') /\ Class' = c
  BY <1>1, <1>5, ChangedList DEF Class
<1>7. class = [super |-> class.super, children |-> class.children, functions |-> class.functions,
               slots |-> class.slots, init |-> class.init]
  BY <1>1 DEF GenState, GenInv, SupersInv
<1>8. e = [super |-> class.super, children |-> children, functions |-> class.functions, slots |-> slots, init |-> class.init]
  BY <1>4, <1>7
<1>9. classTypes'[c] = e /\ \A k \in 1 .. c : k # c => classTypes'[k] = classTypes[k]
  BY <1>1, <1>5
<1> QED BY <1>1, <1>2, <1>6, <1>8, <1>9

\* What LayOut makes from the variables.
LEMMA LayOutMakes ==
  ASSUME GenState, HandlesInv', LayOut, NEW c, c = Class, NEW n, n = Len(local.variables),
         NEW offset, offset = Offset(classTypes[c])
  PROVE  Made(c, local.variables, n, offset)'
<1>1. PICK vs, class, r, code, start, stores, all :
        /\ vs = local.variables /\ class = classTypes[c] /\ r = local.region /\ code = module[r].code
        /\ start = InitSuper(class) /\ stores = Stores(class) /\ all = Whole(code, start, stores)
  OBVIOUS
<1>2. /\ InClass /\ ~local.laidOut /\ local.todo = {} /\ UNCHANGED <<classes, functions>> /\ IsList(vs) /\ IsList(local.variables)
      /\ local'.variables = vs /\ r \in 1 .. Len(module)
  <2>1. InClass /\ ~local.laidOut /\ local.todo = {} /\ UNCHANGED <<classes, functions>> /\ LocalOK
    BY DEF LayOut, InClass, GenState, HandlesInv
  <2>2. local'.variables = local.variables
    BY <2>1 DEF LayOut, LocalOK
  <2> QED BY <1>1, <2>1, <2>2 DEF LocalOK
<1>3. /\ \A k \in 1 .. n : /\ vs[k].field \in Places(MembersOf(c), "field")
                           /\ vs[k].name = MembersOf(c)[vs[k].field].name /\ FieldOK(c, vs[k].field, vs[k].value)
      /\ \A i, j \in 1 .. n : i < j => vs[i].field < vs[j].field
      /\ \A f \in Places(MembersOf(c), "field") : \E k \in 1 .. n : vs[k].field = f
  BY <1>1, <1>2, VariablesAre
<1>4. /\ classTypes'[c] = [super |-> class.super, children |-> Children(class), functions |-> class.functions,
                           slots |-> SlotsOf(vs, Offset(class)), init |-> class.init]
  BY <1>1, LaidOutClass
<1>5. PICK a, b, d, e, i : /\ a = class.super /\ b = Children(class) /\ d = class.functions
                           /\ e = SlotsOf(vs, offset) /\ i = class.init
  OBVIOUS
<1>6. /\ classTypes'[c].super = a /\ classTypes'[c].children = b /\ classTypes'[c].slots = e /\ classTypes'[c].init = i
  BY <1>1, <1>4, <1>5
<1>7. c \in 1 .. Len(classes') /\ n \in Nat /\ offset \in {0, 1} /\ Offset(classTypes[c])' = offset
  <2>1. c \in Nat /\ c > 0 /\ c <= Len(classes) /\ Len(classes) \in Nat
    BY <1>2, StateIs
  <2>2. n \in Nat
    BY <1>2, ListDomain
  <2>3. offset \in {0, 1}
    BY DEF Offset
  <2>4. Offset(classTypes[c])' = offset
    BY <1>1, <1>5, <1>6 DEF Offset
  <2> QED BY <1>2, <2>1, <2>2, <2>3, <2>4
<1>8. Len(e) = offset + n /\ \A k \in 1 .. n : e[offset + k] = vs[k].value.width
  <2>1. IsList(vs) /\ n = Len(vs) /\ offset \in {0, 1} /\ e = SlotsOf(vs, offset)
    BY <1>1, <1>2, <1>5, <1>7
  <2> QED BY <2>1, SlotsAre
<1>9. \A name : IF NamedIn(vs, n, name) = {} THEN name \notin DOMAIN b
               ELSE /\ name \in DOMAIN b
                    /\ b[name].index = offset + Latest(NamedIn(vs, n, name)) - 1
                    /\ b[name].type = vs[Latest(NamedIn(vs, n, name))].value.type
  <2> TAKE name
  <2>1. IF NamedIn(local.variables, n, name) = {} THEN name \notin DOMAIN Children(class)
        ELSE /\ name \in DOMAIN Children(class)
             /\ Children(class)[name].index = offset + Latest(NamedIn(local.variables, n, name)) - 1
             /\ Children(class)[name].type = local.variables[Latest(NamedIn(local.variables, n, name))].value.type
    BY <1>1, <1>2, ChildrenAre
  <2> QED BY <1>1, <1>5, <2>1
<1>10. i = r /\ module'[r].code = all
  <2>1. i = r
    <3>1. local.region = classTypes[Class].init
      BY <1>2 DEF GenState, GenInv, SupersInv
    <3> QED BY <1>1, <1>5, <3>1
  <2>2. module' = [module EXCEPT ![r].code = all]
    BY <1>1 DEF LayOut, Whole
  <2> QED BY <1>2, <2>1, <2>2, EmittedAt
<1>11. \E m \in Nat : Stored(all, vs, n, offset, m)
  <2>1. IsList(code) /\ \A j \in DOMAIN code : code[j].op \notin {"store", "init"}
    <3>1. IsList(code)
      BY <1>1, <1>2 DEF GenState, HandlesInv, IsModule, IsFunction, IsCode
    <3>2. ~LaidOut(c) /\ c \in 1 .. Class
      <4>1. c \in Nat /\ c > 0
        BY <1>2, StateIs
      <4> QED BY <1>2, <4>1 DEF LaidOut
    <3>3. code = InitCode(c)
      BY <1>1, <1>5, <1>10 DEF InitCode
    <3> QED BY <3>1, <3>2, <3>3 DEF GenState, GenInv, LayoutInv
  <2>2. IsList(start) /\ \A j \in 1 .. Len(start) : start[j].op = "init"
    BY <1>1, <1>5, InitSuperIs
  <2>3. /\ IsList(stores) /\ Len(stores) = n
        /\ \A k \in 1 .. n : /\ stores[k].op = "store" /\ stores[k].index = offset + k - 1
                             /\ stores[k].value = vs[k].value /\ stores[k].field = vs[k].field
    BY <1>1, <1>2, StoresAre
  <2>4. Parts(code, start, stores, vs, n, offset)
    BY <2>1, <2>2, <2>3 DEF Parts
  <2>5. all = Whole(code, start, stores)
    BY <1>1
  <2> QED BY <2>4, <2>5, LaidCode
<1>12. InitCode(c)' = all
  BY <1>6, <1>10 DEF InitCode
<1>13. MembersOf(c)' = MembersOf(c) /\ \A k, j, v : FieldOK(k, j, v)' = FieldOK(k, j, v)
  BY <1>2, ReturnKept DEF MembersOf
<1>14. \A k \in 1 .. n : /\ vs[k].field \in Places(MembersOf(c), "field")'
                         /\ vs[k].name = MembersOf(c)'[vs[k].field].name /\ FieldOK(c, vs[k].field, vs[k].value)'
  <2> TAKE k \in 1 .. n
  <2>1. PICK f, v : f = vs[k].field /\ v = vs[k].value
    OBVIOUS
  <2>2. FieldOK(c, f, v)'
    BY <1>3, <1>13, <2>1
  <2>3. FieldOK(c, vs[k].field, vs[k].value)'
    BY <2>1, <2>2
  <2> QED BY <1>3, <1>13, <2>3 DEF Places
<1>15. \A f \in Places(MembersOf(c), "field")' : \E k \in 1 .. n : vs[k].field = f
  BY <1>3, <1>13 DEF Places
<1>16. Made(c, vs, n, offset)'
  BY <1>3, <1>6, <1>7, <1>8, <1>9, <1>11, <1>12, <1>14, <1>15 DEF Made
<1> QED BY <1>2, <1>16

\* A class is laid out.
LEMMA LayOutKeeps ==
  ASSUME GenState, HandlesInv', LayOut
  PROVE  GenInv'
<1>1. PICK c, n, offset, class, r, P, slots, children : /\ c = Class /\ n = Len(local.variables) /\ class = classTypes[c] /\ offset = Offset(class)
                           /\ r = local.region /\ P = Places(MembersOf(c), "fn")
                           /\ slots = SlotsOf(local.variables, Offset(class)) /\ children = Children(class)
  OBVIOUS
<1>2. /\ InClass /\ local # Absent /\ ~local.laidOut /\ local.todo = {} /\ UNCHANGED <<classes, functions, global, body>>
      /\ LocalOK
  BY DEF LayOut, InClass, GenState, HandlesInv
<1>3. /\ IsList(classTypes') /\ Class' = c /\ \A k \in 1 .. c : k # c => classTypes'[k] = classTypes[k]
      /\ classTypes'[c] = [super |-> class.super, children |-> children, functions |-> class.functions,
                           slots |-> slots, init |-> class.init]
      /\ \A k \in 1 .. c : k # c => k < c
  BY <1>1, LaidOutClass
<1>4. /\ local' = [values |-> local.values, variables |-> local.variables, region |-> local.region,
                   laidOut |-> TRUE, todo |-> P]
  BY <1>1, <1>2 DEF LayOut, LocalOK, Node, MembersOf
<1>5. /\ local' # Absent /\ local'.values = local.values /\ local'.variables = local.variables /\ local'.region = local.region
      /\ local'.laidOut = TRUE /\ local'.todo = P /\ InClass'
  BY <1>4 DEF Absent, InClass
<1>6. PICK more : module' = [module EXCEPT ![r].code = more] /\ r \in 1 .. Len(module)
  BY <1>1, <1>2 DEF LayOut, LocalOK
<1>7. /\ Len(module') = Len(module) /\ \A k \in 1 .. Len(module) : module'[k].decl = module[k].decl
      /\ \A k \in 1 .. Len(module) : k # r => module'[k].code = module[k].code
  BY <1>6, EmittedAt
<1>8. /\ Kept /\ Stable /\ c \in Nat /\ c > 0 /\ c \in 1 .. c /\ r = classTypes[c].init
      /\ \A k \in 1 .. c : k # c => LaidOut(k) /\ LaidOut(k)'
      /\ \A id \in 1 .. Len(module) : module[id].decl[2] > 0 => module'[id].code = module[id].code
  <2>1. \A k \in 1 .. Len(classTypes) : k # c => classTypes'[k] = classTypes[k]
    BY <1>1, <1>3 DEF Class
  <2> QED BY <1>1, <1>2, <1>3, <1>7, <2>1, EmittedStable
<1>9. Done = 0 /\ Done' = 0 /\ ClassesDone' = ClassesDone /\ FunctionsDone' = FunctionsDone
  <2>1. Done = 0
    BY <1>2, StateIs
  <2>2. Done' = Done
    BY <1>2, <1>6, EmittedStep DEF GenState
  <2> QED BY <1>1, <1>2, <1>3, <1>5, <2>1, <2>2 DEF ClassesDone, FunctionsDone
<1>10. body = Absent /\ body' = Absent
  BY <1>2 DEF GenState, GenInv, TodoInv
<1>11. /\ classTypes'[c].super = class.super /\ classTypes'[c].functions = class.functions /\ classTypes'[c].init = class.init
       /\ classTypes'[c] = [super |-> classTypes'[c].super, children |-> classTypes'[c].children,
                            functions |-> classTypes'[c].functions, slots |-> classTypes'[c].slots,
                            init |-> classTypes'[c].init]
  BY <1>3
<1>12. SupersInv'
  <2>1. SupersInv
    BY DEF GenState, GenInv
  <2>2. \A k : SuperOf(k)' = SuperOf(k)
    BY <1>2 DEF SuperOf, ClassNamed
  <2>3. ASSUME NEW k \in 1 .. c
        PROVE  /\ classTypes'[k] = [super |-> classTypes'[k].super, children |-> classTypes'[k].children,
                                    functions |-> classTypes'[k].functions,
                                    slots |-> classTypes'[k].slots, init |-> classTypes'[k].init]
               /\ classTypes'[k].super = classTypes[k].super /\ classTypes'[k].init = classTypes[k].init
    <3>1. CASE k = c
      BY <1>1, <1>11, <3>1
    <3>2. CASE k # c
      <4>1. classTypes'[k] = classTypes[k]
        BY <1>3, <3>2
      <4>2. classTypes[k] = [super |-> classTypes[k].super, children |-> classTypes[k].children,
                             functions |-> classTypes[k].functions,
                             slots |-> classTypes[k].slots, init |-> classTypes[k].init]
        BY <1>1, <2>1 DEF SupersInv
      <4> QED BY <4>1, <4>2
    <3> QED BY <3>1, <3>2
  <2>4. ASSUME NEW k \in 1 .. c
        PROVE  /\ classTypes'[k].super = SuperOf(k)' /\ (classes'[k].super # None => classTypes'[k].super # 0)
               /\ classTypes'[k].init \in 1 .. Len(module') /\ module'[classTypes'[k].init].decl = <<k, 0>>
    <3>1. PICK init, super : init = classTypes[k].init /\ super = classTypes[k].super
      OBVIOUS
    <3>2. /\ super = SuperOf(k) /\ (classes[k].super # None => super # 0)
          /\ init \in 1 .. Len(module) /\ module[init].decl = <<k, 0>>
      BY <1>1, <2>1, <3>1 DEF SupersInv
    <3>3. classTypes'[k].super = super /\ classTypes'[k].init = init
      BY <2>3, <3>1
    <3> QED BY <1>2, <1>7, <2>2, <3>2, <3>3
  <2>5. Class' <= Len(classes')
    BY <1>1, <1>2, <1>3, StateIs
  <2>6. Class' > 0 /\ local'.region = classTypes'[Class'].init
    BY <1>1, <1>3, <1>5, <1>8, <1>11
  <2> QED BY <1>3, <2>3, <2>4, <2>5, <2>6 DEF SupersInv
<1>13. TypesInv' /\ ValuesInv'
  BY <1>2, <1>8, <1>9, TypesFrame, ValuesFrame DEF GenState, GenInv
<1>14. \A k, kind : Places(MembersOf(k), kind)' = Places(MembersOf(k), kind) /\ MembersOf(k)' = MembersOf(k)
  BY <1>2 DEF Places, MembersOf
<1>15. TodoInv'
  <2>1. Places(MembersOf(Class), "fn")' = P
    <3>1. (\A i : i = Class => Places(MembersOf(Class), "fn") = Places(MembersOf(i), "fn"))'
      OBVIOUS
    <3>2. Places(MembersOf(Class), "fn")' = Places(MembersOf(c), "fn")'
      BY <1>3, <3>1
    <3> QED BY <1>1, <1>14, <3>2
  <2> QED BY <1>5, <1>9, <1>10, <2>1 DEF TodoInv
<1>16. \A k : \A kind \in {"fn", "field"} : Ahead(k, kind)' = Ahead(k, kind)
  <2> TAKE k
  <2> TAKE kind \in {"fn", "field"}
  <2>1. CASE k # c
    BY <1>1, <1>3, <2>1 DEF Ahead
  <2>2. CASE k = c /\ kind = "fn"
    BY <1>1, <1>2, <1>3, <1>5, <2>2 DEF Ahead
  <2>3. CASE k = c /\ kind = "field"
    BY <1>1, <1>2, <1>3, <1>5, <2>3 DEF Ahead
  <2> QED BY <2>1, <2>2, <2>3
<1>17. VariablesInv'
  <2>1. Ahead(Class, "field")' = Ahead(Class, "field")
    <3>1. (\A i : i = Class => Ahead(Class, "field") = Ahead(i, "field"))'
      OBVIOUS
    <3> QED BY <1>1, <1>3, <1>16, <3>1
  <2> QED BY <1>1, <1>2, <1>3, <1>5, <2>1, VariablesFrame DEF GenState, GenInv
<1>18. MethodsInv'
  <2>1. \A w, decl : FunctionOK(w, decl) => FunctionOK(w, decl)'
    BY <1>8, FunctionKept
  <2>2. \A k \in 1 .. c : classTypes'[k].functions = classTypes[k].functions
    BY <1>1, <1>3, <1>11
  <2>3. ASSUME NEW k \in 1 .. c, NEW name, NEW known, known = KnownOf(k, "fn", name)'
        PROVE  IF known = {} THEN name \notin DOMAIN classTypes'[k].functions
               ELSE /\ name \in DOMAIN classTypes'[k].functions
                    /\ FunctionOK(classTypes[k].functions[name], <<k, Latest(known)>>)'
    <3>1. PICK w : w = classTypes[k].functions[name]
      OBVIOUS
    <3>2. known = KnownOf(k, "fn", name)
      BY <1>14, <1>16, <2>3 DEF KnownOf, Known
    <3>3. IF known = {} THEN name \notin DOMAIN classTypes[k].functions
          ELSE name \in DOMAIN classTypes[k].functions /\ FunctionOK(w, <<k, Latest(known)>>)
      BY <1>1, <3>1, <3>2 DEF GenState, GenInv, MethodsInv
    <3>4. known # {} => FunctionOK(w, <<k, Latest(known)>>)'
      BY <2>1, <3>3
    <3>5. classTypes'[k].functions[name] = w
      BY <2>2, <3>1
    <3> QED BY <2>2, <3>3, <3>4, <3>5
  <2>4. local'.values = classTypes'[Class'].functions
    <3>1. local.values = classTypes[Class].functions
      BY <1>2 DEF GenState, GenInv, MethodsInv
    <3> QED BY <1>1, <1>3, <1>5, <1>11, <3>1
  <2> QED BY <1>3, <2>3, <2>4 DEF MethodsInv
<1>19. LayoutInv'
  <2>1. LayoutInv /\ ProgramOK
    BY DEF GenState, GenInv
  <2>2. ASSUME NEW i \in 1 .. c, i # c PROVE LayoutOK(i)'
    <3>1. i \in 1 .. Class /\ LaidOut(i) /\ LayoutOK(i)
      BY <1>1, <1>8, <2>1, <2>2 DEF LayoutInv
    <3> QED BY <1>8, <3>1, LayoutKept
  <2>3. LayoutOK(c)'
    <3>1. Made(c, local.variables, n, offset)'
      BY <1>1, LayOutMakes
    <3>2. ProgramOK'
      BY <1>2, <2>1 DEF ProgramOK
    <3>3. PICK vs : vs = local'.variables
      OBVIOUS
    <3>4. Made(c, vs, n, offset)'
      BY <3>1, <3>3
    <3> QED BY <3>2, <3>4, LayoutMade, PTL
  <2>4. \A k : LaidOut(k)'
    BY <1>5 DEF LaidOut
  <2> QED BY <1>3, <2>2, <2>3, <2>4 DEF LayoutInv
<1>20. BodiesInv' /\ BodyInv'
  <2>1. \A id \in 1 .. Len(module') : module'[id].decl[2] > 0 =>
          id \in 1 .. Len(module) /\ module'[id].code = module[id].code
    BY <1>7, <1>8
  <2>2. \A id : ~InBody(id)
    BY <1>10 DEF InBody
  <2> QED BY <1>8, <1>10, <1>12, <2>1, <2>2, BodiesFrame DEF BodyInv, GenState, GenInv
<1>21. MembersAccepted'
  <2>1. \A k \in 1 .. c : k \in 1 .. Class /\ Class \in Nat /\ Class <= Len(classes)
    BY <1>1, StateIs
  <2>2. ASSUME NEW k \in 1 .. c
        PROVE  /\ \A j \in Known(k, "field")' : FieldAccepted(<<k, j>>)'
               /\ \A j \in Known(k, "fn")' : BodyAccepted(<<k, j>>)'
    BY <1>2, <1>16, <2>1, MembersFrame DEF GenState, GenInv
  <2> QED BY <1>3, <2>2 DEF MembersAccepted
<1>22. FunctionsAccepted'
  <2>1. FunctionsDone \in Nat /\ FunctionsDone <= Len(functions)
    BY StateIs, DoneBound
  <2> QED BY <1>2, <1>9, <2>1, FunctionsFrame DEF GenState, GenInv
<1> QED BY <1>12, <1>13, <1>15, <1>17, <1>18, <1>19, <1>20, <1>21, <1>22 DEF GenInv

\* The value of the constructor of class c.
IsConstructor(v, id, c) == v = FunctionValue(id, ClassType(c, "fn_default"), FALSE)

\* The value of a constructor.
LEMMA ConstructorIs ==
  ASSUME NEW c \in Nat, c > 0, NEW id, NEW v, IsConstructor(v, id, c)
  PROVE  CallFits(v.type, "function", <<c, 0>>) /\ v.width = 0 /\ v.code = [op |-> "fn", fn |-> id]
<1>1. PICK ret : ret = ClassType(c, "fn_default")
  OBVIOUS
<1>2. PICK type : type = [kind |-> "function", ret |-> ret, native |-> FALSE]
  OBVIOUS
<1>3. PICK code : code = [op |-> "fn", fn |-> id]
  OBVIOUS
<1>4. v = [type |-> type, width |-> 0, code |-> code]
  BY <1>1, <1>2, <1>3 DEF IsConstructor, FunctionValue, Pointer
<1>5. v.type = type /\ v.width = 0 /\ v.code = code
  BY <1>4
<1>6. PICK d : d = <<c, 0>>
  OBVIOUS
<1>7. d[1] = c /\ d[2] = 0 /\ d # <<0, -1>>
  BY <1>6
<1>8. d # << >>
  BY <1>6
<1>9. ResultClass(d) = c
  BY <1>7, <1>8 DEF ResultClass
<1>10. ret.region = "fn_default" /\ ret = ClassType(c, ret.region)
  BY <1>1 DEF ClassType
<1>11. ReturnFits(ret, d)
  BY <1>9, <1>10 DEF ReturnFits
<1>12. type.kind = "function" /\ type.ret = ret /\ type.native = FALSE
  BY <1>2
<1> QED BY <1>3, <1>5, <1>6, <1>7, <1>11, <1>12 DEF CallFits

\* A class is complete, and found by its name.
LEMMA EndClassKeeps ==
  ASSUME GenState, HandlesInv', EndClass
  PROVE  GenInv'
<1>1. PICK c, id, b, name, old :
        c = Class /\ id = Len(module) + 1 /\ b = c - 1 /\ name = classes[c].name /\ old = global.values
  OBVIOUS
<1>2. /\ InClass /\ local.laidOut /\ local.todo = {} /\ local' = Absent
      /\ UNCHANGED <<classes, functions, classTypes, body>>
  BY DEF EndClass, InClass
<1>3. /\ c \in Nat /\ c > 0 /\ c <= Len(classes) /\ Len(classes) \in Nat /\ b \in Nat /\ c = b + 1
      /\ ClassesDone = b /\ FunctionsDone = 0 /\ Done = 0
  <2>1. /\ c \in Nat /\ c > 0 /\ c <= Len(classes) /\ Len(classes) \in Nat
        /\ ClassesDone = b /\ FunctionsDone = 0 /\ Done = 0
    BY <1>1, <1>2, StateIs
  <2> QED BY <1>1, <2>1
<1>4. body = Absent /\ body' = Absent
  BY <1>2 DEF GenState, GenInv, TodoInv
<1>5. PICK v : IsConstructor(v, id, c)
  BY DEF IsConstructor
<1>6. PICK f : f = [name |-> None, decl |-> <<c, 0>>, code |-> Constructor(id)]
  OBVIOUS
<1>7. module' = Append(module, f)
  BY <1>1, <1>6 DEF EndClass
<1>8. global'.values = Put(old, name, v) /\ global'.types = Put(global.types, name, c)
  <2>1. global' = [values |-> Put(old, name, v), types |-> Put(global.types, name, c), region |-> id]
    BY <1>1, <1>5 DEF EndClass, Node, IsConstructor
  <2> QED BY <2>1
<1>9. /\ Len(module) \in Nat /\ Len(module') = id /\ (\A k \in 1 .. Len(module) : module'[k] = module[k])
      /\ module'[id] = f
  BY <1>1, <1>7, AddedFunction DEF GenState
<1>10. f.decl = <<c, 0>> /\ f.decl[1] = c /\ f.decl[2] = 0
  BY <1>6
<1>11. Class' = c /\ ~InClass' /\ \A k : LaidOut(k) /\ LaidOut(k)'
  <2>1. ~InClass'
    BY <1>2 DEF InClass
  <2> QED BY <1>1, <1>2, <2>1 DEF Class, LaidOut
<1>12. Kept
  <2>1. Len(module) <= id /\ id \in Nat
    BY <1>1, <1>9
  <2> QED BY <1>2, <1>9, <2>1 DEF Kept
<1>13. Stable
  <2>1. \A k \in 1 .. c : classTypes[k].init \in 1 .. Len(module)
    BY <1>1 DEF GenState, GenInv, SupersInv
  <2>2. ASSUME NEW k \in 1 .. c PROVE module'[classTypes[k].init].code = module[classTypes[k].init].code
    BY <1>9, <2>1
  <2> QED BY <1>1, <1>2, <1>3, <1>11, <1>12, <2>2 DEF Stable
<1>14. Done' = 0
  <2>1. IsDecl(f.decl)
    BY <1>3, <1>10 DEF IsDecl
  <2>2. f.decl[1] > 0 /\ f.decl[1] # 0
    BY <1>3, <1>10
  <2> QED BY <1>3, <1>7, <2>1, <2>2, AddedDone
<1>15. ClassesDone' = c /\ FunctionsDone' = 0
  BY <1>4, <1>11, <1>14 DEF ClassesDone, FunctionsDone
<1>16. SupersInv'
  BY <1>2, <1>12, SupersFrame DEF GenState, GenInv
<1>17. TypesInv'
  <2>1. \A n : ClassNamed(n, c)' = ClassNamed(n, c)
    BY <1>2, ProgramKept
  <2>2. ASSUME NEW n, NEW k, k = ClassNamed(n, c)
        PROVE  IF k = 0 THEN n \notin DOMAIN global'.types ELSE n \in DOMAIN global'.types /\ global'.types[n] = k
    <3>1. PICK o, j : o = global.types /\ j = ClassNamed(n, b)
      OBVIOUS
    <3>2. IF j = 0 THEN n \notin DOMAIN o ELSE n \in DOMAIN o /\ o[n] = j
      BY <1>3, <3>1 DEF GenState, GenInv, TypesInv
    <3>3. k = IF name = n THEN c ELSE j
      BY <1>1, <1>3, <2>2, <3>1, NextNamed
    <3>4. CASE name = n
      <4>1. n \in DOMAIN Put(o, name, c) /\ Put(o, name, c)[n] = c
        BY <3>4 DEF Put
      <4> QED BY <1>3, <1>8, <3>1, <3>3, <3>4, <4>1
    <3>5. CASE name # n
      <4>1. PICK p : p = Put(o, name, c)
        OBVIOUS
      <4>2. (n \in DOMAIN p <=> n \in DOMAIN o) /\ (n \in DOMAIN o => p[n] = o[n])
        BY <3>5, <4>1 DEF Put
      <4> QED BY <1>8, <3>1, <3>2, <3>3, <3>5, <4>1, <4>2
    <3> QED BY <3>4, <3>5
  <2>3. ASSUME NEW n
        PROVE  (IF ClassNamed(n, ClassesDone) = 0 THEN n \notin DOMAIN global.types
                ELSE n \in DOMAIN global.types /\ global.types[n] = ClassNamed(n, ClassesDone))'
    <3>1. PICK k : k = ClassNamed(n, c)
      OBVIOUS
    <3>2. ClassNamed(n, ClassesDone)' = k
      <4>1. (ClassesDone = c => ClassNamed(n, ClassesDone) = ClassNamed(n, c))'
        OBVIOUS
      <4> QED BY <1>15, <2>1, <3>1, <4>1
    <3> QED BY <2>2, <3>1, <3>2
  <2> QED BY <2>3 DEF TypesInv
<1>18. FunctionOK(v, <<c, 0>>)'
  <2>1. CallFits(v.type, "function", <<c, 0>>) /\ v.width = 0 /\ v.code = [op |-> "fn", fn |-> id]
    BY <1>3, <1>5, ConstructorIs
  <2>2. PICK type, code : type = v.type /\ code = v.code
    OBVIOUS
  <2>3. CallFits(type, "function", <<c, 0>>)'
    BY <1>2, <2>1, <2>2, ReturnKept
  <2>4. code.op = "fn" /\ code.fn = id
    BY <2>1, <2>2
  <2>5. id \in 1 .. Len(module')
    BY <1>1, <1>9
  <2>6. IsFn(code, <<c, 0>>)'
    BY <1>9, <1>10, <2>4, <2>5 DEF IsFn
  <2> QED BY <2>1, <2>2, <2>3, <2>6 DEF FunctionOK
<1>19. ValuesInv'
  <2>1. \A n, k, g : Globally(n, k, g)' = Globally(n, k, g)
    BY <1>2, ProgramKept
  <2>2. \A w, decl : FunctionOK(w, decl) => FunctionOK(w, decl)'
    BY <1>12, FunctionKept
  <2>6. PICK values, d : values = Put(old, name, v) /\ d = <<c, 0>>
    OBVIOUS
  <2>7. d # << >>
    BY <2>6
  <2>3. values = Put(old, name, v) /\ d = <<c, 0>> /\ d # << >>
    BY <2>6, <2>7
  <2>4. ASSUME NEW n, NEW decl, decl = Globally(n, c, 0)
        PROVE  IF decl = << >> THEN n \notin DOMAIN values
               ELSE n \in DOMAIN values /\ FunctionOK(values[n], decl)'
    <3>1. PICK before : before = Globally(n, b, 0)
      OBVIOUS
    <3>2. decl = IF name = n THEN d ELSE before
      BY <1>1, <1>3, <2>3, <2>4, <3>1, NextClass
    <3>3. CASE name = n
      <4>1. n \in DOMAIN values /\ values[n] = v
        BY <2>3, <3>3 DEF Put
      <4>2. FunctionOK(v, d)'
        BY <1>18, <2>3
      <4> QED BY <2>3, <3>2, <3>3, <4>1, <4>2
    <3>4. CASE name # n
      <4>1. (n \in DOMAIN values <=> n \in DOMAIN old) /\ (n \in DOMAIN old => values[n] = old[n])
        BY <2>3, <3>4 DEF Put
      <4>2. IF before = << >> THEN n \notin DOMAIN old ELSE n \in DOMAIN old /\ FunctionOK(old[n], before)
        BY <1>1, <1>3, <3>1 DEF GenState, GenInv, ValuesInv
      <4>3. PICK w : w = old[n]
        OBVIOUS
      <4>4. before # << >> => FunctionOK(w, before)'
        BY <2>2, <4>2, <4>3
      <4> QED BY <3>2, <3>4, <4>1, <4>2, <4>3, <4>4
    <3> QED BY <3>3, <3>4
  <2>5. ASSUME NEW n
        PROVE  (LET decl == Globally(n, ClassesDone, FunctionsDone) IN
                IF decl = << >> THEN n \notin DOMAIN global.values
                ELSE n \in DOMAIN global.values /\ FunctionOK(global.values[n], decl))'
    <3>1. PICK decl, w : decl = Globally(n, c, 0) /\ w = values[n]
      OBVIOUS
    <3>2. Globally(n, ClassesDone, FunctionsDone)' = decl
      <4>1. (ClassesDone = c /\ FunctionsDone = 0 => Globally(n, ClassesDone, FunctionsDone) = Globally(n, c, 0))'
        OBVIOUS
      <4> QED BY <1>15, <2>1, <3>1, <4>1
    <3>3. IF decl = << >> THEN n \notin DOMAIN values ELSE n \in DOMAIN values /\ FunctionOK(w, decl)'
      BY <2>4, <3>1
    <3>4. global'.values = values
      BY <1>8, <2>3
    <3> QED BY <3>1, <3>2, <3>3, <3>4
  <2> QED BY <2>5 DEF ValuesInv
<1>20. TodoInv' /\ BodyInv' /\ VariablesInv'
  BY <1>4, <1>11 DEF TodoInv, BodyInv, VariablesInv
<1>21. \A k : \A kind \in {"fn", "field"} : Ahead(k, kind)' = Ahead(k, kind)
  <2> TAKE k
  <2> TAKE kind \in {"fn", "field"}
  <2>1. Ahead(k, kind)' = {}
    BY <1>11 DEF Ahead
  <2>2. Ahead(k, kind) = {}
    BY <1>2 DEF Ahead
  <2> QED BY <2>1, <2>2
<1>22. MethodsInv'
  BY <1>2, <1>12, <1>21, MethodsFrame DEF GenState, GenInv
<1>23. LayoutInv'
  BY <1>1, <1>11, <1>13, LayoutFrame DEF GenState, GenInv
<1>24. BodiesInv'
  <2>1. ASSUME NEW k \in 1 .. Len(module'), module'[k].decl[2] > 0
        PROVE  k \in 1 .. Len(module) /\ module'[k].code = module[k].code
    <3>1. k # id
      BY <1>9, <1>10, <2>1
    <3>2. k \in 1 .. Len(module)
      BY <1>1, <1>9, <3>1
    <3> QED BY <1>9, <3>2
  <2>2. \A k : ~InBody(k)
    BY <1>4 DEF InBody
  <2> QED BY <1>13, <1>16, <2>1, <2>2, BodiesFrame DEF GenState, GenInv
<1>25. MembersAccepted'
  <2>1. \A k \in 1 .. c : k \in 1 .. Class /\ Class \in Nat /\ Class <= Len(classes)
    BY <1>1, StateIs
  <2>2. ASSUME NEW k \in 1 .. c
        PROVE  /\ \A j \in Known(k, "field")' : FieldAccepted(<<k, j>>)'
               /\ \A j \in Known(k, "fn")' : BodyAccepted(<<k, j>>)'
    BY <1>2, <1>21, <2>1, MembersFrame DEF GenState, GenInv
  <2> QED BY <1>11, <2>2 DEF MembersAccepted
<1>26. FunctionsAccepted'
  BY <1>15 DEF FunctionsAccepted
<1> QED BY <1>16, <1>17, <1>19, <1>20, <1>22, <1>23, <1>24, <1>25, <1>26 DEF GenInv

\* Everything is generated.
AllGenerated == local = Absent /\ body = Absent /\ Class = Len(classes) /\ Done = Len(functions)

\* Codegen goes on, is at its end, or has found what it does not accept.
GenOutcome ==
  /\ outcome \in {"generating", "generated", "aborted", "rejected"}
  /\ outcome = "generated" => AllGenerated
  /\ outcome \in {"aborted", "rejected"} => ~Accepted

\* Codegen leaves the program alone.
LEMMA GenUnchanged == ASSUME GenNext PROVE UNCHANGED <<classes, functions>> /\ outcome = "generating"
BY DEF GenNext, Generating, BeginClass, GenField, LayOut, BeginMethod, EndMethod, EndClass, BeginFunction,
       EndFunction, NextNode, GenName, GenChild, GenCall, BodyDone, Finish, codegenFunction, Generate

\* A step of codegen keeps the invariant.
LEMMA GenNextKeeps ==
  ASSUME GenState, HandlesInv', GenNext
  PROVE  GenInv' /\ GenOutcome'
<1>1. UNCHANGED <<classes, functions>> /\ outcome = "generating"
  BY GenUnchanged
<1>2. HandlesInv /\ ModuleInv /\ ProgramOK
  BY DEF GenState
<1>3. CASE Finish
  <2>1. UNCHANGED <<module, classTypes, global, body, local>>
    BY <1>3 DEF Finish, genVars
  <2>2. GenInv'
    BY <1>1, <2>1, IdleKeeps
  <2>3. AllGenerated /\ outcome' = "generated"
    BY <1>3 DEF Finish, AllGenerated
  <2>4. Class' = Class /\ Done' = Done
    BY <2>1 DEF Class, Done
  <2>5. AllGenerated'
    BY <1>1, <2>1, <2>3, <2>4 DEF AllGenerated
  <2> QED BY <2>2, <2>3, <2>5 DEF GenOutcome
<1>4. CASE ~Finish
  <2>1. outcome' \in {"generating", "aborted", "rejected"}
    BY <1>1, <1>2, <1>4, BeginClassStep, GenFieldStep, LayOutStep, BeginMethodStep, EndMethodStep,
       EndClassStep, BeginFunctionStep, EndFunctionStep, NodeStep DEF GenNext
  <2>2. CASE LayOut \/ EndMethod \/ EndClass \/ EndFunction
    <3>1. GenInv'
      BY <2>2, LayOutKeeps, EndMethodKeeps, EndClassKeeps, EndFunctionKeeps
    <3>2. outcome' = "generating"
      BY <1>1, <2>2 DEF LayOut, EndMethod, EndClass, EndFunction
    <3> QED BY <3>1, <3>2 DEF GenOutcome
  <2>3. CASE BeginClass \/ GenField \/ BeginMethod \/ BeginFunction \/ GenName \/ GenChild \/ GenCall
    <3>1. GenInv' /\ (outcome' # outcome => ~Accepted)
      BY <2>3, BeginClassKeeps, GenFieldKeeps, BeginMethodKeeps, BeginFunctionKeeps, NodesKeep
    <3>2. Accepted' = Accepted
      BY <1>1, <1>2, AcceptedKept
    <3> QED BY <1>1, <2>1, <3>1, <3>2 DEF GenOutcome
  <2> QED BY <1>4, <2>2, <2>3 DEF GenNext
<1> QED BY <1>3, <1>4

(***************************************************************************)
(* What the invariant is for.                                              *)
(***************************************************************************)

\* An integer field is as wide as its type says unless it holds a comparison or
\* what a call returns.
LEMMA GenMistyped == ASSUME GenState PROVE MistypedByComparison
<1> SUFFICES ASSUME NEW k \in CompleteClasses, NEW i \in StoresOf(k), InitCode(k)[i].value.type.kind = "int"
             PROVE  InitCode(k)[i].value.width = StoreWidth(InitCode(k)[i].value.type.bits)
                      <=> classes[k].members[InitCode(k)[i].field].op \notin Comparisons \cup {"call"}
  BY DEF MistypedByComparison
<1>1. k \in 1 .. Class /\ LaidOut(k)
  BY StateIs DEF CompleteClasses, LaidOut, InClass
<1>2. LayoutOK(k)
  BY <1>1 DEF GenState, GenInv, LayoutInv
<1>3. PICK f, v : f = InitCode(k)[i].field /\ v = InitCode(k)[i].value
  OBVIOUS
<1>4. FieldOK(k, f, v)
  BY <1>2, <1>3 DEF LayoutOK
<1> QED BY <1>3, <1>4 DEF FieldOK, MembersOf

\* The fields of a complete class, and of what it inherits from.
LEMMA GenFields == ASSUME GenState PROVE FieldsInitialised
<1> SUFFICES ASSUME NEW k \in CompleteClasses
             PROVE  /\ {InitCode(k)[i].index : i \in StoresOf(k)} = Offset(classTypes[k]) .. Len(classTypes[k].slots) - 1
                    /\ \A i \in StoresOf(k) :
                         /\ InitCode(k)[i].value.width = classTypes[k].slots[InitCode(k)[i].index + 1]
                         /\ \A j \in StoresOf(k) : InitCode(k)[j].index = InitCode(k)[i].index => j = i
                    /\ \A name \in MemberNames : LET decl == AsMember(name, k, 0) IN
                         decl # << >> /\ IsField(decl) => StoredAt(k, Child(k, name).code.path) = decl
  BY DEF FieldsInitialised
<1>1. k \in 1 .. ClassesDone
  <2>1. PICK c, b : c = Class /\ b = ClassesDone /\ c \in Nat /\ b \in Nat /\ (InClass => b = c - 1) /\ (~InClass => b = c)
    BY StateIs
  <2>2. k \in 1 .. c /\ (k < c \/ ~InClass)
    BY <2>1, StateIs DEF CompleteClasses, InClass
  <2> QED BY <2>1, <2>2
<1>2. k \in 1 .. Class /\ LaidOut(k) /\ KnownBefore(k, 0) /\ k \in Nat
  <2>1. Class \in Nat /\ k \in 1 .. Class /\ LaidOut(k) /\ KnownBefore(k, 0)
    BY <1>1, StateIs, CompleteIs
  <2> QED BY <2>1
<1>3. LayoutOK(k)
  BY <1>2 DEF GenState, GenInv, LayoutInv
<1>4. {InitCode(k)[i].index : i \in StoresOf(k)} = Offset(classTypes[k]) .. Len(classTypes[k].slots) - 1
  BY <1>3 DEF LayoutOK
<1>5. \A i \in StoresOf(k) :
        /\ InitCode(k)[i].value.width = classTypes[k].slots[InitCode(k)[i].index + 1]
        /\ \A j \in StoresOf(k) : InitCode(k)[j].index = InitCode(k)[i].index => j = i
  BY <1>3 DEF LayoutOK
<1>6. ASSUME NEW name, NEW decl, decl = AsMember(name, k, 0), decl # << >>, IsField(decl),
             NEW path, path = Child(k, name).code.path
      PROVE  StoredAt(k, path) = decl
  <2>1. PICK v : v = Pointer(ClassType(k, ""), [op |-> "this"])
    OBVIOUS
  <2>2. v.type.kind = "class" /\ v.type.class = k
    <3>1. PICK code : code = [op |-> "this"]
      OBVIOUS
    <3> QED BY <2>1, <3>1 DEF Pointer, ClassType
  <2>3. PICK r : r = getChild(v, name)
    OBVIOUS
  <2>4. Found(r, decl, v.type.region) /\ r.code.op = "field" /\ r.code.class = k
    BY <1>2, <1>6, <2>2, <2>3, StateIs, ChildIs DEF GenState, GenInv
  <2>5. r.code.path = path
    BY <1>6, <2>1, <2>3 DEF Child
  <2>6. Means(r.code, decl)
    BY <1>6, <2>4 DEF Found
  <2> QED BY <2>4, <2>5, <2>6 DEF Means, Refers
<1> QED BY <1>4, <1>5, <1>6

\* Everything that bodies mention is what it should be when all is generated.
LEMMA GenNames ==
  ASSUME GenState, AllGenerated
  PROVE  \A id \in Bodies : [i \in DOMAIN module[id].code |-> Refers(module[id].code[i])] = Mentioned(module[id].decl)
<1> SUFFICES ASSUME NEW id \in Bodies
             PROVE  [i \in DOMAIN module[id].code |-> Refers(module[id].code[i])] = Mentioned(module[id].decl)
  OBVIOUS
<1>1. PICK site, code : site = module[id].decl /\ code = module[id].code
  OBVIOUS
<1>2. id \in 1 .. Len(module) /\ site[2] > 0
  BY <1>1, StateIs DEF Bodies
<1>3. ~InBody(id)
  BY DEF AllGenerated, InBody
<1>4. IsSite(site) /\ BodyMeans(id) /\ Len(code) = Len(Written(site).nodes)
  BY <1>1, <1>2, <1>3 DEF GenState, GenInv, BodiesInv
<1>5. Written(site) \in FunctionNodes
  BY <1>4, SiteNode DEF GenState
<1>6. PICK n, decl : n = Len(code) /\ decl = Mentioned(site)
  OBVIOUS
<1>7. RefersTo(site, decl, n)
  BY <1>4, <1>5, <1>6, MentionedIs
<1>8. decl = [i \in 1 .. n |-> decl[i]]
  BY <1>7 DEF RefersTo
<1>9. DOMAIN code = 1 .. n
  <2>1. IsList(code)
    BY <1>1, <1>2 DEF GenState, HandlesInv, IsModule, IsFunction, IsCode
  <2> QED BY <1>6, <2>1, ListDomain
<1>10. \A i \in 1 .. n : Refers(code[i]) = decl[i]
  BY <1>1, <1>4, <1>6 DEF BodyMeans, Means
<1> QED BY <1>1, <1>6, <1>8, <1>9, <1>10

\* The whole program is accepted then.
LEMMA GenAccepted == ASSUME GenState, AllGenerated PROVE Accepted
<1>1. Class = Len(classes) /\ Done = Len(functions) /\ ~InClass
  BY DEF AllGenerated, InClass
<1>2. FunctionsDone = Len(functions)
  BY <1>1 DEF AllGenerated, FunctionsDone
<1>3. DOMAIN classes = 1 .. Class /\ DOMAIN functions = 1 .. Len(functions)
  BY <1>1, StateIs DEF GenState, ProgramOK
<1>4. \A i \in DOMAIN functions : BodyAccepted(<<0, i>>)
  BY <1>2, <1>3 DEF GenState, GenInv, FunctionsAccepted
<1>5. ASSUME NEW k \in 1 .. Class
      PROVE  /\ classes[k].super # None => ClassNamed(classes[k].super, k - 1) # 0
             /\ \A j \in DOMAIN classes[k].members :
                  IF IsField(<<k, j>>) THEN FieldAccepted(<<k, j>>) ELSE BodyAccepted(<<k, j>>)
  <2>1. classes[k].super # None => ClassNamed(classes[k].super, k - 1) # 0
    BY DEF GenState, GenInv, SupersInv, SuperOf
  <2>2. \A kind : Known(k, kind) = Places(MembersOf(k), kind)
    BY <1>1 DEF Known, Ahead
  <2>3. /\ \A j \in Places(MembersOf(k), "field") : FieldAccepted(<<k, j>>)
        /\ \A j \in Places(MembersOf(k), "fn") : BodyAccepted(<<k, j>>)
    BY <2>2 DEF GenState, GenInv, MembersAccepted
  <2>4. k \in DOMAIN classes /\ k \in 1 .. Len(classes)
    BY <1>1, <1>3
  <2>5. ASSUME NEW j \in DOMAIN classes[k].members
        PROVE  IF IsField(<<k, j>>) THEN FieldAccepted(<<k, j>>) ELSE BodyAccepted(<<k, j>>)
    <3>1. ~IsField(<<k, j>>) <=> j \in Places(classes[k].members, "fn")
      BY <2>4, <2>5, WrittenNodes DEF GenState
    <3>2. j \in Places(classes[k].members, "field") <=> j \notin Places(classes[k].members, "fn")
      BY <2>4, <2>5, MemberNode DEF GenState
    <3> QED BY <2>3, <3>1, <3>2 DEF MembersOf
  <2> QED BY <2>1, <2>5
<1> QED BY <1>3, <1>4, <1>5 DEF Accepted

(***************************************************************************)
(* The values of tokens.                                                   *)
(***************************************************************************)

PowerTo(f, n) == f = [k \in 0 .. n |-> IF k = 0 THEN 1 ELSE 2 * f[k - 1]] /\ \A k \in 0 .. n : f[k] \in Nat \ {0}

\* Powers of two are defined by the ones before: there is such a function.
LEMMA PowersExist ==
  ASSUME NEW N \in Nat
  PROVE  \E f : PowerTo(f, N)
<1>1. PICK S : S = {n \in Nat : \E f : PowerTo(f, n)}
  OBVIOUS
<1>2. 0 \in S
  <2>1. PICK f : f = [k \in 0 .. 0 |-> 1]
    OBVIOUS
  <2>2. PowerTo(f, 0)
    BY <2>1 DEF PowerTo
  <2> QED BY <1>1, <2>2
<1>3. ASSUME NEW n \in Nat, n \in S PROVE n + 1 \in S
  <2>1. PICK h : PowerTo(h, n)
    BY <1>1, <1>3
  <2>2. PICK f : f = [k \in 0 .. n + 1 |-> IF k = n + 1 THEN 2 * h[n] ELSE h[k]]
    OBVIOUS
  <2>3. \A k \in 0 .. n : f[k] = h[k] /\ h[k] = (IF k = 0 THEN 1 ELSE 2 * h[k - 1]) /\ h[k] \in Nat \ {0}
    BY <2>1, <2>2 DEF PowerTo
  <2>4. f[n + 1] = 2 * f[n] /\ f[n] \in Nat \ {0}
    BY <2>2, <2>3
  <2>5. ASSUME NEW k \in 0 .. n + 1
        PROVE  f[k] = (IF k = 0 THEN 1 ELSE 2 * f[k - 1]) /\ f[k] \in Nat \ {0}
    <3>1. CASE k = n + 1
      <4>1. k # 0 /\ k - 1 = n /\ n + 1 # 0
        BY <3>1
      <4>2. 2 * f[n] \in Nat \ {0}
        BY <2>4
      <4> QED BY <2>4, <3>1, <4>1, <4>2
    <3>2. CASE k # n + 1
      <4>1. k \in 0 .. n /\ (k # 0 => k - 1 \in 0 .. n)
        BY <3>2
      <4> QED BY <2>3, <4>1
    <3> QED BY <3>1, <3>2
  <2>6. f = [k \in 0 .. n + 1 |-> f[k]]
    BY <2>2
  <2>7. f = [k \in 0 .. n + 1 |-> IF k = 0 THEN 1 ELSE 2 * f[k - 1]]
    BY <2>5, <2>6
  <2>8. PowerTo(f, n + 1)
    BY <2>5, <2>7 DEF PowerTo
  <2> QED BY <1>1, <2>8
<1> QED BY <1>1, <1>2, <1>3, Upwards

\* The function that is written down is the one that there is.
LEMMA PowerIs == Power = [k \in 0 .. Bits |-> IF k = 0 THEN 1 ELSE 2 * Power[k - 1]]
<1>1. \E f : f = [k \in 0 .. Bits |-> IF k = 0 THEN 1 ELSE 2 * f[k - 1]]
  BY BitsAssumption, PowersExist DEF PowerTo
<1> QED BY <1>1, Zenon DEF Power

\* Powers of two are positive.
LEMMA PowersAre == \A k \in 0 .. Bits : Power[k] \in Nat \ {0}
<1>1. PICK b : b = Bits /\ b \in Nat
  BY BitsAssumption
<1>2. PICK S : S = {n \in Nat : n <= b => Power[n] \in Nat \ {0}}
  OBVIOUS
<1>3. \A k \in 0 .. b : Power[k] = IF k = 0 THEN 1 ELSE 2 * Power[k - 1]
  BY <1>1, PowerIs
<1>4. 0 \in S
  BY <1>1, <1>2, <1>3
<1>5. ASSUME NEW n \in Nat, n \in S PROVE n + 1 \in S
  <2>1. CASE n + 1 <= b
    <3>1. n + 1 \in 0 .. b /\ n <= b /\ (n + 1) - 1 = n /\ n + 1 # 0
      BY <1>1, <2>1
    <3>2. PICK p : p = Power[n] /\ p \in Nat \ {0}
      BY <1>2, <1>5, <3>1
    <3>3. Power[n + 1] = 2 * p
      BY <1>3, <3>1, <3>2
    <3>4. 2 * p \in Nat \ {0}
      BY <3>2
    <3> QED BY <1>2, <3>3, <3>4
  <2>2. CASE ~(n + 1 <= b)
    BY <1>2, <2>2
  <2> QED BY <2>1, <2>2
<1>6. Nat \subseteq S
  BY <1>4, <1>5, Upwards
<1> QED BY <1>1, <1>2, <1>6

IntRange == -Power[IntBits - 1] .. Power[IntBits - 1] - 1

\* What wraps around is an int.
LEMMA WrapIs == 0 \in IntRange /\ IntRange \subseteq Int /\ \A n \in Int : Wrap(n, IntBits) \in IntRange
<1>1. PICK w, b : w = IntBits /\ b = Bits /\ w \in Nat /\ b \in Nat /\ 1 < w /\ w < b
  BY BitsAssumption
<1>2. w \in 0 .. b /\ w - 1 \in 0 .. b /\ w # 0
  BY <1>1
<1>3. PICK p, q : p = Power[w - 1] /\ q = Power[w] /\ p \in Nat \ {0} /\ q \in Nat \ {0}
  BY <1>1, <1>2, PowersAre
<1>4. q = 2 * p
  BY <1>1, <1>2, <1>3, PowerIs
<1>5. IntRange = -p .. p - 1
  BY <1>1, <1>3 DEF IntRange
<1>6. ASSUME NEW n \in Int PROVE Wrap(n, w) \in -p .. p - 1
  <2>1. PICK a : a = n + p /\ a \in Int
    BY <1>3
  <2>2. PICK r : r = a % q /\ r \in 0 .. q - 1
    BY <1>3, <2>1
  <2>3. Wrap(n, w) = r - p
    BY <1>3, <2>1, <2>2 DEF Wrap
  <2> QED BY <1>3, <1>4, <2>2, <2>3
<1>7. 0 \in -p .. p - 1
  BY <1>3
<1>8. \A n \in Int : Wrap(n, IntBits) \in -p .. p - 1
  BY <1>1, <1>6
<1>9. -p .. p - 1 \subseteq Int
  BY <1>3
<1> QED BY <1>5, <1>7, <1>8, <1>9

(***************************************************************************)
(* Types.                                                                  *)
(***************************************************************************)

\* What TypeOK says of values and classes.
TypesHold ==
  /\ \A name \in DOMAIN global.values : global.values[name].code.fn \in DOMAIN module
  /\ \A k \in DOMAIN classTypes : LET class == classTypes[k] IN
       /\ class.super \in 0 .. k - 1 /\ class.init \in DOMAIN module
       /\ \A name \in DOMAIN class.children :
            class.children[name].index \in Offset(class) .. Len(class.slots) - 1
       /\ \A name \in DOMAIN class.functions : class.functions[name].code.fn \in DOMAIN module

\* What values and classes name exists.
LEMMA GenTypes == ASSUME GenState PROVE TypesHold
<1>1. DOMAIN module = 1 .. Len(module) /\ DOMAIN classTypes = 1 .. Class /\ Class \in Nat
  BY StateIs
<1>2. ASSUME NEW name \in DOMAIN global.values PROVE global.values[name].code.fn \in DOMAIN module
  <2>1. PICK decl : decl = Globally(name, ClassesDone, FunctionsDone)
    OBVIOUS
  <2>2. decl # << >> /\ FunctionOK(global.values[name], decl)
    BY <1>2, <2>1 DEF GenState, GenInv, ValuesInv
  <2> QED BY <1>1, <2>2 DEF FunctionOK, IsFn
<1>3. ASSUME NEW k \in 1 .. Class
      PROVE  /\ classTypes[k].super \in 0 .. k - 1 /\ classTypes[k].init \in DOMAIN module
             /\ \A name \in DOMAIN classTypes[k].children :
                  classTypes[k].children[name].index \in Offset(classTypes[k]) .. Len(classTypes[k].slots) - 1
             /\ \A name \in DOMAIN classTypes[k].functions : classTypes[k].functions[name].code.fn \in DOMAIN module
  <2>1. classTypes[k].super \in 0 .. k - 1 /\ classTypes[k].init \in DOMAIN module
    <3>1. k \in Nat \ {0}
      BY <1>1
    <3> QED BY <1>1, <3>1, SuperIs DEF GenState, GenInv, SupersInv
  <2>2. ASSUME NEW name \in DOMAIN classTypes[k].functions PROVE classTypes[k].functions[name].code.fn \in DOMAIN module
    <3>1. PICK known : known = KnownOf(k, "fn", name)
      OBVIOUS
    <3>2. FunctionOK(classTypes[k].functions[name], <<k, Latest(known)>>)
      BY <2>2, <3>1 DEF GenState, GenInv, MethodsInv
    <3> QED BY <1>1, <3>2 DEF FunctionOK, IsFn
  <2>3. ASSUME NEW name \in DOMAIN classTypes[k].children
        PROVE  classTypes[k].children[name].index \in Offset(classTypes[k]) .. Len(classTypes[k].slots) - 1
    <3>1. CASE LaidOut(k)
      <4>1. LayoutOK(k)
        BY <3>1 DEF GenState, GenInv, LayoutInv
      <4> QED BY <2>3, <4>1 DEF LayoutOK
    <3>2. CASE ~LaidOut(k)
      <4>1. classTypes[k].children = << >>
        BY <3>2 DEF GenState, GenInv, LayoutInv
      <4> QED BY <2>3, <4>1
    <3> QED BY <3>1, <3>2
  <2> QED BY <2>1, <2>2, <2>3
<1> QED BY <1>1, <1>2, <1>3 DEF TypesHold

(***************************************************************************)
(* Reading.                                                                *)
(***************************************************************************)

Marks == {"open", "close", "field", "method"}

\* What is being parsed.
StateOf(p) ==
  IF p.kind # "class" THEN p.kind
  ELSE IF p.members # << >> /\ p.members[Len(p.members)].kind = "field" THEN "field" ELSE p.kind

NextState(lexeme, state) == IF lexeme.kind \in Marks THEN Opens(lexeme) ELSE state

IsInput(input, state) == input \in Seq(Lexemes) /\ Grammatical(input, state)

ReadingInv ==
  /\ partial \in FunctionNodes \cup ClassNodes \cup {Absent}
  /\ IsList(pending)
  /\ \A n \in 1 .. Len(pending) : IsInput(pending[n], IF n = 1 THEN StateOf(partial) ELSE "absent")

\* Behind the first lexeme everything is one place nearer.
LEMMA WithinNext ==
  ASSUME NEW s \in Seq(Lexemes), s # << >>, NEW state, NEW i \in 1 .. Len(s) - 1
  PROVE  Within(Tail(s), i, NextState(s[1], state)) = Within(s, i + 1, state)
<1>1. PICK t, n : t = Tail(s) /\ n = Len(s) /\ n \in Nat /\ n > 0
  <2>1. Len(s) \in Nat /\ Len(s) > 0
    OBVIOUS
  <2> QED BY <2>1
<1>2. \A j \in 1 .. n - 1 : t[j] = s[j + 1]
  BY <1>1
<1>3. PICK A, B : /\ A = {j \in 1 .. i - 1 : t[j].kind \in Marks}
                  /\ B = {j \in 1 .. (i + 1) - 1 : s[j].kind \in Marks}
  OBVIOUS
<1>4. i \in Nat /\ i > 0 /\ i <= n - 1 /\ (i + 1) - 1 = i
  BY <1>1
<1>5. \A j \in 1 .. i : j \in B <=> IF j = 1 THEN s[1].kind \in Marks ELSE j - 1 \in A
  <2> SUFFICES ASSUME NEW j \in 1 .. i PROVE j \in B <=> IF j = 1 THEN s[1].kind \in Marks ELSE j - 1 \in A
    OBVIOUS
  <2>1. j \in B <=> s[j].kind \in Marks
    BY <1>3, <1>4
  <2>2. CASE j = 1
    BY <2>1, <2>2
  <2>3. CASE j # 1
    <3>1. j - 1 \in 1 .. i - 1 /\ j - 1 \in 1 .. n - 1 /\ (j - 1) + 1 = j
      BY <1>1, <1>4, <2>3
    <3>2. t[j - 1] = s[j]
      BY <1>2, <3>1
    <3> QED BY <1>3, <2>1, <2>3, <3>1, <3>2
  <2> QED BY <2>2, <2>3
<1>6. A \in SUBSET (1 .. i) /\ B \in SUBSET (1 .. i) /\ A \in SUBSET (1 .. i - 1)
  BY <1>3, <1>4
<1>7. /\ Within(t, i, NextState(s[1], state)) = IF A = {} THEN NextState(s[1], state) ELSE Opens(t[Latest(A)])
      /\ Within(s, i + 1, state) = IF B = {} THEN state ELSE Opens(s[Latest(B)])
  BY <1>3 DEF Within, Marks
<1>8. CASE A # {}
  <2>1. PICK l : l = Latest(A) /\ l \in A /\ \A j \in A : j <= l
    BY <1>4, <1>6, <1>8, LatestIs
  <2>2. l \in 1 .. i - 1 /\ l \in Nat /\ l + 1 \in 1 .. i /\ l + 1 # 1 /\ (l + 1) - 1 = l /\ l \in 1 .. n - 1
    BY <1>1, <1>4, <1>6, <2>1
  <2>3. l + 1 \in B
    BY <1>5, <2>1, <2>2
  <2>4. ASSUME NEW j \in B PROVE j <= l + 1
    <3>1. j \in 1 .. i
      BY <1>6, <2>4
    <3>2. CASE j = 1
      BY <2>2, <3>2
    <3>3. CASE j # 1
      <4>1. j - 1 \in A
        BY <1>5, <2>4, <3>1, <3>3
      <4> QED BY <1>4, <2>1, <2>2, <3>1, <4>1
    <3> QED BY <3>2, <3>3
  <2>5. Latest(B) = l + 1
    BY <1>4, <1>6, <2>3, <2>4, GreatestIs
  <2> QED BY <1>1, <1>2, <1>7, <1>8, <2>1, <2>2, <2>3, <2>5
<1>9. CASE A = {}
  <2>1. CASE s[1].kind \in Marks
    <3>1. 1 \in 1 .. i
      BY <1>4
    <3>2. 1 \in B /\ \A j \in B : j = 1
      BY <1>5, <1>6, <1>9, <2>1, <3>1
    <3>3. Latest(B) = 1
      <4>1. \A j \in B : j <= 1
        BY <3>2
      <4> QED BY <1>4, <1>6, <3>2, <4>1, GreatestIs
    <3> QED BY <1>1, <1>7, <1>9, <2>1, <3>2, <3>3 DEF NextState
  <2>2. CASE s[1].kind \notin Marks
    <3>1. B = {}
      BY <1>5, <1>6, <1>9, <2>2
    <3> QED BY <1>1, <1>7, <1>9, <2>2, <3>1 DEF NextState
  <2> QED BY <2>1, <2>2
<1> QED BY <1>8, <1>9

\* What is allowed in front of a lexeme.
Allowed(lexeme, within) ==
  /\ lexeme.kind = "open" => within = "absent"
  /\ lexeme.kind = "close" => within # "absent"
  /\ lexeme.kind \in {"field", "method"} => within \in {"class", "field"}
  /\ lexeme.kind = "number" => within = "field"

\* The grammar, lexeme by lexeme.
LEMMA GrammaticalIs ==
  ASSUME NEW input, NEW state
  PROVE  Grammatical(input, state) <=> \A i \in DOMAIN input : Allowed(input[i], Within(input, i, state))
BY DEF Grammatical, Allowed

\* The first lexeme of an input, and what is left of it.
LEMMA InputNext ==
  ASSUME NEW s, NEW state, IsInput(s, state), s # << >>
  PROVE  /\ Head(s) \in Lexemes /\ Allowed(Head(s), state)
         /\ IsInput(Tail(s), NextState(Head(s), state))
<1>1. s \in Seq(Lexemes) /\ Grammatical(s, state)
  BY DEF IsInput
<1>2. PICK n : n = Len(s) /\ n \in Nat /\ n > 0 /\ DOMAIN s = 1 .. n
  <2>1. Len(s) \in Nat /\ Len(s) > 0 /\ DOMAIN s = 1 .. Len(s)
    BY <1>1
  <2> QED BY <2>1
<1>3. PICK h, t : h = Head(s) /\ t = Tail(s)
  OBVIOUS
<1>4. h = s[1] /\ h \in Lexemes /\ t \in Seq(Lexemes) /\ DOMAIN t = 1 .. n - 1 /\ \A i \in 1 .. n - 1 : t[i] = s[i + 1]
  BY <1>1, <1>2, <1>3
<1>5. \A i \in 1 .. n : Allowed(s[i], Within(s, i, state))
  BY <1>1, <1>2, GrammaticalIs
<1>6. Within(s, 1, state) = state
  BY DEF Within
<1>7. Allowed(h, state)
  <2>1. 1 \in 1 .. n
    BY <1>2
  <2> QED BY <1>4, <1>5, <1>6, <2>1
<1>8. ASSUME NEW i \in 1 .. n - 1 PROVE Allowed(t[i], Within(t, i, NextState(h, state)))
  <2>1. i + 1 \in 1 .. n
    BY <1>2
  <2>2. Within(t, i, NextState(h, state)) = Within(s, i + 1, state)
    BY <1>1, <1>2, <1>3, <1>4, WithinNext
  <2> QED BY <1>4, <1>5, <2>1, <2>2
<1>9. Grammatical(t, NextState(h, state))
  BY <1>4, <1>8, GrammaticalIs
<1> QED BY <1>3, <1>4, <1>7, <1>9 DEF IsInput

\* What lexemes are made of.
LEMMA LexemeIs ==
  ASSUME NEW lexeme \in Lexemes
  PROVE  /\ lexeme.kind = "open" => lexeme.node \in FunctionNodes \/ (lexeme.node \in ClassNodes /\ lexeme.node.members = << >>)
         /\ lexeme.kind = "field"  => lexeme.member \in FieldNodes
         /\ lexeme.kind = "method" => lexeme.member \in FunctionNodes
         /\ lexeme.kind = "number" => lexeme.value \in Nat
<1>1. CASE lexeme \in [kind : {"open"}, node : FunctionNodes \cup {c \in ClassNodes : c.members = << >>}]
  BY <1>1
<1>2. CASE lexeme \in [kind : {"field"}, member : {f \in FieldNodes : f.operands = << >>}]
  BY <1>2
<1>3. CASE lexeme \in [kind : {"number"}, base : {"decimal", "octal", "hexadecimal", "binary"}, value : Nat]
  BY <1>3
<1>4. CASE lexeme \in [kind : {"method"}, member : FunctionNodes]
  BY <1>4
<1>5. CASE lexeme \in [kind : {"close", "unknown"}]
  BY <1>5
<1>6. CASE lexeme \in [kind : {"comment"}, ends : BOOLEAN]
  BY <1>6
<1> QED BY <1>1, <1>2, <1>3, <1>4, <1>5, <1>6 DEF Lexemes

\* What is being parsed is of the kind that its state says.
LEMMA PartialIs ==
  ASSUME ReadingInv
  PROVE  /\ StateOf(partial) \in {"class", "field"} => partial \in ClassNodes
         /\ StateOf(partial) # "absent" /\ partial.kind # "class" => partial \in FunctionNodes
         /\ partial.kind = "class" => partial \in ClassNodes
         /\ StateOf(partial) = "field" => partial.members # << >> /\ partial.members[Len(partial.members)].kind = "field"
<1>1. \A p \in ClassNodes : p.kind = "class"
  BY DEF ClassNodes
<1>2. \A p \in FunctionNodes : p.kind = "fn"
  BY DEF FunctionNodes
<1>3. Absent.kind = "absent"
  BY DEF Absent
<1> QED BY <1>1, <1>2, <1>3 DEF ReadingInv, StateOf

\* A lexeme is taken.
LEMMA ConsumeKeeps ==
  ASSUME ReadingInv, pending # << >>, Input # << >>, Consume,
         partial' \in FunctionNodes \cup ClassNodes \cup {Absent},
         NEW state, state = StateOf(partial), NEW next, next = StateOf(partial'), next = NextState(Lexeme, state)
  PROVE  ReadingInv'
<1>1. PICK rest, input : rest = Tail(pending) /\ input = Input
  OBVIOUS
<1>2. /\ IsList(rest) /\ Len(pending) \in Nat /\ Len(pending) > 0 /\ Len(rest) = Len(pending) - 1
      /\ input = pending[1] /\ \A i \in 1 .. Len(pending) - 1 : rest[i] = pending[i + 1]
  BY <1>1, RestList DEF ReadingInv, Input
<1>3. PICK n : n = Len(pending) /\ n \in Nat /\ n > 0 /\ Len(rest) = n - 1
  BY <1>2
<1>4. IsInput(input, state)
  <2>1. 1 \in 1 .. n
    BY <1>3
  <2> QED BY <1>2, <1>3, <2>1 DEF ReadingInv
<1>5. PICK t : t = Tail(input)
  OBVIOUS
<1>6. IsInput(t, next)
  BY <1>1, <1>4, <1>5, InputNext DEF Lexeme
<1>7. PICK one : one = <<t>>
  OBVIOUS
<1>8. IsList(one) /\ Len(one) = 1 /\ one[1] = t
  <2>1. one \in Seq({t}) /\ Len(one) = 1 /\ one[1] = t
    BY <1>7
  <2> QED BY <2>1 DEF IsList
<1>9. PICK all : all = one \o rest
  OBVIOUS
<1>10. pending' = all
  BY <1>1, <1>5, <1>7, <1>9 DEF Consume
<1>11. IsList(all) /\ Len(all) = n /\ all[1] = t /\ \A i \in 1 .. n - 1 : all[i + 1] = rest[i]
  <2>1. /\ IsList(all) /\ Len(all) = 1 + Len(rest)
        /\ (\A i \in 1 .. 1 : all[i] = one[i]) /\ (\A i \in 1 .. Len(rest) : all[1 + i] = rest[i])
    <3>1. IsList(one) /\ IsList(rest)
      BY <1>2, <1>8
    <3>2. /\ IsList(one \o rest) /\ Len(one \o rest) = Len(one) + Len(rest)
          /\ (\A i \in 1 .. Len(one) : (one \o rest)[i] = one[i])
          /\ (\A i \in 1 .. Len(rest) : (one \o rest)[Len(one) + i] = rest[i])
      BY <3>1, ConcatenatedList
    <3> QED BY <1>8, <1>9, <3>2, Zenon
  <2>2. \A i \in 1 .. n - 1 : all[1 + i] = rest[i] /\ 1 + i = i + 1
    BY <1>3, <2>1
  <2> QED BY <1>3, <1>8, <2>1, <2>2
<1>12. ASSUME NEW i \in 1 .. n PROVE IsInput(all[i], IF i = 1 THEN next ELSE "absent")
  <2>1. CASE i = 1
    BY <1>6, <1>11, <2>1
  <2>2. CASE i # 1
    <3>1. i - 1 \in 1 .. n - 1 /\ (i - 1) + 1 = i
      BY <1>3, <2>2
    <3>2. all[i] = pending[i]
      BY <1>2, <1>3, <1>11, <3>1
    <3>3. IsInput(pending[i], "absent")
      BY <1>3, <2>2 DEF ReadingInv
    <3> QED BY <2>2, <3>2, <3>3
  <2> QED BY <2>1, <2>2
<1>13. \A i \in 1 .. Len(pending') : IsInput(pending'[i], IF i = 1 THEN StateOf(partial') ELSE "absent")
  BY <1>10, <1>11, <1>12
<1> QED BY <1>10, <1>11, <1>13 DEF ReadingInv, IsInput, Grammatical, Within, Opens, Lexemes, StateOf

\* What the first lexeme may be.
LEMMA LexemeAllowed ==
  ASSUME ReadingInv, pending # << >>, Input # << >>
  PROVE  Lexeme \in Lexemes /\ Allowed(Lexeme, StateOf(partial))
<1>1. Len(pending) \in Nat /\ Len(pending) > 0 /\ Input = pending[1]
  BY RestList DEF ReadingInv, Input
<1>2. 1 \in 1 .. Len(pending)
  BY <1>1
<1>3. IsInput(Input, StateOf(partial))
  BY <1>1, <1>2 DEF ReadingInv
<1> QED BY <1>3, InputNext DEF Lexeme

\* A class node with another list of members.
WithMembers(d, c, members) == d = [c EXCEPT !.members = members]

\* It is a class node as well.
LEMMA MembersChanged ==
  ASSUME NEW c \in ClassNodes, NEW members \in Seq(FieldNodes \cup FunctionNodes),
         NEW d, WithMembers(d, c, members)
  PROVE  d \in ClassNodes /\ d.kind = "class" /\ d.members = members
<1>1. c \in [kind : {"class"}, name : STRING, super : STRING \cup {None}, members : Seq(FieldNodes \cup FunctionNodes)]
  BY DEF ClassNodes
<1>2. d \in [kind : {"class"}, name : STRING, super : STRING \cup {None}, members : Seq(FieldNodes \cup FunctionNodes)]
  BY <1>1 DEF WithMembers
<1>3. d.kind = "class" /\ d.members = members
  BY <1>1 DEF WithMembers
<1> QED BY <1>2, <1>3 DEF ClassNodes

\* The kinds of members.
LEMMA MemberKinds == (\A f \in FieldNodes : f.kind = "field") /\ (\A f \in FunctionNodes : f.kind = "fn")
BY DEF FieldNodes, FunctionNodes

\* Each step of the reader leaves a program that the grammar allows.
LEMMA LexOpenKeeps ==
  ASSUME ReadingInv, LexOpen
  PROVE  ReadingInv'
<1>1. pending # << >> /\ Input # << >> /\ Lexeme.kind = "open" /\ partial' = Lexeme.node /\ Consume
  BY DEF LexOpen, At, Reading, Lexeme
<1>2. Lexeme \in Lexemes
  BY <1>1, LexemeAllowed
<1>3. PICK p : p = partial' /\ (p \in FunctionNodes \/ (p \in ClassNodes /\ p.members = << >>))
  BY <1>1, <1>2, LexemeIs
<1>4. StateOf(p) = p.kind
  BY <1>3, MemberKinds DEF StateOf
<1>5. NextState(Lexeme, StateOf(partial)) = p.kind
  BY <1>1, <1>3 DEF NextState, Opens, Marks
<1>6. StateOf(partial') = p.kind
  BY <1>3, <1>4
<1> QED BY <1>1, <1>3, <1>5, <1>6, ConsumeKeeps

\* A member is put at the end of the class.
LEMMA LexMemberKeeps ==
  ASSUME ReadingInv, LexMember
  PROVE  ReadingInv'
<1>1. /\ pending # << >> /\ Input # << >> /\ Lexeme.kind \in {"field", "method"} /\ Consume
      /\ partial' = [partial EXCEPT !.members = Append(partial.members, Lexeme.member)]
  BY DEF LexMember, At, Reading, Lexeme
<1>2. Lexeme \in Lexemes /\ StateOf(partial) \in {"class", "field"}
  BY <1>1, LexemeAllowed DEF Allowed
<1>3. partial \in ClassNodes
  BY <1>2, PartialIs
<1>4. PICK f, old, members : f = Lexeme.member /\ old = partial.members /\ members = Append(old, f)
  OBVIOUS
<1>5. old \in Seq(FieldNodes \cup FunctionNodes)
  BY <1>3, <1>4 DEF ClassNodes
<1>6. /\ Lexeme.kind = "field"  => f \in FieldNodes /\ f.kind = "field"
      /\ Lexeme.kind = "method" => f \in FunctionNodes /\ f.kind = "fn"
  BY <1>2, <1>4, LexemeIs, MemberKinds
<1>7. f \in FieldNodes \cup FunctionNodes
  BY <1>1, <1>6
<1>8. members \in Seq(FieldNodes \cup FunctionNodes) /\ members # << >> /\ members[Len(members)] = f
  BY <1>4, <1>5, <1>7
<1>9. PICK p : p = partial'
  OBVIOUS
<1>10. p \in ClassNodes /\ p.kind = "class" /\ p.members = members
  <2>1. WithMembers(p, partial, members)
    BY <1>1, <1>4, <1>9 DEF WithMembers
  <2> QED BY <1>3, <1>8, <2>1, MembersChanged
<1>11. StateOf(p) = IF f.kind = "field" THEN "field" ELSE "class"
  BY <1>8, <1>10 DEF StateOf
<1>12. NextState(Lexeme, StateOf(partial)) = IF f.kind = "field" THEN "field" ELSE "class"
  BY <1>1, <1>6 DEF NextState, Opens, Marks
<1>13. StateOf(partial') = NextState(Lexeme, StateOf(partial)) /\ partial' \in ClassNodes
  BY <1>9, <1>10, <1>11, <1>12
<1> QED BY <1>1, <1>13, ConsumeKeeps

\* The lexeme is a literal of an integer.
IsNumber(lexeme) == lexeme.kind = "number"

\* The value that a literal leaves fits an int.
LEMMA NumberFits ==
  ASSUME NEW lexeme \in Lexemes, IsNumber(lexeme), yylval \in IntRange
  PROVE  IntValue(lexeme) \in IntRange
<1>1. lexeme.value \in Int
  BY LexemeIs DEF IsNumber
<1>2. PICK value : value = lexeme.value
  OBVIOUS
<1>3. PICK wrapped : wrapped = Wrap(value, IntBits)
  OBVIOUS
<1>4. wrapped \in IntRange
  BY <1>1, <1>2, <1>3, WrapIs
<1>5. IntValue(lexeme) = wrapped \/ IntValue(lexeme) = yylval
  BY <1>2, <1>3 DEF IntValue
<1> QED BY <1>4, <1>5

\* A value that fits an int is a number.
LEMMA FittingIsInt == \A x \in IntRange : x \in Int
BY WrapIs, Zenon

\* A literal is put at the end of the operands of the last field.
LEMMA LexNumberKeeps ==
  ASSUME ReadingInv, yylval \in IntRange, LexNumber
  PROVE  ReadingInv' /\ yylval' \in IntRange
<1>1. /\ pending # << >> /\ Input # << >> /\ Lexeme.kind = "number" /\ Consume
      /\ yylval' = IntValue(Lexeme)
      /\ partial' = [partial EXCEPT !.members[Len(partial.members)].operands = Append(@, yylval')]
  BY DEF LexNumber, At, Reading, Lexeme
<1>2. Lexeme \in Lexemes /\ StateOf(partial) = "field"
  BY <1>1, LexemeAllowed DEF Allowed
<1>3. partial \in ClassNodes /\ partial.members # << >> /\ partial.members[Len(partial.members)].kind = "field"
  BY <1>2, PartialIs
<1>4. PICK n : n = yylval' /\ n \in IntRange /\ n \in Int
  <2>1. PICK lexeme : lexeme = Lexeme
    OBVIOUS
  <2>2. lexeme \in Lexemes /\ IsNumber(lexeme)
    BY <1>1, <1>2, <2>1 DEF IsNumber
  <2>3. PICK n : n = IntValue(lexeme)
    OBVIOUS
  <2>4. n \in IntRange
    BY <2>2, <2>3, NumberFits
  <2>5. n \in Int
    BY <2>4, FittingIsInt
  <2>6. yylval' = n
    BY <1>1, <2>1, <2>3
  <2> QED BY <2>4, <2>5, <2>6
<1>5. PICK old, m : old = partial.members /\ m = Len(old)
  OBVIOUS
<1>6. old \in Seq(FieldNodes \cup FunctionNodes) /\ m \in 1 .. Len(old) /\ old # << >>
  <2>1. old \in Seq(FieldNodes \cup FunctionNodes) /\ old # << >>
    BY <1>3, <1>5 DEF ClassNodes
  <2>2. Len(old) \in Nat /\ Len(old) > 0
    BY <2>1
  <2> QED BY <1>5, <2>1, <2>2
<1>7. PICK f : f = old[m]
  OBVIOUS
<1>8. f \in FieldNodes
  <2>1. f \in FieldNodes \cup FunctionNodes
    BY <1>6, <1>7
  <2> QED BY <1>3, <1>5, <1>7, <2>1, MemberKinds
<1>9. PICK operands : operands = Append(f.operands, n)
  OBVIOUS
<1>10. operands \in Seq(Int)
  <2>1. f.operands \in Seq(Int)
    BY <1>8 DEF FieldNodes
  <2> QED BY <1>4, <1>9, <2>1
<1>11. PICK g : g = [f EXCEPT !.operands = operands]
  OBVIOUS
<1>12. g \in FieldNodes /\ g.kind = "field"
  <2>1. g \in FieldNodes
    BY <1>8, <1>10, <1>11 DEF FieldNodes
  <2> QED BY <2>1, MemberKinds
<1>13. PICK members : members = [old EXCEPT ![m] = g]
  OBVIOUS
<1>14. members \in Seq(FieldNodes \cup FunctionNodes) /\ Len(members) = m /\ members[m] = g /\ members # << >>
  <2>1. members \in Seq(FieldNodes \cup FunctionNodes) /\ Len(members) = Len(old) /\ members[m] = g
    BY <1>6, <1>12, <1>13
  <2>2. Len(members) > 0
    BY <1>5, <1>6, <2>1
  <2> QED BY <1>5, <2>1, <2>2
<1>15. PICK p : p = partial'
  OBVIOUS
<1>16. WithMembers(p, partial, members)
  BY <1>1, <1>4, <1>5, <1>7, <1>9, <1>11, <1>13, <1>15 DEF WithMembers
<1>17. p \in ClassNodes /\ p.kind = "class" /\ p.members = members
  <2>1. partial \in ClassNodes /\ members \in Seq(FieldNodes \cup FunctionNodes)
    BY <1>3, <1>14
  <2> QED BY <1>16, <2>1, MembersChanged, Zenon
<1>18. StateOf(p) = "field"
  BY <1>12, <1>14, <1>17 DEF StateOf
<1>19. NextState(Lexeme, StateOf(partial)) = "field"
  BY <1>1, <1>2 DEF NextState, Marks
<1>20. StateOf(partial') = NextState(Lexeme, StateOf(partial)) /\ partial' \in ClassNodes
  BY <1>15, <1>17, <1>18, <1>19
<1> QED BY <1>1, <1>4, <1>20, ConsumeKeeps

\* A complete declaration is put at the end of the program.
LEMMA LexCloseKeeps ==
  ASSUME ReadingInv, ProgramOK, LexClose
  PROVE  ReadingInv' /\ ProgramOK'
<1>1. /\ pending # << >> /\ Input # << >> /\ Lexeme.kind = "close" /\ Consume /\ partial' = Absent
      /\ IF partial.kind = "class" THEN addClass(partial) ELSE addFunction(partial)
  BY DEF LexClose, At, Reading, Lexeme
<1>2. Lexeme \in Lexemes /\ StateOf(partial) # "absent"
  BY <1>1, LexemeAllowed DEF Allowed
<1>3. IF partial.kind = "class" THEN partial \in ClassNodes ELSE partial \in FunctionNodes
  BY <1>2, PartialIs
<1>4. ProgramOK'
  <2>1. classes \in Seq(ClassNodes) /\ functions \in Seq(FunctionNodes)
    BY DEF ProgramOK
  <2>2. CASE partial.kind = "class"
    <3>1. classes' = Append(classes, partial) /\ functions' = functions /\ partial \in ClassNodes
      BY <1>1, <1>3, <2>2 DEF addClass
    <3>2. Append(classes, partial) \in Seq(ClassNodes)
      BY <2>1, <3>1
    <3> QED BY <2>1, <3>1, <3>2 DEF ProgramOK
  <2>3. CASE partial.kind # "class"
    <3>1. functions' = Append(functions, partial) /\ classes' = classes /\ partial \in FunctionNodes
      BY <1>1, <1>3, <2>3 DEF addFunction
    <3>2. Append(functions, partial) \in Seq(FunctionNodes)
      BY <2>1, <3>1
    <3> QED BY <2>1, <3>1, <3>2 DEF ProgramOK
  <2> QED BY <2>2, <2>3
<1>5. StateOf(partial') = "absent"
  BY <1>1 DEF StateOf, Absent
<1>6. NextState(Lexeme, StateOf(partial)) = "absent"
  BY <1>1 DEF NextState, Opens, Marks
<1> QED BY <1>1, <1>4, <1>5, <1>6, ConsumeKeeps

\* A comment is left out.
LEMMA LexCommentKeeps ==
  ASSUME ReadingInv, LexComment
  PROVE  ReadingInv'
<1>1. pending # << >> /\ Input # << >> /\ Lexeme.kind = "comment" /\ Consume /\ partial' = partial
  BY DEF LexComment, At, Reading, Lexeme
<1>2. NextState(Lexeme, StateOf(partial)) = StateOf(partial)
  BY <1>1 DEF NextState, Marks
<1>3. StateOf(partial') = StateOf(partial) /\ partial' \in FunctionNodes \cup ClassNodes \cup {Absent}
  BY <1>1 DEF ReadingInv
<1> QED BY <1>1, <1>2, <1>3, ConsumeKeeps

\* A file is done.
LEMMA LexStopKeeps ==
  ASSUME ReadingInv, LexStop
  PROVE  ReadingInv' /\ yylval' \in IntRange
<1>1. pending # << >> /\ pending' = Tail(pending) /\ partial' = Absent /\ yylval' = 0
  BY DEF LexStop, Reading
<1>2. PICK rest, n : rest = Tail(pending) /\ n = Len(pending)
  OBVIOUS
<1>3. IsList(rest) /\ n \in Nat /\ n > 0 /\ Len(rest) = n - 1 /\ \A i \in 1 .. n - 1 : rest[i] = pending[i + 1]
  BY <1>1, <1>2, RestList DEF ReadingInv
<1>4. StateOf(Absent) = "absent"
  BY DEF StateOf, Absent
<1>5. ASSUME NEW i \in 1 .. n - 1 PROVE IsInput(rest[i], IF i = 1 THEN StateOf(partial') ELSE "absent")
  <2>1. i + 1 \in 1 .. n /\ i + 1 # 1
    BY <1>3
  <2>2. IsInput(pending[i + 1], "absent")
    BY <1>2, <2>1 DEF ReadingInv
  <2> QED BY <1>1, <1>3, <1>4, <2>2
<1>6. \A i \in 1 .. Len(pending') : IsInput(pending'[i], IF i = 1 THEN StateOf(partial') ELSE "absent")
  BY <1>1, <1>2, <1>3, <1>5
<1>7. ReadingInv'
  BY <1>1, <1>2, <1>3, <1>6 DEF ReadingInv, IsInput, Grammatical, Within, Opens, Lexemes, StateOf, Absent
<1> QED BY <1>1, <1>7, WrapIs

\* Whatever is read, the program is made of declarations.
LEMMA ReadNextKeeps ==
  ASSUME ReadingInv, ProgramOK, yylval \in IntRange, ReadNext
  PROVE  ReadingInv' /\ ProgramOK' /\ yylval' \in IntRange
<1>1. CASE LexOpen
  BY <1>1, LexOpenKeeps DEF LexOpen, ProgramOK
<1>2. CASE LexMember
  BY <1>2, LexMemberKeeps DEF LexMember, ProgramOK
<1>3. CASE LexNumber
  BY <1>3, LexNumberKeeps DEF LexNumber, ProgramOK
<1>4. CASE LexClose
  BY <1>4, LexCloseKeeps DEF LexClose
<1>5. CASE LexComment
  BY <1>5, LexCommentKeeps DEF LexComment, ProgramOK
<1>6. CASE LexStop
  BY <1>6, LexStopKeeps DEF LexStop, ProgramOK
<1> QED BY <1>1, <1>2, <1>3, <1>4, <1>5, <1>6 DEF ReadNext

(***************************************************************************)
(* The end of the process.                                                 *)
(***************************************************************************)

\* The path of a field that a name leads to is not longer than the line of
\* classes that it goes along.
LEMMA FieldPath ==
  ASSUME GenState, NEW k \in CompleteClasses, NEW name, NEW decl, decl = AsMember(name, k, 0), decl # << >>,
         IsField(decl), NEW path, path = Child(k, name).code.path
  PROVE  Len(path) \in Nat \ {0} /\ \A d \in 1 .. Len(path) : Chain[k][d] \in 1 .. Class
<1>1. k \in 1 .. ClassesDone
  <2>1. PICK c, b : c = Class /\ b = ClassesDone /\ c \in Nat /\ b \in Nat /\ (InClass => b = c - 1) /\ (~InClass => b = c)
    BY StateIs
  <2>2. k \in 1 .. c /\ (k < c \/ ~InClass)
    BY <2>1, StateIs DEF CompleteClasses, InClass
  <2> QED BY <2>1, <2>2
<1>2. k \in 1 .. Class /\ LaidOut(k) /\ KnownBefore(k, 0) /\ Class \in Nat
  BY <1>1, StateIs, CompleteIs
<1>3. PICK v : v = Pointer(ClassType(k, ""), [op |-> "this"])
  OBVIOUS
<1>4. v.type.kind = "class" /\ v.type.class = k
  <2>1. PICK code : code = [op |-> "this"]
    OBVIOUS
  <2> QED BY <1>3, <2>1 DEF Pointer, ClassType
<1>5. PICK r : r = getChild(v, name)
  OBVIOUS
<1>6. Found(r, decl, v.type.region) /\ r.code.op = "field" /\ r.code.class = k
  BY <1>2, <1>4, <1>5, StateIs, ChildIs DEF GenState, GenInv
<1>7. r.code.path = path
  BY <1>3, <1>5 DEF Child
<1>8. Means(r.code, decl)
  BY <1>6 DEF Found
<1>9. PICK l : l = Len(Lineage[k])
  OBVIOUS
<1>10. Len(path) \in 1 .. l
  BY <1>6, <1>7, <1>8, <1>9 DEF Means, ItemOK
<1>11. l \in Nat /\ Chain[k] = Lineage[k] /\ \A d \in 1 .. l : Lineage[k][d] \in 1 .. Class
  BY <1>2, <1>9, LineOf DEF GenState, GenInv
<1>12. PICK n : n = Len(path)
  OBVIOUS
<1>13. n \in Nat \ {0} /\ \A d \in 1 .. n : d \in 1 .. l
  BY <1>10, <1>11, <1>12
<1> QED BY <1>11, <1>12, <1>13

\* A module that goes on where another ends.
Grown(m, n) ==
  /\ IsList(n) /\ Len(m) <= Len(n)
  /\ \A id \in 1 .. Len(m) : n[id].code = m[id].code

\* What holds of classes and values does not depend on what is generated behind
\* them.
LEMMA GrownKeeps ==
  ASSUME GenState, Grown(module, module'), UNCHANGED <<classes, functions, classTypes, global, local>>
  PROVE  (FieldsInitialised /\ MistypedByComparison /\ TypesHold)'
<1>1. FieldsInitialised /\ MistypedByComparison /\ TypesHold
  BY GenFields, GenMistyped, GenTypes
<1>2. /\ DOMAIN module = 1 .. Len(module) /\ DOMAIN module' = 1 .. Len(module') /\ Len(module) \in Nat
      /\ Len(module') \in Nat /\ DOMAIN classTypes = 1 .. Class /\ Class \in Nat
  BY StateIs, ListDomain DEF Grown
<1>3. \A id \in DOMAIN module : id \in DOMAIN module' /\ module'[id].code = module[id].code
  BY <1>2 DEF Grown
<1>4. /\ Chain' = Chain /\ CompleteClasses' = CompleteClasses /\ MemberNames' = MemberNames
      /\ \A class : Offset(class)' = Offset(class)
  BY DEF Chain, CompleteClasses, MemberNames, Class, Offset
<1>5. ASSUME NEW k \in 1 .. Class
      PROVE  InitCode(k)' = InitCode(k) /\ StoresOf(k)' = StoresOf(k)
  <2>1. classTypes[k].init \in DOMAIN module
    BY <1>1, <1>2 DEF TypesHold
  <2>2. InitCode(k)' = InitCode(k)
    BY <1>3, <2>1 DEF InitCode
  <2> QED BY <2>2 DEF StoresOf
<1>6. CompleteClasses \subseteq 1 .. Class
  BY <1>2 DEF CompleteClasses
<1>7. TypesHold'
  BY <1>1, <1>3, <1>4 DEF TypesHold
<1>8. MistypedByComparison'
  BY <1>1, <1>4, <1>5, <1>6 DEF MistypedByComparison
<1>9. ASSUME NEW k \in CompleteClasses
      PROVE  (/\ {InitCode(k)[i].index : i \in StoresOf(k)} = Offset(classTypes[k]) .. Len(classTypes[k].slots) - 1
              /\ \A i \in StoresOf(k) : LET store == InitCode(k)[i] IN
                   /\ store.value.width = classTypes[k].slots[store.index + 1]
                   /\ \A j \in StoresOf(k) : InitCode(k)[j].index = store.index => j = i)'
  <2>1. InitCode(k)' = InitCode(k) /\ StoresOf(k)' = StoresOf(k) /\ classTypes'[k] = classTypes[k]
    BY <1>5, <1>6
  <2>2. Offset(classTypes[k])' = Offset(classTypes[k])
    BY <2>1 DEF Offset
  <2> QED BY <1>1, <2>1, <2>2 DEF FieldsInitialised
<1>10. ASSUME NEW k \in CompleteClasses, NEW name, NEW decl, decl = AsMember(name, k, 0), decl # << >>, IsField(decl),
              NEW path, path = Child(k, name).code.path, name \in MemberNames
       PROVE  (StoredAt(k, path) = decl)'
  <2>1. StoredAt(k, path) = decl
    BY <1>1, <1>10 DEF FieldsInitialised
  <2>2. PICK n : n = Len(path) /\ n \in Nat \ {0} /\ \A d \in 1 .. n : Chain[k][d] \in 1 .. Class
    BY <1>10, FieldPath
  <2>3. n \in 1 .. n
    BY <2>2
  <2>4. StoredAt(k, path)' = StoredAt(k, path)
    <3>1. PICK c : c = Chain[k][n] /\ c \in 1 .. Class
      BY <2>2, <2>3
    <3>2. InitCode(c)' = InitCode(c) /\ StoresOf(c)' = StoresOf(c)
      BY <1>5, <3>1
    <3> QED BY <1>4, <2>2, <3>1, <3>2 DEF StoredAt
  <2> QED BY <2>1, <2>4
<1>11. ASSUME NEW k, NEW name
       PROVE  Child(k, name)' = Child(k, name) /\ AsMember(name, k, 0)' = AsMember(name, k, 0)
  <2>1. Child(k, name)' = Child(k, name)
    BY <1>4 DEF Child, getChild, Has
  <2>2. Lineage' = Lineage
    BY DEF Lineage, ClassNamed
  <2>3. AsMember(name, k, 0)' = AsMember(name, k, 0)
    BY <2>2, SMTT(30) DEF AsMember, Owners, MemberAt, OwnMember
  <2> QED BY <2>1, <2>3
<1>12. \A decl : IsField(decl)' <=> IsField(decl)
  BY DEF IsField, Written
<1>13. ASSUME NEW k \in CompleteClasses, NEW name \in MemberNames
       PROVE  (LET decl == AsMember(name, k, 0) IN
                 decl # << >> /\ IsField(decl) => StoredAt(k, Child(k, name).code.path) = decl)'
  <2>1. PICK decl, path : decl = AsMember(name, k, 0) /\ path = Child(k, name).code.path
    OBVIOUS
  <2>2. AsMember(name, k, 0)' = decl /\ Child(k, name)'.code.path = path
    BY <1>11, <2>1
  <2>3. (decl # << >> /\ IsField(decl) => StoredAt(k, path) = decl)'
    BY <1>10, <1>12, <2>1
  <2> QED BY <2>2, <2>3
<1>14. FieldsInitialised'
  BY <1>4, <1>9, <1>13 DEF FieldsInitialised
<1> QED BY <1>7, <1>8, <1>14

\* Generating a module makes it longer and not shorter, and the region of the
\* program is that of a function in it.
LEMMA RegionKept ==
  ASSUME HandlesInv, HandlesInv', GenNext, global.region \in 0 .. Len(module)
  PROVE  global'.region \in 0 .. Len(module')
<1>1. PICK m, n, r : m = Len(module) /\ n = Len(module') /\ r = global.region
  OBVIOUS
<1>2. m \in Nat /\ n \in Nat /\ DOMAIN module = 1 .. m /\ DOMAIN module' = 1 .. n /\ r \in 0 .. m
  <2>1. m \in Nat /\ DOMAIN module = 1 .. m
    BY <1>1, ModuleLength DEF HandlesInv
  <2>2. n \in Nat /\ DOMAIN module' = 1 .. n
    BY <1>1, ListDomain DEF HandlesInv, IsModule
  <2> QED BY <1>1, <2>1, <2>2
<1>3. ASSUME DOMAIN module' = DOMAIN module, UNCHANGED global
      PROVE  global'.region \in 0 .. n
  <2>1. m = n
    BY <1>2, <1>3
  <2> QED BY <1>1, <1>2, <1>3, <2>1
<1>4. ASSUME NEW f, module' = Append(module, f) PROVE n = m + 1
  BY <1>1, <1>4, AppendedList DEF HandlesInv, IsModule
<1>5. ASSUME NEW f, module' = Append(module, f), UNCHANGED global
      PROVE  global'.region \in 0 .. n
  <2>1. n = m + 1
    BY <1>4, <1>5
  <2> QED BY <1>1, <1>2, <1>5, <2>1
<1>6. CASE BeginClass
  BY <1>3, <1>5, <1>6 DEF BeginClass
<1>7. CASE GenField \/ LayOut \/ Finish \/ EndMethod
  <2>1. DOMAIN module' = DOMAIN module /\ UNCHANGED global
    BY <1>7 DEF GenField, LayOut, Finish, EndMethod, genVars
  <2> QED BY <1>3, <2>1
<1>8. CASE GenName \/ GenChild \/ GenCall
  <2>1. PICK value : Generate(value)
    BY <1>8 DEF GenName, GenChild, GenCall
  <2>2. DOMAIN module' = DOMAIN module /\ UNCHANGED global
    BY <2>1 DEF Generate
  <2> QED BY <1>3, <2>2
<1>9. CASE BeginMethod \/ BeginFunction
  <2>1. PICK node, decl, region : codegenFunction(node, decl, region)
    BY <1>9 DEF BeginMethod, BeginFunction
  <2>2. UNCHANGED global /\ (UNCHANGED module \/ \E f : module' = Append(module, f))
    BY <2>1 DEF codegenFunction
  <2> QED BY <1>3, <1>5, <2>2
<1>10. CASE EndFunction
  BY <1>3, <1>10 DEF EndFunction
<1>11. CASE EndClass
  BY <1>4, <1>11 DEF EndClass
<1> QED BY <1>1, <1>6, <1>7, <1>8, <1>9, <1>10, <1>11 DEF GenNext

\* The new main of an object stands behind everything else, and what it replaces
\* keeps its code.
LEMMA ObjectGrown ==
  ASSUME HandlesInv, HandlesInv', makeObject
  PROVE  Grown(module, module')
<1>1. IsList(module) /\ IsList(module') /\ Len(module) \in Nat /\ DOMAIN module = 1 .. Len(module)
  BY ModuleLength DEF HandlesInv, IsModule
<1>2. CASE Main = 0
  BY <1>1, <1>2 DEF makeObject, Grown
<1>3. CASE Main # 0
  <2>1. PICK r, f : r = Renamed /\ module' = Append(r, f)
    BY <1>3 DEF makeObject
  <2>2. PICK e : e = Main /\ e \in 1 .. Len(module)
    BY <1>3, NoMain DEF Main, HandlesInv
  <2>3. PICK g : g = [module[e] EXCEPT !.name = "elism_main"]
    OBVIOUS
  <2>4. r = [module EXCEPT ![e] = g]
    BY <2>1, <2>2, <2>3 DEF Renamed
  <2>5. g.code = module[e].code
    <3>1. module[e] = [name |-> module[e].name, decl |-> module[e].decl, code |-> module[e].code]
      BY <2>2 DEF HandlesInv, IsModule, IsFunction
    <3> QED BY <2>3, <3>1
  <2>6. \A id \in 1 .. Len(module) : r[id].code = module[id].code
    BY <1>1, <2>2, <2>4, <2>5
  <2>7. IsList(r) /\ Len(r) = Len(module)
    <3>1. PICK S : module \in Seq(S)
      BY <1>1 DEF IsList
    <3>2. module \in Seq(S \cup {g}) /\ g \in S \cup {g}
      BY <3>1, SeqMonotonic
    <3>3. r \in Seq(S \cup {g}) /\ Len(r) = Len(module)
      BY <2>2, <2>4, <3>2, ExceptSeq
    <3> QED BY <3>3 DEF IsList
  <2>8. /\ Len(module') = Len(r) + 1
        /\ \A id \in 1 .. Len(r) : module'[id] = r[id]
    BY <2>1, <2>7, AppendedList
  <2>9. PICK l : l = Len(module)
    OBVIOUS
  <2> QED BY <1>1, <2>6, <2>7, <2>8, <2>9 DEF Grown
<1> QED BY <1>2, <1>3

\* Before anything is read the files are as they were written.
LEMMA InitReading ==
  ASSUME Init
  PROVE  ReadingInv /\ ProgramOK
<1>1. /\ mode \in DOMAIN Texts /\ pending = files /\ partial = Absent
      /\ classes = << >> /\ functions = << >>
  BY DEF Init, ReadInit, ProgramInit
<1>2. PICK text \in Texts[mode] : files = IF mode = "print" THEN <<text>> ELSE <<Library, text>>
  BY DEF Init
<1>3. IsInput(text, "absent") /\ IsInput(Library, "absent")
  BY <1>1, <1>2, FilesAssumption DEF File, IsInput
<1>4. PICK state : state = "absent" /\ state = StateOf(partial)
  BY <1>1 DEF StateOf, Absent
<1>5. IsInput(text, state) /\ IsInput(Library, state)
  BY <1>3, <1>4
<1>6. PICK single, pair : single = <<text>> /\ pair = <<Library, text>>
  OBVIOUS
<1>7. /\ IsList(single) /\ Len(single) = 1 /\ single[1] = text
      /\ IsList(pair) /\ Len(pair) = 2 /\ pair[1] = Library /\ pair[2] = text
  <2>1. single \in Seq({text}) /\ pair \in Seq({Library, text})
    BY <1>6
  <2>2. Len(single) = 1 /\ single[1] = text /\ Len(pair) = 2 /\ pair[1] = Library /\ pair[2] = text
    BY <1>6
  <2> QED BY <2>1, <2>2 DEF IsList
<1>8. pending = single \/ pending = pair
  BY <1>1, <1>2, <1>6
<1>9. IsList(pending) /\ \A n \in 1 .. Len(pending) : IsInput(pending[n], state)
  <2>1. CASE pending = single
    <3>1. \A n \in 1 .. 1 : n = 1
      OBVIOUS
    <3> QED BY <1>5, <1>7, <2>1, <3>1
  <2>2. CASE pending = pair
    <3>1. \A n \in 1 .. 2 : n = 1 \/ n = 2
      OBVIOUS
    <3> QED BY <1>5, <1>7, <2>2, <3>1
  <2> QED BY <1>8, <2>1, <2>2
<1>10. ReadingInv
  BY <1>1, <1>4, <1>9 DEF ReadingInv
<1>11. ProgramOK
  <2>1. << >> \in Seq(ClassNodes) /\ << >> \in Seq(FunctionNodes)
    OBVIOUS
  <2> QED BY <1>1, <2>1 DEF ProgramOK
<1> QED BY <1>10, <1>11

\* The processes that are at their end.
Ended == {"ran", "emitted", "crashed"}

\* What is generated is what codegen keeps; at the end of the process the
\* module goes on behind it.
ProcessInv ==
  /\ ProgramOK /\ yylval \in IntRange
  /\ outcome = "reading" => ReadingInv
  /\ outcome \notin Ended => GenInv
  /\ outcome \in {"generating", "generated", "aborted", "rejected"} => GenOutcome
  /\ FieldsInitialised /\ MistypedByComparison /\ TypesHold
  /\ global.region \in 0 .. Len(module) /\ entry \in 0 .. Len(module)

\* Nothing is generated yet.
NothingGenerated ==
  /\ ProgramOK /\ GenInit /\ yylval \in IntRange /\ outcome \in Early \cup {"generating"} /\ entry = 0
  /\ outcome = "reading" => ReadingInv

\* What holds of a module without bodies and classes.
LEMMA EarlyProcess == ASSUME NothingGenerated PROVE ProcessInv
<1> USE DEF NothingGenerated
<1>1. HandlesInv /\ ModuleInv /\ GenInv
  BY InitHandlesInv, InitModuleInv, InitGenInv
<1>2. GenState
  BY <1>1 DEF GenState
<1>3. FieldsInitialised /\ MistypedByComparison /\ TypesHold
  BY <1>2, GenFields, GenMistyped, GenTypes
<1>4. Len(module) \in Nat
  BY <1>1, ModuleLength DEF HandlesInv
<1>5. global.region = 0
  BY DEF GenInit
<1>6. global.region \in 0 .. Len(module) /\ entry \in 0 .. Len(module)
  BY <1>4, <1>5
<1>7. outcome \in {"generating", "generated", "aborted", "rejected"} => GenOutcome
  BY DEF Early, GenOutcome
<1> QED BY <1>1, <1>3, <1>6, <1>7 DEF ProcessInv

\* The invariant holds at the beginning.
LEMMA InitProcess == Init => ProcessInv
<1> SUFFICES ASSUME Init PROVE ProcessInv
  OBVIOUS
<1>1. GenInit /\ yylval = 0 /\ outcome = "reading" /\ entry = 0
  BY DEF Init, ReadInit
<1>2. yylval \in IntRange
  BY <1>1, WrapIs
<1> QED BY <1>1, <1>2, InitReading, EarlyProcess DEF Early, NothingGenerated

\* What the process is before it is at its end.
LEMMA NotEnded ==
  ASSUME HandlesInv, MainInv, ProcessInv, outcome \notin Ended
  PROVE  GenState /\ entry = 0 /\ (outcome \in Early => GenInit)
<1>1. /\ entry = 0 /\ outcome \in Early \cup {"generating", "generated", "aborted", "rejected"}
      /\ ModuleInv
      /\ outcome \in Early => GenInit
  BY DEF MainInv, Ended
<1> QED BY <1>1 DEF GenState, ProcessInv

\* The steps until something is generated.
LEMMA EarlyStep ==
  ASSUME HandlesInv, MainInv, ProcessInv, ReadStep \/ PrintStep \/ StartPrint \/ StartCodegen
  PROVE  ProcessInv'
<1>1. /\ UNCHANGED <<genVars, entry>> /\ outcome \in Early
      /\ outcome' \in Early \cup {"generating"}
  BY DEF Early, ReadStep, ReadNext, LexOpen, LexMember, LexNumber, LexClose, LexComment, LexStop, At, Reading,
         PrintStep, PrintNext, PrintClass, PrintFunction, FinishPrint, PrintBlock, Begun, StartCodegen, StartPrint, AllRead
<1>2. GenInit /\ entry = 0
  BY <1>1, NotEnded DEF Early, Ended
<1>3. GenInit' /\ entry' = 0
  BY <1>1, <1>2 DEF GenInit, genVars
<1>4. ProgramOK' /\ yylval' \in IntRange /\ (outcome' = "reading" => ReadingInv')
  <2>1. CASE ReadStep
    <3>1. ReadNext /\ outcome = "reading"
      BY <2>1 DEF ReadStep, ReadNext, LexOpen, LexMember, LexNumber, LexClose, LexComment, LexStop, At, Reading
    <3> QED BY <3>1, ReadNextKeeps DEF ProcessInv
  <2>2. CASE PrintStep \/ StartPrint \/ StartCodegen
    <3>1. UNCHANGED <<classes, functions, yylval>> /\ outcome' # "reading"
      BY <2>2 DEF PrintStep, PrintNext, PrintClass, PrintFunction, FinishPrint, PrintBlock, Begun, StartCodegen,
                  StartPrint, AllRead, readVars
    <3> QED BY <3>1 DEF ProcessInv, ProgramOK
  <2> QED BY <2>1, <2>2
<1>5. NothingGenerated'
  BY <1>1, <1>3, <1>4 DEF NothingGenerated
<1> QED BY <1>5, EarlyProcess, PTL

\* The steps of codegen.
LEMMA GenStepProcess ==
  ASSUME HandlesInv, HandlesInv', MainInv, MainInv', ProcessInv, GenStep
  PROVE  ProcessInv'
<1>1. GenNext /\ UNCHANGED <<readVars, entry>> /\ outcome = "generating"
  BY GenUnchanged DEF GenStep
<1>2. GenState /\ entry = 0
  BY <1>1, NotEnded DEF Ended
<1>3. GenInv' /\ GenOutcome'
  BY <1>1, <1>2, GenNextKeeps
<1>4. outcome' \in {"generating", "generated", "aborted", "rejected"}
  BY <1>3 DEF GenOutcome
<1>5. ModuleInv'
  BY <1>4 DEF MainInv
<1>6. ProgramOK' /\ yylval' \in IntRange
  BY <1>1, GenUnchanged DEF ProcessInv, ProgramOK, readVars
<1>7. GenState'
  BY <1>3, <1>5, <1>6 DEF GenState
<1>8. FieldsInitialised' /\ MistypedByComparison' /\ TypesHold'
  BY <1>7, GenFields, GenMistyped, GenTypes, PTL
<1>9. global'.region \in 0 .. Len(module')
  BY <1>1, RegionKept DEF ProcessInv
<1>10. entry' \in 0 .. Len(module')
  <2>1. PICK n : n = Len(module') /\ n \in Nat
    BY ListDomain DEF HandlesInv, IsModule
  <2> QED BY <1>1, <1>2, <2>1
<1> QED BY <1>3, <1>4, <1>6, <1>8, <1>9, <1>10 DEF ProcessInv

\* The end of the process.
LEMMA EndStep ==
  ASSUME HandlesInv, HandlesInv', MainInv, ProcessInv, runProgram \/ makeObject
  PROVE  ProcessInv'
<1>1. /\ UNCHANGED <<classes, functions, readVars, classTypes, global, body, local>>
      /\ outcome = "generated" /\ outcome' \in Ended /\ entry' = Main
  BY DEF runProgram, makeObject, genVars, Ended
<1>2. GenState
  BY <1>1, NotEnded DEF Ended
<1>3. Grown(module, module')
  <2>1. CASE runProgram
    <3>1. UNCHANGED module
      BY <2>1 DEF runProgram, genVars
    <3>2. IsList(module) /\ Len(module) \in Nat
      BY ModuleLength DEF HandlesInv, IsModule
    <3> QED BY <3>1, <3>2 DEF Grown
  <2>2. CASE makeObject
    BY <2>2, ObjectGrown
  <2> QED BY <2>1, <2>2
<1>4. (FieldsInitialised /\ MistypedByComparison /\ TypesHold)'
  BY <1>1, <1>2, <1>3, GrownKeeps
<1>5. ProgramOK' /\ yylval' \in IntRange
  BY <1>1 DEF ProcessInv, ProgramOK, readVars
<1>6. PICK m, n : m = Len(module) /\ n = Len(module') /\ m \in Nat /\ n \in Nat /\ m <= n
  BY <1>3, ModuleLength, ListDomain DEF HandlesInv, Grown
<1>7. global'.region \in 0 .. n
  BY <1>1, <1>6 DEF ProcessInv
<1>8. entry' \in 0 .. n
  <2>1. PICK e : e = Main /\ e \in 0 .. m
    <3>1. Main \in 0 .. m
      BY <1>6, NoMain DEF Main, HandlesInv
    <3> QED BY <3>1
  <2> QED BY <1>1, <1>6, <2>1
<1> QED BY <1>1, <1>4, <1>5, <1>6, <1>7, <1>8 DEF ProcessInv, Ended

\* What holds of the same classes and values holds again.
LEMMA SameKeeps ==
  ASSUME FieldsInitialised, MistypedByComparison, TypesHold,
         UNCHANGED <<classes, functions, module, classTypes, global, local>>
  PROVE  (FieldsInitialised /\ MistypedByComparison /\ TypesHold)'
<1>1. /\ Chain' = Chain /\ CompleteClasses' = CompleteClasses /\ MemberNames' = MemberNames
      /\ Lineage' = Lineage
      /\ \A class : Offset(class)' = Offset(class)
  BY DEF Chain, CompleteClasses, MemberNames, Class, Offset, Lineage, ClassNamed
<1>2. \A k : InitCode(k)' = InitCode(k) /\ StoresOf(k)' = StoresOf(k)
  BY DEF InitCode, StoresOf
<1>3. \A k, name : Child(k, name)' = Child(k, name) /\ AsMember(name, k, 0)' = AsMember(name, k, 0)
  <2> SUFFICES ASSUME NEW k, NEW name
               PROVE  Child(k, name)' = Child(k, name) /\ AsMember(name, k, 0)' = AsMember(name, k, 0)
    OBVIOUS
  <2>1. Child(k, name)' = Child(k, name)
    BY <1>1 DEF Child, getChild, Has
  <2>2. AsMember(name, k, 0)' = AsMember(name, k, 0)
    BY <1>1, SMTT(30) DEF AsMember, Owners, MemberAt, OwnMember
  <2> QED BY <2>1, <2>2
<1>4. \A k, path : StoredAt(k, path)' = StoredAt(k, path)
  BY <1>1, <1>2 DEF StoredAt
<1>6. \A decl : IsField(decl)' <=> IsField(decl)
  BY DEF IsField, Written
<1>7. ASSUME NEW k \in CompleteClasses
      PROVE  (/\ {InitCode(k)[i].index : i \in StoresOf(k)} = Offset(classTypes[k]) .. Len(classTypes[k].slots) - 1
              /\ \A i \in StoresOf(k) : LET store == InitCode(k)[i] IN
                   /\ store.value.width = classTypes[k].slots[store.index + 1]
                   /\ \A j \in StoresOf(k) : InitCode(k)[j].index = store.index => j = i)'
  BY <1>1, <1>2 DEF FieldsInitialised, Offset
<1>8. ASSUME NEW k \in CompleteClasses, NEW name \in MemberNames
      PROVE  (LET decl == AsMember(name, k, 0) IN
                decl # << >> /\ IsField(decl) => StoredAt(k, Child(k, name).code.path) = decl)'
  BY <1>3, <1>4, <1>6 DEF FieldsInitialised
<1>9. FieldsInitialised'
  BY <1>1, <1>7, <1>8 DEF FieldsInitialised
<1>10. MistypedByComparison'
  BY <1>1, <1>2 DEF MistypedByComparison
<1>11. TypesHold'
  BY <1>1 DEF TypesHold
<1> QED BY <1>9, <1>10, <1>11

\* Nothing happens.
LEMMA IdleProcess ==
  ASSUME HandlesInv, HandlesInv', MainInv, ProcessInv, UNCHANGED vars
  PROVE  ProcessInv'
<1>1. UNCHANGED <<classes, functions, outcome, files, pending, yylval, partial, module, classTypes, global, body, local, entry>>
  BY DEF vars, readVars, genVars
<1>2. (FieldsInitialised /\ MistypedByComparison /\ TypesHold)'
  BY <1>1, SameKeeps DEF ProcessInv
<1>3. ProgramOK' /\ yylval' \in IntRange /\ global'.region \in 0 .. Len(module') /\ entry' \in 0 .. Len(module')
  BY <1>1 DEF ProcessInv, ProgramOK
<1>4. ReadingInv => ReadingInv'
  BY <1>1 DEF ReadingInv, StateOf
<1>5. outcome \notin Ended => GenInv'
  <2> SUFFICES ASSUME outcome \notin Ended PROVE GenInv'
    OBVIOUS
  <2>1. GenState
    BY NotEnded
  <2> QED BY <1>1, <2>1, IdleKeeps
<1>6. GenOutcome => GenOutcome'
  <2>1. Accepted' <=> Accepted
    BY <1>1, AcceptedKept DEF ProcessInv
  <2>2. AllGenerated' <=> AllGenerated
    BY <1>1 DEF AllGenerated, Class, Done
  <2> QED BY <1>1, <2>1, <2>2 DEF GenOutcome
<1> QED BY <1>1, <1>2, <1>3, <1>4, <1>5, <1>6 DEF ProcessInv

\* Each step keeps it.
LEMMA NextProcess ==
  HandlesInv /\ HandlesInv' /\ MainInv /\ MainInv' /\ ProcessInv /\ [Next]_vars => ProcessInv'
BY EarlyStep, GenStepProcess, EndStep, IdleProcess DEF Next

\* What the processes keep, together.
LEMMA ProcessKept == Spec => [](HandlesInv /\ MainInv /\ ProcessInv)
<1>1. Init => HandlesInv /\ MainInv /\ ProcessInv
  BY InitHandlesInv, InitModuleInv, InitProcess DEF Init, MainInv, Early
<1>2. HandlesInv /\ MainInv /\ ProcessInv /\ [Next]_vars => (HandlesInv /\ MainInv /\ ProcessInv)'
  BY NextHandlesInv, NextMainInv, NextProcess
<1> QED BY <1>1, <1>2, PTL DEF Spec

\* Whatever the files, each name in a generated body stands for what the scoping
\* of the language says, although maps are filled and replaced while code is
\* generated and fields are found by counted indices.
THEOREM NamesFollowScoping == Spec => []NamesResolved
<1>1. HandlesInv /\ MainInv /\ ProcessInv => NamesResolved
  <2> SUFFICES ASSUME HandlesInv, MainInv, ProcessInv, outcome = "generated" PROVE NamesResolved
    BY DEF NamesResolved
  <2>1. GenState /\ AllGenerated
    BY NotEnded DEF Ended, ProcessInv, GenOutcome
  <2> QED BY <2>1, GenNames DEF NamesResolved
<1> QED BY <1>1, ProcessKept, PTL

\* Codegen comes to its end exactly if each declaration mentions only what
\* stands in front of it, whatever the files.
THEOREM OrderDecides == Spec => []CompiledByOrder
<1>1. HandlesInv /\ MainInv /\ ProcessInv => CompiledByOrder
  <2> SUFFICES ASSUME HandlesInv, MainInv, ProcessInv PROVE CompiledByOrder
    OBVIOUS
  <2>1. ASSUME outcome = "generated" PROVE Accepted
    <3>1. GenState /\ AllGenerated
      BY <2>1, NotEnded DEF Ended, ProcessInv, GenOutcome
    <3> QED BY <3>1, GenAccepted
  <2>2. ASSUME outcome \in {"aborted", "rejected"} PROVE ~Accepted
    BY <2>2 DEF ProcessInv, GenOutcome
  <2> QED BY <2>1, <2>2 DEF CompiledByOrder
<1> QED BY <1>1, ProcessKept, PTL

\* In every class whose code is complete, at any time, each slot is stored once
\* and a field holds the value of its last declaration.
THEOREM FieldsAreStored == Spec => []FieldsInitialised
<1>1. ProcessInv => FieldsInitialised
  BY DEF ProcessInv
<1> QED BY <1>1, ProcessKept, PTL

\* Only comparisons and printf give a field a width that its type is not stored
\* with.
THEOREM OnlyComparisonsMistype == Spec => []MistypedByComparison
<1>1. ProcessInv => MistypedByComparison
  BY DEF ProcessInv
<1> QED BY <1>1, ProcessKept, PTL

\* The functions that values, classes and regions name exist, and yylval fits
\* its type.
THEOREM CompilerTypes == Spec => []TypeOK
<1>1. ProcessInv => TypeOK
  BY DEF ProcessInv, TypesHold, TypeOK, IntRange
<1> QED BY <1>1, ProcessKept, PTL

(***************************************************************************)
(* What was read, in the order of the files.                               *)
(***************************************************************************)
OrderStep(f, S, i) ==
  IF i = 0 THEN << >> ELSE IF i \in S THEN Append(f[i - 1], i) ELSE f[i - 1]

OrderTo(f, S, n) == f = [i \in 0 .. n |-> OrderStep(f, S, i)]

\* There is such a function.
LEMMA OrderExists ==
  ASSUME NEW S, NEW N \in Nat
  PROVE  \E f : OrderTo(f, S, N)
<1>1. PICK T : T = {n \in Nat : \E f : OrderTo(f, S, n)}
  OBVIOUS
<1>2. 0 \in T
  <2>1. PICK f : f = [i \in 0 .. 0 |-> << >>]
    OBVIOUS
  <2>2. OrderTo(f, S, 0)
    BY <2>1 DEF OrderTo, OrderStep
  <2> QED BY <1>1, <2>2
<1>3. ASSUME NEW n \in Nat, n \in T PROVE n + 1 \in T
  <2>1. PICK h : OrderTo(h, S, n)
    BY <1>1, <1>3
  <2>2. PICK f : f = [i \in 0 .. n + 1 |-> IF i = n + 1 THEN OrderStep(h, S, i) ELSE h[i]]
    OBVIOUS
  <2>3. \A i \in 0 .. n : f[i] = h[i] /\ h[i] = OrderStep(h, S, i)
    BY <2>1, <2>2, SMTT(30) DEF OrderTo
  <2>4. \A i \in 0 .. n + 1 : OrderStep(f, S, i) = OrderStep(h, S, i)
    <3> SUFFICES ASSUME NEW i \in 0 .. n + 1, i # 0 PROVE f[i - 1] = h[i - 1]
      BY DEF OrderStep
    <3> QED BY <2>3
  <2>5. \A i \in 0 .. n + 1 : i \in 0 .. n \/ i = n + 1
    OBVIOUS
  <2>6. f[n + 1] = OrderStep(h, S, n + 1)
    BY <2>2
  <2>7. \A i \in 0 .. n + 1 : f[i] = OrderStep(f, S, i)
    BY <2>3, <2>4, <2>5, <2>6
  <2>8. f = [i \in 0 .. n + 1 |-> f[i]]
    BY <2>2
  <2>9. OrderTo(f, S, n + 1)
    BY <2>7, <2>8 DEF OrderTo
  <2> QED BY <1>1, <2>9
<1> QED BY <1>1, <1>2, <1>3, Upwards

\* They agree as far as both go, if the sets do.
LEMMA OrderUnique ==
  ASSUME NEW S, NEW T, NEW f, NEW g, NEW m \in Nat, NEW n \in Nat, m <= n, OrderTo(f, S, m), OrderTo(g, T, n),
         \A i \in 1 .. m : i \in S <=> i \in T
  PROVE  f[m] = g[m]
<1> SUFFICES ASSUME f[m] # g[m] PROVE FALSE
  OBVIOUS
<1>1. PICK D : D = {i \in 0 .. m : f[i] # g[i]}
  OBVIOUS
<1>2. D \in SUBSET Nat /\ D # {}
  BY <1>1
<1>3. PICK i : i \in D /\ \A j \in D : i <= j
  BY <1>2, LeastIs
<1>4. i \in 0 .. m /\ i \in 0 .. n /\ f[i] # g[i]
  BY <1>1, <1>3
<1>5. f[i] = OrderStep(f, S, i) /\ g[i] = OrderStep(g, T, i)
  BY <1>4 DEF OrderTo
<1>6. CASE i = 0
  BY <1>4, <1>5, <1>6 DEF OrderStep
<1>7. CASE i # 0
  <2>1. i - 1 \in 0 .. m /\ i - 1 \notin D /\ i \in 1 .. m
    BY <1>3, <1>4, <1>7
  <2>2. f[i - 1] = g[i - 1]
    BY <1>1, <2>1
  <2> QED BY <1>4, <1>5, <1>7, <2>1, <2>2 DEF OrderStep
<1> QED BY <1>6, <1>7

\* InOrder is what its definition says.
LEMMA InOrderIs ==
  ASSUME NEW S, NEW n \in Nat
  PROVE  \E f : OrderTo(f, S, n) /\ InOrder(S, n) = f[n]
<1>1. \E f : OrderTo(f, S, n)
  BY OrderExists
<1>2. PICK f : f = CHOOSE g : g = [i \in 0 .. n |-> OrderStep(g, S, i)]
  OBVIOUS
<1>3. f = [i \in 0 .. n |-> OrderStep(f, S, i)]
  BY <1>1, <1>2, Zenon DEF OrderTo
<1>4. InOrder(S, n) = f[n]
  BY <1>2, Zenon DEF InOrder, OrderStep
<1> QED BY <1>3, <1>4 DEF OrderTo

\* Only the numbers up to n matter.
LEMMA InOrderSame ==
  ASSUME NEW S, NEW T, NEW n \in Nat, \A i \in 1 .. n : i \in S <=> i \in T
  PROVE  InOrder(S, n) = InOrder(T, n)
BY InOrderIs, OrderUnique

\* One number more.
LEMMA InOrderNext ==
  ASSUME NEW S, NEW n \in Nat
  PROVE  /\ InOrder(S, 0) = << >>
         /\ InOrder(S, n + 1) = IF n + 1 \in S THEN Append(InOrder(S, n), n + 1) ELSE InOrder(S, n)
<1>1. InOrder(S, 0) = << >>
  <2>1. PICK f : OrderTo(f, S, 0) /\ InOrder(S, 0) = f[0]
    BY InOrderIs
  <2> QED BY <2>1 DEF OrderTo, OrderStep
<1>2. PICK f : OrderTo(f, S, n) /\ InOrder(S, n) = f[n]
  BY InOrderIs
<1>3. PICK g : OrderTo(g, S, n + 1) /\ InOrder(S, n + 1) = g[n + 1]
  BY InOrderIs
<1>4. f[n] = g[n]
  BY <1>2, <1>3, OrderUnique
<1>5. g[n + 1] = OrderStep(g, S, n + 1)
  BY <1>3 DEF OrderTo
<1>6. g[n + 1] = IF n + 1 \in S THEN Append(g[n], n + 1) ELSE g[n]
  BY <1>5 DEF OrderStep
<1> QED BY <1>1, <1>2, <1>3, <1>4, <1>6

\* The numbers of S up to n, in order.
IsOrder(s, S, n) ==
  /\ IsList(s)
  /\ \A k \in 1 .. Len(s) : s[k] \in S /\ s[k] \in 1 .. n
  /\ \A k \in 1 .. Len(s) : \A j \in 1 .. k - 1 : s[j] < s[k]
  /\ \A i \in 1 .. n : i \in S => Len(s) > 0 /\ i <= s[Len(s)]

\* InOrder gives them.
LEMMA OrderedList ==
  ASSUME NEW S, NEW N \in Nat
  PROVE  IsOrder(InOrder(S, N), S, N)
<1>1. PICK T : T = {n \in Nat : IsOrder(InOrder(S, n), S, n)}
  OBVIOUS
<1>2. 0 \in T
  <2>1. InOrder(S, 0) = << >>
    BY InOrderNext
  <2>2. IsOrder(<< >>, S, 0)
    BY EmptyList DEF IsOrder
  <2> QED BY <1>1, <2>1, <2>2
<1>3. ASSUME NEW n \in Nat, n \in T PROVE n + 1 \in T
  <2>1. PICK s : s = InOrder(S, n)
    OBVIOUS
  <2>2. IsOrder(s, S, n)
    BY <1>1, <1>3, <2>1
  <2>3. PICK l : l = Len(s) /\ l \in Nat
    BY <2>2, ListDomain DEF IsOrder
  <2>4. CASE n + 1 \notin S
    <3>1. InOrder(S, n + 1) = s
      BY <2>1, <2>4, InOrderNext
    <3>2. IsOrder(s, S, n + 1)
      <4>1. \A k \in 1 .. Len(s) : s[k] \in S /\ s[k] \in 1 .. n + 1
        BY <2>2 DEF IsOrder
      <4>2. \A i \in 1 .. n + 1 : i \in S => i \in 1 .. n
        BY <2>4
      <4> QED BY <2>2, <4>1, <4>2 DEF IsOrder
    <3> QED BY <1>1, <3>1, <3>2
  <2>5. CASE n + 1 \in S
    <3>1. PICK t : t = Append(s, n + 1)
      OBVIOUS
    <3>2. IsList(t) /\ Len(t) = l + 1 /\ t[l + 1] = n + 1 /\ \A k \in 1 .. l : t[k] = s[k]
      BY <2>2, <2>3, <3>1, AppendedList DEF IsOrder
    <3>3. \A k \in 1 .. l + 1 : k \in 1 .. l \/ k = l + 1
      BY <2>3
    <3>4. \A k \in 1 .. l : t[k] \in S /\ t[k] \in 1 .. n
      BY <2>2, <2>3, <3>2 DEF IsOrder
    <3>5. \A k \in 1 .. l + 1 : t[k] \in S /\ t[k] \in 1 .. n + 1
      BY <2>5, <3>2, <3>3, <3>4
    <3>6. ASSUME NEW k \in 1 .. l + 1, NEW j \in 1 .. k - 1 PROVE t[j] < t[k]
      <4>1. j \in 1 .. l
        BY <2>3, <3>6
      <4>2. CASE k = l + 1
        BY <3>2, <3>4, <4>1, <4>2
      <4>3. CASE k \in 1 .. l
        BY <2>2, <2>3, <3>2, <4>1, <4>3 DEF IsOrder
      <4> QED BY <3>3, <4>2, <4>3
    <3>7. \A i \in 1 .. n + 1 : i <= t[l + 1]
      BY <3>2
    <3>8. IsOrder(t, S, n + 1)
      BY <2>3, <3>2, <3>5, <3>6, <3>7 DEF IsOrder
    <3>9. InOrder(S, n + 1) = t
      BY <2>1, <2>5, <3>1, InOrderNext
    <3> QED BY <1>1, <3>8, <3>9
  <2> QED BY <2>4, <2>5
<1> QED BY <1>1, <1>2, <1>3, Upwards

\* Where none of them is, nothing is added.
LEMMA InOrderBeyond ==
  ASSUME NEW S, NEW m \in Nat, NEW N \in Nat, m <= N, \A i \in m + 1 .. N : i \notin S
  PROVE  InOrder(S, N) = InOrder(S, m)
<1>1. PICK T : T = {n \in Nat : m <= n /\ n <= N => InOrder(S, n) = InOrder(S, m)}
  OBVIOUS
<1>2. 0 \in T
  BY <1>1
<1>3. ASSUME NEW n \in Nat, n \in T PROVE n + 1 \in T
  <2> SUFFICES ASSUME m <= n + 1, n + 1 <= N PROVE InOrder(S, n + 1) = InOrder(S, m)
    BY <1>1
  <2>1. CASE m = n + 1
    BY <2>1
  <2>2. CASE m # n + 1
    <3>1. m <= n /\ n <= N /\ n + 1 \in m + 1 .. N
      BY <2>2
    <3>2. InOrder(S, n) = InOrder(S, m) /\ n + 1 \notin S
      BY <1>1, <1>3, <3>1
    <3> QED BY <3>2, InOrderNext
  <2> QED BY <2>1, <2>2
<1>4. N \in T
  BY <1>2, <1>3, Upwards
<1> QED BY <1>1, <1>4

\* T has one number more, behind the others.
Adds(T, S, o, n) ==
  /\ n \in Nat /\ o \in 1 .. n
  /\ \A i \in 1 .. n : i \in T <=> (i = o \/ i \in S)
  /\ \A i \in 1 .. n : i \in S => i < o

\* It is the last one.
LEMMA InOrderAdded ==
  ASSUME NEW S, NEW T, NEW N, NEW o, Adds(T, S, o, N)
  PROVE  InOrder(T, N) = Append(InOrder(S, N), o)
<1> USE DEF Adds
<1>1. PICK m : m = o - 1 /\ m \in Nat /\ m + 1 = o /\ o \in Nat
  OBVIOUS
<1>2. InOrder(T, N) = InOrder(T, o)
  <2>1. \A i \in o + 1 .. N : i \in 1 .. N /\ i \notin S /\ i # o
    OBVIOUS
  <2> QED BY <1>1, <2>1, InOrderBeyond
<1>3. InOrder(T, o) = Append(InOrder(T, m), o)
  <2>1. m + 1 \in T
    BY <1>1
  <2>2. InOrder(T, m + 1) = Append(InOrder(T, m), m + 1)
    BY <1>1, <2>1, InOrderNext
  <2> QED BY <1>1, <2>2
<1>4. InOrder(T, m) = InOrder(S, m)
  <2>1. \A i \in 1 .. m : i \in T <=> i \in S
    BY <1>1
  <2> QED BY <1>1, <2>1, InOrderSame
<1>5. InOrder(S, N) = InOrder(S, m)
  <2>1. \A i \in m + 1 .. N : i \notin S
    BY <1>1
  <2>2. m <= N
    BY <1>1
  <2> QED BY <1>1, <2>1, <2>2, InOrderBeyond
<1> QED BY <1>2, <1>3, <1>4, <1>5

(***************************************************************************)
(* The sequences of a sequence, one after the other.                       *)
(***************************************************************************)
FlatStep(f, ss, n) == IF n = 0 THEN << >> ELSE f[n - 1] \o ss[n]

FlatTo(f, ss, n) == f = [i \in 0 .. n |-> FlatStep(f, ss, i)]

\* There is such a function.
LEMMA FlatExists ==
  ASSUME NEW ss, NEW N \in Nat
  PROVE  \E f : FlatTo(f, ss, N)
<1>1. PICK T : T = {n \in Nat : \E f : FlatTo(f, ss, n)}
  OBVIOUS
<1>2. 0 \in T
  <2>1. PICK f : f = [i \in 0 .. 0 |-> << >>]
    OBVIOUS
  <2>2. FlatTo(f, ss, 0)
    BY <2>1 DEF FlatTo, FlatStep
  <2> QED BY <1>1, <2>2
<1>3. ASSUME NEW n \in Nat, n \in T PROVE n + 1 \in T
  <2>1. PICK h : FlatTo(h, ss, n)
    BY <1>1, <1>3
  <2>2. PICK f : f = [i \in 0 .. n + 1 |-> IF i = n + 1 THEN FlatStep(h, ss, i) ELSE h[i]]
    OBVIOUS
  <2>3. \A i \in 0 .. n : f[i] = h[i] /\ h[i] = FlatStep(h, ss, i)
    BY <2>1, <2>2, SMTT(30) DEF FlatTo
  <2>4. \A i \in 0 .. n + 1 : FlatStep(f, ss, i) = FlatStep(h, ss, i)
    <3> SUFFICES ASSUME NEW i \in 0 .. n + 1, i # 0 PROVE f[i - 1] = h[i - 1]
      BY DEF FlatStep
    <3> QED BY <2>3
  <2>5. \A i \in 0 .. n + 1 : i \in 0 .. n \/ i = n + 1
    OBVIOUS
  <2>6. f[n + 1] = FlatStep(h, ss, n + 1)
    BY <2>2
  <2>7. \A i \in 0 .. n + 1 : f[i] = FlatStep(f, ss, i)
    BY <2>3, <2>4, <2>5, <2>6
  <2>8. f = [i \in 0 .. n + 1 |-> f[i]]
    BY <2>2
  <2>9. FlatTo(f, ss, n + 1)
    BY <2>7, <2>8 DEF FlatTo
  <2> QED BY <1>1, <2>9
<1> QED BY <1>1, <1>2, <1>3, Upwards

\* What Flat makes of them goes through these.
Flattening(f, ss) ==
  /\ f[0] = << >>
  /\ \A n \in 1 .. Len(ss) : f[n] = f[n - 1] \o ss[n]
  /\ Flat(ss) = f[Len(ss)]

\* Flat is what its definition says.
LEMMA FlatIs ==
  ASSUME NEW ss, Len(ss) \in Nat
  PROVE  \E f : Flattening(f, ss)
<1>1. \E f : FlatTo(f, ss, Len(ss))
  BY FlatExists
<1>2. PICK f : f = CHOOSE g : g = [i \in 0 .. Len(ss) |-> FlatStep(g, ss, i)]
  OBVIOUS
<1>3. f = [i \in 0 .. Len(ss) |-> FlatStep(f, ss, i)]
  BY <1>1, <1>2, Zenon DEF FlatTo
<1>4. Flat(ss) = f[Len(ss)]
  BY <1>2, Zenon DEF Flat, FlatStep
<1>5. \A n \in 0 .. Len(ss) : f[n] = FlatStep(f, ss, n)
  BY <1>3
<1>6. f[0] = << >>
  <2>1. 0 \in 0 .. Len(ss)
    OBVIOUS
  <2> QED BY <1>5, <2>1 DEF FlatStep
<1>7. ASSUME NEW n \in 1 .. Len(ss) PROVE f[n] = f[n - 1] \o ss[n]
  <2>1. n \in 0 .. Len(ss) /\ n # 0
    OBVIOUS
  <2> QED BY <1>5, <2>1 DEF FlatStep
<1> QED BY <1>4, <1>6, <1>7 DEF Flattening

(***************************************************************************)
(* What a declaration is that was read up to p.                            *)
(***************************************************************************)

\* yylval behind the lexeme at i.
Left(file, i) == IF Literals(file, i) = {} THEN 0 ELSE Wrap(file[Latest(Literals(file, i))].value, IntBits)

OperandsRead(operands, file, m, p) ==
  LET numbers == InOrder(NumberSet(file, m), p) IN
  /\ Len(operands) = Len(numbers)
  /\ \A j \in 1 .. Len(numbers) : operands[j] = Left(file, numbers[j])

MembersRead(members, file, o, p) ==
  LET places == InOrder(MemberSet(file, o), p) IN
  /\ Len(members) = Len(places)
  /\ \A m \in 1 .. Len(places) :
       /\ members[m].kind = "field" <=> file[places[m]].kind = "field"
       /\ file[places[m]].kind = "field" => OperandsRead(members[m].operands, file, places[m], p)

\* The declaration that begins at o was read, up to p.
Begins(node, file, o, p) ==
  /\ o \in 1 .. p
  /\ file[o].kind = "open" /\ node.kind = file[o].node.kind /\ node.name = file[o].node.name
  /\ node.kind = "class" => MembersRead(node.members, file, o, p)

Ends(file, o, p) == \E c \in o + 1 .. p : file[c].kind = "close"

\* It is the only one that is not complete.
IsOpen(node, file, o, p) ==
  /\ Begins(node, file, o, p)
  /\ \A i \in o + 1 .. p : file[i].kind \notin {"open", "close"}
  /\ \A i \in 1 .. o - 1 : file[i].kind = "open" => Ends(file, i, p)

PartialRead(node, file, p) ==
  IF node = Absent THEN \A i \in 1 .. p : file[i].kind = "open" => Ends(file, i, p)
  ELSE \E o : IsOpen(node, file, o, p)

\* Only the end of a declaration completes one.
LEMMA CompleteSame ==
  ASSUME NEW file, NEW p \in Nat, NEW kind, file[p + 1].kind # "close"
  PROVE  Complete(file, kind, p + 1) = Complete(file, kind, p)
<1>1. PICK S, T : /\ S = {i \in 1 .. p : /\ file[i].kind = "open" /\ file[i].node.kind = kind
                                        /\ \E c \in i + 1 .. p : file[c].kind = "close"}
                  /\ T = {i \in 1 .. p + 1 : /\ file[i].kind = "open" /\ file[i].node.kind = kind
                                            /\ \E c \in i + 1 .. p + 1 : file[c].kind = "close"}
  OBVIOUS
<1>2. ASSUME NEW i \in 1 .. p + 1 PROVE i \in T <=> i \in S
  <2>1. \A c \in i + 1 .. p + 1 : file[c].kind = "close" => c \in i + 1 .. p
    OBVIOUS
  <2>2. \A c \in i + 1 .. p : c \in i + 1 .. p + 1
    OBVIOUS
  <2>3. (\E c \in i + 1 .. p + 1 : file[c].kind = "close") => i \in 1 .. p
    BY <2>1
  <2> QED BY <1>1, <2>1, <2>2, <2>3
<1>3. InOrder(T, p + 1) = InOrder(S, p + 1)
  BY <1>2, InOrderSame
<1>4. p + 1 \notin S
  BY <1>1
<1>5. InOrder(S, p + 1) = InOrder(S, p)
  BY <1>4, InOrderNext
<1>6. Complete(file, kind, p + 1) = InOrder(T, p + 1) /\ Complete(file, kind, p) = InOrder(S, p)
  BY <1>1 DEF Complete
<1> QED BY <1>3, <1>5, <1>6

\* A declaration becomes complete.
LEMMA CompleteClosed ==
  ASSUME NEW file, NEW p \in Nat, NEW kind, file[p + 1].kind = "close", NEW node, NEW o, IsOpen(node, file, o, p)
  PROVE  Complete(file, kind, p + 1) =
           IF node.kind = kind THEN Append(Complete(file, kind, p), o) ELSE Complete(file, kind, p)
<1>1. PICK S, T : /\ S = {i \in 1 .. p : /\ file[i].kind = "open" /\ file[i].node.kind = kind
                                        /\ \E c \in i + 1 .. p : file[c].kind = "close"}
                  /\ T = {i \in 1 .. p + 1 : /\ file[i].kind = "open" /\ file[i].node.kind = kind
                                            /\ \E c \in i + 1 .. p + 1 : file[c].kind = "close"}
  OBVIOUS
<1>2. Complete(file, kind, p + 1) = InOrder(T, p + 1) /\ Complete(file, kind, p) = InOrder(S, p)
  BY <1>1 DEF Complete
<1>3. /\ o \in 1 .. p /\ file[o].kind = "open" /\ file[o].node.kind = node.kind
      /\ \A i \in o + 1 .. p : file[i].kind # "open" /\ file[i].kind # "close"
      /\ \A i \in 1 .. o - 1 : file[i].kind = "open" => \E c \in i + 1 .. p : file[c].kind = "close"
  BY DEF IsOpen, Begins, Ends
<1>4. \A i \in 1 .. p + 1 : i \in T <=> i \in 1 .. p /\ file[i].kind = "open" /\ file[i].node.kind = kind
  <2> SUFFICES ASSUME NEW i \in 1 .. p + 1
               PROVE  i \in T <=> i \in 1 .. p /\ file[i].kind = "open" /\ file[i].node.kind = kind
    OBVIOUS
  <2>1. CASE i = p + 1
    <3>1. i \notin T
      BY <1>1, <2>1
    <3> QED BY <2>1, <3>1
  <2>2. CASE i # p + 1
    <3>1. i \in 1 .. p /\ p + 1 \in i + 1 .. p + 1
      BY <2>2
    <3> QED BY <1>1, <3>1
  <2> QED BY <2>1, <2>2
<1>5. \A i \in 1 .. p + 1 : i \in S <=> i \in 1 .. o - 1 /\ file[i].kind = "open" /\ file[i].node.kind = kind
  <2> SUFFICES ASSUME NEW i \in 1 .. p + 1
               PROVE  i \in S <=> i \in 1 .. o - 1 /\ file[i].kind = "open" /\ file[i].node.kind = kind
    OBVIOUS
  <2>1. CASE i \in 1 .. o - 1
    <3>1. i \in 1 .. p
      BY <1>3, <2>1
    <3> QED BY <1>1, <1>3, <2>1, <3>1
  <2>2. CASE i = o
    <3>1. i \notin S
      BY <1>1, <1>3, <2>2
    <3> QED BY <1>3, <2>2, <3>1
  <2>3. CASE i \in o + 1 .. p + 1
    <3>1. i \notin S
      BY <1>1, <1>3, <2>3
    <3> QED BY <1>3, <2>3, <3>1
  <2>4. i \in 1 .. o - 1 \/ i = o \/ i \in o + 1 .. p + 1
    BY <1>3
  <2> QED BY <2>1, <2>2, <2>3, <2>4
<1>6. InOrder(S, p + 1) = InOrder(S, p)
  <2>1. p + 1 \notin S
    BY <1>1
  <2> QED BY <2>1, InOrderNext
<1>7. PICK n : n = p + 1 /\ n \in Nat /\ o \in 1 .. n
  BY <1>3
<1>8. CASE node.kind = kind
  <2>1. \A i \in 1 .. n : i \in T <=> (i = o \/ i \in S)
    <3> SUFFICES ASSUME NEW i \in 1 .. p + 1 PROVE i \in T <=> (i = o \/ i \in S)
      BY <1>7
    <3>1. i \in 1 .. o - 1 \/ i = o \/ (i \in o + 1 .. p /\ file[i].kind # "open") \/ i = p + 1
      BY <1>3
    <3> QED BY <1>3, <1>4, <1>5, <1>8, <3>1
  <2>2. \A i \in 1 .. n : i \in S => i < o
    BY <1>5, <1>7
  <2>3. InOrder(T, n) = Append(InOrder(S, n), o)
    <3>1. Adds(T, S, o, n)
      BY <1>7, <2>1, <2>2 DEF Adds
    <3> QED BY <3>1, InOrderAdded
  <2> QED BY <1>2, <1>6, <1>7, <1>8, <2>3
<1>9. CASE node.kind # kind
  <2>1. \A i \in 1 .. p + 1 : i \in T <=> i \in S
    <3> SUFFICES ASSUME NEW i \in 1 .. p + 1 PROVE i \in T <=> i \in S
      OBVIOUS
    <3>1. i \in 1 .. o - 1 \/ i = o \/ (i \in o + 1 .. p /\ file[i].kind # "open") \/ i = p + 1
      BY <1>3
    <3> QED BY <1>3, <1>4, <1>5, <1>9, <3>1
  <2>2. InOrder(T, p + 1) = InOrder(S, p + 1)
    BY <2>1, InOrderSame
  <2> QED BY <1>2, <1>6, <1>9, <2>2
<1> QED BY <1>8, <1>9

(***************************************************************************)
(* One lexeme more.                                                        *)
(***************************************************************************)

IsLiteral(lexeme) == lexeme.kind = "number" /\ lexeme.base \in {"decimal", "octal"}

\* A decimal or octal literal is the last one, nothing else changes which is.
LEMMA LeftNext ==
  ASSUME NEW file, NEW p \in Nat
  PROVE  /\ Left(file, 0) = 0
         /\ Left(file, p + 1) = IF IsLiteral(file[p + 1]) THEN Wrap(file[p + 1].value, IntBits) ELSE Left(file, p)
<1>1. Left(file, 0) = 0
  <2>1. Literals(file, 0) = {}
    BY DEF Literals
  <2> QED BY <2>1 DEF Left
<1>2. PICK S, T : S = Literals(file, p) /\ T = Literals(file, p + 1)
  OBVIOUS
<1>3. /\ S = {j \in 1 .. p : IsLiteral(file[j])}
      /\ T = {j \in 1 .. p + 1 : IsLiteral(file[j])}
  BY <1>2 DEF Literals, IsLiteral
<1>4. CASE IsLiteral(file[p + 1])
  <2>1. p + 1 \in T /\ T \in SUBSET (1 .. p + 1) /\ \A j \in T : j <= p + 1
    BY <1>3, <1>4
  <2>2. PICK n : n = p + 1 /\ n \in Nat
    OBVIOUS
  <2>3. Latest(T) = n
    BY <2>1, <2>2, GreatestIs
  <2> QED BY <1>1, <1>2, <1>4, <2>1, <2>2, <2>3 DEF Left
<1>5. CASE ~IsLiteral(file[p + 1])
  <2>1. \A j \in 1 .. p + 1 : j \in 1 .. p \/ j = p + 1
    OBVIOUS
  <2>2. T = S
    BY <1>3, <1>5, <2>1
  <2> QED BY <1>1, <1>2, <1>5, <2>2 DEF Left
<1> QED BY <1>4, <1>5

\* The members that were read are in the class, in order.
IsPlaces(places, file, o, p) ==
  /\ IsList(places) /\ Len(places) \in Nat
  /\ \A k \in 1 .. Len(places) :
       places[k] \in 1 .. p /\ places[k] > o /\ file[places[k]].kind \in {"field", "method"}
  /\ \A k \in 1 .. Len(places) : \A j \in 1 .. k - 1 : places[j] < places[k]
  /\ \A i \in 1 .. p : i \in MemberSet(file, o) => Len(places) > 0 /\ i <= places[Len(places)]

\* InOrder gives the places of the members.
LEMMA MembersAt ==
  ASSUME NEW file, NEW o, NEW p \in Nat
  PROVE  IsPlaces(InOrder(MemberSet(file, o), p), file, o, p)
<1>1. PICK S, s : S = MemberSet(file, o) /\ s = InOrder(S, p)
  OBVIOUS
<1>2. IsOrder(s, S, p)
  BY <1>1, OrderedList
<1>3. \A i \in S : i > o /\ file[i].kind \in {"field", "method"}
  BY <1>1 DEF MemberSet
<1>4. IsList(s) /\ Len(s) \in Nat
  BY <1>2, ListDomain DEF IsOrder
<1>5. \A k \in 1 .. Len(s) : s[k] \in 1 .. p /\ s[k] > o /\ file[s[k]].kind \in {"field", "method"}
  BY <1>2, <1>3 DEF IsOrder
<1>6. /\ \A k \in 1 .. Len(s) : \A j \in 1 .. k - 1 : s[j] < s[k]
      /\ \A i \in 1 .. p : i \in S => Len(s) > 0 /\ i <= s[Len(s)]
  BY <1>2 DEF IsOrder
<1>7. IsPlaces(s, file, o, p)
  BY <1>1, <1>4, <1>5, <1>6 DEF IsPlaces
<1> QED BY <1>1, <1>7

\* No number is behind the end.
LEMMA OperandsSame ==
  ASSUME NEW operands, NEW file, NEW m, NEW p \in Nat, p + 1 \notin NumberSet(file, m),
         OperandsRead(operands, file, m, p)
  PROVE  OperandsRead(operands, file, m, p + 1)
<1>1. InOrder(NumberSet(file, m), p + 1) = InOrder(NumberSet(file, m), p)
  BY InOrderNext
<1> QED BY <1>1 DEF OperandsRead

\* A number more.
LEMMA OperandsMore ==
  ASSUME NEW operands, IsList(operands), NEW file, NEW m, NEW p \in Nat, p + 1 \in NumberSet(file, m),
         OperandsRead(operands, file, m, p), NEW more, more = Append(operands, Left(file, p + 1))
  PROVE  OperandsRead(more, file, m, p + 1)
<1>1. PICK S, old, new : S = NumberSet(file, m) /\ old = InOrder(S, p) /\ new = InOrder(S, p + 1)
  OBVIOUS
<1>2. PICK n : n = p + 1
  OBVIOUS
<1>3. new = Append(old, n)
  BY <1>1, <1>2, InOrderNext
<1>4. IsList(old)
  BY <1>1, OrderedList DEF IsOrder
<1>5. PICK l : l = Len(old) /\ l \in Nat
  BY <1>4, ListDomain
<1>6. Len(operands) = l /\ \A j \in 1 .. l : operands[j] = Left(file, old[j])
  BY <1>1, <1>5 DEF OperandsRead
<1>7. Len(new) = l + 1 /\ new[l + 1] = n /\ \A j \in 1 .. l : new[j] = old[j]
  BY <1>3, <1>4, <1>5, AppendedList
<1>8. PICK v : v = Left(file, n)
  OBVIOUS
<1>9. Len(more) = l + 1 /\ more[l + 1] = v /\ \A j \in 1 .. l : more[j] = operands[j]
  BY <1>2, <1>6, <1>8, AppendedList
<1>10. \A j \in 1 .. l + 1 : j \in 1 .. l \/ j = l + 1
  BY <1>5
<1>11. \A j \in 1 .. l + 1 : more[j] = Left(file, new[j])
  BY <1>6, <1>7, <1>8, <1>9, <1>10
<1>12. Len(more) = Len(new) /\ \A j \in 1 .. Len(new) : more[j] = Left(file, new[j])
  BY <1>7, <1>9, <1>11
<1> QED BY <1>1, <1>12 DEF OperandsRead

\* Behind a field nothing is read yet.
LEMMA OperandsNone ==
  ASSUME NEW operands, operands = << >>, NEW file, NEW m \in Nat
  PROVE  OperandsRead(operands, file, m, m)
<1>1. PICK S : S = NumberSet(file, m)
  OBVIOUS
<1>2. \A i \in 0 + 1 .. m : i \notin S
  BY <1>1 DEF NumberSet
<1>3. InOrder(S, m) = InOrder(S, 0)
  BY <1>2, InOrderBeyond
<1>4. InOrder(S, m) = << >>
  BY <1>3, InOrderNext
<1> QED BY <1>1, <1>4, EmptyList DEF OperandsRead

\* Neither a member nor a number.
LEMMA MembersSame ==
  ASSUME NEW members, NEW file, NEW o, NEW p \in Nat,
         file[p + 1].kind \notin {"field", "method", "number"}, MembersRead(members, file, o, p)
  PROVE  MembersRead(members, file, o, p + 1)
<1>1. p + 1 \notin MemberSet(file, o)
  BY DEF MemberSet
<1>2. InOrder(MemberSet(file, o), p + 1) = InOrder(MemberSet(file, o), p)
  BY <1>1, InOrderNext
<1>3. \A m : p + 1 \notin NumberSet(file, m)
  BY DEF NumberSet
<1>4. \A m, operands : OperandsRead(operands, file, m, p) => OperandsRead(operands, file, m, p + 1)
  BY <1>3, OperandsSame
<1> QED BY <1>2, <1>4 DEF MembersRead

\* A member more.
LEMMA MembersMore ==
  ASSUME NEW members, IsList(members), NEW file, NEW o, NEW p \in Nat, p + 1 \in MemberSet(file, o),
         MembersRead(members, file, o, p), NEW member, NEW more, more = Append(members, member),
         member.kind = "field" <=> file[p + 1].kind = "field",
         file[p + 1].kind = "field" => member.operands = << >>
  PROVE  MembersRead(more, file, o, p + 1)
<1>1. PICK S, old, new : S = MemberSet(file, o) /\ old = InOrder(S, p) /\ new = InOrder(S, p + 1)
  OBVIOUS
<1>2. PICK n : n = p + 1 /\ n \in Nat
  OBVIOUS
<1>3. new = Append(old, n)
  BY <1>1, <1>2, InOrderNext
<1>4. IsList(old)
  BY <1>1, OrderedList DEF IsOrder
<1>5. PICK l : l = Len(old) /\ l \in Nat
  BY <1>4, ListDomain
<1>6. Len(new) = l + 1 /\ new[l + 1] = n /\ \A j \in 1 .. l : new[j] = old[j]
  BY <1>3, <1>4, <1>5, AppendedList
<1>7. Len(members) = l
  BY <1>1, <1>5 DEF MembersRead
<1>8. Len(more) = l + 1 /\ more[l + 1] = member /\ \A j \in 1 .. l : more[j] = members[j]
  BY <1>7, AppendedList
<1>9. file[n].kind \in {"field", "method"}
  BY <1>2 DEF MemberSet
<1>10. \A m, operands : OperandsRead(operands, file, m, p) => OperandsRead(operands, file, m, n)
  <2>1. \A m : n \notin NumberSet(file, m)
    BY <1>9 DEF NumberSet
  <2> QED BY <1>2, <2>1, OperandsSame
<1>11. ASSUME NEW m \in 1 .. l + 1
       PROVE  /\ more[m].kind = "field" <=> file[new[m]].kind = "field"
              /\ file[new[m]].kind = "field" => OperandsRead(more[m].operands, file, new[m], n)
  <2>1. CASE m = l + 1
    <3>1. more[m] = member /\ new[m] = n
      BY <1>6, <1>8, <2>1
    <3>2. file[n].kind = "field" => OperandsRead(member.operands, file, n, n)
      BY <1>2, OperandsNone
    <3> QED BY <1>2, <3>1, <3>2
  <2>2. CASE m # l + 1
    <3>1. m \in 1 .. l
      BY <1>5, <2>2
    <3>2. more[m] = members[m] /\ new[m] = old[m]
      BY <1>6, <1>8, <3>1
    <3>3. /\ members[m].kind = "field" <=> file[old[m]].kind = "field"
          /\ file[old[m]].kind = "field" => OperandsRead(members[m].operands, file, old[m], p)
      BY <1>1, <1>5, <3>1 DEF MembersRead
    <3> QED BY <1>10, <3>2, <3>3
  <2> QED BY <2>1, <2>2
<1>12. PICK k : k = l + 1
  OBVIOUS
<1>13. /\ Len(new) = k /\ Len(more) = k
       /\ \A m \in 1 .. k :
            /\ more[m].kind = "field" <=> file[new[m]].kind = "field"
            /\ file[new[m]].kind = "field" => OperandsRead(more[m].operands, file, new[m], n)
  BY <1>6, <1>8, <1>11, <1>12
<1> QED BY <1>1, <1>2, <1>13 DEF MembersRead

\* A class without members.
LEMMA MembersNone ==
  ASSUME NEW members, members = << >>, NEW file, NEW o \in Nat
  PROVE  MembersRead(members, file, o, o)
<1>1. PICK S : S = MemberSet(file, o)
  OBVIOUS
<1>2. \A i \in 0 + 1 .. o : i \notin S
  BY <1>1 DEF MemberSet
<1>3. InOrder(S, o) = InOrder(S, 0)
  BY <1>2, InOrderBeyond
<1>4. InOrder(S, o) = << >>
  BY <1>3, InOrderNext
<1> QED BY <1>1, <1>4, EmptyList DEF MembersRead

\* The members of a class whose end was read are all its members.
LEMMA MembersAll ==
  ASSUME NEW members, NEW file, Len(file) \in Nat, NEW o, NEW p \in Nat, o \in 1 .. p, p + 1 <= Len(file),
         file[p + 1].kind = "close", MembersRead(members, file, o, p)
  PROVE  MembersRead(members, file, o, Len(file))
<1>1. PICK N : N = Len(file) /\ N \in Nat /\ p <= N
  OBVIOUS
<1>2. PICK S, places : S = MemberSet(file, o) /\ places = InOrder(S, p)
  OBVIOUS
<1>3. ASSUME NEW i \in p + 1 .. N PROVE i \notin S
  <2>1. p + 1 \in o + 1 .. i
    BY <1>1, <1>3
  <2> QED BY <1>2, <2>1 DEF MemberSet
<1>4. InOrder(S, N) = places
  BY <1>1, <1>2, <1>3, InOrderBeyond
<1>5. \A k \in 1 .. Len(places) : places[k] \in 1 .. p
  <2>1. places = InOrder(MemberSet(file, o), p)
    BY <1>2
  <2> QED BY <2>1, MembersAt DEF IsPlaces
<1>6. ASSUME NEW m \in 1 .. p PROVE InOrder(NumberSet(file, m), N) = InOrder(NumberSet(file, m), p)
  <2>1. PICK T : T = NumberSet(file, m)
    OBVIOUS
  <2>2. ASSUME NEW i \in p + 1 .. N PROVE i \notin T
    <3>1. p + 1 \in m + 1 .. i
      BY <1>1, <1>6, <2>2
    <3> QED BY <2>1, <3>1 DEF NumberSet
  <2>3. InOrder(T, N) = InOrder(T, p)
    BY <1>1, <2>2, InOrderBeyond
  <2> QED BY <2>1, <2>3
<1>7. \A m \in 1 .. p : \A operands : OperandsRead(operands, file, m, p) => OperandsRead(operands, file, m, N)
  BY <1>6 DEF OperandsRead
<1>8. /\ Len(members) = Len(places)
      /\ \A m \in 1 .. Len(places) :
           /\ members[m].kind = "field" <=> file[places[m]].kind = "field"
           /\ file[places[m]].kind = "field" => OperandsRead(members[m].operands, file, places[m], p)
  BY <1>2 DEF MembersRead
<1>9. /\ Len(members) = Len(places)
      /\ \A m \in 1 .. Len(places) :
           /\ members[m].kind = "field" <=> file[places[m]].kind = "field"
           /\ file[places[m]].kind = "field" => OperandsRead(members[m].operands, file, places[m], N)
  BY <1>5, <1>7, <1>8
<1> QED BY <1>1, <1>2, <1>4, <1>9 DEF MembersRead

\* The kinds of lexemes.
LEMMA LexemeKinds ==
  \A lexeme \in Lexemes :
    lexeme.kind \in {"open", "close", "field", "method", "number", "comment", "unknown"}
<1> SUFFICES ASSUME NEW lexeme \in Lexemes
             PROVE  lexeme.kind \in {"open", "close", "field", "method", "number", "comment", "unknown"}
  OBVIOUS
<1>1. CASE lexeme \in [kind : {"open"}, node : FunctionNodes \cup {c \in ClassNodes : c.members = << >>}]
  BY <1>1
<1>2. CASE lexeme \in [kind : {"field"}, member : {f \in FieldNodes : f.operands = << >>}]
  BY <1>2
<1>3. CASE lexeme \in [kind : {"number"}, base : {"decimal", "octal", "hexadecimal", "binary"}, value : Nat]
  BY <1>3
<1>4. CASE lexeme \in [kind : {"method"}, member : FunctionNodes]
  BY <1>4
<1>5. CASE lexeme \in [kind : {"close", "unknown"}]
  BY <1>5
<1>6. CASE lexeme \in [kind : {"comment"}, ends : BOOLEAN]
  BY <1>6
<1> QED BY <1>1, <1>2, <1>3, <1>4, <1>5, <1>6 DEF Lexemes

\* A declaration is still open behind what neither begins nor ends one.
LEMMA StaysOpen ==
  ASSUME NEW node, NEW later, NEW file, NEW o, NEW p \in Nat, IsOpen(node, file, o, p),
         file[p + 1].kind \notin {"open", "close"}, Begins(later, file, o, p + 1)
  PROVE  IsOpen(later, file, o, p + 1)
<1>1. o \in 1 .. p
  BY DEF IsOpen, Begins
<1>2. \A i \in o + 1 .. p + 1 : i \in o + 1 .. p \/ i = p + 1
  BY <1>1
<1>3. \A i \in o + 1 .. p + 1 : file[i].kind \notin {"open", "close"}
  BY <1>2 DEF IsOpen
<1>4. \A i : Ends(file, i, p) => Ends(file, i, p + 1)
  BY DEF Ends
<1>5. \A i \in 1 .. o - 1 : file[i].kind = "open" => Ends(file, i, p + 1)
  BY <1>4 DEF IsOpen
<1> QED BY <1>3, <1>5 DEF IsOpen

\* A declaration begins.
LEMMA PartialOpens ==
  ASSUME NEW file, NEW p \in Nat, file[p + 1].kind = "open", PartialRead(Absent, file, p),
         NEW node, node = file[p + 1].node, node # Absent, node.kind = "class" => node.members = << >>
  PROVE  PartialRead(node, file, p + 1)
<1>1. PICK o : o = p + 1 /\ o \in Nat /\ o \in 1 .. o
  OBVIOUS
<1>2. node.kind = "class" => MembersRead(node.members, file, o, o)
  BY <1>1, MembersNone
<1>3. Begins(node, file, o, o)
  BY <1>1, <1>2 DEF Begins
<1>4. \A i : Ends(file, i, p) => Ends(file, i, o)
  BY <1>1 DEF Ends
<1>5. \A i \in 1 .. o - 1 : file[i].kind = "open" => Ends(file, i, o)
  BY <1>1, <1>4 DEF PartialRead
<1>6. \A i \in o + 1 .. o : file[i].kind \notin {"open", "close"}
  BY <1>1
<1>7. IsOpen(node, file, o, o)
  BY <1>3, <1>5, <1>6 DEF IsOpen
<1> QED BY <1>1, <1>7 DEF PartialRead

\* A comment is no part of a declaration.
LEMMA PartialSame ==
  ASSUME NEW file, NEW p \in Nat, file[p + 1].kind = "comment", NEW node, PartialRead(node, file, p)
  PROVE  PartialRead(node, file, p + 1)
<1>1. \A i : Ends(file, i, p) => Ends(file, i, p + 1)
  BY DEF Ends
<1>2. CASE node = Absent
  <2>1. \A i \in 1 .. p + 1 : i \in 1 .. p \/ i = p + 1
    OBVIOUS
  <2>2. \A i \in 1 .. p + 1 : file[i].kind = "open" => Ends(file, i, p + 1)
    BY <1>1, <1>2, <2>1 DEF PartialRead
  <2> QED BY <1>2, <2>2 DEF PartialRead
<1>3. CASE node # Absent
  <2>1. PICK o : IsOpen(node, file, o, p)
    BY <1>3 DEF PartialRead
  <2>2. Begins(node, file, o, p)
    BY <2>1 DEF IsOpen
  <2>3. node.kind = "class" => MembersRead(node.members, file, o, p + 1)
    BY <2>2, MembersSame DEF Begins
  <2>4. Begins(node, file, o, p + 1)
    BY <2>2, <2>3 DEF Begins
  <2>5. IsOpen(node, file, o, p + 1)
    BY <2>1, <2>4, StaysOpen
  <2> QED BY <1>3, <2>5 DEF PartialRead
<1> QED BY <1>2, <1>3

\* A declaration ends.
LEMMA PartialCloses ==
  ASSUME NEW file, NEW p \in Nat, file[p + 1].kind = "close", NEW node, NEW o, IsOpen(node, file, o, p)
  PROVE  PartialRead(Absent, file, p + 1)
<1>1. ASSUME NEW i \in 1 .. p + 1, file[i].kind = "open" PROVE Ends(file, i, p + 1)
  <2>1. i \in 1 .. p /\ p + 1 \in i + 1 .. p + 1
    BY <1>1
  <2> QED BY <2>1 DEF Ends
<1> QED BY <1>1 DEF PartialRead

\* A member is read.
LEMMA PartialMember ==
  ASSUME NEW file, NEW p \in Nat, p + 1 \in DOMAIN file, file[p + 1].kind \in {"field", "method"},
         NEW node \in ClassNodes, PartialRead(node, file, p), NEW member, member = file[p + 1].member,
         member.kind = "field" <=> file[p + 1].kind = "field",
         file[p + 1].kind = "field" => member.operands = << >>,
         NEW later, WithMembers(later, node, Append(node.members, member)), later # Absent
  PROVE  PartialRead(later, file, p + 1)
<1>1. node # Absent /\ node.kind = "class"
  BY DEF ClassNodes, Absent
<1>2. PICK o : IsOpen(node, file, o, p)
  BY <1>1 DEF PartialRead
<1>3. Begins(node, file, o, p) /\ o \in 1 .. p /\ \A i \in o + 1 .. p : file[i].kind # "close"
  BY <1>2 DEF IsOpen, Begins
<1>4. PICK old, more : old = node.members /\ more = Append(old, member)
  OBVIOUS
<1>5. IsList(old) /\ MembersRead(old, file, o, p)
  <2>1. old \in Seq(FieldNodes \cup FunctionNodes)
    BY <1>4 DEF ClassNodes
  <2> QED BY <1>1, <1>3, <1>4, <2>1 DEF IsList, Begins
<1>6. p + 1 \in MemberSet(file, o)
  <2>1. p + 1 > o /\ \A j \in o + 1 .. p + 1 : j \in o + 1 .. p \/ j = p + 1
    BY <1>3
  <2> QED BY <1>3, <2>1 DEF MemberSet
<1>7. MembersRead(more, file, o, p + 1)
  BY <1>4, <1>5, <1>6, MembersMore
<1>8. later.kind = node.kind /\ later.name = node.name /\ later.members = more
  BY <1>4 DEF WithMembers, ClassNodes
<1>9. Begins(later, file, o, p + 1)
  BY <1>3, <1>7, <1>8 DEF Begins
<1>10. IsOpen(later, file, o, p + 1)
  BY <1>2, <1>9, StaysOpen
<1> QED BY <1>10 DEF PartialRead

\* A number is an operand of the last field.
LEMMA MembersNumber ==
  ASSUME NEW file, NEW p \in Nat, p + 1 \in DOMAIN file, file[p + 1].kind = "number",
         NEW o \in 1 .. p, \A i \in o + 1 .. p : file[i].kind \in {"field", "method", "number", "comment"} /\ i \in DOMAIN file,
         NEW members, IsList(members), MembersRead(members, file, o, p),
         NEW m, m = Len(members), m # 0, members[m].kind = "field", IsList(members[m].operands),
         NEW g, g.kind = "field", g.operands = Append(members[m].operands, Left(file, p + 1)),
         NEW more, more = [members EXCEPT ![m] = g]
  PROVE  MembersRead(more, file, o, p + 1)
<1>1. PICK S, places, n : S = MemberSet(file, o) /\ places = InOrder(S, p) /\ n = p + 1 /\ n \in Nat
  OBVIOUS
<1>2. IsPlaces(places, file, o, p)
  BY <1>1, MembersAt
<1>3. InOrder(S, n) = places
  <2>1. n \notin S
    BY <1>1 DEF MemberSet
  <2> QED BY <1>1, <2>1, InOrderNext
<1>4. /\ m = Len(places) /\ m \in Nat
      /\ \A k \in 1 .. m : /\ members[k].kind = "field" <=> file[places[k]].kind = "field"
                           /\ file[places[k]].kind = "field" => OperandsRead(members[k].operands, file, places[k], p)
  BY <1>1, <1>2 DEF MembersRead, IsPlaces
<1>5. DOMAIN members = 1 .. m /\ m \in 1 .. m
  <2>1. DOMAIN members = 1 .. Len(members)
    BY ListDomain
  <2>2. m \in 1 .. m
    BY <1>4
  <2> QED BY <2>1, <2>2
<1>6. PICK q : q = places[m]
  OBVIOUS
<1>7. q \in o + 1 .. p /\ file[q].kind = "field" /\ OperandsRead(members[m].operands, file, q, p)
  BY <1>2, <1>4, <1>5, <1>6 DEF IsPlaces
<1>8. ASSUME NEW j \in q + 1 .. p PROVE file[j].kind \in {"number", "comment"}
  <2>1. j \in o + 1 .. p /\ j \in 1 .. p
    BY <1>7
  <2>2. j \notin S
    BY <1>1, <1>2, <1>4, <1>6, <1>7, <2>1 DEF IsPlaces
  <2>3. \A i \in o + 1 .. j : i \in o + 1 .. p
    BY <2>1
  <2>4. \A i \in o + 1 .. j : file[i].kind # "close"
    BY <2>3
  <2>5. j \in DOMAIN file /\ j > o /\ file[j].kind \in {"field", "method", "number", "comment"}
    BY <2>1
  <2>6. file[j].kind \notin {"field", "method"}
    BY <1>1, <2>2, <2>4, <2>5 DEF MemberSet
  <2> QED BY <2>5, <2>6
<1>9. n \in NumberSet(file, q)
  <2>1. n > q /\ \A j \in q + 1 .. n : j \in q + 1 .. p \/ j = n
    BY <1>1, <1>7
  <2> QED BY <1>1, <1>8, <2>1 DEF NumberSet
<1>10. OperandsRead(g.operands, file, q, n)
  BY <1>1, <1>7, <1>9, OperandsMore
<1>11. ASSUME NEW k \in 1 .. m, k # m, NEW operands, OperandsRead(operands, file, places[k], p)
       PROVE  OperandsRead(operands, file, places[k], n)
  <2>1. places[k] < q /\ places[k] \in 1 .. p
    <3>1. k \in 1 .. m - 1
      BY <1>4, <1>11
    <3> QED BY <1>2, <1>4, <1>5, <1>6, <3>1 DEF IsPlaces
  <2>2. q \in places[k] + 1 .. n
    BY <1>1, <1>7, <2>1
  <2>3. n \notin NumberSet(file, places[k])
    BY <1>7, <2>2 DEF NumberSet
  <2> QED BY <1>1, <1>11, <2>3, OperandsSame
<1>12. Len(more) = m /\ more[m] = g /\ \A k \in 1 .. m : k # m => more[k] = members[k]
  <2>1. PICK T : members \in Seq(T)
    BY DEF IsList
  <2>2. Len(more) = Len(members)
    BY <2>1
  <2> QED BY <1>5, <2>2
<1>13. ASSUME NEW k \in 1 .. m
       PROVE  /\ more[k].kind = "field" <=> file[places[k]].kind = "field"
              /\ file[places[k]].kind = "field" => OperandsRead(more[k].operands, file, places[k], n)
  <2>1. CASE k = m
    BY <1>6, <1>7, <1>10, <1>12, <2>1
  <2>2. CASE k # m
    <3>1. more[k] = members[k]
      BY <1>12, <2>2
    <3>2. /\ members[k].kind = "field" <=> file[places[k]].kind = "field"
          /\ file[places[k]].kind = "field" => OperandsRead(members[k].operands, file, places[k], p)
      BY <1>4
    <3>3. \A operands : OperandsRead(operands, file, places[k], p) => OperandsRead(operands, file, places[k], n)
      BY <1>11, <2>2
    <3> QED BY <3>1, <3>2, <3>3
  <2> QED BY <2>1, <2>2
<1> QED BY <1>1, <1>3, <1>4, <1>12, <1>13 DEF MembersRead

\* A number is read.
LEMMA PartialNumber ==
  ASSUME NEW file \in Seq(Lexemes), NEW p \in Nat, p + 1 \in DOMAIN file, file[p + 1].kind = "number",
         \A i \in 1 .. p : file[i].kind # "unknown",
         NEW node \in ClassNodes, PartialRead(node, file, p),
         NEW old, old = node.members, old # << >>, NEW m, m = Len(old), old[m].kind = "field",
         NEW g, g = [old[m] EXCEPT !.operands = Append(old[m].operands, Left(file, p + 1))],
         NEW later, WithMembers(later, node, [old EXCEPT ![m] = g]), later # Absent
  PROVE  PartialRead(later, file, p + 1)
<1>1. node # Absent /\ node.kind = "class"
  BY DEF ClassNodes, Absent
<1>2. PICK o : IsOpen(node, file, o, p)
  BY <1>1 DEF PartialRead
<1>3. /\ Begins(node, file, o, p) /\ o \in 1 .. p
      /\ \A i \in o + 1 .. p : file[i].kind \notin {"open", "close"}
  BY <1>2 DEF IsOpen, Begins
<1>4. old \in Seq(FieldNodes \cup FunctionNodes) /\ MembersRead(old, file, o, p)
  <2>1. old \in Seq(FieldNodes \cup FunctionNodes)
    BY DEF ClassNodes
  <2> QED BY <1>1, <1>3, <2>1 DEF Begins
<1>5. IsList(old) /\ m # 0 /\ m \in 1 .. Len(old)
  <2>1. IsList(old)
    BY <1>4 DEF IsList
  <2>2. m \in Nat /\ m # 0
    BY <2>1, LengthOfList
  <2> QED BY <2>1, <2>2
<1>6. PICK f : f = old[m]
  OBVIOUS
<1>7. f \in FieldNodes
  <2>1. f \in FieldNodes \cup FunctionNodes
    BY <1>4, <1>5, <1>6
  <2> QED BY <1>6, <2>1, MemberKinds
<1>8. IsList(f.operands) /\ g.kind = "field" /\ g.operands = Append(f.operands, Left(file, p + 1))
  <2>1. f.operands \in Seq(Int)
    BY <1>7 DEF FieldNodes
  <2>2. g.kind = "field" /\ g.operands = Append(f.operands, Left(file, p + 1))
    BY <1>6, <1>7 DEF FieldNodes
  <2> QED BY <2>1, <2>2 DEF IsList
<1>9. ASSUME NEW i \in o + 1 .. p
      PROVE  file[i].kind \in {"field", "method", "number", "comment"} /\ i \in DOMAIN file
  <2>1. DOMAIN file = 1 .. Len(file) /\ Len(file) \in Nat
    OBVIOUS
  <2>2. i \in 1 .. p /\ i \in 1 .. Len(file)
    BY <1>3, <2>1
  <2>3. file[i] \in Lexemes
    BY <2>2
  <2> QED BY <1>3, <2>1, <2>2, <2>3, LexemeKinds
<1>10. PICK more : more = [old EXCEPT ![m] = g]
  OBVIOUS
<1>11. MembersRead(more, file, o, p + 1)
  <2>1. IsList(old[m].operands) /\ g.operands = Append(old[m].operands, Left(file, p + 1))
    BY <1>6, <1>8
  <2> QED BY <1>3, <1>4, <1>5, <1>8, <1>9, <1>10, <2>1, MembersNumber
<1>12. later.kind = node.kind /\ later.name = node.name /\ later.members = more
  BY <1>10 DEF WithMembers, ClassNodes
<1>13. Begins(later, file, o, p + 1)
  BY <1>3, <1>11, <1>12 DEF Begins
<1>14. IsOpen(later, file, o, p + 1)
  BY <1>2, <1>13, StaysOpen
<1> QED BY <1>14 DEF PartialRead

(***************************************************************************)
(* What was read of all files.                                             *)
(***************************************************************************)
Pairs(n, complete) == [k \in DOMAIN complete |-> <<n, complete[k]>>]

OriginLists(fs, kind) == [n \in DOMAIN fs |-> Pairs(n, Complete(fs[n], kind, Extent(fs[n])))]

\* node is the declaration that begins at o.
Stands(node, file, o) ==
  /\ Len(file) \in Nat
  /\ node.name = file[o].node.name
  /\ node.kind = "class" => MembersRead(node.members, file, o, Len(file))

Correspond(nodes, fs, s) ==
  /\ IsList(s) /\ Len(nodes) = Len(s)
  /\ \A k \in 1 .. Len(s) : Stands(nodes[k], fs[s[k][1]], s[k][2])

\* nodes are what n files declare, and what is complete in the next one.
Recorded(nodes, fs, kind, n, complete) ==
  \E f : Flattening(f, OriginLists(fs, kind)) /\ IsList(f[n]) /\ Correspond(nodes, fs, f[n] \o Pairs(n + 1, complete))

\* Complete declarations are a list.
LEMMA CompleteList ==
  ASSUME NEW file, NEW kind, NEW p \in Nat
  PROVE  IsList(Complete(file, kind, p)) /\ Complete(file, kind, 0) = << >>
<1>1. PICK S : S = {i \in 1 .. p : /\ file[i].kind = "open" /\ file[i].node.kind = kind
                                  /\ \E c \in i + 1 .. p : file[c].kind = "close"}
  OBVIOUS
<1>2. IsList(InOrder(S, p))
  BY OrderedList DEF IsOrder
<1>3. \A T : InOrder(T, 0) = << >>
  BY InOrderNext
<1> QED BY <1>1, <1>2, <1>3 DEF Complete

\* A pair more.
LEMMA PairsMore ==
  ASSUME NEW n, NEW complete, IsList(complete), NEW o
  PROVE  /\ IsList(Pairs(n, complete))
         /\ Pairs(n, Append(complete, o)) = Append(Pairs(n, complete), <<n, o>>)
         /\ Pairs(n, << >>) = << >>
<1>1. PICK l : l = Len(complete) /\ l \in Nat /\ DOMAIN complete = 1 .. l
  BY ListDomain
<1>2. PICK s : s = Pairs(n, complete)
  OBVIOUS
<1>3. s = [k \in 1 .. l |-> <<n, complete[k]>>]
  BY <1>1, <1>2 DEF Pairs
<1>4. PICK S : S = {<<n, complete[k]>> : k \in 1 .. l}
  OBVIOUS
<1>5. s \in [1 .. l -> S]
  BY <1>3, <1>4
<1>6. s \in Seq(S) /\ Len(s) = l
  BY <1>1, <1>5
<1>7. IsList(s)
  BY <1>6 DEF IsList
<1>8. PICK more, t : more = Append(complete, o) /\ t = Append(s, <<n, o>>)
  OBVIOUS
<1>9. IsList(more) /\ Len(more) = l + 1 /\ more[l + 1] = o /\ \A k \in 1 .. l : more[k] = complete[k]
  BY <1>1, <1>8, AppendedList
<1>10. IsList(t) /\ Len(t) = l + 1 /\ t[l + 1] = <<n, o>> /\ \A k \in 1 .. l : t[k] = s[k]
  BY <1>6, <1>7, <1>8, AppendedList
<1>11. DOMAIN more = 1 .. l + 1 /\ DOMAIN t = 1 .. l + 1
  BY <1>9, <1>10, ListDomain
<1>12. t = [k \in 1 .. l + 1 |-> t[k]]
  <2>1. PICK T : t \in Seq(T)
    BY <1>10 DEF IsList
  <2> QED BY <1>10, <2>1
<1>13. \A k \in 1 .. l + 1 : t[k] = <<n, more[k]>>
  <2>1. \A k \in 1 .. l + 1 : k \in 1 .. l \/ k = l + 1
    BY <1>1
  <2> QED BY <1>3, <1>9, <1>10, <2>1
<1>14. Pairs(n, more) = t
  BY <1>11, <1>12, <1>13 DEF Pairs
<1>15. Pairs(n, << >>) = << >>
  BY DEF Pairs
<1> QED BY <1>2, <1>7, <1>8, <1>14, <1>15

\* Concatenation of the empty list, and of a list with something appended.
LEMMA ConcatenatedMore ==
  ASSUME NEW s, IsList(s), NEW t, IsList(t), NEW e
  PROVE  s \o << >> = s /\ s \o Append(t, e) = Append(s \o t, e)
<1>1. PICK S, T : s \in Seq(S) /\ t \in Seq(T)
  BY DEF IsList
<1>2. PICK U : U = S \cup T \cup {e}
  OBVIOUS
<1>3. s \in Seq(U) /\ t \in Seq(U) /\ e \in U
  BY <1>1, <1>2, SeqMonotonic
<1> QED BY <1>3

\* There is one list for each file.
LEMMA OriginListsAre ==
  ASSUME NEW fs, IsList(fs), NEW kind
  PROVE  /\ Len(OriginLists(fs, kind)) = Len(fs) /\ Len(fs) \in Nat
         /\ \A k \in 1 .. Len(fs) :
              OriginLists(fs, kind)[k] = Pairs(k, Complete(fs[k], kind, Extent(fs[k])))
<1>1. PICK ss, l : ss = OriginLists(fs, kind) /\ l = Len(fs)
  OBVIOUS
<1>2. DOMAIN ss = 1 .. l /\ l \in Nat /\ \A k \in 1 .. l : ss[k] = Pairs(k, Complete(fs[k], kind, Extent(fs[k])))
  BY <1>1, ListDomain DEF OriginLists
<1>3. ss = [k \in 1 .. l |-> ss[k]]
  BY <1>1, <1>2 DEF OriginLists
<1>4. PICK S : S = {ss[k] : k \in 1 .. l}
  OBVIOUS
<1>5. ss \in Seq(S)
  BY <1>2, <1>3, <1>4
<1>6. Len(ss) = l
  BY <1>2, <1>5, LenProperties
<1> QED BY <1>1, <1>2, <1>6

\* No pairs change nothing.
LEMMA PairsNone == ASSUME NEW s, IsList(s), NEW n PROVE s \o Pairs(n, << >>) = s
BY EmptyList, PairsMore, ConcatenatedMore

\* Before anything is read nothing is recorded.
LEMMA RecordedFirst ==
  ASSUME NEW fs, IsList(fs), NEW kind
  PROVE  Recorded(<< >>, fs, kind, 0, << >>)
<1>1. PICK ss : ss = OriginLists(fs, kind)
  OBVIOUS
<1>2. Len(ss) \in Nat
  BY <1>1, OriginListsAre
<1>3. PICK f : Flattening(f, ss)
  BY <1>2, FlatIs
<1>4. f[0] = << >>
  BY <1>3 DEF Flattening
<1>5. << >> \o Pairs(0 + 1, << >>) = << >>
  BY EmptyList, PairsNone
<1>6. f[0] \o Pairs(0 + 1, << >>) = << >>
  BY <1>4, <1>5
<1>7. Correspond(<< >>, fs, << >>)
  BY EmptyList DEF Correspond
<1> QED BY <1>1, <1>3, <1>4, <1>6, <1>7, EmptyList DEF Recorded

\* A list that corresponds has a length.
LEMMA CorrespondMore ==
  ASSUME NEW nodes, IsList(nodes), NEW fs, NEW s, Correspond(nodes, fs, s),
         NEW node, NEW n, NEW o, Stands(node, fs[n], o)
  PROVE  Correspond(Append(nodes, node), fs, Append(s, <<n, o>>))
<1>1. PICK l : l = Len(s) /\ l \in Nat /\ Len(nodes) = l /\ IsList(s)
  BY ListDomain DEF Correspond
<1>2. PICK more, t, e : more = Append(nodes, node) /\ t = Append(s, e) /\ e = <<n, o>>
  OBVIOUS
<1>3. Len(more) = l + 1 /\ more[l + 1] = node /\ \A k \in 1 .. l : more[k] = nodes[k]
  BY <1>1, <1>2, AppendedList
<1>4. IsList(t) /\ Len(t) = l + 1 /\ t[l + 1] = e /\ \A k \in 1 .. l : t[k] = s[k]
  BY <1>1, <1>2, AppendedList
<1>5. e[1] = n /\ e[2] = o
  BY <1>2
<1>6. ASSUME NEW k \in 1 .. l + 1 PROVE Stands(more[k], fs[t[k][1]], t[k][2])
  <2>1. CASE k = l + 1
    BY <1>3, <1>4, <1>5, <2>1
  <2>2. CASE k # l + 1
    <3>1. k \in 1 .. l
      BY <1>1, <2>2
    <3>2. more[k] = nodes[k] /\ t[k] = s[k]
      BY <1>3, <1>4, <3>1
    <3>3. Stands(nodes[k], fs[s[k][1]], s[k][2])
      BY <1>1, <3>1 DEF Correspond
    <3> QED BY <3>2, <3>3
  <2> QED BY <2>1, <2>2
<1>7. Correspond(more, fs, t)
  BY <1>3, <1>4, <1>6 DEF Correspond
<1> QED BY <1>2, <1>7

\* A declaration more.
LEMMA RecordedMore ==
  ASSUME NEW nodes, IsList(nodes), NEW fs, NEW kind, NEW n, NEW complete, IsList(complete),
         Recorded(nodes, fs, kind, n, complete), NEW node, NEW o, NEW m, m = n + 1, Stands(node, fs[m], o)
  PROVE  Recorded(Append(nodes, node), fs, kind, n, Append(complete, o))
<1>1. PICK f : /\ Flattening(f, OriginLists(fs, kind)) /\ IsList(f[n])
               /\ Correspond(nodes, fs, f[n] \o Pairs(m, complete))
  BY DEF Recorded
<1>2. PICK s, t : s = f[n] /\ t = Pairs(m, complete)
  OBVIOUS
<1>3. IsList(s) /\ IsList(t) /\ Pairs(m, Append(complete, o)) = Append(t, <<m, o>>)
  BY <1>1, <1>2, PairsMore
<1>4. s \o Append(t, <<m, o>>) = Append(s \o t, <<m, o>>)
  BY <1>3, ConcatenatedMore
<1>5. Correspond(Append(nodes, node), fs, Append(s \o t, <<m, o>>))
  BY <1>1, <1>2, CorrespondMore
<1>6. Correspond(Append(nodes, node), fs, f[n] \o Pairs(m, Append(complete, o)))
  BY <1>2, <1>3, <1>4, <1>5
<1> QED BY <1>1, <1>6 DEF Recorded

\* A file more.
LEMMA RecordedNext ==
  ASSUME NEW nodes, NEW fs, IsList(fs), NEW kind, NEW n \in Nat, NEW m, m = n + 1, m <= Len(fs),
         NEW complete, IsList(complete), complete = Complete(fs[m], kind, Extent(fs[m])),
         Recorded(nodes, fs, kind, n, complete)
  PROVE  Recorded(nodes, fs, kind, m, << >>)
<1>1. PICK f : /\ Flattening(f, OriginLists(fs, kind)) /\ IsList(f[n])
               /\ Correspond(nodes, fs, f[n] \o Pairs(m, complete))
  BY DEF Recorded
<1>2. PICK ss : ss = OriginLists(fs, kind)
  OBVIOUS
<1>3. Len(fs) \in Nat /\ \A k \in 1 .. Len(fs) : ss[k] = Pairs(k, Complete(fs[k], kind, Extent(fs[k])))
  BY <1>2, OriginListsAre
<1>4. m \in 1 .. Len(fs) /\ m - 1 = n
  BY <1>3
<1>5. Len(ss) = Len(fs)
  BY <1>2, OriginListsAre
<1>6. f[m] = f[n] \o Pairs(m, complete)
  <2>1. f[m] = f[m - 1] \o ss[m]
    BY <1>1, <1>2, <1>4, <1>5 DEF Flattening
  <2>2. ss[m] = Pairs(m, complete)
    BY <1>3, <1>4
  <2> QED BY <1>4, <2>1, <2>2
<1>7. IsList(f[m])
  <2>1. IsList(Pairs(m, complete))
    BY PairsMore
  <2>2. PICK s, t : s = f[n] /\ t = Pairs(m, complete) /\ IsList(s) /\ IsList(t)
    BY <1>1, <2>1
  <2>3. IsList(s \o t)
    BY <2>2, ConcatenatedList
  <2> QED BY <1>6, <2>2, <2>3
<1>8. f[m] \o Pairs(m + 1, << >>) = f[m]
  BY <1>7, PairsNone
<1>9. Correspond(nodes, fs, f[m] \o Pairs(m + 1, << >>))
  BY <1>1, <1>6, <1>8
<1> QED BY <1>1, <1>7, <1>9 DEF Recorded

\* Behind the last file everything is recorded.
LEMMA RecordedAll ==
  ASSUME NEW nodes, NEW fs, IsList(fs), NEW kind, Recorded(nodes, fs, kind, Len(fs), << >>)
  PROVE  Correspond(nodes, fs, Flat(OriginLists(fs, kind)))
<1>1. PICK m : m = Len(fs)
  OBVIOUS
<1>2. PICK f : /\ Flattening(f, OriginLists(fs, kind)) /\ IsList(f[m])
               /\ Correspond(nodes, fs, f[m] \o Pairs(m + 1, << >>))
  BY <1>1 DEF Recorded
<1>3. PICK ss : ss = OriginLists(fs, kind)
  OBVIOUS
<1>4. Len(ss) = m
  BY <1>1, <1>3, OriginListsAre
<1>5. Flat(ss) = f[m]
  BY <1>2, <1>3, <1>4 DEF Flattening
<1>6. f[m] \o Pairs(m + 1, << >>) = f[m]
  BY <1>2, PairsNone
<1> QED BY <1>2, <1>3, <1>5, <1>6

(***************************************************************************)
(* How far reading is.                                                     *)
(***************************************************************************)
FilesOK(fs) == IsList(fs) /\ \A k \in 1 .. Len(fs) : fs[k] \in Seq(Lexemes)

\* What is left begins in file m, behind p.
Reached(fs, pend, m, p) ==
  /\ m \in 1 .. Len(fs) /\ IsList(pend) /\ Len(pend) = Len(fs) - m + 1
  /\ \A j \in 2 .. Len(pend) : pend[j] = fs[m + j - 1]
  /\ p \in 0 .. Len(fs[m])
  /\ Len(pend[1]) = Len(fs[m]) - p /\ pend[1] \in Seq(Lexemes)
  /\ \A i \in 1 .. Len(fs[m]) - p : pend[1][i] = fs[m][p + i]

Clean(file, p) == \A i \in 1 .. p : file[i].kind # "unknown"

\* All that is known of n files and of the one behind them, up to p.
Going(fs, pend, value, node, cs, fns, n, m, p) ==
  /\ n \in Nat /\ m = n + 1
  /\ Reached(fs, pend, m, p)
  /\ Clean(fs[m], p)
  /\ value = Left(fs[m], p)
  /\ Recorded(cs, fs, "class", n, Complete(fs[m], "class", p))
  /\ Recorded(fns, fs, "fn", n, Complete(fs[m], "fn", p))
  /\ PartialRead(node, fs[m], p)

ReadSoFar ==
  /\ FilesOK(files)
  /\ IF pending = << >>
     THEN Recorded(classes, files, "class", Len(files), << >>) /\ Recorded(functions, files, "fn", Len(files), << >>)
     ELSE \E n, m, p : Going(files, pending, yylval, partial, classes, functions, n, m, p)

\* The next lexeme is the one behind p.
LEMMA NextPlace ==
  ASSUME NEW fs, FilesOK(fs), NEW pend, NEW m, NEW p, Reached(fs, pend, m, p), pend # << >>
  PROVE  /\ fs[m] \in Seq(Lexemes) /\ p \in Nat /\ Len(fs[m]) \in Nat /\ p <= Len(fs[m])
         /\ Head(pend) = << >> => p = Len(fs[m])
         /\ Head(pend) # << >> => p + 1 \in 1 .. Len(fs[m]) /\ p + 1 \in DOMAIN fs[m] /\ Head(Head(pend)) = fs[m][p + 1]
<1>1. fs[m] \in Seq(Lexemes)
  BY DEF FilesOK, Reached
<1>2. PICK file, l : file = fs[m] /\ l = Len(file) /\ l \in Nat /\ DOMAIN file = 1 .. l
  <2>1. Len(fs[m]) \in Nat /\ DOMAIN fs[m] = 1 .. Len(fs[m])
    BY <1>1
  <2> QED BY <2>1
<1>3. PICK first : first = Head(pend)
  OBVIOUS
<1>4. first = pend[1]
  BY <1>3, RestList DEF Reached
<1>5. p \in Nat /\ p <= l /\ Len(first) = l - p /\ first \in Seq(Lexemes) /\ \A i \in 1 .. l - p : first[i] = file[p + i]
  BY <1>2, <1>4 DEF Reached
<1>6. ASSUME first # << >> PROVE p + 1 \in 1 .. l /\ Head(first) = file[p + 1]
  <2>1. Len(first) > 0 /\ Head(first) = first[1]
    BY <1>5, <1>6
  <2>2. 1 \in 1 .. l - p
    BY <1>2, <1>5, <2>1
  <2> QED BY <1>2, <1>5, <2>1, <2>2
<1>7. first = << >> => p = l
  <2>1. first = << >> => Len(first) = 0
    BY EmptyList
  <2> QED BY <1>2, <1>5, <2>1
<1> QED BY <1>1, <1>2, <1>3, <1>5, <1>6, <1>7

\* A lexeme is taken from the first file.
LEMMA ReachedTaken ==
  ASSUME NEW fs, FilesOK(fs), NEW pend, NEW m, NEW p, Reached(fs, pend, m, p), pend # << >>, Head(pend) # << >>,
         NEW next, next = <<Tail(Head(pend))>> \o Tail(pend)
  PROVE  Reached(fs, next, m, p + 1) /\ next # << >>
<1>1. PICK file, l, first, rest, N : /\ file = fs[m] /\ l = Len(file) /\ first = pend[1] /\ rest = Tail(pend)
                                     /\ N = Len(pend)
  OBVIOUS
<1>2. /\ first = Head(pend) /\ IsList(rest) /\ N \in Nat /\ N > 0 /\ Len(rest) = N - 1
      /\ \A i \in 1 .. N - 1 : rest[i] = pend[i + 1]
  BY <1>1, RestList DEF Reached
<1>3. p \in Nat /\ l \in Nat /\ p + 1 \in 1 .. l
  BY <1>1, NextPlace
<1>4. first \in Seq(Lexemes) /\ Len(first) = l - p /\ first # << >> /\ \A i \in 1 .. l - p : first[i] = file[p + i]
  BY <1>1, <1>2 DEF Reached
<1>5. PICK t : t = Tail(first)
  OBVIOUS
<1>6. t \in Seq(Lexemes) /\ Len(t) = l - (p + 1) /\ \A i \in 1 .. l - (p + 1) : t[i] = first[i + 1]
  <2>1. t \in Seq(Lexemes) /\ Len(t) = Len(first) - 1 /\ \A i \in 1 .. Len(first) - 1 : t[i] = first[i + 1]
    BY <1>4, <1>5
  <2>2. (l - p) - 1 = l - (p + 1)
    BY <1>3
  <2> QED BY <1>4, <2>1, <2>2
<1>7. ASSUME NEW i \in 1 .. l - (p + 1) PROVE t[i] = file[(p + 1) + i]
  <2>1. i + 1 \in 1 .. l - p /\ p + (i + 1) = (p + 1) + i
    BY <1>3
  <2> QED BY <1>4, <1>6, <2>1
<1>8. PICK one : one = <<t>>
  OBVIOUS
<1>9. IsList(one) /\ Len(one) = 1 /\ one[1] = t
  <2>1. one \in Seq({t}) /\ Len(one) = 1 /\ one[1] = t
    BY <1>8
  <2> QED BY <2>1 DEF IsList
<1>10. PICK all : all = one \o rest
  OBVIOUS
<1>11. next = all
  BY <1>1, <1>2, <1>5, <1>8, <1>10
<1>12. IsList(all) /\ Len(all) = N /\ all[1] = t /\ \A i \in 1 .. N - 1 : all[1 + i] = rest[i]
  <2>1. /\ IsList(one \o rest) /\ Len(one \o rest) = Len(one) + Len(rest)
        /\ (\A i \in 1 .. Len(one) : (one \o rest)[i] = one[i])
        /\ (\A i \in 1 .. Len(rest) : (one \o rest)[Len(one) + i] = rest[i])
    <3>1. IsList(one) /\ IsList(rest)
      BY <1>2, <1>9
    <3> QED BY <3>1, ConcatenatedList
  <2>2. IsList(all) /\ Len(all) = 1 + (N - 1) /\ all[1] = t /\ \A i \in 1 .. N - 1 : all[1 + i] = rest[i]
    BY <1>2, <1>9, <1>10, <2>1
  <2> QED BY <1>2, <2>2
<1>13. ASSUME NEW j \in 2 .. N PROVE all[j] = fs[m + j - 1]
  <2>1. PICK i : i = j - 1 /\ i \in 1 .. N - 1 /\ 1 + i = j /\ i + 1 = j
    BY <1>2
  <2>2. all[j] = pend[j]
    BY <1>2, <1>12, <2>1
  <2> QED BY <1>1, <2>2 DEF Reached
<1>14. m \in 1 .. Len(fs) /\ N = Len(fs) - m + 1
  BY <1>1 DEF Reached
<1>15. p + 1 \in 0 .. l
  BY <1>3
<1>16. Reached(fs, all, m, p + 1)
  BY <1>1, <1>6, <1>7, <1>12, <1>13, <1>14, <1>15 DEF Reached
<1>17. all # << >>
  BY <1>2, <1>12, LengthOfList
<1> QED BY <1>11, <1>16, <1>17

\* The next file begins.
LEMMA ReachedStop ==
  ASSUME NEW fs, FilesOK(fs), NEW pend, NEW m, NEW p, Reached(fs, pend, m, p), pend # << >>,
         NEW next, next = Tail(pend)
  PROVE  /\ Len(fs) \in Nat /\ m \in 1 .. Len(fs)
         /\ next = << >> => m = Len(fs)
         /\ next # << >> => Reached(fs, next, m + 1, 0)
<1>1. PICK N, L : N = Len(pend) /\ L = Len(fs) /\ L \in Nat
  BY ListDomain DEF FilesOK
<1>2. IsList(next) /\ N \in Nat /\ N > 0 /\ Len(next) = N - 1 /\ \A i \in 1 .. N - 1 : next[i] = pend[i + 1]
  BY <1>1, RestList DEF Reached
<1>3. m \in 1 .. L /\ N = L - m + 1
  BY <1>1 DEF Reached
<1>4. ASSUME next = << >> PROVE m = L
  <2>1. Len(next) = 0
    BY <1>4, EmptyList
  <2>2. N - 1 = 0
    BY <1>2, <2>1
  <2> QED BY <1>1, <1>2, <1>3, <2>2
<1>5. ASSUME next # << >> PROVE Reached(fs, next, m + 1, 0)
  <2>1. Len(next) # 0 /\ N - 1 > 0
    BY <1>2, <1>5, LengthOfList
  <2>2. PICK k : k = m + 1 /\ k \in 1 .. L
    BY <1>1, <1>3, <2>1
  <2>3. ASSUME NEW j \in 1 .. N - 1 PROVE next[j] = fs[k + j - 1]
    <3>1. PICK i : i = j + 1
      OBVIOUS
    <3>2. i \in 2 .. N
      BY <1>2, <3>1
    <3>3. m + i - 1 = k + j - 1
      BY <1>3, <2>2, <3>1
    <3>4. pend[i] = fs[m + i - 1]
      BY <1>1, <3>2 DEF Reached
    <3> QED BY <1>2, <3>1, <3>3, <3>4
  <2>4. next[1] = fs[k]
    <3>1. 1 \in 1 .. N - 1 /\ k + 1 - 1 = k
      BY <1>2, <2>1, <2>2
    <3> QED BY <2>3, <3>1
  <2>5. fs[k] \in Seq(Lexemes) /\ Len(fs[k]) \in Nat
    <3>1. fs[k] \in Seq(Lexemes)
      BY <1>1, <2>2 DEF FilesOK
    <3> QED BY <3>1
  <2>6. PICK l : l = Len(fs[k]) /\ l \in Nat
    BY <2>5
  <2>7. /\ Len(next) = L - k + 1 /\ 0 \in 0 .. l /\ l - 0 = l
        /\ \A i \in 1 .. l - 0 : 0 + i = i
        /\ \A j \in 2 .. N - 1 : j \in 1 .. N - 1
    BY <1>1, <1>2, <1>3, <2>2, <2>6
  <2>8. \A i \in 1 .. l - 0 : next[1][i] = fs[k][0 + i]
    BY <2>4, <2>7
  <2>9. \A j \in 2 .. Len(next) : next[j] = fs[k + j - 1]
    BY <1>2, <2>3, <2>7
  <2>10. Reached(fs, next, k, 0)
    BY <1>1, <1>2, <2>2, <2>4, <2>5, <2>6, <2>7, <2>8, <2>9 DEF Reached
  <2> QED BY <2>2, <2>10
<1> QED BY <1>1, <1>3, <1>4, <1>5

\* Reading begins in front of the first file.
LEMMA ReachedFirst ==
  ASSUME NEW fs, FilesOK(fs), fs # << >>
  PROVE  Reached(fs, fs, 1, 0)
<1>1. PICK L : L = Len(fs) /\ L \in Nat /\ L > 0 /\ IsList(fs)
  <2>1. IsList(fs)
    BY DEF FilesOK
  <2>2. Len(fs) \in Nat /\ Len(fs) # 0
    BY <2>1, LengthOfList
  <2> QED BY <2>1, <2>2
<1>2. 1 \in 1 .. L /\ L = L - 1 + 1 /\ \A j \in 2 .. L : 1 + j - 1 = j
  BY <1>1
<1>3. PICK file, l : file = fs[1] /\ l = Len(file) /\ file \in Seq(Lexemes) /\ l \in Nat
  <2>1. fs[1] \in Seq(Lexemes)
    BY <1>1, <1>2 DEF FilesOK
  <2>2. Len(fs[1]) \in Nat
    BY <2>1
  <2> QED BY <2>1, <2>2
<1>4. 0 \in 0 .. l /\ l = l - 0 /\ \A i \in 1 .. l - 0 : 0 + i = i
  BY <1>3
<1> QED BY <1>1, <1>2, <1>3, <1>4 DEF Reached

\* Where reading of a file stops.
LEMMA ExtentIs ==
  ASSUME NEW file \in Seq(Lexemes), NEW p \in Nat, p <= Len(file), Clean(file, p),
         p = Len(file) \/ file[p + 1].kind = "unknown"
  PROVE  Extent(file) = p
<1>1. PICK l, U : l = Len(file) /\ U = {i \in DOMAIN file : file[i].kind = "unknown"}
  OBVIOUS
<1>2. l \in Nat /\ DOMAIN file = 1 .. l
  BY <1>1
<1>3. \A i \in U : i \in p + 1 .. l
  BY <1>1, <1>2 DEF Clean
<1>4. Extent(file) = IF U = {} THEN l ELSE Least(U) - 1
  BY <1>1 DEF Extent
<1>5. CASE p = l
  <2>1. U = {}
    BY <1>2, <1>3, <1>5
  <2> QED BY <1>4, <1>5, <2>1
<1>6. CASE p # l
  <2>1. p + 1 \in U
    BY <1>1, <1>2, <1>6
  <2>2. U \in SUBSET Nat /\ U # {}
    BY <1>1, <1>2, <2>1
  <2>3. PICK u : u = Least(U) /\ u \in U /\ u <= p + 1
    BY <2>1, <2>2, LeastIs
  <2>4. u = p + 1
    BY <1>2, <1>3, <2>3
  <2> QED BY <1>4, <2>2, <2>3, <2>4
<1> QED BY <1>5, <1>6

\* A lexeme was read.
LEMMA ConsumeReads ==
  ASSUME ReadSoFar, pending # << >>, Input # << >>, Consume, Lexeme.kind # "unknown",
         NEW n, NEW m, NEW p, Going(files, pending, yylval, partial, classes, functions, n, m, p),
         NEW file, file = files[m],
         yylval' = Left(file, p + 1), PartialRead(partial', file, p + 1),
         Recorded(classes', files, "class", n, Complete(file, "class", p + 1)),
         Recorded(functions', files, "fn", n, Complete(file, "fn", p + 1))
  PROVE  ReadSoFar'
<1>1. FilesOK(files) /\ Reached(files, pending, m, p) /\ Clean(file, p)
  BY DEF ReadSoFar, Going
<1>2. p \in Nat /\ Lexeme = file[p + 1]
  BY <1>1, NextPlace DEF Input, Lexeme
<1>3. Clean(file, p + 1)
  <2>1. \A i \in 1 .. p + 1 : i \in 1 .. p \/ i = p + 1
    BY <1>2
  <2> QED BY <1>1, <1>2, <2>1 DEF Clean
<1>4. PICK next : next = pending'
  OBVIOUS
<1>5. next = <<Tail(Head(pending))>> \o Tail(pending) /\ files' = files
  BY <1>4 DEF Consume, Input
<1>6. Reached(files, next, m, p + 1) /\ next # << >>
  BY <1>1, <1>5, ReachedTaken DEF Input
<1>7. Going(files', pending', yylval', partial', classes', functions', n, m, p + 1)
  BY <1>3, <1>4, <1>5, <1>6 DEF Going
<1>8. FilesOK(files') /\ pending' # << >>
  BY <1>1, <1>4, <1>5, <1>6
<1> QED BY <1>7, <1>8 DEF ReadSoFar

\* What is known in front of a lexeme.
LEMMA InFront ==
  ASSUME ReadSoFar, ReadingInv, pending # << >>, Input # << >>
  PROVE  \E n, m, p, file :
           /\ Going(files, pending, yylval, partial, classes, functions, n, m, p)
           /\ file = files[m] /\ file \in Seq(Lexemes) /\ Len(file) \in Nat /\ p \in Nat
           /\ p + 1 \in 1 .. Len(file) /\ p + 1 \in DOMAIN file /\ Lexeme = file[p + 1]
           /\ Lexeme \in Lexemes /\ Allowed(Lexeme, StateOf(partial))
<1>1. PICK n, m, p : Going(files, pending, yylval, partial, classes, functions, n, m, p)
  BY DEF ReadSoFar
<1>2. FilesOK(files) /\ Reached(files, pending, m, p)
  BY <1>1 DEF ReadSoFar, Going
<1>3. PICK file : file = files[m]
  OBVIOUS
<1>4. /\ file \in Seq(Lexemes) /\ Len(file) \in Nat /\ p \in Nat
      /\ p + 1 \in 1 .. Len(file) /\ p + 1 \in DOMAIN file /\ Lexeme = file[p + 1]
  BY <1>2, <1>3, NextPlace DEF Input, Lexeme
<1>5. Lexeme \in Lexemes /\ Allowed(Lexeme, StateOf(partial))
  BY LexemeAllowed
<1> QED BY <1>1, <1>3, <1>4, <1>5

\* No declaration becomes complete.
LEMMA RecordedSame ==
  ASSUME NEW cs, NEW fns, NEW fs, NEW pend, NEW value, NEW node, NEW n, NEW m, NEW p \in Nat,
         Going(fs, pend, value, node, cs, fns, n, m, p), NEW file, file = fs[m], file[p + 1].kind # "close"
  PROVE  /\ Recorded(cs, fs, "class", n, Complete(file, "class", p + 1))
         /\ Recorded(fns, fs, "fn", n, Complete(file, "fn", p + 1))
<1>1. Complete(file, "class", p + 1) = Complete(file, "class", p) /\ Complete(file, "fn", p + 1) = Complete(file, "fn", p)
  BY CompleteSame
<1> QED BY <1>1 DEF Going

\* Each step of the reader goes on by one lexeme: a declaration begins.
LEMMA LexOpenReads ==
  ASSUME ReadSoFar, ReadingInv, LexOpen
  PROVE  ReadSoFar'
<1>1. /\ pending # << >> /\ Input # << >> /\ Lexeme.kind = "open" /\ partial' = Lexeme.node /\ Consume
      /\ UNCHANGED <<classes, functions, yylval>>
  BY DEF LexOpen, At, Reading, Lexeme
<1>2. PICK n, m, p, file :
           /\ Going(files, pending, yylval, partial, classes, functions, n, m, p)
           /\ file = files[m] /\ file \in Seq(Lexemes) /\ Len(file) \in Nat /\ p \in Nat
           /\ p + 1 \in 1 .. Len(file) /\ p + 1 \in DOMAIN file /\ Lexeme = file[p + 1]
           /\ Lexeme \in Lexemes /\ Allowed(Lexeme, StateOf(partial))
  BY <1>1, InFront
<1>3. partial = Absent
  <2>1. StateOf(partial) = "absent"
    BY <1>1, <1>2 DEF Allowed
  <2>2. partial.kind # "class"
    BY <2>1, PartialIs DEF StateOf
  <2>3. partial.kind = "absent"
    BY <2>1, <2>2 DEF StateOf
  <2> QED BY <2>3 DEF ReadingInv, FunctionNodes, ClassNodes
<1>4. PICK node : node = Lexeme.node
  OBVIOUS
<1>5. node # Absent /\ (node.kind = "class" => node.members = << >>)
  <2>1. node \in FunctionNodes \/ (node \in ClassNodes /\ node.members = << >>)
    BY <1>1, <1>2, <1>4, LexemeIs
  <2>2. node.kind \in {"fn", "class"} /\ (node \in FunctionNodes => node.kind = "fn")
    BY <2>1 DEF FunctionNodes, ClassNodes
  <2> QED BY <2>1, <2>2 DEF Absent
<1>6. PartialRead(Absent, file, p)
  BY <1>2, <1>3 DEF Going
<1>7. PartialRead(partial', file, p + 1)
  <2>1. file[p + 1].kind = "open" /\ node = file[p + 1].node
    BY <1>1, <1>2, <1>4
  <2>2. PartialRead(node, file, p + 1)
    BY <1>2, <1>5, <1>6, <2>1, PartialOpens
  <2> QED BY <1>1, <1>4, <2>2
<1>8. yylval' = Left(file, p + 1)
  <2>1. Left(file, p + 1) = Left(file, p)
    BY <1>1, <1>2, LeftNext DEF IsLiteral
  <2> QED BY <1>1, <1>2, <2>1 DEF Going
<1>9. /\ Recorded(classes', files, "class", n, Complete(file, "class", p + 1))
      /\ Recorded(functions', files, "fn", n, Complete(file, "fn", p + 1))
  <2>1. file[p + 1].kind # "close"
    BY <1>1, <1>2
  <2> QED BY <1>1, <1>2, <2>1, RecordedSame
<1> QED BY <1>1, <1>2, <1>7, <1>8, <1>9, ConsumeReads

\* A member is read.
LEMMA LexMemberReads ==
  ASSUME ReadSoFar, ReadingInv, LexMember
  PROVE  ReadSoFar'
<1>1. /\ pending # << >> /\ Input # << >> /\ Lexeme.kind \in {"field", "method"} /\ Consume
      /\ partial' = [partial EXCEPT !.members = Append(partial.members, Lexeme.member)]
      /\ UNCHANGED <<classes, functions, yylval>>
  BY DEF LexMember, At, Reading, Lexeme
<1>2. PICK n, m, p, file :
           /\ Going(files, pending, yylval, partial, classes, functions, n, m, p)
           /\ file = files[m] /\ file \in Seq(Lexemes) /\ Len(file) \in Nat /\ p \in Nat
           /\ p + 1 \in 1 .. Len(file) /\ p + 1 \in DOMAIN file /\ Lexeme = file[p + 1]
           /\ Lexeme \in Lexemes /\ Allowed(Lexeme, StateOf(partial))
  BY <1>1, InFront
<1>3. partial \in ClassNodes
  BY <1>1, <1>2, PartialIs DEF Allowed
<1>4. PICK member, later, lexeme : member = lexeme.member /\ later = partial' /\ lexeme = file[p + 1]
  OBVIOUS
<1>5. lexeme \in Lexemes /\ lexeme = Lexeme /\ lexeme.kind \in {"field", "method"}
  BY <1>1, <1>2, <1>4
<1>6. /\ member.kind = "field" <=> lexeme.kind = "field"
      /\ lexeme.kind = "field" => member.operands = << >>
  <2>1. lexeme.kind = "field" => member \in FieldNodes /\ member.operands = << >>
    BY <1>4, <1>5 DEF Lexemes
  <2>2. lexeme.kind = "method" => member \in FunctionNodes
    BY <1>4, <1>5, LexemeIs
  <2> QED BY <1>5, <2>1, <2>2, MemberKinds
<1>7. WithMembers(later, partial, Append(partial.members, member))
  BY <1>1, <1>4, <1>5 DEF WithMembers
<1>8. later # Absent
  <2>1. later.kind = "class"
    BY <1>3, <1>7 DEF WithMembers, ClassNodes
  <2> QED BY <2>1 DEF Absent
<1>9. PartialRead(partial, file, p)
  BY <1>2 DEF Going
<1>10. PartialRead(later, file, p + 1)
  BY <1>2, <1>3, <1>4, <1>5, <1>6, <1>7, <1>8, <1>9, PartialMember
<1>11. yylval' = Left(file, p + 1)
  <2>1. Left(file, p + 1) = Left(file, p)
    BY <1>1, <1>2, LeftNext DEF IsLiteral
  <2> QED BY <1>1, <1>2, <2>1 DEF Going
<1>12. /\ Recorded(classes', files, "class", n, Complete(file, "class", p + 1))
       /\ Recorded(functions', files, "fn", n, Complete(file, "fn", p + 1))
  <2>1. file[p + 1].kind # "close"
    BY <1>1, <1>2
  <2> QED BY <1>1, <1>2, <2>1, RecordedSame
<1>13. Lexeme.kind # "unknown"
  BY <1>1
<1> QED BY <1>1, <1>2, <1>4, <1>10, <1>11, <1>12, <1>13, ConsumeReads

\* A comment is read.
LEMMA LexCommentReads ==
  ASSUME ReadSoFar, ReadingInv, LexComment
  PROVE  ReadSoFar'
<1>1. /\ pending # << >> /\ Input # << >> /\ Lexeme.kind = "comment" /\ Consume
      /\ UNCHANGED <<classes, functions, yylval, partial>>
  BY DEF LexComment, At, Reading, Lexeme
<1>2. PICK n, m, p, file :
           /\ Going(files, pending, yylval, partial, classes, functions, n, m, p)
           /\ file = files[m] /\ file \in Seq(Lexemes) /\ Len(file) \in Nat /\ p \in Nat
           /\ p + 1 \in 1 .. Len(file) /\ p + 1 \in DOMAIN file /\ Lexeme = file[p + 1]
           /\ Lexeme \in Lexemes /\ Allowed(Lexeme, StateOf(partial))
  BY <1>1, InFront
<1>3. PartialRead(partial', file, p + 1)
  <2>1. PartialRead(partial, file, p) /\ file[p + 1].kind = "comment"
    BY <1>1, <1>2 DEF Going
  <2>2. PartialRead(partial, file, p + 1)
    BY <1>2, <2>1, PartialSame
  <2> QED BY <1>1, <2>2
<1>4. yylval' = Left(file, p + 1)
  <2>1. Left(file, p + 1) = Left(file, p)
    BY <1>1, <1>2, LeftNext DEF IsLiteral
  <2> QED BY <1>1, <1>2, <2>1 DEF Going
<1>5. /\ Recorded(classes', files, "class", n, Complete(file, "class", p + 1))
      /\ Recorded(functions', files, "fn", n, Complete(file, "fn", p + 1))
  <2>1. file[p + 1].kind # "close"
    BY <1>1, <1>2
  <2> QED BY <1>1, <1>2, <2>1, RecordedSame
<1> QED BY <1>1, <1>2, <1>3, <1>4, <1>5, ConsumeReads

\* A literal is read, with the value that it leaves in yylval.
LEMMA LexNumberReads ==
  ASSUME ReadSoFar, ReadingInv, LexNumber
  PROVE  ReadSoFar'
<1>1. /\ pending # << >> /\ Input # << >> /\ Lexeme.kind = "number" /\ Consume
      /\ yylval' = IntValue(Lexeme)
      /\ partial' = [partial EXCEPT !.members[Len(partial.members)].operands = Append(@, yylval')]
      /\ UNCHANGED <<classes, functions>>
  BY DEF LexNumber, At, Reading, Lexeme
<1>2. PICK n, m, p, file :
           /\ Going(files, pending, yylval, partial, classes, functions, n, m, p)
           /\ file = files[m] /\ file \in Seq(Lexemes) /\ Len(file) \in Nat /\ p \in Nat
           /\ p + 1 \in 1 .. Len(file) /\ p + 1 \in DOMAIN file /\ Lexeme = file[p + 1]
           /\ Lexeme \in Lexemes /\ Allowed(Lexeme, StateOf(partial))
  BY <1>1, InFront
<1>3. StateOf(partial) = "field"
  BY <1>1, <1>2 DEF Allowed
<1>4. PICK old, k, value, later : old = partial.members /\ k = Len(old) /\ value = yylval' /\ later = partial'
  OBVIOUS
<1>5. partial \in ClassNodes /\ old # << >> /\ old[k].kind = "field"
  BY <1>3, <1>4, PartialIs
<1>6. value = Left(file, p + 1)
  <2>1. yylval = Left(file, p)
    BY <1>2 DEF Going
  <2>2. file[p + 1].kind = "number" /\ value = IntValue(file[p + 1])
    BY <1>1, <1>2, <1>4
  <2>3. value = IF IsLiteral(file[p + 1]) THEN Wrap(file[p + 1].value, IntBits) ELSE Left(file, p)
    BY <2>1, <2>2 DEF IntValue, IsLiteral
  <2> QED BY <1>2, <2>3, LeftNext
<1>7. PICK g : g = [old[k] EXCEPT !.operands = Append(old[k].operands, value)]
  OBVIOUS
<1>8. WithMembers(later, partial, [old EXCEPT ![k] = g])
  BY <1>1, <1>4, <1>7 DEF WithMembers
<1>9. later # Absent
  <2>1. later.kind = "class"
    BY <1>5, <1>8 DEF WithMembers, ClassNodes
  <2> QED BY <2>1 DEF Absent
<1>10. PartialRead(partial, file, p) /\ \A i \in 1 .. p : file[i].kind # "unknown"
  BY <1>2 DEF Going, Clean
<1>11. PartialRead(later, file, p + 1)
  <2>1. g = [old[k] EXCEPT !.operands = Append(old[k].operands, Left(file, p + 1))]
    BY <1>6, <1>7
  <2>2. file[p + 1].kind = "number"
    BY <1>1, <1>2
  <2> QED BY <1>2, <1>4, <1>5, <1>8, <1>9, <1>10, <2>1, <2>2, PartialNumber
<1>12. /\ Recorded(classes', files, "class", n, Complete(file, "class", p + 1))
       /\ Recorded(functions', files, "fn", n, Complete(file, "fn", p + 1))
  <2>1. file[p + 1].kind # "close"
    BY <1>1, <1>2
  <2> QED BY <1>1, <1>2, <2>1, RecordedSame
<1>13. yylval' = Left(file, p + 1) /\ PartialRead(partial', file, p + 1) /\ Lexeme.kind # "unknown"
  BY <1>1, <1>4, <1>6, <1>11
<1> QED BY <1>1, <1>2, <1>12, <1>13, ConsumeReads

\* A declaration that was read up to its end stands for the text.
LEMMA StandsClosed ==
  ASSUME NEW file, Len(file) \in Nat, NEW p \in Nat, p + 1 <= Len(file), file[p + 1].kind = "close",
         NEW node, NEW o, IsOpen(node, file, o, p)
  PROVE  Stands(node, file, o)
<1>1. Begins(node, file, o, p)
  BY DEF IsOpen
<1>2. node.kind = "class" => MembersRead(node.members, file, o, Len(file))
  BY <1>1, MembersAll DEF Begins
<1> QED BY <1>1, <1>2 DEF Stands, Begins

\* A declaration is complete, and is one of the program.
LEMMA LexCloseReads ==
  ASSUME ReadSoFar, ReadingInv, ProgramOK, LexClose
  PROVE  ReadSoFar'
<1>1. /\ pending # << >> /\ Input # << >> /\ Lexeme.kind = "close" /\ Consume
      /\ IF partial.kind = "class" THEN addClass(partial) ELSE addFunction(partial)
      /\ partial' = Absent /\ UNCHANGED yylval
  BY DEF LexClose, At, Reading, Lexeme
<1>2. PICK n, m, p, file :
           /\ Going(files, pending, yylval, partial, classes, functions, n, m, p)
           /\ file = files[m] /\ file \in Seq(Lexemes) /\ Len(file) \in Nat /\ p \in Nat
           /\ p + 1 \in 1 .. Len(file) /\ p + 1 \in DOMAIN file /\ Lexeme = file[p + 1]
           /\ Lexeme \in Lexemes /\ Allowed(Lexeme, StateOf(partial))
  BY <1>1, InFront
<1>3. StateOf(partial) # "absent" /\ file[p + 1].kind = "close"
  BY <1>1, <1>2 DEF Allowed
<1>4. partial # Absent
  BY <1>3 DEF StateOf, Absent
<1>5. IF partial.kind = "class" THEN partial \in ClassNodes ELSE partial \in FunctionNodes /\ partial.kind = "fn"
  BY <1>3, PartialIs, MemberKinds
<1>6. PICK o : IsOpen(partial, file, o, p)
  BY <1>2, <1>4 DEF Going, PartialRead
<1>7. PartialRead(partial', file, p + 1)
  BY <1>1, <1>2, <1>3, <1>6, PartialCloses
<1>8. yylval' = Left(file, p + 1)
  <2>1. Left(file, p + 1) = Left(file, p)
    BY <1>2, <1>3, LeftNext DEF IsLiteral
  <2> QED BY <1>1, <1>2, <2>1 DEF Going
<1>9. PICK C, F, c, f : /\ C = Complete(file, "class", p) /\ F = Complete(file, "fn", p)
                        /\ c = Complete(file, "class", p + 1) /\ f = Complete(file, "fn", p + 1)
  OBVIOUS
<1>10. /\ c = IF partial.kind = "class" THEN Append(C, o) ELSE C
       /\ f = IF partial.kind = "fn" THEN Append(F, o) ELSE F
  BY <1>2, <1>3, <1>6, <1>9, CompleteClosed
<1>11. Stands(partial, files[m], o)
  BY <1>2, <1>3, <1>6, StandsClosed
<1>12. Recorded(classes, files, "class", n, C) /\ Recorded(functions, files, "fn", n, F) /\ m = n + 1
  BY <1>2, <1>9 DEF Going
<1>13. IsList(C) /\ IsList(F) /\ IsList(classes) /\ IsList(functions)
  BY <1>2, <1>9, CompleteList DEF ProgramOK, IsList
<1>14. Recorded(classes', files, "class", n, c) /\ Recorded(functions', files, "fn", n, f)
  <2>1. CASE partial.kind = "class"
    <3>1. classes' = Append(classes, partial) /\ functions' = functions
      BY <1>1, <2>1 DEF addClass
    <3>2. Recorded(Append(classes, partial), files, "class", n, Append(C, o))
      BY <1>11, <1>12, <1>13, RecordedMore
    <3> QED BY <1>10, <1>12, <2>1, <3>1, <3>2
  <2>2. CASE partial.kind # "class"
    <3>1. functions' = Append(functions, partial) /\ classes' = classes
      BY <1>1, <2>2 DEF addFunction
    <3>2. Recorded(Append(functions, partial), files, "fn", n, Append(F, o))
      BY <1>11, <1>12, <1>13, RecordedMore
    <3> QED BY <1>5, <1>10, <1>12, <2>2, <3>1, <3>2
  <2> QED BY <2>1, <2>2
<1>15. Lexeme.kind # "unknown"
  BY <1>1
<1> QED BY <1>1, <1>2, <1>7, <1>8, <1>9, <1>14, <1>15, ConsumeReads

\* A file is done: what is complete in it is all it has.
LEMMA LexStopReads ==
  ASSUME ReadSoFar, LexStop
  PROVE  ReadSoFar'
<1>1. /\ pending # << >> /\ (Input # << >> => Lexeme.kind = "unknown")
      /\ pending' = Tail(pending) /\ partial' = Absent /\ yylval' = 0
      /\ UNCHANGED <<classes, functions, files>>
  BY DEF LexStop, Reading
<1>2. PICK n, m, p : Going(files, pending, yylval, partial, classes, functions, n, m, p)
  BY <1>1 DEF ReadSoFar
<1>3. FilesOK(files) /\ Reached(files, pending, m, p) /\ m = n + 1 /\ n \in Nat
  BY <1>2 DEF ReadSoFar, Going
<1>4. PICK file, next : file = files[m] /\ next = pending'
  OBVIOUS
<1>5. /\ file \in Seq(Lexemes) /\ p \in Nat /\ p <= Len(file) /\ Clean(file, p)
      /\ p = Len(file) \/ file[p + 1].kind = "unknown"
  <2>1. /\ file \in Seq(Lexemes) /\ p \in Nat /\ p <= Len(file)
        /\ Input = << >> => p = Len(file)
        /\ Input # << >> => Lexeme = file[p + 1]
    BY <1>1, <1>3, <1>4, NextPlace DEF Input, Lexeme
  <2>2. Clean(file, p)
    BY <1>2, <1>4 DEF Going
  <2> QED BY <1>1, <2>1, <2>2
<1>6. Extent(file) = p
  BY <1>5, ExtentIs
<1>7. IsList(files) /\ Len(files) \in Nat /\ m \in 1 .. Len(files)
  BY <1>1, <1>3, ReachedStop DEF FilesOK
<1>8. \A kind : IsList(Complete(file, kind, p)) /\ Complete(file, kind, p) = Complete(files[m], kind, Extent(files[m]))
  BY <1>4, <1>5, <1>6, CompleteList
<1>9. Recorded(classes, files, "class", m, << >>) /\ Recorded(functions, files, "fn", m, << >>)
  <2>1. /\ Recorded(classes, files, "class", n, Complete(file, "class", p))
        /\ Recorded(functions, files, "fn", n, Complete(file, "fn", p))
    BY <1>2, <1>4 DEF Going
  <2> QED BY <1>3, <1>7, <1>8, <2>1, RecordedNext
<1>10. CASE next = << >>
  <2>1. m = Len(files)
    BY <1>1, <1>3, <1>4, <1>10, ReachedStop
  <2> QED BY <1>1, <1>3, <1>4, <1>9, <1>10, <2>1 DEF ReadSoFar
<1>11. CASE next # << >>
  <2>1. PICK k : k = m + 1
    OBVIOUS
  <2>2. Reached(files, next, k, 0)
    BY <1>1, <1>3, <1>4, <1>11, <2>1, ReachedStop
  <2>3. \A kind : Complete(files[k], kind, 0) = << >>
    BY CompleteList
  <2>4. Left(files[k], 0) = 0
    BY LeftNext
  <2>5. Clean(files[k], 0) /\ PartialRead(Absent, files[k], 0)
    BY DEF Clean, PartialRead
  <2>6. m \in Nat
    BY <1>7
  <2>7. Going(files, next, 0, Absent, classes, functions, m, k, 0)
    BY <1>9, <2>1, <2>2, <2>3, <2>4, <2>5, <2>6 DEF Going
  <2>8. Going(files', pending', yylval', partial', classes', functions', m, k, 0)
    BY <1>1, <1>4, <2>7
  <2> QED BY <1>1, <1>3, <1>4, <1>11, <2>8 DEF ReadSoFar
<1> QED BY <1>10, <1>11

\* Every step of the reader keeps what was read.
LEMMA ReadNextReads ==
  ASSUME ReadSoFar, ReadingInv, ProgramOK, ReadNext
  PROVE  ReadSoFar'
<1>1. CASE LexOpen
  BY <1>1, LexOpenReads
<1>2. CASE LexMember
  BY <1>2, LexMemberReads
<1>3. CASE LexNumber
  BY <1>3, LexNumberReads
<1>4. CASE LexClose
  BY <1>4, LexCloseReads
<1>5. CASE LexComment
  BY <1>5, LexCommentReads
<1>6. CASE LexStop
  BY <1>6, LexStopReads
<1> QED BY <1>1, <1>2, <1>3, <1>4, <1>5, <1>6 DEF ReadNext

\* Before anything is read nothing is known.
LEMMA InitReads == Init => ReadSoFar
<1> SUFFICES ASSUME Init PROVE ReadSoFar
  OBVIOUS
<1>1. /\ mode \in DOMAIN Texts /\ pending = files /\ partial = Absent /\ yylval = 0
      /\ classes = << >> /\ functions = << >>
  BY DEF Init, ReadInit, ProgramInit
<1>2. PICK text \in Texts[mode] : files = IF mode = "print" THEN <<text>> ELSE <<Library, text>>
  BY DEF Init
<1>3. text \in Seq(Lexemes) /\ Library \in Seq(Lexemes)
  BY <1>1, <1>2, FilesAssumption DEF File
<1>4. PICK single, pair : single = <<text>> /\ pair = <<Library, text>>
  OBVIOUS
<1>5. /\ IsList(single) /\ Len(single) = 1 /\ single[1] = text
      /\ IsList(pair) /\ Len(pair) = 2 /\ pair[1] = Library /\ pair[2] = text
  <2>1. single \in Seq({text}) /\ pair \in Seq({Library, text})
    BY <1>4
  <2>2. Len(single) = 1 /\ single[1] = text /\ Len(pair) = 2 /\ pair[1] = Library /\ pair[2] = text
    BY <1>4
  <2> QED BY <2>1, <2>2 DEF IsList
<1>6. FilesOK(files) /\ files # << >>
  <2>1. CASE files = single
    <3>1. \A k \in 1 .. 1 : k = 1
      OBVIOUS
    <3>2. single # << >>
      BY <1>5, EmptyList
    <3> QED BY <1>3, <1>5, <2>1, <3>1, <3>2 DEF FilesOK
  <2>2. CASE files = pair
    <3>1. \A k \in 1 .. 2 : k = 1 \/ k = 2
      OBVIOUS
    <3>2. pair # << >>
      BY <1>5, EmptyList
    <3> QED BY <1>3, <1>5, <2>2, <3>1, <3>2 DEF FilesOK
  <2> QED BY <1>2, <1>4, <2>1, <2>2
<1>7. Reached(files, files, 1, 0)
  BY <1>6, ReachedFirst
<1>8. \A kind : Complete(files[1], kind, 0) = << >> /\ Recorded(<< >>, files, kind, 0, << >>)
  BY <1>6, CompleteList, RecordedFirst DEF FilesOK
<1>9. Left(files[1], 0) = 0 /\ Clean(files[1], 0) /\ PartialRead(Absent, files[1], 0)
  BY LeftNext DEF Clean, PartialRead
<1>10. Going(files, files, 0, Absent, << >>, << >>, 0, 1, 0)
  BY <1>7, <1>8, <1>9 DEF Going
<1>11. Going(files, pending, yylval, partial, classes, functions, 0, 1, 0)
  BY <1>1, <1>10
<1> QED BY <1>1, <1>6, <1>11 DEF ReadSoFar

\* Nothing but reading changes what was read.
LEMMA NextReads ==
  HandlesInv /\ MainInv /\ ProcessInv /\ ReadSoFar /\ [Next]_vars => ReadSoFar'
<1> SUFFICES ASSUME ProcessInv, ReadSoFar, [Next]_vars PROVE ReadSoFar'
  OBVIOUS
<1>1. CASE ReadStep
  <2>1. ReadNext /\ outcome = "reading"
    BY <1>1 DEF ReadStep, ReadNext, LexOpen, LexMember, LexNumber, LexClose, LexComment, LexStop, At, Reading
  <2> QED BY <2>1, ReadNextReads DEF ProcessInv
<1>2. CASE GenStep
  <2>1. UNCHANGED <<classes, functions, files, pending, yylval, partial>>
    BY <1>2, GenUnchanged DEF GenStep, readVars
  <2> QED BY <2>1 DEF ReadSoFar
<1>3. CASE StartCodegen \/ StartPrint \/ PrintStep \/ runProgram \/ makeObject \/ UNCHANGED vars
  <2>1. UNCHANGED <<classes, functions, files, pending, yylval, partial>>
    BY <1>3 DEF StartCodegen, StartPrint, AllRead, PrintStep, PrintNext, PrintClass, PrintFunction, FinishPrint,
                PrintBlock, Begun, runProgram, makeObject, vars, readVars
  <2> QED BY <2>1 DEF ReadSoFar
<1> QED BY <1>1, <1>2, <1>3 DEF Next

\* What was read is what is written there, at any time.
LEMMA ReadKept == Spec => [](ProgramOK /\ ReadSoFar)
<1>1. Init => ReadSoFar
  BY InitReads
<1>2. HandlesInv /\ MainInv /\ ProcessInv /\ ReadSoFar /\ [Next]_vars => ReadSoFar'
  BY NextReads
<1>3. HandlesInv /\ MainInv /\ ProcessInv => ProgramOK
  BY DEF ProcessInv
<1> QED BY <1>1, <1>2, <1>3, ProcessKept, PTL DEF Spec

\* Origins is the list of what was recorded.
LEMMA OriginsAre ==
  ASSUME NEW kind
  PROVE  Origins(kind) = Flat(OriginLists(files, kind))
BY DEF Origins, OriginLists, Pairs

\* The declarations of the program, once all is read.
LEMMA AllReadIs ==
  ASSUME ProgramOK, ReadSoFar, Read
  PROVE  Correspond(classes, files, Origins("class")) /\ Correspond(functions, files, Origins("fn"))
<1>1. IsList(files) /\ Recorded(classes, files, "class", Len(files), << >>) /\ Recorded(functions, files, "fn", Len(files), << >>)
  BY DEF ReadSoFar, FilesOK, Read
<1>2. /\ Correspond(classes, files, Flat(OriginLists(files, "class")))
      /\ Correspond(functions, files, Flat(OriginLists(files, "fn")))
  BY <1>1, RecordedAll
<1> QED BY <1>2, OriginsAre

\* A program whose declarations correspond has their names.
LEMMA NamesCorrespond ==
  ASSUME NEW nodes, IsList(nodes), NEW s, Correspond(nodes, files, s)
  PROVE  [k \in DOMAIN nodes |-> nodes[k].name] = [k \in DOMAIN s |-> files[s[k][1]][s[k][2]].node.name]
<1>1. DOMAIN nodes = 1 .. Len(s) /\ DOMAIN s = 1 .. Len(s)
  BY ListDomain DEF Correspond
<1>2. \A k \in 1 .. Len(s) : nodes[k].name = files[s[k][1]][s[k][2]].node.name
  BY DEF Correspond, Stands
<1> QED BY <1>1, <1>2

\* Whatever the files, the program is made of the complete declarations in front
\* of the first unknown character of each, in their order: addClass and addFunction
\* are called for no other.
THEOREM FilesAreRead == Spec => []ReadsFiles
<1>1. ProgramOK /\ ReadSoFar => ReadsFiles
  <2> SUFFICES ASSUME ProgramOK, ReadSoFar, Read PROVE ReadsFiles
    BY DEF ReadsFiles
  <2>1. Correspond(classes, files, Origins("class")) /\ Correspond(functions, files, Origins("fn"))
    BY AllReadIs
  <2>2. IsList(classes) /\ IsList(functions)
    BY DEF ProgramOK, IsList
  <2>3. /\ [k \in DOMAIN classes |-> classes[k].name] =
             [k \in DOMAIN Origins("class") |-> files[Origins("class")[k][1]][Origins("class")[k][2]].node.name]
        /\ [k \in DOMAIN functions |-> functions[k].name] =
             [k \in DOMAIN Origins("fn") |-> files[Origins("fn")[k][1]][Origins("fn")[k][2]].node.name]
    BY <2>1, <2>2, NamesCorrespond
  <2> QED BY <2>3, Zenon DEF ReadsFiles
<1> QED BY <1>1, ReadKept, PTL

\* The numbers of a field are its operands.
OperandsExact(operands, file, m) ==
  LET numbers == InOrder(NumberSet(file, m), Len(file)) IN
  /\ Len(operands) = Len(numbers)
  /\ \A j \in DOMAIN numbers : LET n == Meant(file, numbers[j]) IN
       n = Wrap(n, IntBits) => operands[j] = n

MembersExact(members, file, o) ==
  LET places == InOrder(MemberSet(file, o), Len(file)) IN
  /\ Len(members) = Len(places)
  /\ \A m \in DOMAIN places :
       file[places[m]].kind = "field" => OperandsExact(members[m].operands, file, places[m])

\* They are what the literals stand for.
LEMMA OperandsMeant ==
  ASSUME NEW operands, NEW file, NEW m, Len(file) \in Nat, OperandsRead(operands, file, m, Len(file))
  PROVE  OperandsExact(operands, file, m)
<1>1. PICK numbers : numbers = InOrder(NumberSet(file, m), Len(file))
  OBVIOUS
<1>2. IsList(numbers)
  BY <1>1, OrderedList DEF IsOrder
<1>3. Len(operands) = Len(numbers) /\ \A j \in 1 .. Len(numbers) : operands[j] = Left(file, numbers[j])
  BY <1>1 DEF OperandsRead
<1>4. DOMAIN numbers = 1 .. Len(numbers)
  BY <1>2, ListDomain
<1>5. ASSUME NEW i, Meant(file, i) = Wrap(Meant(file, i), IntBits) PROVE Left(file, i) = Meant(file, i)
  BY <1>5 DEF Left, Meant
<1>6. \A j \in DOMAIN numbers :
        Meant(file, numbers[j]) = Wrap(Meant(file, numbers[j]), IntBits) => operands[j] = Meant(file, numbers[j])
  BY <1>3, <1>4, <1>5
<1> QED BY <1>1, <1>3, <1>6 DEF OperandsExact

\* The members of a class are those of the text, each with its operands.
LEMMA MembersMeant ==
  ASSUME NEW members, NEW file, NEW o, Len(file) \in Nat, MembersRead(members, file, o, Len(file))
  PROVE  MembersExact(members, file, o)
<1>1. PICK places : places = InOrder(MemberSet(file, o), Len(file))
  OBVIOUS
<1>2. DOMAIN places = 1 .. Len(places)
  <2>1. IsList(places)
    BY <1>1, OrderedList DEF IsOrder
  <2> QED BY <2>1, ListDomain
<1>3. /\ Len(members) = Len(places)
      /\ \A m \in 1 .. Len(places) :
           file[places[m]].kind = "field" => OperandsRead(members[m].operands, file, places[m], Len(file))
  BY <1>1 DEF MembersRead
<1>4. \A m \in DOMAIN places :
        file[places[m]].kind = "field" => OperandsExact(members[m].operands, file, places[m])
  BY <1>2, <1>3, OperandsMeant
<1> QED BY <1>1, <1>3, <1>4 DEF MembersExact

\* Each literal of the program has the value that is left behind its token:
\* lexed into one yylval per file, wrapped to an int, whatever the files.
THEOREM LiteralsAreExact == Spec => []LiteralsExact
<1>1. ProgramOK /\ ReadSoFar => LiteralsExact
  <2> SUFFICES ASSUME ProgramOK, ReadSoFar, Read PROVE LiteralsExact
    BY DEF LiteralsExact
  <2>1. Correspond(classes, files, Origins("class"))
    BY AllReadIs
  <2>2. DOMAIN classes = 1 .. Len(classes) /\ \A k \in 1 .. Len(classes) : classes[k].kind = "class"
    <3>1. classes \in Seq(ClassNodes)
      BY DEF ProgramOK
    <3>2. \A c \in ClassNodes : c.kind = "class"
      BY DEF ClassNodes
    <3> QED BY <3>1, <3>2
  <2>3. ASSUME NEW k \in DOMAIN classes, NEW file, file = files[Origins("class")[k][1]]
        PROVE  MembersExact(classes[k].members, file, Origins("class")[k][2])
    <3>1. PICK at : at = Origins("class")[k]
      OBVIOUS
    <3>2. Stands(classes[k], file, at[2])
      BY <2>1, <2>2, <2>3, <3>1 DEF Correspond
    <3>3. Len(file) \in Nat /\ MembersRead(classes[k].members, file, at[2], Len(file))
      BY <2>2, <3>2 DEF Stands
    <3> QED BY <3>1, <3>3, MembersMeant
  <2>4. \A k \in DOMAIN classes :
          MembersExact(classes[k].members, files[Origins("class")[k][1]], Origins("class")[k][2])
    BY <2>3
  <2> QED BY <2>4, Zenon DEF LiteralsExact, MembersExact, OperandsExact
<1> QED BY <1>1, ReadKept, PTL
=============================================================================
