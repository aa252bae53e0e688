---------------------------- MODULE Declarations ----------------------------
(***************************************************************************)
(* Program::codegen: the classes one after the other, then the functions;  *)
(* what each adds to the module, to the names and to the types.  Bodies    *)
(* are taken to be expression statements; regions are the default ones.    *)
(*                                                                         *)
(* What is emitted, item by item:                                          *)
(*   const, undef, string     a constant                                   *)
(*   [op |-> "fn", fn]        a function of the module                     *)
(*   [op |-> "field", class, path]  a load from an instance of class: the  *)
(*                            indices of a GEP, 0 for each super class     *)
(*   [op |-> "call", handle]  a call of the item before it; handle is the  *)
(*                            function whose region it passes, 0 for none  *)
(*   [op |-> "alloc", handle] RegionAlloc                                  *)
(*   [op |-> "store", index, value, field]   to a field of the instance;   *)
(*                            field is the member that value is of         *)
(*   [op |-> "init", class, handle, passed]  the initialiser of class;     *)
(*                            passed: it is given the instance             *)
(*   [op |-> "nothing"]       a member that does not exist                 *)
(***************************************************************************)
EXTENDS Program, IntExpr, FiniteSets

VARIABLES
  module,      \* the functions of the LLVM module: [name, decl, code], where
               \* name is None if nothing finds it by its name and decl is the
               \* declaration, see Properties
  classTypes,  \* the ClassTypes, one for each class that codegen has begun
  global,      \* CodegenContext: values, types, region (of a function, or 0)
  body,        \* the function whose code is being generated, or Absent: its value
               \* and region, the nodes to come, and the value of the last one
  local        \* ClassTypeContext, or Absent: values, variables, region, and the
               \* places of the statements to come

genVars == <<module, classTypes, global, body, local>>

(***************************************************************************)
(* Types and values.                                                       *)
(***************************************************************************)

Void          == [kind |-> "void"]
RegionType    == [kind |-> "region"]
StringType    == [kind |-> "string"]
ArrayType     == [kind |-> "array"]
ClassType(class, region) == [kind |-> "class", class |-> class, region |-> region]

Failed(how) == [type |-> [kind |-> how]]

Fails(v) == v.type.kind \in {"aborted", "rejected"}

\* A null pointer to a value.
Null == [type |-> [kind |-> "null"]]

IsNull(v) == v.type.kind = "null"

Find(values, name) == IF name \in DOMAIN values THEN values[name] ELSE Null

Pointer(type, code) == [type |-> type, width |-> 0, code |-> code]

FunctionValue(id, ret, native) ==
  Pointer([kind |-> "function", ret |-> ret, native |-> native], [op |-> "fn", fn |-> id])

\* NamedTypeNode::codegen where region is the default: the global default has
\* no name, withRegions insists on one.
TypeNamed(name, types, region) ==
  IF name = "void" THEN Void
  ELSE IF name \in DOMAIN IntTypes THEN IntType(IntTypes[name])
  ELSE IF name \in DOMAIN types /\ region # "" THEN ClassType(types[name], region)
  ELSE [kind |-> "aborted"]

\* A class and what it inherits from.
Chain[c \in 0 .. Len(classTypes)] == IF c = 0 THEN << >> ELSE <<c>> \o Chain[classTypes[c].super]

Has(c, name) == name \in DOMAIN classTypes[c].children \cup DOMAIN classTypes[c].functions

\* ClassType::getChild: fields before methods, a class before its super class.
getChild(v, name) ==
  IF Fails(v) THEN v
  ELSE IF v.type.kind # "class" THEN Failed("aborted")
  ELSE LET chain  == Chain[v.type.class]
           owners == {d \in DOMAIN chain : Has(chain[d], name)}
           d      == Least(owners)
           class  == classTypes[chain[d]]
       IN IF owners = {} THEN Null
          ELSE IF name \in DOMAIN class.children
          THEN LET child == class.children[name] IN
               [type |-> child.type, width |-> class.slots[child.index + 1],
                code |-> [op |-> "field", class |-> v.type.class,
                          path |-> [i \in 1 .. d |-> IF i < d THEN 0 ELSE child.index]]]
          ELSE LET f == class.functions[name] IN
               Pointer([kind |-> "method", ret |-> f.type.ret, native |-> FALSE, instance |-> v.type.region],
                       [op |-> "fn", fn |-> f.code.fn])

\* The width of what a function returns: printf has an int for its i32.
ReturnWidth(type) ==
  IF type.ret.kind # "int" THEN 0 ELSE IF type.native THEN IntBits ELSE StoreWidth(type.ret.bits)

\* FunctionType::doCall and ClassFunctionType::doCall without arguments, where
\* region is the default and handle the function whose argument it is.  A method
\* must be called on an instance of that region.
doCall(v, region, handle) ==
  IF Fails(v) THEN v
  ELSE IF v.type.kind \notin {"function", "method"} THEN Failed("aborted")
  ELSE IF v.type.kind = "method" /\ v.type.instance # region THEN Failed("rejected")
  ELSE IF v.type.ret.kind = "class" /\ region = "" THEN Failed("aborted")
  ELSE [type  |-> IF v.type.ret.kind = "class" THEN [v.type.ret EXCEPT !.region = region] ELSE v.type.ret,
        width |-> ReturnWidth(v.type),
        code  |-> [op |-> "call", handle |-> IF v.type.native THEN 0 ELSE handle]]

(***************************************************************************)
(* Functions.                                                              *)
(***************************************************************************)

Class == Len(classTypes)  \* the class that is being generated

\* How many functions of the program are in the module.
Done == Cardinality({i \in DOMAIN module : module[i].decl[1] = 0 /\ module[i].decl[2] > 0})

\* Slip: a function is known in its own body.
GlobalValue_early(name) ==
  IF name = functions[Done].name THEN FunctionValue(Len(module), Void, FALSE)
  ELSE Find(global.values, name)

\* CodegenContext::getValue, for the body of a function.
GlobalValue(name) == Find(global.values, name)

\* Slip: global names hide members.
MethodValue_global(name) ==
  LET value == Find(global.values, name) IN
  IF ~IsNull(value) THEN value
  ELSE IF name \in DOMAIN local.values THEN local.values[name]
  ELSE getChild(Pointer(ClassType(Class, ""), [op |-> "this"]), name)

\* FunctionContext::getValue of a method: members through this, the class
\* context, then the global names.
MethodValue(name) ==
  LET this   == Pointer(ClassType(Class, ""), [op |-> "this"])
      member == getChild(this, name)
  IN IF ~IsNull(member) THEN member
     ELSE IF name \in DOMAIN local.values THEN local.values[name]
     ELSE Find(global.values, name)

\* The names that a body sees.
getValue(name) == IF local = Absent THEN GlobalValue(name) ELSE MethodValue(name)

\* Module::getFunction.
getFunction(name) ==
  IF \E id \in DOMAIN module : module[id].name = name
  THEN CHOOSE id \in DOMAIN module : module[id].name = name ELSE 0

\* Function::Create gives a function another name if its own is taken.
NewName(name) == IF getFunction(name) = 0 THEN name ELSE None

Generating == outcome = "generating"

\* codegenFunction up to the statements.
codegenFunction(node, decl, region) ==
  LET ret == TypeNamed(node.ret, global.types, region) IN
  /\ body = Absent
  /\ IF ret.kind = "aborted" THEN outcome' = "aborted" /\ UNCHANGED <<module, body>>
     ELSE /\ module' = Append(module, [name |-> NewName(node.name), decl |-> decl, code |-> << >>])
          /\ body' = [value |-> FunctionValue(Len(module) + 1, ret, FALSE), region |-> region,
                      todo |-> node.nodes, last |-> Null]
          /\ UNCHANGED outcome
  /\ UNCHANGED <<classes, functions, classTypes, global, local>>

\* FunctionNode::codegen.
BeginFunction ==
  /\ Generating /\ local = Absent /\ Len(classTypes) = Len(classes) /\ Done < Len(functions)
  /\ codegenFunction(functions[Done + 1], <<0, Done + 1>>, "fn_default")

NextNode(kind) == Generating /\ body # Absent /\ body.todo # << >> /\ Head(body.todo).kind = kind

\* What codegen of a node returns and emits, unless the compiler dies of it.  A
\* null value is nothing as long as nobody looks into it.
Generate(value) ==
  /\ IF Fails(value) THEN outcome' = value.type.kind /\ UNCHANGED <<module, body>>
     ELSE /\ module' = [module EXCEPT ![body.value.code.fn].code =
                         Append(@, IF IsNull(value) THEN [op |-> "nothing"] ELSE value.code)]
          /\ body' = [body EXCEPT !.todo = Tail(@), !.last = value]
          /\ UNCHANGED outcome
  /\ UNCHANGED <<classes, functions, classTypes, global, local>>

Resolved(v) == IF IsNull(v) THEN Failed("aborted") ELSE v

\* NameExprNode::codegen.
GenName == NextNode("name") /\ Generate(Resolved(getValue(Head(body.todo).name)))

\* ChildExprNode::codegen.
GenChild == NextNode("child") /\ Generate(getChild(Resolved(body.last), Head(body.todo).name))

\* CallExprNode::codegen.
GenCall == NextNode("call") /\ Generate(doCall(body.last, body.region, body.value.code.fn))

BodyDone == Generating /\ body # Absent /\ body.todo = << >>

\* The end of FunctionNode::codegen: the name is added after the body.
EndFunction ==
  /\ BodyDone /\ local = Absent
  /\ global' = [global EXCEPT !.values = Put(@, functions[Done].name, body.value)]
  /\ body' = Absent
  /\ UNCHANGED <<classes, functions, outcome, module, classTypes, local>>

(***************************************************************************)
(* Classes.                                                                *)
(***************************************************************************)

Node == classes[Class]

\* A ClassType, and how many bits each slot of its struct has.
NewClassType(super, init) ==
  [super |-> super, children |-> << >>, functions |-> << >>, slots |-> << >>, init |-> init]

\* The places of the members of a kind.
Places(members, kind) == {i \in 1 .. Len(members) : members[i].kind = kind}

\* A ClassTypeContext; the fields come first.
NewClassContext(init, members) ==
  [values |-> << >>, variables |-> << >>, region |-> init, laidOut |-> FALSE,
   todo |-> Places(members, "field")]

\* ClassNode::codegen up to the initialisers.
BeginClass ==
  /\ Generating /\ local = Absent /\ Class < Len(classes)
  /\ LET node  == classes[Class + 1]
         super == IF node.super = None THEN 0 ELSE global.types[node.super]
         init  == Len(module) + 1
     IN IF node.super # None /\ node.super \notin DOMAIN global.types
        THEN outcome' = "aborted" /\ UNCHANGED <<module, classTypes, local>>
        ELSE /\ classTypes' = Append(classTypes, NewClassType(super, init))
             /\ module' = Append(module, [name |-> None, decl |-> <<Class + 1, 0>>, code |-> << >>])
             /\ local' = NewClassContext(init, node.members)
             /\ UNCHANGED outcome
  /\ UNCHANGED <<classes, functions, global, body>>

\* The initialiser of a field: only the global names are known, the handle is
\* the one of the initialiser function.
Initialiser(field) ==
  LET operand(i) == Const(field.operands[i])
      type  == TypeNamed(field.type, global.types, "")
      named == Resolved(Find(global.values, field.arg))
  IN IF field.type # None /\ type.kind = "aborted" THEN Failed("aborted")
     ELSE
     CASE field.op = "none"   -> IF type.kind = "int" THEN ConstantInt(type.bits, StoreWidth(type.bits), 0)
                                 ELSE Failed("aborted")
       [] field.op = "number" -> operand(1)
       [] field.op = "string" -> Pointer(StringType, [op |-> "string"])
       [] field.op = "array"  -> Pointer(ArrayType, [op |-> "alloc", handle |-> local.region])
       [] field.op = "fill"   -> Failed("aborted")
       [] field.op = "name"   -> named
       [] field.op = "call"   -> doCall(named, "", local.region)
       [] OTHER               -> Binary(field.op, operand(1), operand(2))

\* VarStatementNode::codegen.
GenField ==
  /\ Generating /\ local # Absent /\ ~local.laidOut /\ local.todo # {}
  /\ LET field == Node.members[Least(local.todo)]
         value == Initialiser(field)
     IN IF Fails(value) THEN outcome' = value.type.kind /\ UNCHANGED <<module, local>>
        ELSE /\ local' = [local EXCEPT !.todo = @ \ {Least(@)},
                                       !.variables = Append(@, [name |-> field.name, value |-> value,
                                                                field |-> Least(local.todo)])]
             /\ module' = [module EXCEPT ![local.region].code = Append(@, value.code)]
             /\ UNCHANGED outcome
  /\ UNCHANGED <<classes, functions, classTypes, global, body>>

\* The first index: a super class is the first part of the object.
Offset(class) == IF class.super = 0 THEN 0 ELSE 1

VariableNames == {local.variables[k].name : k \in DOMAIN local.variables}

\* Slip: the indices begin at one.
Children_late(class) ==
  [n \in VariableNames |->
     LET k == Latest({j \in DOMAIN local.variables : local.variables[j].name = n}) IN
     [index |-> Offset(class) + k, type |-> local.variables[k].value.type]]

\* The children map keeps the last field of a name.
Children(class) ==
  [n \in VariableNames |->
     LET k == Latest({j \in DOMAIN local.variables : local.variables[j].name = n}) IN
     [index |-> Offset(class) + k - 1, type |-> local.variables[k].value.type]]

\* Slip: the index is not moved again before the stores.
Stores_unmoved(class) ==
  [k \in DOMAIN local.variables |->
     [op |-> "store", index |-> k - 1, value |-> local.variables[k].value, field |-> local.variables[k].field]]

\* The second loop counts the indices again.
Stores(class) ==
  [k \in DOMAIN local.variables |->
     [op |-> "store", index |-> Offset(class) + k - 1, value |-> local.variables[k].value,
      field |-> local.variables[k].field]]

\* The call of the initialiser of the super class has the region as its only
\* argument.
InitSuper(class) ==
  IF class.super = 0 THEN << >>
  ELSE <<[op |-> "init", class |-> class.super, handle |-> local.region, passed |-> FALSE]>>

\* ClassNode::codegen after the initialisers.
LayOut ==
  /\ Generating /\ local # Absent /\ ~local.laidOut /\ local.todo = {}
  /\ LET class == classTypes[Class] IN
     /\ classTypes' = [classTypes EXCEPT
          ![Class].children = Children(class),
          ![Class].slots = [k \in 1 .. Offset(class) |-> 0]
                           \o [k \in DOMAIN local.variables |-> local.variables[k].value.width]]
     /\ module' = [module EXCEPT ![local.region].code = @ \o InitSuper(class) \o Stores(class)]
  /\ local' = [local EXCEPT !.laidOut = TRUE,
                            !.todo = Places(Node.members, "fn")]
  /\ UNCHANGED <<classes, functions, outcome, global, body>>

\* FunctionNode::codegenAsClassStatement.
BeginMethod ==
  /\ Generating /\ local # Absent /\ local.laidOut /\ local.todo # {}
  /\ codegenFunction(Node.members[Least(local.todo)], <<Class, Least(local.todo)>>, "this")

\* Its end: the method gets its name.
EndMethod ==
  /\ BodyDone /\ local # Absent
  /\ LET name == Node.members[Least(local.todo)].name IN
     /\ classTypes' = [classTypes EXCEPT ![Class].functions = Put(@, name, body.value)]
     /\ local' = [local EXCEPT !.todo = @ \ {Least(@)}, !.values = Put(@, name, body.value)]
  /\ body' = Absent
  /\ UNCHANGED <<classes, functions, outcome, module, global>>

\* Slip: the constructor allocates where the context says, which is not moved.
Constructor_stale(id) ==
  <<[op |-> "alloc", handle |-> global.region],
    [op |-> "init", class |-> Class, handle |-> id, passed |-> TRUE]>>

Constructor(id) ==
  <<[op |-> "alloc", handle |-> id],
    [op |-> "init", class |-> Class, handle |-> id, passed |-> TRUE]>>

\* The end of ClassNode::codegen: the constructor, whose region becomes that of
\* the global context, and the names.
EndClass ==
  /\ Generating /\ local # Absent /\ local.laidOut /\ local.todo = {}
  /\ LET id == Len(module) + 1 IN
     /\ module' = Append(module, [name |-> None, decl |-> <<Class, 0>>, code |-> Constructor(id)])
     /\ global' = [values |-> Put(global.values, Node.name,
                                  FunctionValue(id, ClassType(Class, "fn_default"), FALSE)),
                   types  |-> Put(global.types, Node.name, Class),
                   region |-> id]
  /\ local' = Absent
  /\ UNCHANGED <<classes, functions, outcome, classTypes, body>>

\* The end of Program::codegen.
Finish ==
  /\ Generating /\ local = Absent /\ body = Absent /\ Class = Len(classes) /\ Done = Len(functions)
  /\ outcome' = "generated"
  /\ UNCHANGED <<classes, functions, genVars>>

\* register_printf and register_regions; two of the four have no name in the
\* program.
Natives == <<"printf", "NewRegion", "DeleteRegion", "RegionAlloc">>

GenInit ==
  /\ module = [i \in DOMAIN Natives |-> [name |-> Natives[i], decl |-> <<0, -i>>, code |-> << >>]]
  /\ classTypes = << >>
  /\ global = [values |-> [printf    |-> FunctionValue(1, IntType(32), TRUE),
                           NewRegion |-> FunctionValue(2, RegionType, FALSE)],
               types  |-> << >>, region |-> 0]
  /\ local = Absent /\ body = Absent

GenNext ==
  \/ BeginClass \/ GenField \/ LayOut \/ BeginMethod \/ EndMethod \/ EndClass
  \/ BeginFunction \/ EndFunction \/ GenName \/ GenChild \/ GenCall
  \/ Finish

(***************************************************************************)
(* Properties.  A declaration is named by where it stands in the source:   *)
(* <<k, 0>> class k, <<k, j>> its member j, <<0, i>> function i, <<0, -1>> *)
(* and <<0, -2>> printf and NewRegion, << >> none.                         *)
(***************************************************************************)

IsMethod(decl) == decl # << >> /\ decl[1] > 0 /\ decl[2] > 0

\* What a name means globally, where so many classes and functions are known.
Globally(name, c, f) ==
  LET function == Latest({i \in 1 .. f : functions[i].name = name})
      class    == Latest({k \in 1 .. c : classes[k].name = name})
  IN IF function # 0 THEN <<0, function>>
     ELSE IF class # 0 THEN <<class, 0>>
     ELSE IF name \in {"printf", "NewRegion"} THEN <<0, IF name = "printf" THEN -1 ELSE -2>>
     ELSE << >>

ClassNamed(name, c) == Latest({k \in 1 .. c : classes[k].name = name})

\* How many classes are complete where the code of a declaration is.
KnownClasses(decl) == IF decl[1] = 0 THEN Len(classes) ELSE decl[1] - 1

Lineage[k \in 0 .. Len(classes)] == IF k = 0 THEN << >> ELSE <<k>> \o Lineage[ClassNamed(classes[k].super, k - 1)]

\* The member of a name that class k has itself; of the methods only those before
\* u count, or all if u is 0.
OwnMember(name, k, u) ==
  LET members == classes[k].members
      fields  == {j \in Places(members, "field") : members[j].name = name}
      methods == {j \in Places(members, "fn") : members[j].name = name /\ (u > 0 => j < u)}
  IN IF fields # {} THEN <<k, Latest(fields)>> ELSE IF methods # {} THEN <<k, Latest(methods)>> ELSE << >>

\* The same for the class at place d of what class k inherits from.
MemberAt(name, k, u, d) == OwnMember(name, Lineage[k][d], IF d = 1 THEN u ELSE 0)

Owners(name, k, u) == {d \in DOMAIN Lineage[k] : MemberAt(name, k, u, d) # << >>}

\* What a name means as a member of class k, of whose methods those before u
\* are known, or all if u is 0.
AsMember(name, k, u) ==
  LET owners == Owners(name, k, u) IN
  IF owners = {} THEN << >> ELSE MemberAt(name, k, u, Least(owners))

\* What a name means in the body of a function or method.
Meaning(name, site) ==
  LET member == IF IsMethod(site) THEN AsMember(name, site[1], site[2]) ELSE << >> IN
  IF member # << >> THEN member
  ELSE Globally(name, KnownClasses(site), IF IsMethod(site) THEN 0 ELSE site[2] - 1)

Written(decl) == IF decl[1] = 0 THEN functions[decl[2]] ELSE classes[decl[1]].members[decl[2]]

IsField(decl) == IsMethod(decl) /\ Written(decl).kind = "field"

\* A field that holds a function stands for it.
Target(decl) ==
  IF IsField(decl) /\ Written(decl).op = "name" THEN Globally(Written(decl).arg, KnownClasses(decl), 0)
  ELSE decl

\* The types that a class of their name does not hide.
BuiltIn == DOMAIN IntTypes \cup {"void"}

\* The class that a call returns an instance of, or 0.
ResultClass(decl) ==
  IF decl = << >> \/ decl[2] < 0 THEN 0 ELSE IF decl[2] = 0 THEN decl[1]
  ELSE LET ret == Written(decl).ret IN IF ret \in BuiltIn THEN 0 ELSE ClassNamed(ret, KnownClasses(decl))

Calling == <<0, 0>>

\* What node i of a body refers to, given what those before it do; Calling for a
\* call.
Reference(site, decl, i) ==
  LET node == Written(site).nodes[i] IN
  CASE node.kind = "name"  -> Meaning(node.name, site)
    [] node.kind = "call"  -> Calling
    [] node.kind = "child" -> AsMember(node.name, ResultClass(Target(decl[i - 2])), 0)

\* What each node refers to.
Mentioned(site) ==
  LET decl[i \in DOMAIN Written(site).nodes] == Reference(site, decl, i) IN decl

\* The stores of the initialiser of class k, in order.
InitCode(k) == module[classTypes[k].init].code

StoresOf(k) == {i \in DOMAIN InitCode(k) : InitCode(k)[i].op = "store"}

\* The field whose initialiser is stored last at the end of a path.
StoredAt(class, path) ==
  LET k == Chain[class][Len(path)]
      i == Latest({n \in StoresOf(k) : InitCode(k)[n].index = path[Len(path)]})
  IN IF i = 0 THEN << >> ELSE <<k, InitCode(k)[i].field>>

Refers(item) ==
  CASE item.op = "fn"      -> module[item.fn].decl
    [] item.op = "field"   -> StoredAt(item.class, item.path)
    [] item.op = "call"    -> Calling
    [] item.op = "nothing" -> << >>

\* Functions and methods, and not what is generated for a class.
Bodies == {id \in DOMAIN module : module[id].decl[2] > 0}

\* Every name in a body stands for what the scoping of the language says: the
\* members of the class and of those it inherits from, the nearest first and a
\* field before a method, of the own methods the earlier ones; then the last
\* function, then the last class of that name in front of it - although the
\* maps are filled while code is generated, a later entry replaces an earlier
\* one, and fields are found by an index that two loops count.
NamesResolved ==
  outcome = "generated" => \A id \in Bodies :
    LET decl == module[id].decl IN
    [i \in DOMAIN module[id].code |-> Refers(module[id].code[i])] = Mentioned(decl)

Callable(decl) == decl # << >> /\ (IsField(decl) => Written(decl).op = "name")

\* The child of what a call returns; a bare name calls a function or a
\* constructor, never a method of the class.
NodeAccepted(nodes, decl, i) ==
  CASE nodes[i].kind = "name"  -> decl[i] # << >>
    [] nodes[i].kind = "child" -> ResultClass(Target(decl[i - 2])) # 0
    [] nodes[i].kind = "call"  ->
         /\ Callable(decl[i - 1])
         /\ nodes[i - 1].kind = "name" /\ IsMethod(decl[i - 1]) => IsField(decl[i - 1])

BodyAccepted(site) ==
  LET node == Written(site) IN
  /\ node.ret \in BuiltIn \/ ClassNamed(node.ret, KnownClasses(site)) # 0
  /\ LET decl == Mentioned(site) IN \A i \in DOMAIN node.nodes : NodeAccepted(node.nodes, decl, i)

\* Of a field that is declared with a type and with a value the value alone
\* counts: the two are never compared, so "var s : i32 = "text"" is accepted.
FieldAccepted(decl) ==
  LET field == Written(decl)
      named == Globally(field.arg, KnownClasses(decl), 0)
  IN /\ field.type \in BuiltIn \cup {None}
     /\ CASE field.op = "none" -> field.type \in DOMAIN IntTypes
          [] field.op = "fill" -> FALSE
          [] field.op = "name" -> named # << >>
          [] field.op = "call" -> named # << >> /\ named[1] = 0
          [] OTHER             -> TRUE

Accepted ==
  /\ \A k \in DOMAIN classes :
       /\ classes[k].super # None => ClassNamed(classes[k].super, k - 1) # 0
       /\ \A j \in DOMAIN classes[k].members :
            IF IsField(<<k, j>>) THEN FieldAccepted(<<k, j>>) ELSE BodyAccepted(<<k, j>>)
  /\ \A i \in DOMAIN functions : BodyAccepted(<<0, i>>)

\* What is compiled follows from the order of the source alone: whatever a
\* declaration mentions stands in front of it, a class in front of all
\* functions; a field has no instance for its value and no class for its type;
\* a method is called on the result of a call.  So no declaration is compiled
\* differently, or not at all, because of one that comes later.  It does not say
\* that what is accepted is well typed: see FieldAccepted.
CompiledByOrder ==
  /\ outcome = "generated" => Accepted
  /\ outcome \in {"aborted", "rejected"} => ~Accepted

\* The complete classes.
CompleteClasses == {k \in DOMAIN classTypes : k < Class \/ local = Absent}

MemberNames == UNION {{m.name : m \in {classes[k].members[j] : j \in DOMAIN classes[k].members}} : k \in DOMAIN classes}

Child(k, name) == getChild(Pointer(ClassType(k, ""), [op |-> "this"]), name)

\* On the way to the field each initialiser is given the instance.
Passed(k, path) ==
  \A d \in 1 .. Len(path) - 1 :
    \A i \in DOMAIN module[classTypes[Chain[k][d]].init].code :
      LET item == module[classTypes[Chain[k][d]].init].code[i] IN item.op = "init" => item.passed

\* A field that a name leads to, also through super classes, holds the value of
\* the last declaration of that name: the stores fill the slots of the class one
\* by one, each with a value as wide as its slot, and none is in the part of the
\* super class, which has an initialiser of its own: see InheritedInitialised.
FieldsInitialised ==
  \A k \in CompleteClasses :
    /\ {InitCode(k)[i].index : i \in StoresOf(k)} = Offset(classTypes[k]) .. Len(classTypes[k].slots) - 1
    /\ \A i \in StoresOf(k) : LET store == InitCode(k)[i] IN
         /\ store.value.width = classTypes[k].slots[store.index + 1]
         /\ \A j \in StoresOf(k) : InitCode(k)[j].index = store.index => j = i
    /\ \A name \in MemberNames : LET decl == AsMember(name, k, 0) IN
         decl # << >> /\ IsField(decl) => StoredAt(k, Child(k, name).code.path) = decl

\* "simple inheritance": the fields that a class inherits are initialised in its
\* objects like those of its own, for the initialiser of a class passes the
\* instance on to that of the super class.
InheritedInitialised ==
  \A k \in CompleteClasses : \A name \in MemberNames : LET decl == AsMember(name, k, 0) IN
    decl # << >> /\ IsField(decl) => Passed(k, Child(k, name).code.path)

\* An integer field has the width that its type is stored with, except for the
\* result of a comparison and the one of printf.
MistypedByComparison ==
  \A k \in CompleteClasses : \A i \in StoresOf(k) :
    LET value == InitCode(k)[i].value
        op    == classes[k].members[InitCode(k)[i].field].op
    IN value.type.kind = "int" =>
         (value.width = StoreWidth(value.type.bits) <=> op \notin Comparisons \cup {"call"})

\* A region that a function passes on or allocates in is the one it was given.
\* The context of the program has one as well: that of the constructor that was
\* generated last.
HandlesOwn ==
  \A id \in DOMAIN module : \A i \in DOMAIN module[id].code :
    LET item == module[id].code[i] IN
    item.op \in {"alloc", "init", "call"} => item.handle \in {id, IF item.op = "call" THEN 0 ELSE id}
=============================================================================
