# Verification of elism

elism is a small language with classes, arrays, functions and *safe regions*: every object is
allocated in a region, types carry the name of the region an object lives in, and leaving an
`on` scope deletes the scope's region at once. `elism` (C++, LLVM) compiles a program in one
pass over its syntax tree and runs it, or writes an object file; a C library of three functions
manages regions at run time. The models here are about what is hard in that design: the run-time
tables, the checks a call undergoes, and whether the two together keep references from dangling.

Paths below are relative to the repository; the compiler is under `src/`.

## Inventory

| Component | State | Operations | Hard behaviour | What makes it correct |
|---|---|---|---|---|
| Region library `src/rtlib/regions.c` | per region: size, capacity, table of blocks | `NewRegion`, `RegionAlloc`, `DeleteRegion` | growth at the limit, failing `malloc`/`realloc`, uninitialised slots | stores in bounds, each block freed once, none lost |
| Types `src/codegen`, `ClassNode.cpp`, `src/ast/types` | immutable: base, regions per level | `equals`, `withRemapRegions`, `withRegions` | comparison through a map that may lack a region | equality means the same base and the same regions |
| Calls `FunctionType.cpp`, `ClassNode.cpp` | map of the call's regions, its inverse | `doCall` of functions and methods | a region named twice, arguments against parameters, the handle, the receiver | accepted calls are substitution instances, correct ones are accepted |
| Contexts `CodegenContext.cpp`, `FunctionNode.cpp` | chain of contexts: values, variables, types, current region and its name | `getValue`, `addValue`, `addVariable`, `getRegionHandle`, `createAlloc`, `doStore` | lookup through parents, names that hide names | a name means its innermost declaration, a region name its region |
| Region scopes `OnStatementNode.cpp` | context of the scope, the region | entry, exit | deletion at every exit, names reused | regions are deleted once, in scope order |
| Statements `src/ast/statements` | none of their own | `let`, `var`, assignment, `return`, blocks, `if`, `while`, `for` | a context per body or none, returns inside bodies | stores respect regions |
| Expressions `src/ast/expressions` | none of their own | literals, arrays, names, members, calls, arithmetic | array literals typed by one element | the static type is true of the value |
| Classes `ClassNode.cpp` | members, methods, super class | constructor, initialiser, `getChild` | members found through super classes, initialisers in another context | a member keeps its region |
| Integers `IntType.cpp`, `src/ast/expressions` | none | constants, `BinaryOperationExprNode` | overflow, division by zero, the type of a comparison | the type is as wide as the value |
| Program order `Program.cpp` | global names and types, the LLVM module | classes, then functions | names known only after their code, the last of a name, names the module changes | a name means what the source order says |
| Driver `main_jit.cpp` | the module, the region of `main` | compile, run, emit object | region of `main` around the call, which `main` it is | the region is given back, `main` is run |
| Lexer, parser `lexer.re`, `parser.yy` | one token value, parser stack | `lex`, `Parse` | stale token values, unknown characters | the tree is the program |
| Printer `StatementNode.h`, `main_parser.cpp` | start of line, indent | `print`, `beginBlock`, `endBlock` | an indent that is set by blocks only | what is read is printed |
| Standard library `stdlib.bp` | none | `Range`, its iterator | | |

The components interact by calls only: the parser builds a tree, `codegen` of each node calls the
contexts, types and the LLVM builder, and the generated code calls the region library with the
handles that `getRegionHandle` and `NewRegion` gave it. Everything is sequential. The only shared
state is the chain of contexts during compilation and the regions during a run. `PROJECT.json`
lists the hazards of each part at their lines, with the properties that are about them.

## Modules

| Module | Models | Kind |
|---|---|---|
| `RegionStore` | what `regions.h` promises | abstract specification |
| `Regions` | `regions.c` | state machine, implements `RegionStore` |
| `RegionsProofs` | | theorems about `Regions` |
| `RegionTypes` | types, `equals`, `withRemapRegions`, region maps, a whole call in one step | operators |
| `CallCheck` | `doCall`, check by check | state machine over all calls |
| `RegionTypesProofs` | | lemmas about `equals`, the region maps and `withRemapRegions` |
| `CallCheckProofs` | | theorems about `CallCheck` |
| `Elism` | contexts, statements, calls, scopes, the driver | state machine, uses `RegionTypes`, an instance of `RegionStore` |
| `ElismProofs` | | theorems about `Elism`, for all programs |
| `ElismSoundness` | | theorems about `Elism`, for disciplined programs |
| `ElismTerminating` | `Elism` with finitely many statements | liveness |
| `ControlFlow` | basic blocks, branches, contexts and names of a function body | state machine, one action per `codegen` |
| `ControlFlowProofs` | | a theorem about `ControlFlow`, for all bodies |
| `Lockstep` | the generated blocks, run beside the statements | state machine that compares the two |
| `Program` | the two lists of declarations of `Program.h` | state, operators |
| `IntExpr` | integer types, constants, operators | operators |
| `Reader` | `lex` and the loops that call the parser, file after file | state machine, one action per kind of lexeme |
| `Declarations` | `Program::codegen`, `ClassNode`, `FunctionNode`, names, members | state machine, one action per step of `codegen` |
| `Printing` | `print` of the declarations, the `Printer` | state machine, one action per declaration |
| `Compiler` | the two programs, `main_jit.cpp` and `main_parser.cpp` | composition of `Reader`, `Declarations` and `Printing` |
| `CompilerProofs` | | theorems about printing, the regions of generated code and the `main` that is run; what codegen knows while it works, and that the bodies keep it |
| `DeclarationsProofs` | | that classes and the whole process keep it; theorems about names, order, layout and types; what is read of the files |
| `MC...` | constants and small universes for TLC | |

Definitions named `Operation_slip` above an `Operation` are plausible mistakes in that piece of
code. The specifications do not use them; each is used to see that a property notices the mistake.

### Regions and RegionStore

`region[h]` is the struct at address `h`, with C's `heapAllocatedStuff[i]` as `table[i + 1]`.
Table memory that nothing was stored in holds `Uninit`; a table whose `malloc` failed has no slots.
Every `malloc` and `realloc` may fail: a failed struct or a failed `realloc` stops the process
(null store, assert), a failed block is recorded as `NULL` and later freed as such. A store outside
the table is the outcome `overrun`, which `SlotsInBounds` excludes. Clients are assumed to pass
handles of existing regions; `UsesLibrary` of `Elism` is that assumption, checked there.

`RegionStore` forgets the tables: a region is a set of blocks. An allocation there may take
several blocks because one array allocates two and an instance with a field several.

### RegionTypes and CallCheck

A type is its base and the regions after it, innermost first: `A @R [] @S` is
`[base |-> A, regions |-> <<R, S>>]`. The recursion of `equals` over element types is a comparison
of levels from the outermost; the first level that differs decides, as in the code. The result is
`"equal"`, `"different"`, or `"undefined"` where the code reads a map entry through `end()`
(`ArrayType.cpp:62-64`, `ClassNode.cpp:275-277`: an argument of a region that the call does not name); what
a process does after that has no meaning, so the models stop there with that verdict, and nothing is claimed of it.
A result type with a region that is missing is `"undefined"` if it is that of an array and aborts if it is that of a class
(`ResultVerdict`: `ArrayType.cpp:80`, `ClassNode.cpp:317`).

`CallCheck` starts with any declaration and call site of a small universe and takes the checks in
the order of the code: handle, count of regions, each argument, type of the result and, for a
method, the region of the receiver. The reference is substitution (`Instantiated`, `Substituted`): parameter types
with each declared region replaced by the one the call puts in its place (`InPlaceOf`). `OneStep` ties the state
machine to `CallVerdict` and `ResultType`, which `Elism` uses as the judgement of a call.

### Elism

A one-pass compiler decides statement by statement, without regard to values, so the model
compiles and runs each path of a program in step. `stack` is the chain of contexts with the frames
of callers below; of each context it has the kind, `region`, `defaultRegion`, `values` and
`variables`. `binds` is not the compiler's: it records which region a name means in the scope that
introduced it, and only properties and `Denotes` use it. `obj` and `live` are the memory of
the run. A reference is a static type and an address.

An `if` has no context of its own (`IfStatementNode.cpp:38-46`): both branches declare their names in the context around
it. A branch that is taken is the sequence of its statements; of one that is not taken, what remains are the names it has
declared, with their static types (`DeclareSkipped`). Their memory, a stack slot of the function's entry block
(`FunctionNode.cpp:70-75`) or a register, has not been written in this execution: the name is bound to `Unset`, and whoever reads it gets any
address (`Reads`), as the slot may hold the reference of an earlier round of a loop. In

    while (i < 2) { on T = NewRegion() { if (i == 0) { var y = A(); } y.x; } i = i + 1; }

`y` is such a name in the second round, and refers to an object of the region that the first has deleted. The compiler takes the program.

Statements are in a normal form: an expression is a name, an element, a field, an allocation or a
call, and is declared with `let` or `var`. A call opens the callee's frame at once; every body of
the callee is a path of the model. `outcome` becomes `rejected` where the compiler
exits with a message, `aborted` where it asserts, throws or stores through a null address, and
`undefined` after the read through `end()`. A deleted address can be allocated again, as by `malloc`.
Memory that is gone is not followed.

`Features` names what programs may do beyond a disciplined use of regions; the compiler accepts
all of it:

| Feature | Programs may |
|---|---|
| `shadow` | open an on-scope with the name of a visible region |
| `mixed` | write array literals with elements of different regions |
| `result` | return a value of another region than the declared one |
| `fields` | have classes with an array field |
| `lets` | assign to the name of a let or of a parameter |
| `leaks` | use a name that only a branch of an `if` which has not been taken declares |

A value carries the address it was loaded from, as `CodegenValue` does (`storeAddress`), and a let
keeps it: `let x = y;` with a variable `y` makes `x = z;` an assignment to `y`. Without `lets` no
program uses such an address and the model forgets it. Without `leaks` the names of branches not taken are bound all the same, and
hide what they hide, but no statement mentions them; their static type is then of no consequence and one stands for all. With `leaks`
it is any that an expression could have there (`SkippedTypes`).

### ControlFlow and Lockstep

Every `codegen` of a compound statement calls the `codegen` of its parts in between its own steps.
`todo` holds what is left to do after such a call: statements, a branch to emit (`Goto`), a block to
put into the function and to insert at (`Place`), a child context to end (`Leave`). `blocks` are
the basic blocks in the order of `BasicBlock::Create`, `placed` those that are in the function,
`at` is the insertion point of the builder, and a register or an alloca is the position of its
instruction. Conditions and initial values are calls with any result. A `return` in a context
other than the function's is the assert of `codegenReturn`, an unknown name that of `NameExprNode`.

`Lockstep` generates a body, and then runs its blocks beside its statements. The reference says what
a statement means: loops test before each turn, their bodies and that of `on` are scopes, a name is
its latest declaration in the innermost scope that has one, `[v; n]` stores `n` elements. Each side
goes on alone until it calls, uses a name, tests or returns; these happen jointly, with one result for both,
and if the two are not about to do the same the outcome is `different`. A read of a register or
a stack slot that nothing was written to is `undefined`.

### Program, Reader, Declarations, Printing and Compiler

`Compiler` is a process from its files to its end. `Reader` consumes lexemes: tokens that stand together in
every program are one lexeme, and numbers are their own, because their value goes through the one `yylval` of a
file: `IntValue` is what the four rules of `lexer.re` leave in it. `Program` says what the parser builds (`ClassNodes`,
`FunctionNodes`), `Grammatical` which sequences of lexemes it takes. A declaration is put together in `partial` and
added to `classes` or `functions` with its last brace; token 0 ends a file, whether it is its end or an
unknown character.

`Declarations` then generates them as `Program::codegen` does. `classTypes[k]` is the `ClassType`: the
`children` with their index, `functions`, the super class and, as `slots`, the widths of the LLVM struct.
`local` is the `ClassTypeContext` of the class in work, `global` the `CodegenContext`. `module` is the LLVM
module: a function has the name that LLVM left it, the declaration it was made for (`decl`, which only
properties use) and its code as a sequence of items, one for each instruction that the properties tell apart; a store
knows the member whose value it stores (`field`, also for properties only). `Null` is the null pointer that a lookup without result
returns, `Absent` no class or function in work.
`BeginClass`, `GenField`, `LayOut` and `EndClass` are `ClassNode::codegen` cut at its loops; `BeginFunction` and
`EndFunction`, `BeginMethod` and `EndMethod` are the two codegens of `FunctionNode` before and after the
statements, which `GenName`, `GenChild` and `GenCall` generate node by node (`body` is the function in
work). Bodies are expression statements: a name, a call without
arguments, a member of its result, and a call of that; all regions are the default ones. Fields have every
kind of initialiser that parses to a distinct node. LLVM is taken as it is in a release build, without its own
assertions; those of the compiler are on (`outcome` `aborted`). `Wrap` makes a value of so many bits, as the
build does where the standard leaves overflow undefined.

The module's properties say what a name means from the source alone (`Meaning`, `AsMember`, `Globally`):
declarations are named by their place in the source, and `Refers` finds the declaration that an item of the
code belongs to.

`Printing` keeps whether the Printer is at the start of a line and whether its indent was set. `Compiler`
adds what lies between: nothing is generated or printed before everything is read (`AllRead`); `runProgram` and
`makeObject` take the `main` that the module finds by its name.

## Runs

| Run | Expectation | Question |
|---|---|---|
| `regions` | pass | are the tables safe and an implementation of `RegionStore`, under every failure? |
| `calls` | pass | does `doCall` accept only, and for functions all, that substitution allows? |
| `elism_safe` | pass | in disciplined programs, can a reference dangle or a static region be false? |
| `elism_terminating` | pass | does a terminating program give everything back, and what still holds of the regions when references dangle? |
| `compile` | pass | is the program what the files say, each name what its place says, each object laid out and initialised accordingly? |
| `lockstep` | pass | are the basic blocks well formed, and do they do what the statements say? |
| `calls_methods` | violation | is a correct call of a method with parameters accepted? |
| `compile_inherited` | violation | are inherited fields initialised in the object? |
| `elism_shadow` | violation | dangling through a reused region name |
| `elism_mixed` | violation | dangling through an array literal of two regions |
| `elism_result` | violation | a false static region through an unchecked return |
| `elism_fields` | violation | dangling through an array field |

**Bounds.** `regions`: two regions and three blocks; capacity 1 and factor 2 stand for 64 and 4, so
that a table grows twice and regions compete for blocks; `IntMax` 4 ends a region's life before
its `int` would overflow. `calls`: regions `P` and `Q` at the caller and one or two at the callee,
so that a call can name a region twice, exchange two, or leave one out; types up to arrays of
instances, which have two levels; argument lists one short, exact and one over. `elism_*`: two
names, one for `let` and one for `var`; `main` and on-scopes that are all called `T` (with `shadow` they
hide each other, without it they follow each other); functions that wrap an argument in an
array of another region, store one argument in the other, and hand one of two back; three region
handles and as many as four objects, so that scopes can nest or be followed by another and addresses
be used again; `MaxDepth` contexts (3: a body or a call inside a scope of `main`), `MaxElements`
elements per array. The features are given to the runs that they matter to: `elism_safe` has `lets`,
`elism_terminating` `shadow`, `result` and `leaks`, and a violation run the one it is
named after. Arrays of arrays are left out. Addresses are symmetric; the liveness
run uses no symmetry. `elism_terminating` has four statements, enough to open two scopes of one name and allocate
in both, or to skip a declaration, call, and return what was read; its function has one parameter, and two objects are enough, as
memory that is gone is not followed. A let of a branch not taken, which is a register without a value, is not stored through. `lockstep` takes 1104 bodies: a declaration, a
compound statement with one or two statements or another compound statement in it, and a use or a return
behind; one name that is declared, assigned, hidden and used everywhere, and another for loops. 528 of
them are `Scoped` and have their returns where they belong, and are run for all results of calls
(two values) and of tests; loops need no bound, since a turn leads back to a state that was seen.
`compile` reads a library of one class with a field and a method, and one function; then a file of one of
three families: a class that inherits from that of the library or has its name or names itself as super class or not, with up to two
of 24 members (all kinds of initialisers, types that exist, do not exist or have no literal, methods that use the field, the class, the library, each other);
a class and two functions that call each other, the library or themselves, or share their names, or only one method, which may be
called `main`; a class with the name of a built-in type; and three texts
with an unknown character or a comment, ended or not, at every place. Chains of two classes show what longer
ones do, since `getChild` goes one class up at a time; two declarations are enough to be in the wrong order, to
hide each other, or to be named twice. `IntBits` 4 for 32 and `Bits` 5 for 64 leave numbers that fit neither, one or both.
The run has no loops: every process ends.

**Fairness.** Only `elism_terminating` assumes any: weak fairness of the whole next-state relation,
that is, a process that can take a step takes one. The code is sequential and waits for nothing.
That a program has finitely many statements to run is an assumption about programs
(`MaxStatements`), since the language has unbounded loops.

## What the runs show

* `regions`: stores stay inside the tables, deletion frees exactly the recorded blocks once each,
  no block is lost.
* `calls`: what is accepted is sound, for any regions named twice or exchanged: a region
  overwritten in the map makes the call fail, never succeed wrongly. `FunctionsCallable` says the converse for
  functions; for methods it holds without parameters only.
* `elism_safe`: the comparison of types at stores and calls is enough to keep references from
  dangling, stores through the name of a let included, as long as a region name means one region wherever it is visible, return values
  have their declared types, and no name is used that only a branch not taken declares. The last is a condition on programs that the
  compiler does not check: with `leaks`, `NoDangling` fails at once, as in the program above. It is no finding, since
  `doc/assignment_checklist.md:75` lists as not done that names of inner scopes do not reach the outer one. The
  loop variable of a `for` leaks in the same way (`ForStatementNode.cpp:39`), `Elism` has no `for`. `ElismSoundness` proves the same for any number of scopes, calls and objects.
* `elism_terminating`: even in programs whose references dangle or were never written, contexts allocate in existing regions, regions are
  those of `main` and the open scopes, and each is deleted once.
* `lockstep`: codegen makes a well-formed function of a body exactly if it returns with its last statement and
  nowhere else (`MalformedByReturns`). A `return` in a branch of an `if`, which the grammar
  allows, leaves a block with two terminators. `OnlyReturnsMalform` says the same of the blocks instead of the
  statements, and that no block is forgotten; `ControlFlowProofs` proves it for all bodies. Well-formed functions do what the statements say (`SameBehaviour`) for
  bodies that use a name declared in a branch of an `if` or in the head of a `for` only there, and do not
  declare a `let` over a `var` in the same context (`Scoped`). For others they may not: such a name stays
  in the enclosing context, and a use behind it reads a register of a branch that was not taken;
  `doc/assignment_checklist.md:75` lists the separation of inner scopes as not done.
* `compile`: a program is compiled exactly if everything it mentions stands in front of it, the classes
  counting as in front of the functions (`CompiledByOrder`); there is no recursion, and a method cannot be called by its
  bare name. What a name means follows from the source alone (`NamesResolved`). Files are read completely or up to an unknown
  character (`ReadsFiles`). With these, the properties state precisely where the code departs from what one would expect: binary and
  hexadecimal numbers have the value of the number before them (`LiteralsExact`); a declared type of a field only has to exist and is never compared with the value (`FieldAccepted`), although
  `doc/assignment_checklist.md:26` ticks off that it is, and `examples/04-classes.bp:7` relies on it not being;
  a comparison kept in a field is one bit wide and typed `i64` (`MistypedByComparison`); the `main` that is run is the one that the source means exactly
  if one function and no method has that name (`RunsMain`): with a method called `main`, or with two functions of that name, another than the last is run; and printing reads an uninitialised pointer after
  a class (`PrintsByShape`). The stores of an initialiser are right (`FieldsInitialised`), but see `compile_inherited`. No region of one function is used in another although the
  context's is overwritten by each constructor (`HandlesOwn`).
* `compile_inherited`: the initialiser of a class calls that of its super class without the instance (`ClassNode.cpp:71`), so that
  what `examples/04-classes.bp.expect.out` expects of inherited fields depends on what is left in a register.
* The violations are disagreements of code and documentation, described under `findings` of
  `PROJECT.json`.

## Proofs

`RegionsProofs` proves, for all sets of addresses, every first capacity and growth factor above
one, and every `IntMax`:

| Theorem | Statement |
|---|---|
| `Invariance` | `Spec => []IInv` |
| `TypeCorrect`, `BoundsSafe`, `FreesSafe`, `FreesDistinct`, `LeakFree` | the safety invariants of run `regions` |
| `Refinement` | `Spec => ImplementsStore` |

The assumptions are those of `Regions`: positive capacity and a factor of at least two
(`CapacityAssumption`), and that null, uninitialised memory and addresses can be told apart
(`AddressAssumption`). The inductive invariant is the conjunction of the safety invariants, the
types and `Positive`. None is inductive alone: that a free is valid needs that a block is recorded
once (or deleting one region would leave a dangling slot in another), that a store is in bounds
needs that capacity is positive (or multiplying it makes no room, `GrowthMakesRoom`), and that
nothing leaks needs that growing keeps the recorded slots. `GrownProperties` and
`RecordedProperties` say what the two halves of `RegionAlloc` do to a struct; one `...Effect` lemma
per action translates it to the derived state (`Live`, `Owned`), one `...Inv` lemma shows that
the action keeps the invariant, and `NextRefines` maps each action to one of `RegionStore` or a
stutter.

`CallCheckProofs` proves, for every set of declarations, calls, regions and types:

| Theorem | Statement |
|---|---|
| `AcceptedArguments`, `AcceptedResult`, `AcceptedHandles` | what is accepted is sound: `ArgumentsSound`, `ResultSound`, `HandleSound` |
| `CorrectCalls` | what is correct is accepted: `FunctionsCallable` |
| `OneStepCorrect` | `OneStep`: the loop and the one-step judgement agree |
| `TypeCorrect` | `TypeOK` |

They rest on two assumptions. A declaration names its regions apart (`DeclarationAssumption`); the
compiler does not check it, and without it the map sends two regions of the call to one of the
declaration and arguments of both pass for one region. A call names at least one region
(`CallSiteAssumption`); `CallExprNode` puts the current one where a program names none. The
argument has two halves. Lemmas about the operators, in `RegionTypesProofs`: `RemapPlaces` and `InvertPlaces` say that the
map and its inverse pair places of the call with places of the declaration, though the map keeps
only the last of the places that share a region; `EqualMeans` turns the first-difference search of
`equals` into equality level by level; `EqualIsSubstituted`, `ResultIsSubstituted` and
`SubstitutedIsEqual` relate both to substitution; `EqualIsClosed`, `RemappableIsClosed` and
`AssignableIsSame` say what a successful comparison tells of the regions. The inductive invariant says what
each check has established when the next one is made: `Handled`, `Mapped`, `Compared`,
`AllCompared`, `Resulted`, `Instanced`; the properties about the end of a call are not inductive,
because they say nothing of the arguments already compared.

`ElismProofs` proves, for every program and every set of `Features`, thus also for those whose references dangle:

| Theorem | Statement |
|---|---|
| `TypesCorrect` | `Spec => []TypeOK` |
| `RegionsStayLive`, `RegionsHaveOwners` | the regions of a run: `HandlesLive`, `RegionsOwned` |
| `LibraryUsed` | `Spec => UsesLibrary`: every step is one that `RegionStore` allows, or none of its |

`ElismSoundness` proves, for programs of which `Features` allows `lets` at most (`Disciplined`), `DisciplinedNeverDangles`, that is
`Spec => []NoDangling`, and `DisciplinedWellTyped`, `Spec => []WellTyped`. Contexts, calls, scopes, elements and objects are any
number in all of them. Without `Disciplined` both are false, feature by feature, except for `lets`: the four
`elism_...` runs that expect a violation show it of four, and `elism_shadow` with `Features` `{"leaks"}` of the fifth.
Names of branches not taken are bound in disciplined programs, too, and may hide others: `SoundNames` says nothing of
them, and `ReadsSound` that nothing is lost, as what a disciplined program reads was written. The assumptions are those of `Elism`:

* `SignatureAssumption`: a function has at least one region (`FunctionNode` gives it a default one), as many parameters as there are names
  for, and names its regions apart. The last is what `DeclarationAssumption` is to `CallCheck`;
* `LanguageAssumption`: the names that programs use are names, of regions or variables, `A` is a class and `i64` a scalar;
* `SentinelAssumption`: no handle, unallocated memory and no call can be told apart from what there is;
* `BoundAssumption`: the bounds of TLC are numbers, any numbers.

None of the invariants is inductive as the runs check it. Three conjunctions are:

* `TypeInv` adds to `TypeOK` what the shape of the stack is: `main` at the bottom, functions above it with a call to return to, and an address of a
  let that is that of a variable in the let's own frame or of a part of an object.
* `Owned` ties regions to contexts. `HandlesLive` fails on its own when a scope is left, because a context below might have its region;
  `OwnedStack` says that no context under an on-scope has the scope's region, so leaving it deletes nothing that is used below.
  `OwnedObjects` adds that what is allocated lives in an existing region. `StepKind` classifies every action as one that makes a region, deletes one, allocates, or does nothing that the library sees, and `LibraryUsed` reads the refinement off it.
* `SoundInv` has five parts. `NoShadowing`: no region name is bound twice in a frame, so all contexts of a frame that know a name mean
  the same region by it (`DenotesUp`), and a type keeps its meaning when an inner context reads it. `Scoped`: what a name means exists, and
  on-scopes above the context have other regions, so the end of a scope deletes nothing that a name below denotes. `AtHome`: the region that a
  context allocates in is what the name that it puts into the type denotes; `getRegionHandle` and the default name could go apart.
  `SoundNames`: of every value and variable of every context the static regions are those of the object and of its elements, and what lies at a
  let's address is of the let's type, or a store through it would write a reference of the wrong region. `SoundResults`: the type a caller
  gave to the result of a call it waits for means in the caller what the declared one means in the function; the proof that `return` is sound has
  no other way to know it, as the caller's frame is not visible from the callee.

`NoDangling` and `WellTyped` need each other: when a scope ends, everything in its region goes, and only true types together with `Scoped` say
that no name below refers to it. The proof has one lemma per action. Calls use the lemmas of `RegionTypesProofs`: `ResultIsSubstituted` gives
`SoundResults`, and `EqualIsSubstituted` that the parameters are sound in the frame of the callee, whose regions mean what those of
the call mean.

`CompilerProofs` and `DeclarationsProofs` prove, for every library, all files and all widths of integers:

| Theorem | Statement |
|---|---|
| `PrintedByShape` | `PrintsByShape`: what the parser prints, and when it cannot |
| `HandlesStayOwn` | `HandlesOwn`: no function uses the region of another |
| `MainRun` | `RunsMain`: which `main` a process runs |
| `NamesFollowScoping` | `NamesResolved`: what each name in the code means |
| `OrderDecides` | `CompiledByOrder`: which programs are compiled |
| `FieldsAreStored` | `FieldsInitialised`: what the initialisers store where |
| `OnlyComparisonsMistype` | `MistypedByComparison`: where type and width part |
| `CompilerTypes` | `TypeOK` of `Compiler` |
| `FilesAreRead` | `ReadsFiles`: which declarations of the files the program is made of |
| `LiteralsAreExact` | `LiteralsExact`: what the value of a literal is |

Classes have any number of members and super classes, bodies any number of nodes. The assumptions are:

* `FilesAssumption`: a file has no syntax errors except that it may have unknown characters and end in the middle of a
  declaration. What the generated parser's recovery makes of others is not modelled;
* `BitsAssumption`: an `int` has at least two bits and an `i64` more;
* `NoneAssumption`: `None`, which stands for what was not written, is neither a number nor a name.

`PrintsByShape` is about the end of
a process, so the invariant `PrintInv` follows it from the first lexeme: the lists stay sequences while they are read, what
is printed is a beginning of `Declared`, and `PrinterState` ties the Printer to it - a line was begun if
something was printed, the indent is set if a function was. Next to a class either is too late.

`HandlesOwn` speaks of the module only; `HandlesInv` adds where its items come from: values that names lead to are
functions (`AreFunctions`), never calls that carry a handle of where they were made, the region of a class in work and the
function of a body in work are functions of the module, and the module is a sequence that only grows. So `global.region`, which each
constructor overwrites, need not be known. `EmittedModule` and `GrownModule` are the two ways to change the
module; `Emittable` and `Solid` say of each node that its item has the handle of the function it is emitted into.

`RunsMain` speaks of the end of a process, and compares the module, which finds the first function that got a name, with the source, where
the last one counts. `MainInv` follows the module from its four natives on. `Named`: the name belongs to a function or method that
is called so, to only one, and to none that was generated after another. `Sorted`: methods stand in front of the functions, the
functions as they are written, none left out; this needs `Phase`, that no function is generated before the last class is complete.
When as many functions are generated as there are, `MainFound` concludes: the first `main` of the module is the last of the source only if
it is the only one. What LLVM has renamed does not bear the name.

The next five say at the end, or of complete classes, what codegen's tables and the source have to do with each other. `GenInv` says it of every moment:
after so many classes, members and functions, each table is what the source says of the declarations so far. `TypesInv` and `ValuesInv`: a type or
value is found under a name exactly if one of these declarations has it, and it is the last one's. `MethodsInv` and `VariablesInv`: the same of the
class in work, whose methods are known one by one, its fields only in the order of the first pass. `LayoutInv`: the children of a class that is laid out lead to
its last field of their name, and the initialiser stores each variable once behind the part of the super class. `BodiesInv`: each item of a body that is
done refers to what `Mentioned` says; `BodyInv`: so does each one of the body in work, and its last value has the type of what it stands
for (`LastOK`), without which nothing could be said of the child of a call. `MembersAccepted` and `FunctionsAccepted`: everything that was generated
is acceptable. They need each other: that a name in a body means the right declaration needs the tables, that the tables are right needs that the value of a field
or a method is, which an earlier body or initialiser made.

On the way up the super classes the code recurses (`getChild`, `Chain`), the source as well (`Lineage`). `Upwards`, the induction principle
for sets, stands in for an induction over data: `LineExists` and `LineUnique` apply it to the set of lengths for which the
recursive function exists, `ChainIsLineage` to those for which the two agree; `MentionedIs` and `PowerIs` do the same for the other recursive
functions. `FieldFound` and `MethodFound` then say that `getChild` finds what `AsMember` says.
Per action there is one lemma (`BeginClassKeeps`, `GenFieldKeeps`, `LayOutKeeps`, `BeginMethodKeeps`, ..., `NodeKeeps` for the three
kinds of expressions); the `...Frame` and `...Kept` lemmas say what a step that leaves a table alone, or only adds to the module, keeps.
`NodeRejected`, `ReturnRejected` and `FieldRejected` are the other half of `CompiledByOrder`: where codegen fails, the source is not acceptable.
`ProcessInv` adds what lies around: `ReadingInv`, that what is left of a file is grammatical behind the declaration in work, hence `ProgramOK`, that the lists are
lists of declarations; and at the end `GenOutcome`.

`FilesAreRead` and `LiteralsAreExact` compare what the parser has made, lexeme by lexeme, with the text as a whole. `ReadSoFar` says it of every moment.
`Going`: how far the process is, `p` lexemes into file `m` (`Reached`), all of them known (`Clean`). `yylval` is what the last decimal or octal number
of the file so far leaves there, or 0 (`Left`); a file begins with 0, since `LexStop` resets it. `Recorded`: each of the two lists has one node for each origin in the finished files and
for each declaration that is complete in this one. `PartialRead`: every other declaration so far is complete, and the one in work has the members and operands
of its text up to here (`MembersRead`, `OperandsRead`). The text is cut into lists by `InOrder` and `Flat`, whose recursive functions `Upwards` unfolds;
then a lexeme adds to such a list at its end or not at all. `ReadKept` has one case per action of `Reader`, and uses `ReadingInv` for the grammar.

`ResultClass` was wrong before it was to be proved: it took the class of a built-in type's name for the type, which codegen does not, since
it looks for built-in types first. `BuiltInFiles` of the run have such a class.

`ControlFlowProofs` proves `ReturnsMalform`, that is `GenSpec => []OnlyReturnsMalform`, for every set of bodies, of any length and
depth. `GenSpec` is the generation alone, with which each behaviour of `Lockstep` begins. The assumption is
that statements are put together of statements, as the parser does it (`SyntaxAssumption`). The property is about the end, and
says nothing of a body in work; `Flow` says what holds there. `Planned`: the blocks that exist and are not in the function are those
that `todo` is going to place, each once, and a placing is preceded by a branch (`Paired`) unless it is next to come. `Shaped`: all
blocks but the builder's have ended with their only branch if they are in the function, and are empty if not.
The builder's block is open, except when a placing is next: then it has just been closed. `PlannedThen` shows that a statement that
creates blocks and leaves things to do keeps the plan, `ShapedIfBranched` that its code keeps the shape; with these, an action
is a matter of its own few blocks (`LoopItems`, `IfElseItems`, `LoopBlocks`, ...). At the end `todo` is empty, thus all blocks are placed,
and only returns can make `Closed` false.

Only model-checked: the other properties of `Lockstep` (the statements, to which it compares the blocks, are
judged by recursive operators, with which the prover cannot work), and `EndsEmpty`, since liveness under fairness
is beyond the prover.

## Not modelled

* Values of integers and strings in bodies, and `printf`. Integers do not influence regions, so
  conditions are nondeterministic: a program path may take or skip any body.
* The grammar of statements and expressions, recovery from syntax errors (both belong to the parser generator), identifiers and strings character by
  character. The scanner's reading past a buffer that ends in a comment is the end of the model (`undefined`).
* The arguments of calls in `Declarations` (`CallCheck` and `Elism` are about them), and bodies with other statements there (`ControlFlow`, `Elism`).
* The region of the iterator of a `for`, and region values kept in variables (`on A = r`).
* What LLVM makes of a malformed function, or of a `main` that returns `i64` called by the `main` of an object that
  returns `i32`; JIT, object emission, options, files that cannot be opened.
* The printing of statements, and of what is in a class: the code prints `TODO`.
* The standard library, which is written in the language, the tests and the examples.
* Regions of more than 2^31 - 1 blocks (`SizeFits`): `size` would overflow.

## Plan

1. Region values: `on A = r` with a region kept in a variable, in `Elism`; then the regions of iterators.
