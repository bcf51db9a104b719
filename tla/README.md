# A verification of taskucc

taskucc is a C99 compiler in C: a preprocessor, a parser, a one-pass code
generator for four targets, and the beginnings of an assembler. It is
sequential: one process reads one translation unit and writes assembly. What
makes it hard is not concurrency but **bookkeeping at a distance**: the
compiler's idea of where a value is must agree with what the emitted code does
at run time, on every path; tables must answer for insertions long ago; a scope
opened by one production is consumed by another; the size of a frame is used
before it is known.

The models below run the compiler's bookkeeping and the code it emits side by
side and compare the result with what the C program says.

## The system

| Part | Source | State it keeps | Operations | Hard behaviour |
|---|---|---|---|---|
| Symbol tables | `dynhash.[ch]` | slots, fill count | new, get, insert | collisions, the last free slot, repeated keys, termination of probing |
| Slot stack, register allocator | `codegen.c` 638-801, 1670-2250 | stack of slots (register, scratch position, void), frame size | push, pop, swap, rot, dup, spill, flush, ensure, alloc | stealing a register that is in use; fixed registers of division, shift, calls |
| x86_64 back end | `target/x86_64-linux/` | none of its own | one function for each instruction | which registers an instruction destroys |
| Expression code generation | `codegen.c` 139-636, 803-1307 | the recursion, labels | `tacc_cg_compile_expr` and its helpers | a spill on one of two paths; order of operands |
| Stack frames | `codegen.c` 1616-1668, 2252-2307; `call_itf.c` and prologue of each target | used registers, frame size, places of variables | parameters, locals, scratch, finalise | alignment, register save areas, incoming stack arguments |
| Statement code generation | `codegen.c` 1312-1614 | break, continue and switch stacks, labels | `tacc_cg_compile_stmt` | which label a jump means; cases met before the switch decides |
| Names and scopes | `parse.c` registry, `compile.c` globals | scope stack, pending prototype scope, global objects | declare, look up, start and end scopes, coda | a scope that waits for its function body; tentative definitions |
| Expression and declaration parser | `parse.c`, `token_iter.c` | token iterator, registry | precedence climbing, declarators, declaration specifiers | inside-out declarators, typedef names against identifiers |
| Preprocessor | `tasku_pp.c`, `tasku_file.c` | macro table, two counters and a flag for the groups of each file, chain of included files, pending tokens and helper iterators | tokenise, define, undef, expand, include, conditionals | recursion of macros, one flag for each macro that helpers reset, undefinition, end of file inside a conditional |
| Types and layout | `type.c`, `compile.c` 299-772 | tags, struct objects | build, compare, lay out | incomplete types completed later, alignment |
| Initialisers | `codegen.c`, `compile.c`, `parse.c` | cursor into sub-objects | designate, step, store | braces left out, nested designators |
| Constant evaluation and arithmetic | `machine.c`, `soft_u64.c`, `soft_u128.c`, `soft_float.c` | none | operators on limbs of 32 bits, long doubles, constant expressions, enumerators | carries between limbs, shifts across them, sign of the smallest number, rounding |
| Other back ends | `target/{i686,aarch64,riscv64}-linux/`, `codegen.c` 1900-2060 | none of their own | as x86_64 | few and fixed registers, a number in two of them, what stands above a narrow value |
| Dynamic arrays and strings | `dynarray.[ch]`, `dynstring.[ch]` | buffer, length, capacity | push, pop, grow | alignment after reallocation |
| Driver, assembler, AST dump, number scanning | `tasku.c`, `taskuas.c`, `ast_dump.c`, `floatscan.c`, ... | | | |

How they interact. The driver runs preprocessor, parser and compiler one after
the other. The parser pulls tokens and owns the scopes; every identifier it
meets becomes an *ident* (a `name_ref`), the only link to the compiler, whose
tables of global objects and of local variables are hash tables keyed by it.
`tacc_cg_compile_function` gives the parameters places, compiles statements,
which compile expressions, which push and pop slots and call the back end; the
prologue is written when the body has told how large the frame is.

## Modules

| Module | Models | Composition |
|---|---|---|
| `FirstWinsMap` | what a symbol table promises: a bounded map in which the first insertion of a key wins | abstract specification |
| `DynHash` | `dynhash.[ch]`: a step for each probe | implements `FirstWinsMap` (`ImplementsMap`) |
| `Slots` | operators on a generator state: slots, registers, scratch memory, each stack operation and each integer instruction of x86_64 | used by the two below |
| `SlotStack` | any legal sequence of those operations, with a ghost in each slot: the value it is meant to hold | extends `Slots` |
| `ExprCodegen` | the expression compiler driving the same operators | extends `Slots` |
| `ExprMeaning` | what C says of the same expression, by recursion | extends `ExprCodegen`; `MCExprCodegen` compares the two (`CodeMeansExpr`) |
| `Frame` | parameters, locals, scratch positions and prologue of the four targets | |
| `StmtCompile` | what the compiler makes of the statements the parser returns: jumps, labels, the stacks of labels and switches | |
| `StmtCodegen` | how the parser splits statements, and how the code of `StmtCompile` runs beside the program | extends `StmtCompile` |
| `Directives` | the preprocessor's directives: conditional inclusion, `#define`, `#undef`, `#include`, `#error`, the end of a file; beside them C's stack of groups | |
| `PPTokens` | preprocessing tokens, macro definitions, gluing and making strings | used by the two below |
| `MacroExpansion` | the token iterators that replace macros | extends `PPTokens` |
| `MacroReference` | what C99 says of the same tokens, with hide sets | extends `PPTokens`; `MCMacroExpansion` compares the two (`OutputIsC`) |
| `SoftU64`, `SoftU128`, `SoftFloat` | the compiler's own integers of two and four limbs and its long doubles | each extends the one before |
| `CTypes` | integer types of the four targets: width, rank, promotion, common type | extends `SoftU64` |
| `ConstEval` | the evaluator of constant expressions | extends `CTypes` |
| `Arithmetic` | calculations with these, next to exact numbers | extends `ConstEval`, `SoftFloat` |
| `TargetState` | the generator as all targets share it, with types, register pairs and the bits of registers and memory | extends `CTypes` |
| `TargetX86_64`, `TargetI686`, `TargetRiscv64`, `TargetAarch64` | the integer instructions of each back end, with their widths | extend `TargetState`; instances of `TargetOps` |
| `TargetOps` | the typed operations of the expression compiler on a chosen back end | extends `TargetState`, dispatches to the four |
| `Names` | the parser's scopes and the compiler's global objects, one action for each declaration, use and end of a scope | |
| `MC...` | the small instances TLC checks, where these need definitions; `Directives` and `Names` are checked as they are | extend the above |
| `Slots_proofs` | lemmas on the operators of `Slots` | extends `Slots`; used by `SlotStack_proofs` and `ExprCodegen_proofs` |
| `DynHash_proofs`, `SlotStack_proofs`, `Names_proofs`, `Directives_proofs`, `MacroExpansion_proofs` | the theorems | each extends the module it is named after |
| `ExprCodegen_proofs` | the theorems about `ExprCodegen` and `ExprMeaning` | extends `ExprMeaning` |
| `Function_proofs` | the theorems about `Frame` and `StmtCompile` | extends both |

`PROJECT.json` gives, for every definition, the lines it stands for.

### How state and actions correspond

*DynHash.* `table` is the entries array, `fill` the count; `pc`, `key`, `elem`
and `i` are the call in progress: `GetBegin`/`InsertBegin` hash the key, `GetNext`/
`InsertNext` are one turn of the probing loop, `GetHit`, `GetMiss`,
`InsertPut`, `InsertFull` its exits. `first` is a ghost: the element inserted
first for each key. Strings and their hash are abstracted to keys and a
function `Hash` that is any function. Deletion does not exist in the code.

*Slots.* A generator state `c` holds both what the compiler believes (the places in
`stack`, the positions of `frame`) and what the emitted code has done (`regs`,
the contents of `frame`): every
operator changes the two together, as the code emits an instruction while it
updates the bookkeeping. `Fn` is the meaning of the machine's binary operators
and is any function. Registers destroyed by an instruction hold `Junk`.

*SlotStack.* Each slot carries a ghost, the value the source program gives it.
`ref` is the memory as the program means it and `meant` the operands of the
last call, both computed from the ghosts alone; `MemoryMeant` and
`ArgumentsMeant` compare them with what the emitted code stored and passed.

*ExprCodegen.* `todo` is the recursion of `tacc_cg_compile_expr` made
explicit; its steps are the calls that function makes. Branches of `&&` and
`||` are taken as the run-time values have it: code after a taken jump is
compiled (the bookkeeping moves) but not executed (memory and registers stay)
until the label is reached. `Operands` is the set of the expressions inside those compiled.
`Meaning` in `ExprMeaning` is a separate recursive evaluation of the expression that
knows nothing of slots. An expression that uses an indeterminate value or follows a wild pointer is
undefined, and of it nothing is claimed. `Alone` says of an expression where its `&&`
and `||` stand: nowhere but where the compiler has no other value pending. `Depth` is any number
that is smaller for operands; it says that expressions are finite.

*Frame.* `bytes` is `num_local_bytes`; `itf` the counters of the call
interface; `items` the objects placed so far. Offsets are relative to the frame
pointer as in the code, addresses to the stack pointer at entry.

*StmtCompile.* `todo` is the recursion of `tacc_cg_compile_stmt`: `Plan` says what
a statement is compiled to, item by item, and each item is a step that emits an
instruction or changes one of the three stacks. `Accepted` holds the assertions
that end the compiler at a `break`, `continue`, `case` or `default` that stands
in no loop or switch. `Named` and `Jumped` are the labels of `goto` in a
statement, given by the recursion C defines them by.

*StmtCodegen.* The parser splits labelled statements into a label and a
statement (`Parse`), `StmtCompile` compiles them, then code and program run together,
effect by effect, against every outcome of each test. `Follow` moves the machine
through jumps and labels; `Unfold` is a continuation semantics of the program as
written.

*Names.* The parser's `idents` and `scopes`, the compiler's `objects`,
`tentatives`, `locals` and output (`defined`, `exported`); `meaning`, `blocks`,
`linkage` and `unit` are ghosts: which entity C says each name means, its linkage
(6.2.2), and whether the file defines it. Declarations to which C gives no
meaning (a name of both linkages, an object that is a function, two
definitions) are not in the model; all that C allows are. A use is
recorded in `used` with what it was taken for and what it means.

*Directives.* `cur` is the `tacc_tok_iter` at the end of the override chain,
reduced to `skip_level`, `inc_level` and `skip_till_endif`; `outer` the ones
before it, pushed by `#include` and popped at the end of a file; `macros` the
table, in which `#undef` leaves a tombstone. One action for each handler; an
`#if` asks for a constant, the value of a name, or `defined`. A macro's
replacement is one of two values. `groups`, `meaning` and `fault` are ghosts:
the stack of groups that C (6.10.1) describes and the program does not keep,
what each name is defined as, and the first thing that is wrong with the lines.
From that on nothing is claimed, except that the program stops. A fourth ghost,
`foreign`, is set by lines that are right and that the program has no word for:
`#pragma` and `#line` in a kept group (`HandleUnknown`), and directives in a form it
refuses before it asks whether lines are skipped (`HandleForm`). Of the text of a
line the rest is assumed to be well formed: a name where one is due, nothing behind
`#else` and `#endif`.

*MacroExpansion.* `iters` is the stack of `tacc_tok_iter`s under way: the one
that reads the file and the helpers that replace an argument, each begun by the
one before. `pending` is the iterator's list of tokens to deliver, with the
end-of-macro markers among them; `phase` says where the functions that read it
stand. `Scan` is `peek_handle_macros` (end of file, a marker, an object macro, a
name looked at, a plain token), `Substitute` the collection of arguments and the
substitution, `Stopped` the end. `replacing` is `is_replacing` of each macro.
The file's tokens are chosen as they are read, so a run covers every file of
its length. `Meaning` in `MacroReference` is a recursive evaluation
with a hide set on each token; it knows neither markers nor flags. C leaves open
whether a call that starts in a replacement list and ends behind it may be
replaced again; the reference takes the reading the program takes. Where the
arguments of a call end, and that a wrong number of them is an error, it takes
from `SplitArgs`, as the model does: what is compared is what is put in their place.

*SoftU64, SoftU128, SoftFloat.* Pure operators, one for each function. A limb
has `LimbBits` bits: every 32 of the source is `LimbBits`, every 64 twice that, every 16
half of it. A local the source reads without having written it is a choice over
`Garbage`. That signed division negates its operands in place is left out: only the
unit tests call it, and set the operands anew each time. `Arithmetic` starts from a number, applies any operation with any
operand, and keeps the exact number in `exact`.

*ConstEval.* The expression is a record, its evaluation one function by
recursion; `Eval` returns a number with its type or `NotConstant`. `InC` is the
same expression in C: numbers of any size, with the ranges of the types.

*TargetState, Target..., TargetOps.* As `Slots`, but a register is a number
and an instruction has a width: writing the low half of a register says what
becomes of the rest (kept, cleared or sign-extended, by target). `refused` is the
first assertion of the compiler that failed, `stolen` whether the allocator
returned a register that was not asked for, `mistyped` whether a result was pushed
with a type that is not C's. One action for each operation
a client asks for (literal, address, dereference, conversion, operator,
assignment, discarding, branch, return); the ghost `val` of a slot is the number
C gives it, `ref` the bytes that C's assignments leave.

## Runs

| Run | What it asks | Bounds, and why they are enough |
|---|---|---|
| `mc_dynhash` | lookups return the first insertion; the fill count is right; occupied slots stay; calls end; the table implements the abstract map | 4 slots, 3 keys of which two share a hash and the third's chain wraps into theirs, 2 values: the table fills up, chains cross, the last insertion is refused. That probing covers tables up to the size used by the compiler (256) is an ASSUME TLC evaluates |
| `mc_slotstack` | no two live slots share a register, each slot holds the value meant, stores and calls receive the right operands | 3 volatile registers (the two that division uses, the one that shifts use), 3 pending values and 4 scratch positions: every register can be taken and every operation must then spill |
| `mc_exprcodegen` | the code of an expression computes its value, its memory and its calls | expressions of two operators over the kinds the compiler implements, three registers, arithmetic modulo 3; `&&` and `\|\|` nested where nothing else is pending. ASSUMEs that TLC evaluates say that each of these expressions is `Alone` and defined, and that none of those of `expr_pending` is `Alone`. The theorems lift the bounds |
| `expr_pending` | as above, with `&&` and `\|\|` while another value is pending: **violated** | |
| `mc_frame` | objects are disjoint, inside the frame, apart from what the prologue saves, aligned; stack parameters are found (x86 targets) | seven parameter lists, from none to more than any target has registers for; seven object types of all alignments; three objects in any order |
| `frame_arguments` | stack parameters on every target: **violated** on riscv64 and aarch64 | |
| `mc_stmt` | the code does what the function body says; no label is defined twice | 445 bodies: every loop (all eight `for` forms) around every jump, loops in loops, loops in switches, switches in loops, cases inside a loop, `goto` in and out, and bodies the compiler refuses (a `continue` in a switch outside any loop); every outcome of each test, three switch values. Code and program are compared as transition systems, so the turns of a loop are not bounded; `Fuel` (30) bounds only the jumps between two effects, more than any of these bodies has |
| `mc_directives` | lines are skipped and names are defined as C says; the program stops at every fault, and elsewhere only at a line it has no word for | two macros, three open groups in each of two files: an `#elif` nested in a group nested in a skipped one, and a file included from a kept group inside another. The theorems lift the bounds |
| `mc_expansion` | the tokens delivered are those C gives, the program stops only where C gives none, a replacement always ends and leaves no macro marked | seven sets of three macros, every file of five tokens of an alphabet of six and every `#if` line: enough for a call whose name, parenthesis and arguments come from different replacement lists, for nested calls, for an empty argument, and for `#` and `##` beside each kind of operand |
| `mc_arithmetic` | 64-bit operations, long doubles, constant expressions and enumerators give the number they should | limbs of 4 bits: all 256 numbers with 15 operands, so each carry, borrow, shift distance and sign; long doubles with 13 kept bits around ties and carries; scalings of a long double far below and above its smallest exponent; expressions of up to two of seven literals, signed and unsigned, of one and two limbs, on two targets |
| `mc_target` | operands, objects, jumps and results have the numbers C gives them, on all four targets; the compiler gives up only in known cases | bytes of 1 bit, ints of 4, long longs of 8; i686 has three registers for a pair of two and the 64-bit targets are cut to three volatile registers; the third pending operand is a variable: with up to three pending operands of nine kinds all registers are taken, and any two operations follow |
| `mc_names` | a use is bound to the entity C means and the compiler knows it; definitions are emitted | five declarations of two names, two nested blocks: a prototype followed by another function's body, a parameter that hides a global, a function `static` first and then declared without it, and so on all take at most four |

All bounds (`MaxProbe`, `MaxStack`, `MaxFrame`, `MaxObjects`, `Fuel`,
`MaxRefs`, `MaxBlocks`, `MaxGroups`,
`MaxFiles`, `MaxInput`, `MaxSteps`, `MaxLeaves`, `MaxEnumerators`,
`MaxDistance`) are constants of the modules and appear in guards.
Deadlock is not checked: every model stops when its bound is reached, or
when the expression, the function or the file is finished.

**Fairness.** `DynHash` states weak fairness of the steps of a call in
progress, `MacroExpansion` of the steps of a replacement. Both are loops in a
single thread that nothing interrupts, so a step that is enabled is taken.
Nothing makes the program call the table, so there is no fairness on `GetBegin` and
`InsertBegin`.

**The scale of the arithmetic.** Widths are a constant of `SoftU64`. The code
treats 32 and 64 as "one limb" and "two limbs" and looks at single bits only at
the ends of a limb, so four bits show the same carries and signs. What the
scale changes is named where it happens: `SizeIsAnInt` leaves out sizes
that an int of four bits cannot hold.

## What is proved

`DynHash_proofs`, from `DynHashAssumption` (the table has at least one slot,
hashes are naturals, `None` is no element), for every capacity, key set and hash:

* `Invariance`: `IndInv`. Lookup correctness is not inductive: that a lookup
  stops at the first insertion needs to know that an element lies on the probe
  chain of its key with no gap before it, that nothing of the same key lies
  nearer, and that the call in progress has passed only occupied slots of
  other keys.
* `LookupCorrect`, `TypeCorrect`, `SlotsStay` (an occupied slot is never
  written), `FillExact` (`fill` counts the occupied slots, by a lemma on
  cardinality) and `Refinement` (every step is a step or a stutter of
  `FirstWinsMap`) follow.

`SlotStack_proofs`, from `SlotsAssumption` (register numbers are naturals; the
three fixed registers are different and volatile; operators yield values) and
`SlotStackAssumption` (addresses and integers are values other than the
indeterminate one), for every set of volatile registers, any meaning `Fn` of the
operators, any number of pending operands and any sequence of operations:

* `Invariance`: `IInv` says that the generator state is `Good` (it runs, no two
  slots name one register, places exist, places hold the values meant), that
  memory is as meant and that the last call got its operands. The three parts of
  `Good` need each other: a value survives the write to a register because no
  other slot names that register, and that one is free is what the allocator
  establishes.
* The argument follows the code; its lemmas are in `Slots_proofs`, which `ExprCodegen_proofs` shares. `Least` and `OldestUses`: what the allocator
  looks for exists (the only place where it could fail is a `CHOOSE` from
  nothing). `SpillGood`, `AllocGood`, `EnsureGood`: a register is given out that no slot
  names, and no slot outside the registers asked for moves. `EnsureTwo`: bringing the second operand to
  a register leaves the first where it is, because its register is not
  among those asked for; this is where division and shifts, with their fixed
  registers, would fail. `RearrangedGood`: pop, swap and rot. `ResultGood`: the operands
  are replaced by the result. `FlushGood`, `PassedMeant`, `CallGood`: calls.
* `NeverShared`, `AlwaysHeld`, `MemoryAlwaysMeant`, `ArgumentsAlwaysMeant`,
  `TypesAlways` state the properties of the run. They are about straight-line code;
  jumps are the subject of `ExprCodegen`.

`Directives_proofs`, from `DirectivesAssumption` (the bounds are naturals; the
proofs do not use them), for every set of names and any depth of groups and files:

* `Invariance`: `IndInv`. That a line is skipped as C says (`skip_level > 0`) is
  not inductive: what `#elif`, `#else` and `#endif` do next depends on every open
  group. `Matches` says what the two counters and the flag tell of them: the
  outermost `inc_level` groups are on, the next is the one that is off, what is
  nested in that can never come on, and `skip_till_endif` tells whether the
  off one still can. One lemma for each change of the counters
  (`MatchesOpened`, `MatchesClosed`, `MatchesPast`, `MatchesStopped`,
  `MatchesChosen`) shows that it survives; the files behind an `#include` keep theirs.
* `Skipping_Correct`, `Defining_Correct`, `Rejecting_Correct` and
  `Noticing_Correct` state the four properties of the run. `Rejecting_Correct` has two
  cases, a fault and `foreign`: that it stops at faults only is false, a `#pragma` in a
  kept group ends it.

`ExprCodegen_proofs`, from `SlotsAssumption`, `ExprCodegenAssumption`,
`OperandsAssumption` (an operator has the operands the parser gives it) and, for
`CodeMeans`, `MeaningAssumption` (expressions are finite, what they name is what their
kind calls for, the indeterminate value is neither an address of data nor an integer, a
comparison yields 0 or 1), for every expression, however deep:

* `Balanced`: no step finds fewer slots than it takes, every jump of `&&`
  and `||` lands on its label, and after the statement the stack is empty, as the
  assertion at the end of `tacc_cg_compile_stmt` wants it.
* That the stack is as deep as a step needs depends on all that is still to be compiled.
  `Leads` says that this is a walk: from the depth and the number of open labels
  there are now, step by step, to none of either. `PlanYields` shows for
  each kind of expression that what it is compiled to is a walk again
  (`Further` puts one walk behind the other), `StepBranch` and `StepJoin` that the
  labels close in the order they were opened.
* `Balanced` needs no `Alone`: where `&&` and `||` stand beside a pending
  value the places are wrong, the number of slots is not.
* `CodeMeans`: the code of an expression that is `Alone` does what the expression means,
  `Alone(expr) => CodeMeansExpr` in every state. Without `Alone` it is false, as `expr_pending` shows. The proof is in three parts.
* `MeaningIs`: the recursion `Meaning` is defined by has a solution (`Recursion`, over the
  well-founded order on `Depth`), and what it yields is a value, a memory and a list of calls. `FitsIs`
  says the same of `Fits`.
* `PlanPath`: what is still to be compiled is a path of abstract states: values pending, a memory, calls made
  (`At`), on the way to a label (`Jumped`), or done (`Ended`). `Moves` is what one item
  does to such a state. `PlanPath` goes through the kinds of expression: the items one is
  compiled to lead from any pending values to these values and the one it means; `SkipPath`
  says that a jump over them changes nothing.
* `MInv`: the generator and its machine are where the path says (`Tracks`). `Holds` says that the slots
  hold given values; each operation of `Slots` has a lemma with it in `Slots_proofs`. While code is jumped
  over only the bookkeeping moves, so the claim is then about the slots there will be at the label (`Jumping`): here
  `Alone` is used, since with nothing pending below there is nothing a spill can lose.
  `Labelled` says that the open `&&` and `||` have labels of their own, the inner ones later, so that a jump
  ends nowhere but at its own. One lemma for each step (`Track...`) shows that the invariant survives it.

`Function_proofs` on `Frame`, from `FrameAssumption` (the targets are the four; sizes are
naturals; alignments are powers of two up to 16), for every list of
parameters and every number, size and order of objects:

* `FrameInvariance`: objects lie between the frame offset and the bytes in use, in
  the order they were allocated; a grown frame never moves an object.
* `Disjointness`, `Containment`, `Separation`, `Alignment` state four
  properties of the run.
* `Arguments_Found`: on x86_64 and i686 a parameter left on the stack is read
  where the caller stored it. On riscv64 and aarch64 the same is false (`frame_arguments`).
  `Incoming_Apart`: on x86_64 and i686 such a parameter lies above all that the function
  saves and all its objects. `Places_Advance`, an action property: on every target it gets
  bytes above those of the ones before it. The invariant they add is `ItfInv`: the counters
  of the call interface are naturals, and every place is beyond the bytes in use at entry.

`Function_proofs` on `StmtCompile`, from `StatementsAssumption` (statements have the parts the
parser gives them) and `LabelsAssumption` (no function has a label of `goto` twice or
misses one it goes to; C asks for it and the compiler leaves it to the assembler), for
every function body, of any length and nesting:

* `Labels_Once`: each label a jump of the finished code names is defined there, once.
* `CompileInvariance`: a jump is often emitted long before its label or long after, and a
  `break` or a `case` gets its label from a stack. `Leads` is a walk again, over
  the labels that are defined when an item is reached and the switches then open; it
  ends at the set of all labels of the function. All that is jumped to, on a
  stack or in a list of cases is in that set. The set is not known in advance:
  compiling a statement adds the labels it takes from the counter (`Wider`: a walk
  stays one when labels are added that are new to it). `PlanLeads` goes through the
  kinds of statement, `AllLeads` through a list of them.
* `StmtCodegen` takes the same steps and then leaves these variables alone.

`Names_proofs`, from `NamesAssumption`, for every set of identifiers, any number of
declarations and any depth of blocks:

* `Names_Inductive`: `IndInv`. `Found` and `Known`: a name that means something has a
  declaration in the parser's scope, and what the parser finds is a local of the
  function or a global object. `FileMeaning`: the declaration kept at file level is of
  the entity the name means there; of several tentative ones any will do.
  `Written`: what is defined is what was written and what was put off.
* `Bound_Known` and `Definitions_Emitted` state two properties of the run. There is no
  theorem on linkage: that what is `exported` has external `linkage` is false (below).
* `Use_Means` assumes `Shadowing = FALSE`, as the run does, and needs one more part
  (`BodyMeaning`): a name that a function declares has one declaration in it. With
  `Shadowing` it is false, because a block opens no scope (below).

`MacroExpansion_proofs`, from `ProgramsAssumption` and `AlphabetAssumption` (macros
and tokens are what the tokeniser makes), for any macros, files and depth of calls:

* `Markers_Match`: `is_replacing` of a macro is set exactly while a marker of it that
  counts is still to be read, and there is never a second. So a flag is never left set and
  a marker never clears the flag of another replacement.
* `Markers_Inductive`: a helper that expands an argument of macro `n` runs with the
  flag of `n` down although the marker of `n` is there, below it. `Suspended`
  says of each iterator that waits for a helper that, when the helpers are gone, there
  will be exactly one marker of the macro it replaces. `MarkerPut`, `MarkerTaken`,
  `HelperPut` and `HelperTaken` are the four ways in which markers and iterators come and go.
* `Concat` and `SplitArgs` are recursive functions. `Recursion` shows that such a function
  exists, `Induction` is induction up to a number over a set; both follow from
  `WFMin`, which takes a set and a relation, where the library's induction rules
  take a predicate.

Model-checked only, and why:

* `InsertTerminates`, `GetTerminates` and `Terminates` are liveness properties.
* `OutputIsC` and `CodeFollowsProgram` compare with a meaning that is
  recursive over tokens and over statements, and `MacroReference` and
  `StmtCodegen` declare RECURSIVE operators. (`ExprMeaning` uses recursive functions instead, whose
  existence is proved.)
* `IntegersExact`, `FloatsRounded`, `SoundConstantIsC` and `EnumeratorsCount` are about
  products, quotients and sums over bits, which are recursive or nonlinear.
* `ValuesRepresented`, `StoresMeant`, `ControlMeant` and `GivesUpOnlyWhereKnown`
  depend on the bits of registers, in four back ends; what is proved about the
  slots in `SlotStack` is proved about single registers.

## Disagreements found

Two have a run that shows them:

1. **`&&` and `||` with a value pending** (`codegen.c:1047`, run `expr_pending`). The second operand
   may spill a register that holds an earlier operand. The compiler then
   believes it spilled on both paths; on the short-circuit path it was not.
   `x - (2 || f())` and `x = a && f()` go wrong. Where nothing else is pending the code is right (`mc_exprcodegen`, and `CodeMeans` for every expression).
2. **Stack parameters on riscv64 and aarch64** (`call_itf.c:192`, `:155`, run `frame_arguments`) are read where
   the prologue saved registers, or 16 bytes off, because the offsets assume
   another layout than the prologue makes.

For the others the properties of the passing runs have a condition with a name, so that
it can be seen, and lifted, in one place, or claim less than C does (the last column says which).
Without `mistyped` in `Compiles` TLC finds the products of i686 at once: a product of two literals,
then a comparison.

| Where | What the code does | Left out by |
|---|---|---|
| `parse.c:1994` | a label as the body of `if`, a loop or a switch is accepted and the statement behind it always runs; `statement.h:94` says it is forbidden | the bodies of `MCStmtCodegen` |
| `parse.c:1984` | a block opens no scope: uses of a hidden name go to the outer one | `Shadowing = FALSE` |
| `tasku_pp.c:2290` | `#pragma` and `#line` in a kept group end the program; so do, in any group, `#include<h>` and `#elif(1)` for want of a blank (`:2210`, `:2260`), and in a skipped group a directive without a name (`:2197`) | not left out of the model: `foreign` in `RejectsOnlyFaults` |
| `compile.c:806`, `:1100` | `.globl` depends on the storage class of the declaration at hand only: after `static int f(void);` the definition `int f(void) {}` exports `f`, which 6.2.2p5 keeps inside the file. An object only tentatively defined is not exported at all (`:1239`) | not left out of the model: `exported` and `linkage` differ, and no property or theorem says they agree |
| `compile.c:1235` | `is_tentative` is never taken back and a redeclaration is a new object: `int x; int x;` and `int x; int x = 1;` write the label twice | not left out: `defined` is a set, and `DefinitionsEmitted` says nothing of how often |
| i686 `codegen.c:932` | the product of two unsigned long longs gets the type the runtime function returns, `long long`, and a comparison, right shift or division of it takes its highest bit for a sign | `mistyped` in `Compiles` |
| `tasku_pp.c:2763` | the tokens beside the operand of `##` in an argument are expanded before they are substituted | `early` in `OutputIsC` |
| `soft_u64.c` multiplication | the carry of the two middle products is lost | `MiddleFits` |
| `soft_u64.c` division | the last bit of a quotient and bit 32 are not found | `QuotientFound` |
| `soft_u64.c:276` | an arithmetic shift right by more than a limb does not fill the low limb with the sign | the range of `k` in `ArshStep` |
| `soft_float.c` sums | beyond a distance of one limb, bits of a local that was never written are among those rounded | `SumDetermined` |
| `type.c:146`, `machine.c:105` | the evaluator calculates at the type of the left operand | `Sound` in `SoundConstantIsC` |
| riscv64 `codegen.c:147` | an unsigned constant of 32 bits with the highest set is not sign-extended as other values are | `LoadsExtended` |
| `codegen.c:1864` | of a pair the allocator returns the low register even if only the high one was asked for | `Compiles` |
| `codegen.c:239` | subtraction of pointers is not scaled | `OperandsAllow` |
| `codegen.c:535`, aarch64 `codegen.c:458`, i686 `codegen.c:221` | legal expressions end in an assertion: assignment to `_Bool`, widening of a spilled value, a pair that was spilled | not left out: `GivesUpOnlyWhereKnown` lists them, the other properties end there |

Seen while modelling, without a property: the lookup of an absent key in a full table
does not end, a call with stack arguments in a loop grows the stack. The enumerator after
-1 is refused (`EnumRefused` leaves it out), results of long doubles below the smallest normal
number are not compared (`InRange`), `#else` behind `#else` is accepted, and a file may include
itself for ever.

## Not modelled

Lexing, number scanning, formatting of assembly and diagnostics are pure text.
`ast_dump.c` and the assembler have no state that another part reads. The parser's
precedence climbing and declarators are functions of the tokens, and their
RECURSIVE form would repeat the code. Floats and struct copies on the slot stack,
`va_arg`, stack arguments of calls, tags and typedefs, struct layout and
initialisers are left for later (below). Memory allocation
failure ends the process and is not a behaviour of any model.

## Plan

1. `Layout`: struct and union layout, completion of incomplete types, arrays,
   declarators inside out (`compile.c` 299-772), as operators with theorems on
   alignment and disjointness of members (`Layout_proofs`).
2. `Precedence`: precedence climbing against a reference grammar;
   `Initialisers`: the walk over sub-objects. Together with 1 in one run.
3. Widening of `TargetState`: float slots, stack arguments and the
   stack pointer at calls.
4. Proofs: member disjointness of `Layout`; the allocator of register pairs of
   `TargetState` along the lines of `Slots_proofs`; addition, subtraction and comparison
   of `SoftU64` (multiplication and division do not hold without a condition).
