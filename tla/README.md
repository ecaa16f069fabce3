# A TLA+ model of nix2js

nix2js translates Nix expressions to JavaScript (`src/*.rs`), and evaluates the
result with a run-time library (`nix-builtins/index.ts`) and a mock runtime that
loads files (`mock-runtime.mjs`). This directory models the parts that carry the
logic, model-checks them with TLC and proves what matters most with TLAPS.

## Inventory

| Part | State | Operations | Interacts with | What is hard |
|---|---|---|---|---|
| Laziness bookkeeping, `src/helpers.rs` | none: `StackCtx` is passed down | `merge_sttr`, `lazyness_incoming` | every handler of the translator | a wrapper depends on what several callers passed down |
| Translator, `src/lib.rs`, `src/consts.rs` | `vars`, `with_stack`, the output | `translate`, one handler per node kind, `translate_let`, `translate_node_kv`, `translate_node_inherit` | emits calls of scopes, operators, runtime | frames restored by hand; order of names; deferred and immediate code; early returns |
| Source map, `src/helpers.rs` | `names`, `mappings`, last positions | `snapshot_pos`, `snapshot_ident` | called by the translator | positions relative to earlier ones |
| Scopes, `nix-builtins/index.ts` | a heap of proxied objects | `mkScope`, `mkScopeWith`, assignment, lookup, `allKeys`, `extractScope` | made and read by emitted code | prototype chains through proxies, write-once keys |
| Lazy values, `index.ts` and the code `lib.rs` emits | promises | `PLazy`, `orDefault`, `_lambdaA2chk`, `tryEval`, operators, selections, pattern functions | emitted code, the host's event loop | errors told apart by wording, eager start, unhandled rejections |
| Deep merge, `lib.rs` and `index.ts` | attribute sets being built | `translate_node_kv`, `_deepMerge` | emitted code for nested keys, scopes | paths into one set in any order, the enclosing scope |
| Asynchronous lists, `index.ts` | the tasks of one call | `resolveList`, `filterAsyncList`, `sortAsyncList`, `all`, `any`, `partition`, `sort` | builtins | answers and failures in any order |
| Version comparison, `index.ts` | none | `splitVersion`, `compareVersions` | builtins | versions of different lengths, words |
| Operators and other builtins, `index.ts` | none | about a hundred small functions | emitted code | little |
| Import cache, `mock-runtime.mjs` | `import_cache`, running `importTail` calls | `import_`, `importTail` | calls the translator; called by emitted code | interleaved imports, failing reads, directories, cycles |
| Path export, `mock-runtime.mjs` | parsed `NIX_PATH` | `export`, `pathExists` | emitted code | files change between two probes |
| Command line, `src/main.rs` | the files it writes | read, translate, write the source map, write the JavaScript | translator | killed or failing between the writes |
| WebAssembly wrapper | none | `translate`, `translate_inline_srcmap` | translator | nothing |

What makes them correct:

* translator: it terminates, leaves nothing registered, accepts exactly the well
  scoped programs; emitted code parses, reads each name from the binder it means,
  after it is assigned, and never uses a promise as a value;
* scopes: `in` and reading agree, a binding is shadowed but never altered or lost,
  extraction detaches, `allKeys` is complete;
* import cache: one load per name, the same answer for everybody, failures reach
  exactly those who depend on them, every import is answered;
* source map: mappings decode to the positions they were recorded for;
* lazy values: everything settles to what evaluation by need gives, nothing runs
  before it is needed, no error is taken for another, the result is answered;
* deep merge: every entry is in the set, whatever the order, and no other set is
  touched;
* lists: the answer does not depend on the order of completions, and is a failure
  exactly when something it needs fails;
* versions: Nix's order;
* path export: an answer was true at some moment of the lookup;
* command line: after any history of edits, kills and failures, JavaScript never
  names a source map older than itself, and success means that all is written.

## Modules

| Module | Contents |
|---|---|
| `Lazyness` | `merge_sttr`, `lazyness_incoming`, the tokens of the output |
| `Translate` | the translator as a state machine |
| `TranslateProps` | its invariants, and predicates on the emitted code |
| `NixScoping` | reference: which programs are well scoped, by recursion over the tree (TLC only) |
| `MCTranslate` | the programs TLC runs the translator on |
| `TranslateProofs` | theorems about the translator |
| `Scope`, `ScopeProps`, `MCScope`, `ScopeProofs` | scope objects, their properties, an instance, theorems |
| `ImportCache`, `ImportProps` | the import cache, its properties |
| `PathExport`, `PathExportProps` | lookups through `NIX_PATH`; their property |
| `MCRuntime` | instances of both |
| `RuntimeProofs` | theorems about the mock runtime: the import cache and path export |
| `TextPos`, `PlainMap` | positions; the abstract source map, a table of absolute positions |
| `SourceMap`, `SourceMapProps`, `MCSourceMap`, `SourceMapProofs` | the encoder with a reader, the refinement of `PlainMap`, an instance, theorems |
| `LazyValue`, `LazyProps`, `MCLazyValue`, `LazyProofs` | promises at run time; the reference (evaluation by need) and the properties; programs; theorems |
| `DeepMerge`, `DeepMergeProps`, `MCDeepMerge`, `DeepMergeProofs` | entries of a set as statements; what they mean; literals; theorems |
| `AsyncList`, `AsyncListProps`, `MCAsyncList` | list operations; what they return; jobs |
| `CompareVersions` | the comparison with Nix's order |
| `MCBuiltins` | jobs for the lists, and versions |
| `BuiltinsProofs` | theorems about lists and versions |
| `CommandLine`, `CommandLineProps`, `MCCommandLine`, `CommandLineProofs` | the command and its environment; what its files are good for; an instance; theorems |

### Translate

The recursion of `translate_node` is turned into a stack of work, `todo`: the
calls still to be made, the tokens still to be pushed, and what a caller does
after a call returns (`Truncate` restores `vars`, `Unwith` restores
`with_stack`). A handler is one action that replaces its own call by its
template: brackets, children with the contexts the code gives them, clean-up.
`Context.vars` is `vars`, `Context.with_stack` is `with_stack`, `Context.acc` is
`acc`, a sequence of tokens: an open/close pair for each emitted construct that
encloses others (`await`, `lazy` for `PLazy.from(async ()=>`, `lambda`, `block`,
a scope function, ...), `read`, `decl`, and literals. An `use` bracket marks an
operand that the emitted code needs as a value at once; it emits nothing. An
`Err` ends in status `err`, `unreachable!()` and a failed assertion in `panic`.

`Node` is any set of syntax nodes closed under children (the assumption
`NodesAssumption` says what rnix's typed accessors return); the syntax tree is
external. `DFL_VARS` has one entry of each kind that `consts.rs` lists. `Names`
lists the identifiers in alphabetical order because `getkeys` sorts them; no
identifier is the empty string, which stands for a name that is not there.

Names stay Nix names in `vars` and in the tokens. `Mangle` says how a variable is
spelt in JavaScript, where different names may be spelt alike (`a-` and `a'_` both
become `a_$_`); `JsName` applies it to lambda arguments and let-variables, as
`translate_node_ident_raw` does, and not to the keys of a scope.

Not in the model: the text of the output, the source map, trivia nodes, and node
kinds that rnix never produces in expression position.

### ImportCache

Everything between two awaits of `importTail` is one step. `tails` are the
calls of `importTail`, `vals` the evaluated files (`stru`); `import_cache` maps
a name to the promise of one or the other. A call reads (`ReadFailed`,
`ReadDirectory`, `ReadFile`), stores the value under the real path and adopts
its promise (`Adopt`). A value imports its dependencies one after the other
(`EvalImport`, `EvalResume`, `EvalDone`). Reads may fail at any time. The file
system is fixed during a behaviour. `throw NixEvalError(..)`, a name the file
does not define, rejects the promise as well (with a ReferenceError); the model
does not tell rejections apart. Emitted code starts its imports only when the
value is forced; the model leaves out programs that import while the top level
of the file runs (`!(import ./x)`), whose imports come before the cache is set.

### Scope

`heap` holds objects in the order they are made; `kind` is `plain` (attribute
set), `scope` (`mkScope`) or `with` (`mkScopeWith`). `Has` and `Get` follow
prototype chains and the traps. A key that is there with the value `Undefined` is
told from one that is `Absent`: `rec { a = b; b = 1; }` stores undefined under `a`.
`Set` is an assignment through the proxy: the first defines the key read-only, a
second is refused, which the emitted code, not being strict, does not notice.
`Merge` is the write at the end of `_deepMerge`, to an attribute set. Emitted code
never assigns to a `with` scope, whose traps would throw.

### SourceMap

`ctx` holds the fields of `Context` that matter for the map, `out` the position at
which `acc` ends. `mappings` is a sequence of separators and numbers (VLQ digits
are left out); `ctx.dec` is a history variable, a reader of the format that has
read everything written so far. `push` lets the output grow, `Snapshot` is the
call in `translate_node`, `snapshot_ident` the whole function with what it
consumes. Positions of the input come in any order. `translate` emits no newline
at present; the branch that writes `;` is modelled all the same. A position whose
source is unchanged gets a segment of one field, which the format defines as
having no source (fields of zero would have said `as before`); `PlainMap` says so.
The reader adds up every field, the name field included, and starts again at column
0 on a new line, as version 3 of the format has it.

### LazyValue

A program assigns a piece of code to every promise: a constant or a throw,
input/output, a selection, `orDefault`, `_lambdaA2chk`, `tryEval`, an operator, a
call of a pattern function, a conditional. Everything between two awaits is one
step. A `PLazy` starts when it is awaited (`Demand`); operands that are calls
(`spawn`) start with the code that makes them. `within` are the calls of pattern
functions whose body the code stands in: emitted code is lexically scoped, so it
refers only to code that stands in no other calls, except that a call refers to
its own body (`Scoped`), and `_lambdaA2chk` occurs only in a body, for its
argument. `Operands` says which operands emitted code always has. `HostAborts` is
Node's reaction to a rejected promise nobody has awaited once the reactions have
run. The conditional stands for `if (tryEval x).success`; of a condition that is
undefined, the selection throws. The reference, `Outcomes`, computes what each
promise must settle to without any order. It has the code's own catches: `orDefault`
takes every TypeError with the wording it looks for to be an absent attribute, also
one from the evaluation of an attribute that is there.

### DeepMerge

A tree is the set of its leaves. `Form` is the choice `translate_let` makes;
`Assign` and `_deepMerge` are the statements of `translate_node_kv`, including
the write-once keys of a scope. Numbers stand for all values that are not sets.

### AsyncList

A job fixes what elements and callbacks answer; tasks are the promises that
`Promise.all` collects. `sort` first waits for the elements, then makes one task
per pair; `ArraySort` is `Array.prototype.sort`, any order at all if the
comparator is not consistent. A job also says whether the callback takes one
argument at a time (`curried`) and whether it is itself a promise (`promised`),
which `all` and `any` do not await (`NotAFunction`).

### CompareVersions

The walk over the pairs of components that `_.zip` makes. Components are numbers,
words (by their rank) and `pre`. Numbers are exact; `parseInt` rounds those beyond
2^53, which is not modelled.

### CommandLine

One process after the other, with the arguments of any form; `std::fs::write` is
two steps, so that a kill or a failure leaves a torn file. `Edit` changes the
input at any time. A text is the revision it was made from. A translation error is
printed and the command ends with status 0, as in the code. What goes to standard
output is not part of the files, and no property speaks of it.

### PathExport

The anchor `Store`: an entry of `NIX_PATH` with a name is used at once, the last
one if the name occurs twice; otherwise the directories without a name are probed
in turn, while `FilesChange` makes files appear and vanish. `up` and `down` record
where the file was readable, and was not, since the call.

## Runs

| Run | Instance | What it shows |
|---|---|---|
| `translate` | `MCTranslate`, 2862 programs | the bookkeeping: `AssertsHold`, `FramesRestored`, `WithNested`, `AcceptsWellScoped`, `Terminates`; the output: `BlockAfterArrow`, `UsesAwaitedButForGaps`, `ReadsReachTheirBinder`, `AwaitInAsyncButForGaps`, `EarlyReadsAreAliases` |
| `unawaited_use` | the same | violated: a promise is used as a value |
| `runtime` | `MCRuntime`: 4 paths, 90 directory trees, 2 outside requests; 3 directories, 2 lookups, 2 changes | imports: `OneTailPerKey`, `AnswersMatchFiles`, `AnswersAgree`, `SettledStays`, `EveryRequestSettles`; export: `AnswerWasTrue` |
| `scope` | `MCScope`, 5 objects, 1 key, 2 values | `HasMatchesGet`, `LookupsMoveToNewNamesOnly`, `ExtractedIsDetached` |
| `all_keys` | the same | violated: `AllKeysIncludesInherited` |
| `source_map` | `MCSourceMap`, 3 positions, 3 identifiers with 2 names | `ReaderInStep`; `IsPlainMap`: the encoder implements `PlainMap` |
| `source_map_names` | the same | violated: `NamesAreIndices` |
| `lazy_values` | `MCLazyValue`, three families of programs over 7 promises | `ByNeed`, `OnlyNeededStarted`, `CrashExplained`, `Answered` |
| `deep_merge` | `MCDeepMerge`, literals of up to 3 entries in 3 kinds of set | `MergedButForGaps`, `OuterUntouched` |
| `builtins` | `MCBuiltins`, lists of up to 3 elements; versions of up to 3 components | `PredicatesDecide`, `SortsStably`, `FailsWithItsParts`, `Settles`; `OrderedButForWords` |
| `partition_predicate` | `MCAsyncList`, `partition` only | violated: every element goes to `right` |
| `command_line` | `MCCommandLine`, 3 revisions | `MapNotOlder`, `OkIsComplete` |

`runtime` and `builtins` each put together two parts that share no state: a behaviour
uses the one or the other.

`TypeOK` is checked and proved for the translator, the import cache, scopes and the
source map; for the other parts the types are part of the inductive invariant.

Bounds.

* Translator: each of the 38 forms of expression stands in each position of each
  other, under a lambda, over the leaves `a` and a number, and the forms with an
  awaited operand stand at top level too; plus sibling scopes, nested `with`s,
  `fix.nix`, names spelt alike, dynamic keys beside a name, an inherit of several
  names, and malformed trees. A handler sees the context and the names of its
  caller only, so pairs of constructs under a binder show every context that is
  ever passed; the proofs cover every program of every depth for all but
  `AcceptsWellScoped` and `Terminates`.
* Import cache: two outside requests and imports among four names suffice for a
  name to be requested in every phase of its own load, by its own name and
  through the directory, and for chains, diamonds, self-imports and cycles.
  `MaxRequests` is the only bound; the proofs cover all values and all trees.
* Scopes: four objects over the root make a `with` in a `with`, a scope on a scope
  on a `with`, and an extraction from either. No operation relates two keys, so one
  key is enough; the values are symmetric. `MaxObjects` is the only bound; the
  proofs cover all values, all keys and all heaps. The program may stop at any
  time, hence no deadlock check there, nor for the import cache, where everybody
  may have been answered or wait in a cycle.
* Source map: `MaxSegments`, `MaxLine` and `MaxCol`. What is written depends on the
  last position only, and five segments contain every pair of a repeated, a later,
  an earlier position and a new line, and a name that comes back after another.
  The proofs cover every input and every length.
* Lazy values: the programs are selections with a default through two levels of
  sets, two nested operators, and a call with one formal; each leaf is a number, a
  string, an error of either kind, or input/output. No deadlock check: a program
  that has been answered, or needs itself, stops. The proofs cover every finite set
  of promises and every program that is lexically scoped.
* Deep merge: three entries are needed to write, extend and overwrite one set; a
  path of three keys reaches the loop of `_deepMerge`. The proofs cover all
  literals.
* Lists: three elements are the least for a comparison to depend on a third. The
  proofs cover all lengths.
* Versions: the first difference decides; three components put it at either end or
  in between. The proof covers all lengths.
* Command line: three revisions allow a stale pair of files to be half replaced
  twice. `MaxRev` is the only bound; the proof covers all values.
* Path export: with three directories a file can move behind the one that is
  probed. Lookups of different names have nothing in common, so one name is enough.
  `MaxExports` and `MaxChanges` are bounds; the proof covers all values.

Fairness. The translator is a sequential program and always takes its next step
(weak fairness of `Next`). For the import cache, weak fairness of `Work`: reads
end, and the event loop runs every reaction that is due; outside requests are
not forced. Each step of `Work` is final for its phase, so fairness of the whole
suffices. The same holds for `LazyValue` and `AsyncList`, whose `Next` consists of
reactions and completions only and settles something with every step. The others
need none.

## What the runs show of the code's gaps

Four runs expect a violation:

* `StrictUseAwaited`: `if !x then ..` tests a promise, which is always true;
  `with`, paths and lets with variables are used without `await` too.
* `PartitionSplits`: `partition` looks at the promises its predicate returns.
* `AllKeysIncludesInherited`: the comment on `allKeys` promises the inherited keys
  too; those inherited over two levels, or found through a `with`, are missing.
* `NamesAreIndices`: the map declares version 3, where the name field is relative to
  the last one; the code writes the index itself, so that the fields 0, 1, 0 of
  `a`, `b`, `a` are read as 0, 1, 1.

The other gaps are named, as exceptions, by the properties that hold:

* `AwaitInAsyncButForGaps`: the handlers of `?`, `with`, unary operators and
  selections from builtins emit no wrapper, but their operands are awaited. At the
  top of a file the function around them is made by `new Function`, so
  `(import ./x) ? b` is a syntax error.
* `ReadsReachTheirBinder`: another name of the same spelling hides a variable:
  `a-: a'_: a-` returns the inner argument (two such names declared in one block do
  not parse). A dynamic key, which is not registered, hides a name at run time: in
  `rec { x = 1; y = rec { ${"x"} = 2; z = x; }; }` the inner `x` is read.
* `EarlyReadsAreAliases`: identifiers are never deferred (`Ladj::Back`), so `let a
  = b; b = 1; in a` reads `b` too early; `let inherit (a) a b; in a` emits
  `nixInhRn.then(..)`, which starts the source of the inherit before `a` is
  assigned; a let-variable given only by nested key paths is never assigned at all.
  The property speaks of code that is not deferred where it stands. That a value
  which is deferred may be awaited by an unwrapped expression of the same block (or
  a default between the formals, or a merge into a key that holds such a value),
  and read too early then, is not followed.
* `CrashExplained`: a formal whose argument fails, or an operand that is a call
  and fails while the first one is still awaited, is an unhandled rejection and
  ends the process, although the result may not need it.
* `MergedButForGaps`: a path of three keys or more is a TypeError, since
  `_deepMerge` looks for `hasOwnProperty` on an object without prototype; a set
  assigned to a path that has leaves already is lost or replaces them; `let a.b =
  1; in a` finds `a` undefined.
* `SortsStably`: a comparator written in Nix takes one argument at a time; called
  with two it returns a function, which counts as true, and the list is reversed.
* `FailsWithItsParts`: `all` and `any` do not await their predicate; `builtins.all (f
  1) xs` passes a promise, and is a TypeError whatever the elements.
* `OrderedButForWords`: where one version ends and the other has a word (2.3 and
  2.3a), `undefined` is compared with a string, and either is newer than the other.

Some differences from Nix itself are taken over from the code and are no exception
of any property: `inherit x;` in a let or a recursive set finds the `x` of that set,
in the translator and in `NixScoping` alike; of two nested `with`s the outer one has
precedence, since `mkScopeWith(nixInScope, ns)` tries its arguments in that order;
`orDefault` hides an error that only has the wording of an absent attribute.

## Proofs

`TranslateProofs` proves, for every `Node`, `Programs`, `Names` and `Mangle` that
satisfy `NodesAssumption` and `MangleAssumption`:

* `TypeCorrect`, `AssertsNeverFire`, `BuiltinsStay`, `BlocksAreBodies`,
  `WithsCounted` (`WithNested` holds) and `ReturnsAsItCame` (`FramesRestored`
  holds), from `Invariance == Spec => []Inv`;
* `UsesAwaited`, that `UsesAwaitedButForGaps` holds, from `UseInvariance == Spec =>
  []UseInv`;
* `ReadsReach`, `AwaitsAreInAsync` and `EarlyReadsExplained`, that
  `ReadsReachTheirBinder`, `AwaitInAsyncButForGaps` and `EarlyReadsAreAliases` hold,
  from `FlowInvariance == Spec => []FlowInv`.

The properties are not inductive: that a truncation never fires its assertion
depends on what the elements above it on the stack will do to `vars`. `Inv` says
it of the whole stack: the saved lengths decrease from the top of the stack
down, all of them between the number of builtins and the present length
(`Truncs`); the saved depths of `with` decrease strictly and lie below
`with_stack` (`Withs`, which gives that the decrement does not underflow); every
depth below `with_stack` is saved by a `with` on the stack, and if names are
registered beyond the builtins, the call on the stack that restores the builtins
is there (`Restores`, which gives that nothing is left when the stack is empty); a
block on the stack is preceded by its arrow, on the stack or at the end of the
output (`Blocks`). Each handler is shown to put a `Template` on the stack: items
of the right type, whose truncations restore the length at entry, and whose
blocks follow arrows; one lemma says that replacing the top of the stack by a
template preserves `Inv`. The remaining actions (`Push`, `LambdaIdent`,
`LambdaPattern`, `RegisterKey`, `TruncateVars`, `With`, `WithEnd`, aborts) have a
lemma each.

A use is followed in the output by whatever the call that comes next will emit,
which is several steps away. `UseInv` follows the use there: on the stack, the
element after it is a call with the context `mksctx!(Want, Nothing)`, or one
for a builtin with only tokens before it, so that the name still means a builtin
when the call is made (`UsesAhead`); at the end of the output, the stack begins
with that call or with what the call was replaced by (`LastUse`); inside the
output it is followed by an await, by what cannot be a promise or by one of the
excepted constructs (`UsesBehind`). One lemma per handler says that its template
gives every use such a call, and that, called with that context, it begins with
an await unless its construct is one of those that cannot be or ignore it.

Those three are about the nesting of the finished output, which no single step
sees: a handler emits its opening bracket long before its closing one, and a name
is resolved in a table that has no brackets. `FlowInv` therefore reads the output
and the stack together as one sequence and says that a walk through it exists, from
the empty program to the outermost level. A state of the walk is a stack of frames,
one for each open bracket, the table `vars` as a function of the names, and the
depth of `with`. A frame has the names that the whole bracket will declare and
assign and those it has declared and assigned so far, the way JavaScript reaches
each name there, and what is known there: that an await is allowed or a gap is
around (`cov`), that a `with` is around (`inw`), that strict code reads nothing too
early (`calm`), that the bracket is the await of a merge (`mrg`). `Moves` is one
step: what a token, or a call on the stack, requires of the state and does to it;
for a call, for instance, that the table agrees with the scoping (`Apt`), and that
await is allowed and all is calm if it is called with a context that makes it await
(`Firm`). One lemma per handler shows that its template is a walk (`Path`) from any
state its call may stand in to the state the call leaves. For the restored table
this needs `Truncs` and `BuiltinsKept`, and for a scope function that the names it
assigns are the registered ones (`KeysAssigned`).

When the stack is empty, the walk covers the output. By induction on the position,
`AllFrames` shows that the frames of the walk are the brackets of `Enclosing`;
`ClosedWhole`, that a closed bracket has declared and assigned all it was said to;
hence `BindsBrought`: what a frame brings into scope is what its tokens bind. By
induction from the outside in, `AllKnown` tells what a frame knows of all brackets
around it: the innermost that brings a name, an async function or a gap, a `with`,
and that in a calm place all names of the binders around have been assigned, unless
a screen (deferred code or a listed exception) lies in between. The theorems follow;
for `ReadsReach`, `AnswerBinds` adds that a bracket that answers JavaScript's lookup
binds the name, or has another name of that spelling, or a dynamic key.
`FlowInv` quantifies over walks, which TLC cannot enumerate; the three properties it
gives are what the `translate` run checks.

`ScopeProofs` proves, for every set of names and values and every `MaxObjects`
(`ScopeAssumption`):

* `TypeCorrect`, `InAgreesWithRead` (`HasMatchesGet` holds), `BindingsAreNotLost`
  (`LookupsMoveToNewNamesOnly`) and `AttributeSetsAreDetached`
  (`ExtractedIsDetached`). The invariant `Built` says
  that an object refers only to objects made before it. Lookups are recursive
  functions over the heap; from the least-number principle follows that they exist
  and satisfy their equations (`RecursionWorks`), that they end, and that they do
  not move with a step unless an object on the way gets the name.

`LazyProofs` proves, for every finite `Prom` and all `Programs` that satisfy
`LazyAssumption`:

* `EvaluatesByNeed` (`ByNeed` holds), `StartsOnlyNeeded` (`OnlyNeededStarted`) and
  `CrashesExplained` (`CrashExplained`), from `InvHolds`. The reference iterates an
  operator as often as there are promises; that this gives a solution of the
  equations, and that what is needed is closed under use, holds since an ascending
  chain of subsets of a finite set stops (`ChainStops`). The invariant says that
  what has settled has its outcome, that a waiting promise has found out part of its
  equation (`Knows`), that code runs only within calls whose argument is there
  (`Lexical`), and that a promise nobody has awaited is an operand or a formal
  (`Called`).

`RuntimeProofs` proves, for every `Path`, `FileSystems` and `MaxRequests` that
satisfy `ImportAssumption`:

* `ImportTypeCorrect`, that `TypeOK` holds: in particular every promise held in
  the cache, by a waiting file or by a requester exists;
* `LoadedOnce`, that `OneTailPerKey` holds, from the invariant that a name with a
  running or ended `importTail` has a cache entry, which no step removes;
* `SettledForever`, that `SettledStays` holds;
* `SameAnswer`, that `AnswersAgree` holds, from `AInv`: every value was made by a
  call of `importTail` for a name that stands for its file, and every promise
  given out for a name is that call's or such a value's;
* `RightAnswer`, that `AnswersMatchFiles` holds, from `MInv`: a file that is being
  evaluated has passed dependencies that are all good, one that failed has a
  failure it can be blamed on among what it reaches, and nothing good lies on a
  cycle. What a name reaches is defined as the smallest closed set, so that the
  argument needs no induction.

`SourceMapProofs` proves, for every input, set of identifiers and bounds that
satisfy `SourceMapAssumption`:

* `TypeCorrect`, `ReaderKeepsStep` (`ReaderInStep` holds), and `EncodesPlainMap`:
  the encoder implements `PlainMap`. The invariant says that reader and writer
  agree on the last positions (`InStep`), that nothing written means nothing read
  (`Begun`), and that the output is not behind the last position (`NotBehind`). For
  the refinement, each call is shown to add the segment to the reader's table that
  `PlainMap` adds.

`DeepMergeProofs` proves, for all keys and literals (`EntriesAssumption`):

* `Merged`, that `MergedButForGaps` holds, and `EnclosingUntouched`, that
  `OuterUntouched` holds. Before each entry, a literal without a gap has built the
  leaves of the entries that ran (`SoFar`).

`BuiltinsProofs` proves, for lists of every length and all answers and failures
of elements and callbacks (`ListAssumption`):

* `PredicatesDecided`, `StablySorted`, `FailureExplained`, that `PredicatesDecide`,
  `SortsStably` and `FailsWithItsParts` hold. The invariant says of each task what
  its phase and its entry of the matrix tell about the callback. For `sort` a lemma
  shows that a total order on 1..n has an arrangement, without which the model
  would let `Array.prototype.sort` return the elements in any order.

`RuntimeProofs` also proves, for every `NIX_PATH`, number of lookups and number of
changes (`ExportAssumption`):

* `TrueOnce`, that `AnswerWasTrue` holds. The invariant says that what a running
  lookup has passed was missing, and that what is there, or is not, at present has
  been recorded (`Watched`).

`BuiltinsProofs` also proves, for every set of versions:

* `TypeCorrect`, and `Ordered`, that `OrderedButForWords` holds. The invariant says
  that all components before the present one tie, in the code's comparison and in
  Nix's; a lemma relates the two on one pair of components.

`CommandLineProofs` proves, for every number of revisions:

* `TypeCorrect`; `MapFirst`, that `MapNotOlder` holds; `SuccessIsComplete`, that
  `OkIsComplete` holds. The order of the two writes is only safe because revisions
  grow: the invariant adds that nothing written is newer than what was read last
  (`NothingNewer`), that the files are untouched until the first write
  (`UntouchedYet`), and which arguments lead to which step (`StepsFit`).

Only model-checked:

* liveness (`Terminates`, `EveryRequestSettles`, `Answered`, `Settles`), which is
  out of reach of the provers;
* `AcceptsWellScoped`: the reference is an operator defined by recursion over the
  syntax tree, with which the provers cannot work. (Induction as such is available:
  the library's least-number principle for sets of numbers needs no operator as a
  parameter, and carries the proofs about scopes, promises and the nesting of the
  output.)

## Plan

Everything in the inventory that keeps state is modelled, and every safety property
of the runs but `AcceptsWellScoped` is proved. Left to model: an abstract memoised
loader that `ImportCache` implements.

## Not modelled

* The other operators and builtins: one-line wrappers around functions on numbers,
  strings and lists, without state of their own; those that await do so in the way
  of `binop_helper` and `tryEval`.
* The anchors of `export` other than `Store`, and `pathExists`: a path joined, one
  file access.
* The WebAssembly wrapper: passes strings through `translate`, stateless.
* Build files and examples.
* A float literal outside the range of f64, which makes the translator panic; the
  model has the status `panic`, and the code promises nothing there.
