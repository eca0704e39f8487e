# Verification of ps_engine

TLA+ models of the PS Engine, a Firebird external engine that reloads the user
module under running calls, and of the program that tests it, down to its wrapper
of the Firebird client library. TLC checks the models on small instances; TLAPS
proves every safety property that the passing runs check, and that the engine
implements its abstract specification, for every number of threads, modules,
builds, jobs, statements, texts and rows.

## The system

| Part | State it keeps | Operations | Hard behaviour |
|---|---|---|---|
| `PSEngine` (`ps_engine.cpp/.h`) | `module` (shared_ptr), `funcs`, `engine_mutex` | `initialize`, `makeFunction`/`getOrAddFunc`, `rebindFunction`, `reloadModule`, `getModuleInfo` | reload while functions run; load outside the lock |
| `PSEFuncImpl` (`pse_function.cpp/.h`) | `exec_proc` (raw address), `weak_module_ptr`, `func_mutex` | `lock_module`, `execute`, vtable entry with `catch` | address and weak pointer are two variables; promotion races with replacement; exceptions of user code |
| `PSModule` (`pse_module.h`) | `handle`, `memfd`, `pmod`, entry table | `load`/`dlmemopen`, destructor | error paths; descriptor and link map addresses are used again |
| Test master and threads (`test/test_pse`) | `running_count`, `test_failed`, errors, reloader handle | start/finish a thread, fail, report, reloader loop | which thread ends the program, failures that come late, the 20 s timeout |
| Routine metadata (`meta_cache.h`, `ps_engine_iface.h`) | field descriptions copied at creation | constructor, look-ups | stale after a redeclaration |
| Result texts (`return_result_text`, elapsed times) | none | copy with a cut to 16 bits | widths, declared length |
| Query wrapper `IFBQuery` (`ps_module/fb_iface`) | statement, cursor, descriptions, buffers, table of column names | prepare, set parameters, open, fetch, read, close | every call may throw, also in the destructor; conversions and their ranges; who owns a string |
| Example module (`ps_module/my_sum_args`) | none | a sum computed by a query | NULLs, widths, exceptions between its steps |
| Client wrapper (`fbaccess`) | connection, transactions, statements with their descriptors and name tables | connect, start/commit/free, prepare, set parameters, execute, fetch, close | every server call may fail half way; re-execution; rewriting of named parameters |
| Test configuration, `so_test_load`, factory and vtable glue, vendored Firebird headers | - | - | none of interest here |

Interaction: the Firebird core calls `makeFunction` and `execute` from its own
threads; an execution locks `func_mutex`, copies the address, promotes the weak
pointer, and either runs or rebinds through the engine (`engine_mutex`, then
`func_mutex`). A reload builds a `PSModule` without a lock and publishes it
under `engine_mutex`. Whoever drops the last `shared_ptr` runs `~PSModule`. The
test program is a client process that makes such calls through SQL, with
`fbaccess`: a connection, its transactions and statements for each test. Inside
an execution the user function reads its arguments by the description that was
copied when the function object was made, works through `IFBQuery` on the
attachment and transaction of the caller, and writes the result by that
description.

What makes each part correct: no call runs code that is unmapped or of another
copy than the one it holds; a replaced copy is finalized and unmapped once, after
its last user, and always in the end; every error path gives back what it took;
the verdict of the tests is given once, after all of them, and knows every
failure; a statement executes its present text with the values that were set,
and neither a failure nor a re-execution leaves anything behind in the server or
a pointer into freed memory; a function returns the right value to every database
that declares it, and its query leaves nothing behind however it ends.

## Modules

| Module | Models | Role |
|---|---|---|
| `PSEngine` | engine, function objects, life of `PSModule` objects | the core |
| `PSEngineInv` | - | the inductive invariant `IInv` and its parts |
| `PSEngineProofs` | - | TLAPS proofs |
| `HotReload` | - | abstract promise: staged, current, retired, pinned |
| `HotReloadProofs` | - | the promise is safe |
| `PSEngineRefines` | - | `PSEngine` implements `HotReload` |
| `PSEngineRefinesProofs` | - | the refinement, step by step |
| `PSEngineClients` | the callers | `PSEngine` with a bounded number of calls |
| `PSEngineHistory` | - | the same with the build that was current when a call began |
| `ModuleLoader` | `dlmemopen`, `~PSModule` against descriptors and link map | the loader in detail |
| `ModuleLoaderInv`, `ModuleLoaderProofs` | - | its inductive invariant and the proofs |
| `TestMaster` | `test_master.c`, `pse_tests.c` | the test program |
| `TestMasterInv`, `TestMasterProofs` | - | its inductive invariant and the proofs |
| `SqlScan` | `PreprocessSQL` | the parameter scanner as recursive functions, and SQL's lexical rules as its reference |
| `MetaCache` | `meta_cache.h` | layout of messages and the copied description, as operators |
| `MetaCacheProofs` | - | lemmas about that layout |
| `ResultText` | `return_result_text`, `print_human_time_elapsed` | operators with the widths of the code |
| `IFBQuery` | `fb_iface.cpp` | the operations of a query, as sets of outcomes |
| `UserCalls` | `my_sum_args.cpp`, the functions that return a text, the callers of `IFBQuery` | composes the three, with declarations in several databases |
| `UserCallsInv`, `UserCallsProofs` | - | its inductive invariant and the proofs |
| `FbStatement` | databases, transactions and statements of `fbaccess.c` | the client wrapper |
| `FbStatementInv`, `FbStatementProofs` | - | its inductive invariant and the proofs |
| `MC*` | - | instances for TLC |

Each module composes by `EXTENDS` (`PSEngineClients`, `PSEngineInv`,
`PSEngineRefines` over `PSEngine`, `PSEngineHistory` over `PSEngineClients`,
`FbStatement` over `SqlScan`, `UserCalls` over `IFBQuery` and `ResultText`, and
these over `MetaCache`; each `*Inv` over its component, each `*Proofs` over the
`*Inv` or the component, `UserCallsProofs` also over `MetaCacheProofs`) or
`INSTANCE` (`HotReload` in `PSEngineRefines`). The runs check the `*Inv` modules,
so that TLC evaluates the inductive invariants and every assumption. Operators
whose comment begins with "Mutant"
are wrong versions of the operator below them; replacing the one by the other
makes TLC report the property named in `PROJECT.json`.

### PSEngine against the code

An action is one stretch of code between two points where another thread can
interfere. `pc[t]` names the point. A local raw pointer is `mod`, the copied
address `eproc` (kept as the module it points into), `temp` the local
`shared_ptr` (`temp_shared_ptr` of `execute`, or the old value released inside
`module.reset`), `dying` the object whose destructor the thread runs, `exc` the
module whose exception is in flight.

| Code | Actions |
|---|---|
| `initialize` (two loads, results ignored) | `Initialize`, then a reload |
| `makeFunction`, `getOrAddFunc` | `CallMakeFunction`, `MakeLock`, `MakeFound`, `MakeAdd`, `MakeFail` |
| `execute`, `lock_module` | `CallExecute`, `LockModule`, `Promote`, `RunEnd`, `Catch` |
| `rebindFunction` | `Rebind`, `RebindFail`, `RebindLock`, `RebindProc`, `RebindWeak` |
| end of a `shared_ptr`, `~PSModule` | `Drop`, `Fini`, `Close` |
| `reloadModule`, `load` | `ReadFile`, `ReadFail`, `Open`, `OpenFail`, `InitModule`, `Publish`, `Count` |
| `doGetModuleInfo` | `InfoLock`, `InfoRead` |

Reference counts are not stored: `StrongRef(m)` says that the engine or a thread
holds one. An identity of `Modules` is used again only when no pointer of any
kind names it (`Fresh`); an address that stays behind in a function object thus
stays recognizable, which is what the properties ask about. `Install` is the
developer's build; `Versions` orders builds by installation.

Two simplifications of data: the entry table of a build is the set of its
function names; a metadata error in `makeFunction` is a free choice
(`MakeFail`).

### HotReload and its refinement

`HotReload` knows nothing of locks: a copy is absent, staged, current or
retired; a thread pins at most one copy. A call may pin the current copy or a
retired one that somebody still pins, and only retired unpinned copies are
unloaded. `phaseOf` maps a copy to "absent" unless it is initialized, to "staged"
while the loading thread alone knows it.

### ModuleLoader

`dlopen` is keyed by the path `/proc/self/fd/N`, and descriptors and link map
addresses are used again, so the order of `dlclose` and `close` matters. Memory
files, descriptors and link map entries are explicit; `dlopen`, `dlclose` and the
kernel are external, modelled by what the code relies on. The installed file is a
module, a library without `pse_module`, or not loadable at all. The second kind
leaves a stale handle (`dlclose_twice`); the history variable `stale` marks that,
and the properties of mappings are stated for what happens before it.

### TestMaster

A job is the path of the threads that started it: `<<>>` is `main_test_thread`,
`<<d>>` the thread of database d, `<<d, i>>` its i-th `fn_test_thread`. A section
that holds the master's lock is one action. SQL operations succeed or fail
freely; thread pool, alertable thread and `xapp` are the xsi library's. `broken`
is a history variable. A reload that the engine refuses is a NULL result and not
an error, so it counts as done here as in the code.

### SqlScan and FbStatement

A text is a sequence of character classes. `PreprocessSQL` gives the markers it
finds and the text with `?` in their place; `Skip` is the part of the loop that
jumps over comments and quoted text, `Marker` the part that reads a name.
`Modes` reads the same text as the server does, one character after the other.

The client library is external: every call of it may fail, and what it answers is
a free choice within its contract. A function of `fbaccess.h` on a statement
record `q` is an operator that returns the set of its outcomes, the result and
the new record, so that `fb_exec_sql` calls `fb_prepare_sql` as the code does; an
action (`PrepareSql`, `ExecSql`, ...) picks one of them.

| Field | Code |
|---|---|
| `hStatement`, `params`, `names`, `fields`, `fieldNames`, `mEOF`, `text`, `tr` | `hStatement`, `pParams`, `pParamNames`, `pFields`, `pFieldNames`, `mEOF`, `pSQLText`, `pTransaction` |
| `srv` | the server's statement: text, kind, number of fields, cursor |
| `leaked`, `want`, `sent` | history: a server statement without a handle; the values promised to the client; what was executed last |

`handle` is the set of transactions with `TRHandle # 0`. A cursor is an "orphan"
when a failed commit dropped the handle of its transaction, which the server
keeps. Dropping a statement on the server is taken to succeed: `fb_close_sql` ignores
its error (`fbaccess.c:1164`) and forgets the handle, so a refusal would lose the
statement on the server whatever the client does. The client keeps three rules
that the test program keeps: it frees no transaction that a statement still names,
it ends transactions before it disconnects, and frees statements and transactions
before the database.

Left out: strings, blobs, floating-point values, the conversion of fields, error
texts, transaction parameters.

### MetaCache, ResultText, IFBQuery and UserCalls

A message is a function from offsets to cells; a cell is what is read or written
at once (32 bits, a character, a NULL flag), so a BIGINT has two and a VARCHAR one
more than its length. `set` is `PSEMsgMeta::set`, `Message` and `Result` are
Firebird's half: it writes and reads by the declaration of the caller's database,
the function by `meta`. `OneCell` and `Over` are `:>` and `@@` of TLC, written out
because the provers cannot expand those. Where the two differ, a cell outside the message or not
written holds anything. Alignment is left out: it changes at which offsets the
two differ, not that they do.

`return_result_text` is the set of cells it writes, so that what lies outside
the message shows. A number is scaled as the code does it, in doubles: `Double` is the
nearest fraction whose mantissa has `DoubleBits` bits (53 in the code), and each
intermediate result is rounded to one. `MCUserCalls` compares the operators with
their references: `print_human_time_elapsed` (`ElapsedAssumption`), `Double`
(`DoubleAssumption`), scaling and rounding (`ScaleAssumption`), `__vax_integer`
(`VaxAssumption`).

`IFBQuery` is written like `FbStatement`: an operation is the set of its
outcomes, and Firebird may throw at each of its calls; the look-ups in the
descriptions of messages, which change nothing, throw in one action,
`LookUpThrows`.

| Field of a query | Code |
|---|---|
| `held` | members that are not NULL: `att`, `tra`, `stmt`, `curs`, `in_meta`, `out_meta`, `in_buffer`, `out_buffer` |
| `in`, `row` | contents of `in_buffer` and `out_buffer` |
| `names` | `field_names` |
| `at`, `rows` | the cursor's position, and a history of what it delivered |

| Code | Actions of `UserCalls` |
|---|---|
| `CREATE OR ALTER`, `DROP FUNCTION`, a server's restart (external) | `Declare`, `DropFunction`, `Restart` |
| `PSEFuncImpl` constructor, then `execute` | `BeginCall` |
| `do_exec_my_sum_args`, `perform_my_sum_args` | `ParseArgs`, `BuildQuery`, `Prepare`, `BindArguments`, `OpenCursor`, `TakeSum`, `CloseQuery`, `DestroyQuery`, `WriteSum` |
| `getFieldIsNull`, `fieldIdxByName`, `getMetadata` and the like, when Firebird throws | `LookUpThrows` |
| `execSpecReloadModule`, `execSpecGetModuleInfo` | `ExecSpec` |
| a function that reads rows (external) | `ReadNumber`, `ReadString`, `NextRow`, `EndLoop` and the steps of the query |

The function that reads rows stands for the user functions the project is made
for: a loop `while (!eof()) { ... next(); }` over a column read by its name. It
keeps two rules that the code does not enforce: it forgets a pointer after a
failed `fbn_as_string_realloc`, and a query object serves one text. An exception
in the destructor ends the process (`terminated`). A cast of a number out of range
gives one of the ends of int. One call at a time is enough, as calls of a function
share only its description, which is written once (under `engine_mutex`; two
creations at once are `PSEngine`'s `IInv`).

Left out: floating-point columns, the characters of strings, character sets.

## Runs

| Run | Question | Instance |
|---|---|---|
| `engine_safety` | safety of the engine, `IInv`, two action properties, `HotReload` as its abstract specification | 3 threads, 4 modules, 1 function, 3 builds; the second build lacks the function, the third has it again |
| `clients_liveness` | every call returns; what is retired is unloaded; afterwards only the current copy is loaded | 2 threads, 3 calls each |
| `stale_invocation` | violation: a new call runs the old build | as above, both builds have the function |
| `exception_lost` | violation: an exception outlives its module | 2 threads |
| `older_build` | violation: the older build is published last | 2 threads |
| `loader` | mappings and descriptors are balanced on every path; `LoaderInv` | 3 objects |
| `dlclose_twice` | violation: a stale handle closes another module | 3 objects |
| `tests_end` | the verdict of the tests, and that they end; `TestInv` | 2 databases, 1 thread each, 1 test per thread |
| `failure_silent` | violation: a recorded failure is never reported | 1 database |
| `statements` | life of a statement, its parameters, transactions and the rows it shows; `StatementInv`; the scanner against SQL | 1 statement, 2 transactions, 4 texts |
| `user_calls` | results of functions, release of queries, rows, strings; `CallInv` | 2 databases; 2 declarations of `my_sum_args`, 4 of a text function; 3 statements of at most 2 rows |
| `redeclared` | violation: declarations that are identical now | as above |

Bounds. Three threads are one that executes, one that reloads and one that
rebinds or drops the last reference; a module can be current, held by each
thread, and in loading, so four identities cover three threads (a reload that
finds none free waits for one; reads of the file can also fail, so nothing is
stuck). Three builds and a function missing from the second reach every branch of
`rebindFunction`, and a function object that outlives the loss. One function is
enough for the engine's safety: function objects meet only in the engine's own
variables, which the threads contend for already; the proofs cover any number. `MaxCalls = 3` lets a thread make a function, execute it and
reload. Symmetry is used for safety only. `CHECK_DEADLOCK FALSE` is set where the
program really stops: clients without calls, the ended test program.

Statements meet only in their transactions and connection, so one statement and
two transactions (its own, the default one, or one it was moved away from) are
the whole conflict. The four texts are one with a `?`, one with
the same name before and behind a quoted text that looks like a third, one that
the scanner reads differently from SQL, and one without parameters. The value 6 does not fit the 3 bits given to
`SQL_SHORT` and fits every other type. `ScannerAssumption` compares the scanner
with the reference on every text of at most five characters, which is enough for
each construct with something before and behind it; texts with an r in a comment
to the end of the line are left out, since the scanner ends the comment there. The transactions are
symmetric.

`my_sum_args` is declared with three integers or with a BIGINT in front, which
moves every later offset. Ints have 3 bits: the arguments are both ends of the
range, -1 and NULL, so sums reach the smallest int, its neighbour and both sides
of the range. The texts have 1 to 5 characters for fields of 2 and 3, with a short
of 3 bits, so a text may be shorter than the field, fill it, not fit, and be longer
than a short can say; a field may be of another type. Doubles have 4 bits, more
than an int and fewer than a column. The rows have numbers with a decimal, longer
than a double, out of range and NULL; strings are empty, not empty and NULL;
two rows are a first and a next one.

Fairness. `FairSpec` and `ClientSpec` ask only that a thread inside a call goes
on (`WF` of its steps): server threads are preemptive, user code is assumed to
return. Nobody has to call or install. With weak fairness alone a thread may lose
a mutex to others for ever (`std::mutex` is not FIFO) and `execute` may have to
rebind again after each reload; therefore `CallsReturn` is stated for a bounded
number of calls, and the hazard list says so. `UnloadsRetired` needs no such
bound: once the last reference is gone the destroying thread waits for nobody.
In `TestMaster` every thread is fair, that is, SQL calls return.

## What the violations show

1. `stale_invocation`: `execute` asks its weak pointer first, so a call begun
   after a switch runs the replaced build while any other call still holds it.
   The document says that all new invocations bind to the new version.
2. `exception_lost`: an exception object thrown by user code belongs to the
   library; unwinding `execute` may unload it before the `catch` reads it.
3. `older_build`: concurrent reloads may publish in the other order than they
   read the file.
4. `dlclose_twice`: `dlmemopen` closes the library when `dlsym` fails and leaves
   `handle` set; the destructor closes it again.
5. `failure_silent`: `perform_pse_tests` ignores that the first thread was
   refused; the program then waits for an end nobody announces.
6. `redeclared`: the description of a function's messages is taken from its first
   declaration and kept until the server ends. Altering the function in every
   database leaves all declarations identical, which is what the document asks
   for, and still the arguments are read at the old offsets.

Seen in `fbaccess.c` and modelled as it is, with no document that says otherwise:
a value given to an active statement is lost, since the next execution closes and
prepares it again; an execution that the server refuses leaves the statement
active and not at its end; an error of the server when a statement is dropped is
ignored; a commit that fails drops the transaction's handle; a
number is cut to the width of its parameter; a comment to the end of the line
also ends at the letter r (`'r'` where `'\r'` is meant), so a legal text may be
refused; a value set by name may be refused after some occurrences were written.

Seen in the engine, the example module and `IFBQuery`, and modelled as it is: a
text that fills its VARCHAR is refused although its length is written, and a
longer one for a CHAR is written past the field; every VARCHAR that is not empty
is refused as a string; a failed `fbn_as_string_realloc` leaves the caller's
pointer to the block it has freed; `close` may throw in the destructor. The test
program counts a reload that the engine refused.

## Proofs

Each component has an inductive invariant in its `*Inv` module, which a run checks
first, and the theorems follow from it. A proof has a lemma per operation with a
case per action or outcome; in a case, each part of the invariant that rests on
another one has a step of its own.

| Module | Invariant | What it gives | From |
|---|---|---|---|
| `PSEngineProofs` | `IInv` | `TypeCorrect`, `LiveCode`, `LivePointers`, `Agreement`, `OneDestruction`, `NoLeak`; action properties `BindsCurrent`, `NoFinalize` | `ConstantsAssumption` |
| `PSEngineRefinesProofs` | `IInv` | `EngineRefines` (`PSEngine` implements `HotReload`), `EngineKeepsPromise` | the same |
| `ModuleLoaderProofs` | `LoaderInv` | types, `DescriptorsOwned`, `LoadedIsOwnCopy`, `MappingsCounted` | `LoaderAssumption` |
| `TestMasterProofs` | `TestInv` | types, `VerdictAfterAllTests`, `VerdictKnowsAllFailures` | `TestAssumption` |
| `FbStatementProofs` | `StatementInv` | `NamesLive`, `StatementsTracked`, `ExecutesWhatWasSet`, `EOFPreventsFetch`, `CursorInOwnTransaction`, `RowsOfLastExecution`; under a hypothesis each, `NamesMatchText` and types | `FbAssumption`, `NoneAssumption` |
| `UserCallsProofs` | `CallInv` | types, `ReturnsSum`, `TextReturned`, `QueryReleased`, `RowsReadOnce`, `StringsOwned`; `IntegersAreRead`, `ElapsedIsExact` | `UserCallsAssumption`, `CellAssumption` |
| `MetaCacheProofs` | - | lemmas about messages | `CellAssumption` |

**`IInv`.** `RunsLiveCode` alone is not inductive: that the address copied under
`func_mutex` is code of the module promoted afterwards needs `BindingInv` (the
pair agrees outside the two assignments of `rebindFunction`), which needs
`MutexInv` (who is inside which critical section) and `RawInv` (the raw pointer
checked under `engine_mutex` is still the current module when it is stored).
That a promoted module is live needs `StrongInv`; that a destructor never meets a
module with a reference needs `DyingInv`; that no reload touches a module known
to others needs `LoadingInv`; that a reused identity is nobody's needs
`BindingInv` again, which allows stale addresses only to free identities or
modules that have the function. `NameInv` ties a call to its function object.

**The refinement.** `HotReloadProofs` proves the promise safe by itself. Then
`PSEngine`'s initial states map to initial states, and every action, in a state of
`IInv`, to one step of `HotReload` or a stutter: `InitModule` stages, `Publish`
makes current and retires the one before, `Promote` pins (the promotion works, so
the copy is current or somebody else still pins it: `StrongInv`), `Drop` unpins,
`Fini` unloads (only what nobody pins: `DyingInv`), and all other steps stutter.
`EngineKeepsPromise` is the safety of the promise, carried over to the engine.

**`LoaderInv`.** The counts of `MappingsCounted` alone say nothing about whose
reference is whose. `FieldsInv` says which members are set at each stage,
`HandleInv` that a handle used leads to the entry opened by the object's own
descriptor, `LinkInv` that each entry has such an object; the last two hold
until the first failure of `dlsym`, which is what `dlclose_twice` shows.

**`TestInv`.** `running_count` is the number of jobs that have not yet called
`tm_thread_done` (`CountInv`), so the job that takes it to 0 is the last, for any
tree of jobs. `FailureInv` follows a failure from the place it happens
to the flag it is recorded in and into the verdict. `TestAssumption` asks for a
finite set of databases, since jobs are counted.

**`StatementInv`.** A record is bare, prepared, active or executed; the
parts say for each stage which tables exist, that the server's half has one
owner, and what the scanner found in the present text. That the values sent are
those that were set needs the same about the values in the descriptors before
(`PreparedInv`), and that a cursor is in the statement's own transaction needs
that only active statements have one. That no row of an earlier execution is
shown after a refused one rests on the close that begins an execution, which leaves
the statement bare. Two theorems carry a hypothesis about the
scanner, whose recursion is out of reach: `NamesOfPresentText`, that it
finds the names SQL finds in the texts that can be prepared, and
`StatementTypes`, that what it takes from a text is made of the text's
characters. `MCFbStatement` states both as assumptions, so that TLC evaluates
them for the texts of the run.

**`CallInv`.** `QueryInv` says what the query holds at each step and how many
rows the function has read against where the cursor is: only with that is a row
neither lost nor read twice when `openCursor` has fetched the first one itself.
`AnswerInv` follows the sum from the arguments through the parameters and the row
of the query to the result; with one declaration since the start of the server
the description is that of the caller's database. `ValuesInv` gives the types
of everything on the way. `UserCallsAssumption` says what the code relies on of its
environment: the statement of `my_sum_args` has three integer parameters and a
BIGINT column, the declarations of the function are three INTEGER or BIGINT
arguments and an INTEGER result, no field is longer than a short can say
(Firebird has no longer VARCHAR; the texts may be longer), and a double tells every
int from every other (53 bits against 32).
`MetaCacheProofs` gives what that rests on: fields do not overlap, a value put in
a message is found by the description, a flag too. They are stated for messages
of at most three fields, which is what the functions here have; offsets are
defined by recursion over the fields, and the induction for any number is out of
reach. That a power of two is positive comes from the number of subsets of a finite set.

`IntegersAreRead` and `ElapsedIsExact` are about arithmetic. The first says what
`tryAsInt` and `asInt` make of a column without scale whose number a double can
hold: `asInt` gives every int as it is, `tryAsInt` refuses the two smallest, and
beyond the range both give an end of it. The second says that the printed units
add up to the elapsed seconds. For a column with a scale the two roundings of the
code, to a double and to an integer, are not that of the exact number: 24 with
scale -1 is read as 3 where doubles have 4 bits, as 499999999999999999 with scale
-18 is read as 1 in the code. What holds there is evaluated by the runs only, for
the numbers that `ScaleAssumption` names.

Only model-checked:

- liveness (`UnloadsRetired`, `CallsReturn`, `OnlyCurrentStays`, `TestsEnd`) and
  fairness, which are outside the prover's reach;
- what recursive definitions compute for every input, which needs induction over
  data: the scanner against SQL (`ScannerAssumption`), the two hypotheses above,
  `__vax_integer` (`VaxAssumption`), doubles and scaled numbers (`DoubleAssumption`,
  `ScaleAssumption`);
- what the code does not have: the properties of the violation runs.

## Not modelled, and the plan

Next, in this order:

1. proofs: the clients' layer (`PSEngineClients`, `PSEngineHistory`) keeps the
   engine's invariant, and the steps of the liveness arguments that are safety
   (who may hold up a reload or a rebind);
2. strings and blobs of `fbaccess.c`: a blob belongs to a transaction, and a
   statement may be moved to another one between the write and the execution.

Every function of the implementation outside the vendored headers that changes
state is modelled. `IdlFbInterfaces.h` and `Interface.h` (16,900 of the 18,700
lines under `include` and `src`) are Firebird's own generated declarations, with
nothing of this program in them.

Not modelled: the configuration parser (sequential text processing), vtable
macros and plugin registration (no state), `so_test_load`, vendored headers,
build files. File and load times in the module info are left out; only the text
shows them. That has a price in hazards no model reaches:

- `pse_module.h:96` takes the file time after the contents were read, so it may be
  that of a newer build, and a clock set back makes the elapsed time of
  `ps_engine.cpp:180` negative;
- the length given with the transaction parameters (`fbaccess.c:744`) is one short;
- a string of `fbaccess.c:2220` that fills its parameter loses the terminator, and
  each one shrinks a CHAR;
- a CHAR of `fb_iface.cpp:304` has no 0 behind it;
- the column table of `fb_iface.cpp:235` survives `close`, but no function here uses
  one query for two texts;
- references are lost if `getTransaction` (`fb_iface.h:66`) or a set of
  `meta_cache.h:90` throws.
