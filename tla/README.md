# A TLA+ verification of Elune

Elune is a C implementation of Lua 5.1 with the security extensions of the
World of Warcraft client: every value, object and thread carries a *taint*, and
reading tainted data taints the code that reads it. The modules in this
directory model the parts of the virtual machine where a defect would hide
between two steps (a taint that is lost when control changes hands, an object
freed because a store and the collector interleaved badly), TLC checks them on
small instances, and TLAPS proves the central invariants for all instances.

Source references are to `src/`. Definitions keep the names of the code where
TLA+ allows it; `PROJECT.json` maps each definition to its lines.

## 1. The system

| Component | State | Operations | Interacts with |
| --- | --- | --- | --- |
| Taint primitives (`lsec.h`, `lmanip.h`) | per thread: `taintflags`, `stacktaint`, `writetaint`, `fixedtaint`, `newgctaint`, `newcltaint`; per value and object: `taint` | `luaR_taintstack`, `luaR_taintvalue`, `luaR_taintalloc`, `luaR_savetaint`, `luaR_loadtaint`, `luaR_taintthread` | every opcode and API function |
| Interpreter (`lvm.c`) | `CallInfo` frames, registers, `savedpc` | opcodes; `reentry` pins `fixedtaint` | calls, GC, hooks |
| Calls and errors (`ldo.c`) | `ci`, `nCcalls`, `baseCcalls`, `errorJmp`, `errfunc`, `nopencalls` | `luaD_precall`, `luaD_poscall`, `luaD_call`, `luaD_pcall`, `luaD_throw`, `luaD_unwindci` | interpreter, coroutines, profiling |
| Coroutines (`ldo.c`, `lcorolib.c`) | `status`, the C stack of resumes | create, resume, yield, `coroutine.call` | taint is handed over at every switch |
| Taint barriers (`lauxlib.c`, `lapi.c`, `lseclib.c`) | a saved `lua_TaintState` in a C frame | `securecall`, secure delegates, `lua_protecttaint`, `forceinsecure`, the `debug.set...taint` functions | calls, errors |
| Garbage collector (`lgc.c`) | colors, `gcstate`, `gray`, `grayagain`, `weak`, `sweepgc`, `tmudata` | `singlestep`, `luaC_fullgc`, barriers, `GCTM` | every allocation and store, finalizers run program code |
| Closures and upvalues (`lfunc.c`) | `openupval`, `uvhead` | find, close, free, join | GC, threads |
| Strings (`lstring.c`) | the `strt` hash | intern, resize | GC revives and sweeps them |
| Tables (`ltable.c`) | array and node parts | get, set, rehash, next, border | GC barriers, taint |
| Memory (`lmem.c`) | `totalbytes`, `bytesallocated` | realloc, grow | GC pacing, `LUA_ERRMEM` |
| Profiling (`ldebug.c`, `lapi.c`) | `entryticks`, `startticks`, `nopencalls`, function and source statistics | enter, leave, resume, collect, reset | calls, errors, coroutines, GC |
| Hooks and the execution limit (`ldebug.c`, `ldblib.c`, `lvm.c`) | `hookmask`, `hookcount`, `allowhook`, `execcount` | `traceexec`, `luaD_callhook`, "script ran too long" | interpreter |
| References, buffers (`lauxlib.c`) | free list in the registry, buffer pieces | `luaL_ref`, `luaL_unref`, `luaL_Buffer` | tables |
| Package loader (`loadlib.c`) | `package.loaded`, the sentinel | `require`, loaders | protected calls |
| Libraries (`lstrlib.c`, `ltablib.c`, `liolib.c`, ...) | little | pattern matching, `table.sort`, file handles | API |
| Front end (`llex.c`, `lparser.c`, `lcode.c`), chunks (`ldump.c`, `lundump.c`) | parser state, jump lists | load, dump | GC (prototypes) |
| Programs (`src/lua`, `src/luac`) | signal hook | REPL, compiler | everything |

### What is hard

* **Control hand-overs.** A taint lives in the thread that runs. It must follow
  control through calls, tail calls, metamethods, finalizers, hooks, resumes,
  yields, errors and barriers, each of which copies, pins, saves or restores a
  different subset of six fields. `writetaint` is a cache; `fixedtaint` is valid
  only inside a Lua frame; `savedtaint` is not initialised by a new frame.
* **Interleaving with the collector.** The collector advances by small steps at
  allocations; the program writes between any two of them. Correctness rests on
  barriers, on one link field per object, on a few objects being traversed
  again atomically, and on strings and upvalues being revived before they are
  swept.
* **Partial failure.** Errors are `longjmp`s: whatever a C function meant to
  restore after a call stays undone unless the catcher does it.
* **Re-entry.** Finalizers, metamethods, hooks and coroutines run arbitrary code
  in the middle of another operation.

What makes each component correct, in the order the hazards matter:

* taint: the context of execution changes only by reading or by leaving a
  barrier; a value computed by a tainted closure keeps a taint; caches agree;
  finalizers and barriers give back what they saved;
* collector: nothing usable is freed; black never refers to white while
  marking; the lists are exact; weak entries are not lost early; a finalizer
  runs once, before its object is freed; garbage is freed in the end;
* calls: counters return to what they were on every way out; limits raise an
  error that can still be handled;
* tables, strings, references, sort, patterns: agreement with a reference
  definition for every bounded input, whatever happens between two calls;
* compiler and interpreter: a chunk does what its text means, and the
  assertions of the compiler hold;
* hooks: they do not nest, are allowed again however one ended, and come as
  often as asked;
* profiling: no moment is counted twice.

## 2. The modules

| Module | Models |
| --- | --- |
| `TaintState` | the taint fields of a `lua_State` as one record, each `luaR_` primitive as an operator on it |
| `TaintVM` | threads, `CallInfo` frames, the C stack, and every way control moves between them |
| `TaintContext` | the abstract promise: one taint context and a stack of saved ones |
| `TaintVM_proofs` | theorems: types, the shape of the stacks, saved taints are initialised, the write taint agrees with the stack taint; `TaintVM` implements `TaintContext`; where `fixedtaint` is set and what it says, with hooks and without; finalizers give back the taint; what tainted code computes stays tainted |
| `LuaGC` | the collector and the program it interleaves with |
| `HeapContract` | the abstract promise of a garbage-collected heap |
| `LuaGC_proofs` | theorems: types, gray objects are linked once; nothing usable is freed, the tri-color invariant; `LuaGC` implements `HeapContract`, weak tables keep what can be reached |
| `Calls` | the `CallInfo` arrays, the counters and limits of calls, error handlers, coroutines |
| `Calls_proofs` | theorems: the C stack, handlers, yields, counts of open calls |
| `Hooks` | count and line hooks, the execution limit, the signal of the standalone interpreter |
| `Hooks_proofs` | theorems: hooks never nest, count events and looks at the clock come as often as asked |
| `Profiling` | ticks and open calls of closures, statistics per source |
| `Profiling_proofs` | theorems: no tick is counted twice, own times add up |
| `LuaTable` | array and hash part, rehash, `next`, the border search |
| `StringTable` | interned strings, resizing, the sweep bucket by bucket |
| `StringTable_proofs` | theorems: no text has two strings, a sweep misses none |
| `References` | `luaL_ref` and `luaL_unref` |
| `References_proofs` | theorems: references keep their values, the free list |
| `TableLib`, `Pattern` | `table.*` and the pattern matcher of `string.*` |
| `TableLib_proofs` | theorems: edits move every element to its place, a sort loses none and sorts |
| `CodeGen`, `CheckCode`, `Parser` | `lcode.c`, `luaG_checkcode`, `lparser.c` from a grammar tree to a prototype |
| `Values`, `Execute` | values, and `luaV_execute` on the prototypes `Parser` makes |
| `Meaning` | the reference: what a grammar tree means, evaluated directly |
| `Language` | composes the last six: load a chunk, call it |
| `MCParts` | one composite run for the parts that share no state |
| `Programs` | the chunks that run compiles |
| `MCTaintVM`, `MCLuaGC`, `MCProfiling` | symmetry sets, the steps of a program without setters of taint, and the assignment of functions to sources, for TLC; the `.cfg` files give the constants |

### TaintVM

A value is its taint (and, as history, the taint of the closure that computed
it). A frame has one register; globals, upvalues and table slots are a few
shared cells. The C stack is one sequence of *activations* over all threads,
since an OS stack is what it is in the code: each C function that re-enters the
interpreter (`lua_pcall`, `luaL_pcallas`, `lua_protecttaint`,
`f_securedelegate`, `GCTM`, a metamethod call, a hook, `lua_resumefrom`,
`aux_cocall`) leaves one, with the C locals that outlive the call: the saved
taint state, for those that are barriers, and the saved `fixedtaint`. An error
runs from the top of that stack to the innermost catcher (`Throw`, `Catch`), and
the rethrowers it crosses (peeking and delegates) restore their saved state on
the way, while `GCTM` and hooks do not.

`Lib` selects the library functions a run includes, so that a run spends its
states on one question. `"gcerror"` (a finalizer that raises an error) and
`"gctaint"` (`LUA_COMPATGCTAINT`, no run uses it) are environment choices of the
same kind. `TaintContext` has no threads or frames: reading may set the taint,
entering a barrier pushes the context, leaving one (or several, by an error)
restores the matching one. `OneContext` is the refinement: the context is the
taint state of the running thread and the saved contexts are those of the
activations that are barriers.

### LuaGC

Objects are names that are allocated, freed and allocated again. A collector
list is a set, and a step takes any member, so all list orders are covered; the
chains `rootgc`, `strt` and `openupval` are sets for the same reason, and
`unswept` is what `sweepgc` and `sweepstrgc` have not visited. `Program` has one
action per kind of store, with the barrier the code has there: forward barriers
for userdata, upvalues and closures, backward for tables, none for stacks.
`Atomic` is the whole atomic phase; since it only follows the graph from what is
left to traverse, its four `propagateall` calls are two closures, before and
after `luaC_separateudata`. Each kind of object has one field of each sort
(a table has one entry), and weak mode and `__gc` belong to an object for good.
The pacing of the collector is not modelled: the collector may step at any time,
which includes whatever the thresholds allow.

`HeapContract` says what a program may rely on: usable objects stay live, an
object with a finalizer is reclaimed only after it was called, once, and is
handed to its finalizer only when nothing held it but weak references and other
pending objects. `HeapIsSafe` is the refinement.

### Calls

The same C stack as in `TaintVM`, without taints and with everything `TaintVM`
leaves out: `nCcalls` and `baseCcalls` of each thread, the size of each
`CallInfo` array, the error handler in force, `nopencalls` of each closure. A
frame is the closure it runs; all C functions are one closure. An activation
holds what `luaD_pcall` keeps in C locals (`at`, `calls`, `ef`). `ctl` is `"run"`,
`"error"` while `luaG_errormsg` decides, or the code `luaD_throw` carries. Each
limit is a disjunct: `Precall` grows the array, raises "stack overflow" or
throws `LUA_ERRERR`; `Call` counts, raises "C stack overflow" or throws
`LUA_ERRERR`. An error handler runs as an activation of its own, may raise
errors and calls, and its result is thrown. `LUAI_MAXCCALLS >> 3` is the constant
`Band`. The host enters the interpreter by `lua_pcall` only, as `lua.c` does,
so every error has a catcher and the model never stops. `InUse` and `Idle` say of
a coroutine what `auxstatus` computes. The global handler of `securecall`
(`LUA_ERRORHANDLERINDEX`) may or may not be callable: `seterrorhandler` can be
called at any time.

### Hooks

An activation is one run of `luaV_execute` with what entered it. Between two
instructions it passes the points where the code looks at shared fields: `Fetch`
(the count and the mask), `TraceCount` and `TraceLine` (`traceexec`, which reads
the count again), `Limit` (`execcount`). `Interrupt` is the signal handler: it
may set the hook at any of these points, which is why they are separate actions.
A hook or a protected call is an activation on top; `Throw` runs to a catcher and
gives `allowhook` back what that catcher saved. `own` marks a hook that the
program set, as opposed to the signal; `unchecked` and `unhooked` are history:
the instructions since the last look at the clock and the last count event.
When the limit is exceeded is left open: `Limit(late)`.

### Profiling

A frame has `entryticks` and `startticks`, a closure has its counters, and the
clock advances by `Tick`. Every way in and out of a Lua function is composed of
`Enter`, `Leave` and `Resumed` where the code calls `luaG_profileenter`,
`luaG_profileleave` and `luaG_profileresume`. A frame that is `direct` was called
by `luaD_call` from another instruction than `OP_CALL`: a metamethod, the
iterator of a generic `for`, a finalizer. The clock of the function that runs
that instruction goes on, then and when the call returns. `made` counts calls as
history; `nested` too, and says whether a call was direct since the last reset or
open when it came.
`SetProfilingEnabled`, `ResetStats` and `CollectStats` are called by the code
that is measured.

### LuaTable, StringTable, References, TableLib, Pattern

`LuaTable` has nodes, chains, the free pointer and `dummynode`, since collisions
are what it is about; the map it stands for is history. Hash values of strings
and objects are given, those of numbers are computed as `hashnum` does for the
doubles they are. The program stores, grows the array (`SETLIST`), and runs one
traversal by `next` during which it only clears fields; the collector kills the
keys of empty nodes at any time. `StringTable` has the chains as sets: the text is
the identity of a string, and a resize may fail for want of memory. The end of
the sweep of other objects and the finalizers are one step. `References`
distinguishes values that are numbers, because a number in a slot looks like a
link of the free list.

`TableLib` takes every short sequence as its initial state. `table.sort` keeps its
place in `sort` and makes one comparison a step, which may raise an error. `table.removemulti` is modelled as C defines it: the end of the range is an
`int`, more results than the stack is sure to hold are `UNDEFINED`. A
pattern in `Pattern` is a sequence of items as `match` reads them, their text is
abstracted; the matcher is `match` with its captures, `Ways` is the reference:
all the ways an item sequence matches, in the order of preference, `%b` read as
a grammar of nested pairs (`Closing`) and not as a count. `gmatch` and `gsub` push captures
at each match, which is an error when one was never closed; `gsub` with a string
reads only those it names.

### The language

`Parser` walks a grammar tree in the order in which `lparser.c` calls the code
generator, and `CodeGen` works on a `FuncState` record as `lcode.c` does: pending
jumps are linked through the instructions, expressions are descriptors, and
registers are allocated and freed in the order of a stack. Each `lua_assert` of
the code is conjoined to `fs.ok`, as is `luaG_checkcode` on every function that
ends. `Execute` runs the result. `Meaning` evaluates the tree with cells for
variables and knows nothing of registers. Both record what would be a
metamethod or a call of the host in a log, with its operands and in its order,
so a chunk that calls too often, too early or with another operand differs.

`Language` writes an expression, puts it into one of the chunks of `Programs`,
and loads it. Compiling and running are functions of the chunk: nothing else
happens between their steps, so there is nothing to interleave. (What does
interleave with them, collector, hooks, coroutines and errors, is the subject of
the other modules.) `MaxSteps` bounds a run; a chunk that is not done by then
counts as wrong.

### MCParts

The parts above and `Calls` do not read each other's state, and a product of them
would show nothing. A behaviour of `MCParts` picks one part and runs it; the parts
other than `Calls` take turns in the variables `s1` to `s15`. A property of a part
holds vacuously in the others.

`TaintVM` with the setters of the taint library is a part too. Of calls and errors
in general it has runs of its own, whose `Lib` has no setters; their next-state
relation, `UnsetNext`, therefore leaves out `ExplicitStep`.

Definitions whose name begins with `Bad` are defects a programmer might
introduce; each property of each run is known to fail when its defect replaces
the definition it precedes.

## 3. The runs

| Run | Instance | Shows |
| --- | --- | --- |
| `taint_calls` | 1 thread, 2 taints, a vararg and a fixed closure, 3 frames, 2 C activations | the write-taint cache agrees with stack taint and mode across calls, errors and barriers; the pin, no loss of taint by computed values, `savedtaint` is set before it is read, one context |
| `taint_coroutines` | 2 threads, 1 taint; `coroutine.*`, `securecall`, hooks, finalizers | the same context across threads; the pin exists only in Lua frames; a finalizer that returns leaves no trace |
| `taint_finalizer_error` | finalizer, error | finding 1 |
| `gc_weak` | a weak-key and a weak-value table, a userdata with `__gc`, a string | memory safety, revival, weak entries |
| `gc_upvalues` | 2 closures, 2 upvalues, a table | memory safety, tri-color invariant, exact lists |
| `gc_finalizers` | 2 userdata with `__gc`, a table, full collections anywhere | resurrection, restarts; refinement; liveness |
| `gc_setupvalue` | 2 closures share an upvalue | finding 2 |
| `calls_idle` | `coroutine.call` on a suspended coroutine | finding 3 |
| `calls_errerr` | a resume at the limit | finding 4 |
| `limit_coroutines` | a coroutine made under an execution limit | finding 5 |
| `profile_subroutines` | 2 functions, calls by other instructions than `OP_CALL` | finding 6 |
| `parts` | one instance of each part, below | agreement of each part with its reference |

The parts of `parts`:

| Part | Instance | Shows |
| --- | --- | --- |
| api | `TaintVM` with 1 thread, 2 closures, 3 frames and the setters of the taint library at any point of nested calls | the write-taint cache agrees with stack taint and mode; functions created by tainted code are tainted, whatever taint is set for new ones |
| calls | 2 threads, a Lua closure and C, `LUAI_MAXCCALLS` 3, arrays of 2 `CallInfo`s that overflow above 3 | frames fit their array, counts of open calls, the test of `lua_yield`, the handler in force |
| heap | 2 threads, a closure and an upvalue | upvalues that outlive or die with their thread; refinement of `HeapContract` |
| hooks | 2 threads, count 1 or 2, a limit check every 2 instructions, depth 2 | hooks do not nest and are allowed again; checks are regular |
| profile | 2 functions of 2 sources, 2 threads, 4 frames, 3 ticks, direct calls among them | no time counted twice in `subticks`, nor as own time unless a call was direct; no source lost |
| chunk | 6 leaves, 7 binary and 2 unary operators, 7 chunks, 2 contents of the globals | the compiled chunk does what it means; assertions hold |
| table | keys 1, 2, 4, a string and an object that collide; arrays up to 2 | a map; exact traversal; a border |
| sequence | sequences of up to 6 items, values 1 to 3, a largest int of 15 and 4 slots of stack | order of the others, no element lost by an error, sorted |
| search | patterns of up to 4 of 13 items on `baabb`, captures left open or closed twice, `%bab` and `%bbb` among them | first match and captures; gsub and gmatch pass on the same matches, up to the same error |
| strings | 5 texts, one fixed, tables of 1 to 8 buckets | no text twice, every sweep complete |
| references | 4 references, an object and numbers as values | references keep their values |

Bounds. `MaxFrames` (frames of a thread, the base included) is 3: a caller, a
callee, and the frame a tail call, metamethod or error handler adds or removes;
`MaxC` is 2 so that a barrier can be open inside a barrier or inside another
thread. Two taints distinguish "restored" from "still tainted" where contexts
nest; with one thread switch involved one taint suffices, secure being the
other value. `MaxStack` bounds the objects on all stacks to 2 or 3: enough to
hold the two ends of a reference, which is all a barrier compares; everything
else hangs off those in the heap. Objects are reused after they are freed, so
a run contains cycles of any number of collections.

In the part calls the `CallInfo` array goes through 2, 4 (overflow), 3 (undone)
and 6 (the second overflow), and `MaxNesting` 4 with handlers on top reaches
both limits on either thread, with a protected call, a coroutine and a
`coroutine.call` back into the main thread nested in each other.

In the part chunk the constants that make registers and operands run out are
small: constants above index 2 do not fit an RK operand, a constructor is flushed
every 2 items, and a flush number above 1 needs an instruction of its own. The
tables go through every size from `dummynode` to the one the keys fill, with a
key behind the array that a rehash moves into it; `LUA_INT_MAX` 7 lets the
unbound search reach its last resort. Six elements are enough for `auxsort` to
recurse on one side and loop on the other. Strings that share a bucket in a table
of 2 or 4 are in different ones in the next, so growing splits a bucket; a table
of 8 shrinks with one string left in it.

Fairness. Only `gc_finalizers` needs it: `WF_vars(Collector)`. `luaC_checkGC` is
called by every allocation and the step multiplier makes the collector advance
by a positive amount, so a program that goes on allocating always grants another
step; no fairness is assumed of the program, which may write, resurrect and
restart full collections for ever. `GarbageIsFreed` says what is unusable is
freed or made usable again. In `LuaGC` a program that starts full collections
again and again is still bounded by `ProgramRuns`: `luaC_fullgc` runs to the end
except for the finalizers it calls.

### Findings

1. `taint_finalizer_error`: an error in a `__gc` metamethod skips the rest of
   `GCTM`; the finalizer's taint reaches the interrupted code. `allowhook` and
   the raised threshold are skipped in the same way.
2. `gc_setupvalue`: `lua_setupvalue` has its barrier on the closure and not on
   the closed upvalue it stores into; a black upvalue may refer to a white
   object, which is freed.
3. `calls_idle`: `aux_cocall` runs code on a coroutine without looking at its
   status; a suspended one stays resumable while it is in use. For the same
   reason a function called this way may yield, since `nCcalls` of a suspended
   coroutine is below its `baseCcalls`. The run `parts` leaves such calls out
   (`Ops`), `calls_idle` has them.
4. `calls_errerr`: `lua_resumefrom` tests the counter the coroutine was left
   with; nested resumes are not limited, and a call beyond the limit ends with
   "error in error handling" although nothing is being handled. The counters
   are otherwise exact, which is what `YieldCheckIsExact` says.
5. `limit_coroutines`: `luaE_newthread` hands the period of the check of the
   execution limit to a coroutine but leaves the count to its first check at 0,
   which `luaV_execute` decrements before it compares: the coroutine is not
   checked before the counter has wrapped around.
6. `profile_subroutines`: `ownticks` of a function contain those of the functions
   that it calls by another instruction than `OP_CALL` and `OP_TAILCALL`
   (a metamethod, the iterator of a generic `for`, a finalizer), although
   `lua.h:420` and `421` reserve subroutines for `subticks`. `OwnTicksAreDisjoint`
   in `parts` is the bound that holds of the other calls.

Met while modelling and not run as separate questions:

* `luaR_taintthread(from, L)` asserts that the source thread has no `fixedtaint`
  (`lsec.h:90`), but `lua_resumefrom` calls it before the failed coroutine is
  unwound (`ldo.c:499` before `ldo.c:502`), so the assertion fails when a tainted
  Lua closure of the coroutine raises an error of the virtual machine.
* The assertion at `lgc.c:704` does not hold for `debug.setfenv` of a userdata
  that waits for its finalizer, and the comment at `lgc.c:124` ("dead udata") does
  not hold for a full collection started while `tmudata` is not empty
  (`lgc.c:690`).
* `luaE_freethread` (`lstate.c:162`) does not unwind a coroutine: `nopencalls` of
  the functions it had open stays up, and since only the last open call commits
  subroutine time, the `subticks` of such a function stop growing while its
  `ownticks` do not, although the former are to include the latter
  (`lua.h:421`).
* `OP_SETLIST` puts a flush number above 511 into a bare word behind it
  (`lcode.c:861`). `luaK_nil` looks at the previous instruction (`lcode.c:38`), and
  a word whose low bits are those of `OP_LOADNIL` may be taken for one and
  changed: a constructor of 819350 items is big enough. The instances stay below
  the first such count.
* `table.removemulti` computes `index + count - 1` in `int` (`ltablib.c:291`), where
  it may wrap around and pass the test of the end, and pushes what it removes
  without `luaL_checkstack` (`ltablib.c:302`). `TableLib` says of such calls that
  the result is `UNDEFINED`.
* `SPECIALS` (`lstrlib.c:187`) has no `)`: `string.find` searches for a pattern
  without another special character as text, where `match` and `gsub` raise
  "invalid pattern capture".
* `debug.sethook` keys the table of hook functions by the address of the thread
  (`ldblib.c:276`) and an entry outlives its thread, so that a new thread at
  the address of a dead one finds the old function.
* `lua_sethook` says it may be called by a signal (`ldebug.c:59`) and writes four
  fields; a signal that interrupts `lua_sethook` itself leaves fields of both
  calls. The instances have the signal between the steps of the interpreter.

## 4. The proofs

A theorem holds for every value of the constants that satisfies the named
assumptions of its module: any number of threads, closures, cells, frames and
nested activations, any limits, any finite heap. Each is `Spec => []Inv` or
`Spec => [][A]_vars`, some under a hypothesis on `Lib` or `Ops`. (The
modules about the parts, `Hooks_proofs`, `Profiling_proofs`, `StringTable_proofs`,
`References_proofs` and `TableLib_proofs`, have theirs under `Parameters`, which
only says what kind of value each constant is.) Those sets say
which library functions a program may call, so that a hypothesis names what a
program or a build must not contain, and each is one the code makes necessary:

| Hypothesis | Excludes | Why it is needed |
| --- | --- | --- |
| `"setupvalue" \notin Ops` | `lua_setupvalue` | its missing barrier breaks memory safety: finding 2 |
| `"call_idle" \notin Ops` | `coroutine.call` of a coroutine that is suspended or finished | it runs frames under a resume that still waits: finding 3 |
| `Lib \cap {"gctaint", "gcerror"} = {}` | a build with `LUA_COMPATGCTAINT`; an error that leaves `GCTM` | the first is meant to let the taint out of a finalizer, the second skips `luaR_loadtaint`: finding 1 |
| `"hook" \notin Lib` | debug hooks | a hook may change the taint mode of its thread, which is not repaired |
| `"settaint" \notin Lib` | the setters of taint of the `debug` library | their purpose is to take a taint away |
| `Lib \cap {"settaint", "settaintmode"} = {}` | these and `debug.settaintmode` | a barrier or a hook gives back what it saved in the mode that was in force then; if the mode was changed in between, a pin may be compared with a taint of another frame |

None of them is a hypothesis on what happens at run time, and none excludes
calls, errors, barriers, finalizers or coroutines.

### The taint (`TaintVM_proofs`)

`WriteTaintIsCoherent`. The invariant is inductive once it is stated of any
record with the taint fields (`Coherent`): every primitive of `TaintState`
preserves it, so every composition of primitives does, and each action changes
`ts` in one thread or two (`UpdateOne`, `UpdateTwo`, `HandOverCoherent`).

`StacksAreTyped`, `TypesAreKept`, `SavedTaintIsInitialised`. `TypeOK` is not
inductive: a return reads the frame below, an error cuts the frames of the
thread that catches it, and a resume runs what a yield left, so it must be known
that those exist and are of the kind the code takes them for. `Typed` adds
`GoodFrames` (no thread without a base frame; below the top every `savedtaint`
has been written) and `ControlInv` says how the C stack and the `CallInfo`
arrays fit:

* `Linking`: an activation was made by the thread that was running;
* `Ordering`: activations without a switch of coroutine between them are of one
  thread, and later ones of a thread are higher in its frames;
* `Heights`: the frame an activation waits for is still there;
* `Statuses`, `Callers`, `Suspended`: what is on the C stack is neither
  suspended nor dead, a C frame was called by a Lua frame or by an activation,
  a suspended coroutine stands in the C function that yielded.

`TaintAssumption` (the mark for a field that was never written is no taint) is
the only assumption on the set of taints.

`PinsAreKept`, `StackTaintIsPinned`. `PinnedStack` speaks of one moment, the pin
is set and cleared at others; `PinInv` says that only the running thread has a
`fixedtaint`, only in a Lua frame, never when a coroutine hands over, and that
without hooks it then agrees with the stack taint. `PinnedStack`
holds only where `ctl = "run"`: an
error that crosses `lua_protecttaint` loads the saved state (`lapi.c:1367`) while
the frame that will be unwound is still the top one, so between that and the
unwinding by `lua_resume` the pin belongs to a frame that no longer runs.
`TaintedCodeMakesTaintedClosures` follows with the coherence of the write taint.

`PinIsOfRunningClosure` includes hooks. `luaD_callhook` keeps the pin of the frame
it interrupts in a C local and writes it back when the hook returns, so the
invariant must say of every hook on the C stack that it holds the entry taint of
the frame below it (`HookEntries`), at any depth. This is kept because a step
changes only frames at the top of a thread (`Undisturbed`) and the frame under a
hook is never the top (`HooksAreBelow`). It speaks of a thread that tracks
reads, so a mode switched on under a hook would make it say something about a
pin that was set while it did not: `Modes` shows that every barrier has saved
the mode in force, however many are crossed by an error (`StepModes`). That
lemma uses what `MachineKeepsOneContext` shows of steps, hence the order in
`TaintVM_proofs`: the stacks and the write taint (parts 1 to 9), the refinement
(10 to 17), the pin (18, 19), the loss of taint (20 to 25).

`FinalizersGiveBackTaint` is an action property: whatever closes the activation
of a `__gc` metamethod leaves the thread below with the stack taint that was
saved. The step that could do otherwise is an error, and `CatchLeavesNoFinalizer`
shows that without `"gcerror"` a catcher is above the finalizer.

`TaintIsNotLost`. That a register keeps its mark follows from how it was
written, once it is known that *while* a tainted closure runs the stack taint is
set. `TaintInv` says this of any frame that was entered tainted, at any depth:
if the frame has called only C functions since (`Direct`) and runs directly above
activation `j` (`Segment`), then the running thread is tainted, and so is every
state saved by an activation made since, up to the first that gives its callee a
state of its own (`Carried`, `Resets`): that one will load what it has saved
when it ends, and control returns to the frame. Calls of Lua functions end
`Direct` and a return to the frame pins the taint again. Hooks are included.

`MachineKeepsOneContext`: the machine implements `TaintContext`. Most actions
are one of its steps because the primitives of `TaintState` are: `luaR_` reads
are `Read`, the functions that save a taint state are `Enter`. Switches of
coroutine stutter, since a thread receives the taint of the one that hands over.
The hard step is an error. It may cross any number of activations before it
reaches its catcher, and the context it arrives with is that of the thread that
raised it, unless it crossed a barrier that restores what it saved: then it is
that of the lowest one crossed (`Picks`, `Brings`), and this is the barrier that
`Leave` names. The saved contexts are a function of the levels of the C stack, so
that leaving several barriers is the restriction of a function. The taint API of
the `debug` library is not excluded: it is `Set`, where `Explicit` allows it.

### Calls (`Calls_proofs`)

One inductive invariant, `CallStackIsKept`, under the five theorems on what the
runs check: `Inv == Typed /\ Control /\ Levels /\ Handlers /\ Counted`.

* `Control` is the counterpart of `ControlInv` for this module's C stack, with
  the sizes of the arrays;
* `Levels`: `nCcalls` is what the innermost activation of the thread left, and
  each activation has saved what the previous one left. Only with this do the
  assignments in `luaD_pcall` and `luaD_rawrunprotected` restore the right
  number after an error that crossed several of them;
* `Handlers`: the same for `errfunc`, whose value is inherited across
  activations that do not set it;
* `Counted`: `open[f]` is the number of frames of `f` in threads that did not die
  of an error. Proving it needs that those are finitely many for any number of
  threads, which is part of the invariant, not an assumption.

`YieldsAreChecked` (`nCcalls > baseCcalls` says exactly whether a C call is in
the way), `HandlersOfCatchers`, `CallsAreCounted`, `TypesOfCalls` follow.
`SuspendedAreResumed` states the property that run `calls_idle` refutes: the
single operation it needs is the one the hypothesis excludes.

### The collector (`LuaGC_proofs`)

`TypeCorrect` has one lemma for the program and one for the collector.
`KindAssumption` (kinds are disjoint, objects are finitely many) is all that is
assumed of the heap.

`GrayObjectsAreLinkedOnce`. `LinkedOnce` speaks of the mark only, so it is not
inductive: nothing would be known of the lists and colors the next mark starts
from. `ListInv` adds that outside of the mark `gray` is empty, that before a mark
no linked object is gray or black, and that during the sweep those that are have
yet to be swept. The key step is `AtomicLists`: whatever the atomic phase colors
was live, so the sweep will visit it.

`HeapIsMemorySafe`, `DeadObjectsAreUnusable`, `BarriersKeepTriColour`. The
invariant is `HeapInv`, with `SweepList`:

* `Shape`: which colors each kind can have, and that a freed object refers to
  nothing;
* `AliveClosed`: `Alive`, the objects that are neither freed nor condemned, is
  closed under references and holds the roots. This, not reachability, is
  what is inductive: a program can only get at what is reachable from the roots,
  hence at members of `Alive` (`UsableIsAlive`), and what it stores comes from
  there;
* `Progress`: nothing is condemned before the sweep, and what is condemned or
  still has its mark is ahead of the sweep (an open upvalue is swept with its
  thread);
* `Finalizing`: what waits for a finalizer is alive, and dies only after it;
* `TriColour` itself, without which the atomic step could condemn something that
  a black object refers to;
* `SweepList`: an object is swept once.

What the atomic step marks is `Reached`, defined as a recursive function that
grows a set. Nothing can be proved by induction on how it grows, and nothing
needs to be: `ReachedIsLeast` shows that it is the least closed set, because a
finite set has no infinite chain of subsets (`MaximalSubset`, from the
well-foundedness of strict inclusion in the library of finite sets). All that
the proofs use of marking is that its result is closed and least.

`CollectorKeepsContract`: the initial states are initial states of `HeapContract`
and every step is one of its steps or a stutter. `Held` and `Usable` are
least fixpoints on both sides and are compared as such. `WeakTablesKeepReachable`:
what `cleartable` removes had an end that could not be reached, or a finalized
userdata as value.

### Strings and references (`StringTable_proofs`, `References_proofs`)

These state `StringsAreUnique` and `ReferencesKeepValues` of the modules themselves,
as the next three sections do for their properties.
`MCParts` checks the same formulas on the instances it makes of them.

`StringsAreInterned`, for any texts, hash function, limits and memory failures.
`StringsAreUnique` says nothing of a table that is being swept, hence `Inv`:

* `IsTable`: every string is in the bucket its hash selects for the present
  size, so that to be in the table and to be found are the same, and two strings of
  a text would have met in one bucket;
* `Counted`: `nuse` is the number of texts. Steps of the sweep and of
  interning change a set of texts, which is easier to count than strings
  whose marks change at the same time (`CountTexts`);
* `HeldAreKept`: a text in use has a string that is not dead, in every phase;
* `Marks`: nothing is dead while marking, and the buckets before `sweepstrgc` are
  of the current white. This is where `luaS_resize` must not run during the sweep
  (`MayResize`): a bucket that was swept would get strings that were not.

`ReferencesAreKept`, for any values and any number of references. The danger is
that a number in a cell is taken for a link. The invariant names the free list
as a function: `c[1]` is cell 0, each cell links to the next, the last to nothing,
no cell comes twice and none has been given. `luaL_ref` drops the second element,
`luaL_unref` inserts one there, so nothing is said of chains by induction. A new
reference is made only if the list is that of cell 0 alone; then a cell that is
nil was not given, because what is given is never nil, and any border that
`lua_objlen` finds will do.

### The table library (`TableLib_proofs`)

`EditsAreExact`, `SortLosesNothing`, `SortIsCorrect`, for sequences of any length,
any largest int and any size of the stack. Of `removemulti` the first says nothing
where C does not either: what the call returns when `index + count - 1` is no
`int` or when it removes more than the stack is sure to hold.
Elements are positive integers, compared as such; a sort sees nothing of them but
their order. The edits are one step each, so `Inv` says what a table is
before a call (`Filled`: `n` elements and nothing beyond them) and the proofs
compare index by index what a loop of the code moves with what is promised; the
cases are positions outside, a count of 0 and a count that reaches the end.

A sort is any number of steps, one comparison each. What holds between two of
them (`Sorts`):

* `Permutes`: a bijection takes the elements to those that were given. `set2` has
  written both elements when the next comparison is made, so an error there finds
  every element in the table. `SortKeepsElements` counts elements; its cardinalities
  follow from the bijection (`AsManyOf`);
* `Apart`: the ranges that are left, the one at work and those on the stack of
  recursive calls, have no index in common;
* `Disorder`: two elements that are not in order are left to the same range.
  It is what a partition keeps (`SplitRange`), what a range in order no longer needs
  (`DropRange`), and with no range left it says that the table is sorted: no
  induction over the recursion is needed;
* `Partition` is where `auxsort` is in its loops, its comments
  `a[l..i] <= P <= a[j..u]` as `Low` and `High`. `i` may meet `j` (at an element
  equal to the pivot) and pass it by one. That `i` finds an element not less
  than `P` before it leaves the range needs `a[u-1] = P`, and that `j` finds one
  not greater needs `a[l] <= P`, which the first three comparisons establish:
  hence "invalid order function" is unreachable for an order that is one.

### Hooks (`Hooks_proofs`)

`HooksAreKept`, for any masks, any finite sets of counts (0 among them or not),
and any number of nested activations: `Inv == Typed /\ Nesting /\ Tops /\
Checked /\ Counted`.

* `Nesting` is about the C stack, `status` of the coroutine and `allowhook`.
  `HooksDoNotNest` relates the last to the hooks that run; it does not survive
  an error, which sets `allowhook` from what a catcher saved long before.
  `Allows` says of *every* activation that what it saved is whether its thread
  was in no hook below it, so that cutting the stack at any catcher gives back
  the truth (`CutNests`). `Shape` is needed to know which hooks of a thread an
  error leaves: an error in the coroutine that nothing catches there ends all
  its activations and none of the main thread's. `Permits` is the property
  itself, but for a coroutine that died of an error, which keeps its
  `allowhook`.
* `Tops`, `Checked`, `Counted` are about the counters: instructions executed and
  instructions left add up to what was asked, and a count of 0 is seen only by
  the activation that has just counted (`at = "count"`, `TraceCount` comes
  next), which is on top. Without `Tops` an activation that a hook interrupted
  could resume between its count and its event.

`HooksNeverNest`, `ChecksComeRegularly`, `TypesOfHooks` follow.
`ChecksComeRegularly` is about threads whose hook the program has set, not the
signal (`own`): run `limit_coroutines` shows what becomes of the limit
otherwise.

### Profiling (`Profiling_proofs`)

`AccountsAreKept`, for any Lua functions, any depth of calls and any bound of
the clock: `Inv == Typed /\ Resuming /\ Accounts /\ Uncommitted`. That
`subticks` is not more than the time that passed is not inductive: a frame may
add the time since its entry at any moment, so what matters is what *will* be
added.

* `Entered`: where a frame was entered, its closure had fewer ticks than the
  clock showed, and it still has, so that committing the time since keeps the
  total below the clock;
* `Opened`: every frame of both threads is counted in `nopencalls`. Hence, when
  `luaG_profileleave` finds 1 there and adds to `subticks`, no other frame of
  the closure has an entry time for which `Entered` would now be wrong. It is an
  inequality: calls in a coroutine that is collected stay counted (`Abandon`);
* `Spent`, `Uncommitted`: the own times of all closures are one finite set of
  pairs (function, tick), and, unless `nested`, it is smaller than the clock, and
  smaller than `startticks` of the function that runs. A function that is left
  gives its time to the set before another one starts, and no frame is `direct`
  (`Plain`);
* `Resuming`: what a yield returns to is the call of `resume`, a C function
  without statistics, so that no Lua function of the main thread is thought to
  run.

The proofs are about a record `p` that holds what one thread sees (`Now`), with
one lemma for `Enter`, `Leave`, `Resumed`, `Push`, `Pop` and `Unwind`; each
action composes them as the code composes the functions. `NoTickTwice`,
`OwnTimesAddUp` and `TypesOfProfiles` follow. `OwnTimesAddUp` speaks of the time
in which no call is direct. With direct calls the bound does not hold in the
program (the run `profile_subroutines`), and `NoTickTwice` does: a call's subticks
are committed when it is the last one open, whoever's clock runs. `SourcesAddUp`
sums over a sequence with a fold and stays with TLC.

### How the invariants were found

Candidates were checked with TLC, on the instances of the passing runs, before
they were proved. Two kinds of error showed: conjuncts that hold initially and
are lost in states that small bounds do not reach (`Callers` while a failed
coroutine is about to be discarded; `TaintInv` for the frames of such a
coroutine, hence `Told`), and candidates that are not inductive (the pin during
an error).

### Model-checked only

* `GarbageIsFreed`: liveness under fairness.
* `SourcesAddUp` of `Profiling`, whose totals per source are folds over a list.
* The properties of `LuaTable`: a chain, a traversal by `next` and the border search
  follow links as far as they go, by recursive definitions.
* Those of `Pattern` and the language compare recursive definitions with each
  other, which needs induction over data.

## 5. Plan

Done since the first version of this plan: `Profiling` and `Hooks` with the proofs
of their invariants, `StringTable`, `LuaTable`, `References`, the table library
with its proofs, patterns, and the compiler with the interpreter. Left, in order:

1. Proofs: `IsAMap` of `LuaTable`, once its chains are written without recursion.
2. `Pacing`: `GCthreshold`, `gcdept`, `estimate` of `lgc.c`, allocation failure
   (`lmem.c`).
3. `Buffers`: the pieces of a `luaL_Buffer` on the stack and `adjuststack`.
4. `Loader`: `require`, its sentinel and errors in loaders.
5. `FileHandles`: who closes what, with finalizers (`liolib.c`).
6. Call and return hooks in `Hooks`; hooks that yield.

## 6. Not modelled

The components listed `not_modelled` in `PROJECT.json` have the reason there.
Within the modelled ones:

* Taint: the compatibility switches, `luaL_settabletaint`. A hook that changes
  the taint mode can break `PinnedStack`; hooks are therefore not part of the run
  that checks it.
* Collector: the order of its lists (any order is allowed instead), the sizes of
  objects and the pacing, prototypes (marked like closures but without a barrier
  of interest), metatables of types. `Held`, in the contract of the heap, does
  not follow references out of userdata that wait for their finalizer.
* `coroutine.call`, in `TaintVM` and `Calls` (but for `calls_idle`), is used on
  threads that run or wait for a resume they made, and on coroutines that have
  not started: what it does to the others is finding 3.
* `Calls`: the value stack with its own limit, the shrinking of `CallInfo` arrays
  by the collector, protected parsing, and the collection of a coroutine that is
  suspended.
* `Hooks`: call and return events, hooks that yield, the table of hook functions,
  the clock itself (each `luaV_execute` takes its own start time).
* `Profiling`: memory accounts, the statistics of the whole state, and the
  wrapping of counters.
* The language: the lexer, operator priorities (they are resolved in the tree),
  line information, names for error messages, limits that raise errors, hints of
  sizes in `OP_NEWTABLE`. Functions of a statement are compiled before its other
  operands are read; the programs do not distinguish the two. What an operand
  that is a local variable is worth when a call in the same expression assigns
  to it is left open by Lua and not exercised. Numbers are small integers;
  `OP_DIV` and `OP_POW` on numbers are not run.
* Patterns: the text of a pattern, character classes (an item is a set), the flag
  of a plain search beyond `lmemfind`. Order functions that are no order are not
  run against `table.sort`.
* Tables: allocation failures in the middle of a rehash.
* Debug library: functions that only look at activation records.
