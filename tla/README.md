# corvid-jvm in TLA+

corvid-jvm is the Kotlin binding of the corvid embedded database: a Kotlin API
(`src/main/kotlin/corvid`), a C shim behind JNI (`native/corvid_jni.c`), and
the engine, a native library downloaded by the build. The binding stores
nothing. Its difficulty is in what it holds: raw addresses of engine
allocations, passed as `Long`s, with no finalizer to catch a mistake.

## Inventory

| Component | State it keeps | Operations | What is hard | What makes it correct |
|---|---|---|---|---|
| **Handle ownership**: `Db`, `Collection`, `Predicate`, `Query` | a handle per wrapper; a flag `closed` / `consumed` / `done` | every public method; `close()` | `Db` and `Collection` are used by many threads, the flags are plain fields; combinators, `filter`, `deleteWhere` and terminals consume handles whether they fail or not; addresses are reused | no use after free, no double free, no leak; use after `close()` throws; the engine is released with its last handle |
| **JNI shim**: calls, cursors, owned values | none between calls, but cached class and method references | 100 native methods | every JNI call can fail; each copy must be freed on each path | one release for each allocation, on each path |
| **Value transit**: `Values.kt`, `encode_value`, `decode_value` | partly built values | encode, decode | failure half way up a tree; two encoders that must agree; a depth cap of 128 | what one side accepts the other can read; nothing is dropped |
| **Callbacks and errors**: `scan`, `update`, `Values.check`, `throwLastError` | pending exception, thread-local last error | bridges, error reads | a callback throws in an engine transaction; callbacks call other databases | the caller's exception surfaces, the store is untouched, an error is the one of this call |
| **Array marshalling**: `putMany`, `deleteBatch`, `isIn`, `select`, `loadWithRenames`, ... | arrays of copies | copy loops | an element fails half way | each copy is freed once, none uninitialised |
| **Native loading**: `Corvid.kt`, `NativeLoading.kt` | a directory shared by all JVMs of a user; `loaded` | `load()` | several processes and jar versions, processes that end half way, Windows locks | a whole pair, of one's own version |
| **Results**: cursors, pages, `decode_value`, `Values.decode` | key cursors, page buffers, local references | the `next` calls, `nPage`, the decoders | any JNI call fails, at any depth of a document; NULL also means the end | no row is lost in silence, no document is cut short, each cursor is freed once |
| Types, enums | none | | | |
| Android packaging, build, fetch, release scripts, surface gate | files of a build | | sequential | not modelled |
| Golden suite, tests, examples | clients | | | not modelled |

They interact by calls only: a wrapper method passes its handle to a native
method, the native method calls the engine, the engine may call back
(`scan`, `update`), and a wrapper that sees a failure reads the last error on
the same thread. `Corvid.load()` precedes everything.

The hazards, at their lines, are in `PROJECT.json`; the properties below are
aimed at them.

## Modules

| Module | What it is |
|---|---|
| `Handles` | the wrappers, the native calls, and the engine's allocator |
| `Lifecycle` | the abstract promise: an object opens, is given up and is released, once |
| `HandlesLifecycle` | the refinement mapping from `Handles` to `Lifecycle` |
| `NativeLoading` | `Corvid.load()` run by several processes |
| `ValueTransit` | documents encoded in C or in Kotlin, and what is freed when |
| `Marshal` | the arguments of native calls: copies, tables, pins, and every exit |
| `Results` | what the engine returns: rows, pages, callback arguments, and the decoders |
| `Bridges` | callbacks, pending exceptions, the status and the last-error slot |
| `LifecycleProofs`, `HandlesLifecycleProofs` | what follows from the promise alone, and the proof that `Handles` keeps it |
| `HandlesProofs`, `NativeLoadingProofs`, `ValueTransitProofs`, `MarshalProofs`, `ResultsProofs`, `BridgesProofs` | the proofs about each |
| `MCHandles`, `MCNativeLoading` | symmetry sets and small constants for TLC |

The modules meet at the native call. `Handles` sees a native method as one step
that keeps, makes, consumes or frees handles, and fails or not; `Marshal` is the
inside of that step before the engine is called, `Results` the inside behind it
and of each step of a walk, `ValueTransit` the encoding of the documents that
`Marshal` counts as copies, and `Bridges` what the caller learns. They share no
variable in the code (handles, copies, key cursors and the error slot are
disjoint), so they are not composed in one state space; where one assumes
something of another, the other has it as a property: that a failed call has
left an exception or an engine error (`EngineOrException`, used by `Bridges`), that a
NULL of a walk is its end (`NullMeansEnd`, used by the walks of `Handles`).

### Handles

`obj` has the class and the handle of each wrapper object, `gone` the objects
whose flag is set, `heap` what the engine has allocated at each address, and
`call` the method each thread is in: the operation, the object it uses, the
objects whose handles it takes, and the cursor or value it walks.

A method is split where another thread can come between: the Kotlin prologue
up to the native call (`DbMethod`, `CollMethod`, `GraphMethod`, `DeleteWhere`,
`Leaf`, `Combine`, `Not`, `Filter`, `QueryMethod`, `Close`); the native call and
the straight-line code behind it (`NativePlain`, `NativeDerive`, `NativeLeaf`,
`NativeCombine`, `NativeTake`, `NativeUnmarshalled`, `NativeTerminal`,
`NativeRead`); and the loop that decodes a cursor or value and frees it
(`WalkToEnd`, `WalkThrows`). `Open` is one step, because no other thread can have
the handle. Methods with the same effect on handles are one operation: `"use"`
stands for all that neither make, consume nor walk anything, `"rows"` for all
protected walks of a collection, `"aggregate"` for the terminals that marshal a
field and return a number, and so on.

A guard that throws before anything changed is a stutter and has no action. A
`take()` that throws after an earlier one succeeded is an action that changes
`gone`: see `Combine` and `Filter`.

*The allocator.* An address can be handed out again as soon as it is free, so a
property about an address says nothing. A cell therefore remembers for whom
the engine made it (`by`), and the properties compare that with the wrapper that
holds the address. No action reads it, except `EngineOf`, by which a
`Collection` or `Query` belongs to the engine of the handle it comes from.

*The clients.* The README of the repository (lines 156-160) lets `Db` and
`Collection` be used concurrently, asks for `close()` to wait for the operations
on the handle, and gives `Query` and `Predicate` to one thread at a time.
`MayUse` and `MayClose` are that contract, and all properties are relative to
it: a close between another call's guard and its native call is not in the model,
and nothing in the code would stop it. `Misuse` lets clients pass objects that are spent, which the API promises to
answer with an exception. `Throws` lets JNI calls run out of memory.

Left out: what the engine stores, the content of arguments and results, the
`name` property (one more `"use"`), and interruption of a thread between the
return of a native call and the constructor of the wrapper.

### NativeLoading

Each slot of `Jvm` runs a process after another: `Start`, the search of
`findNativeLibrary` (`Find`, `Lookup`), `reusableNativeDir` (`UseDir`, `MakeDir`,
`Tighten`), the extraction of engine and shim (`Reuse`, `Stage`, `Move`, or `Clear`
and `Copy` where files cannot be moved atomically), the loading of both and the
FFI version gate (`Load`, `Verify`). `End` is the end of the process at any step.
A file is the version it comes from and how much of it is there.

`world` is chosen once and never changes: whether processes run at the same
time, whether writing can fail, whether files move atomically, and whether
loaded libraries are locked. Each property names the machines it is about, and
one run has all of those: the eight on which processes run one after the other,
and the two with races, atomic moves and no faults. With faults, directories cannot
be made (`PrivateDir`: the last resort is the shared directory, trusted or not, even
absent), permissions cannot be set (`Tighten`), and staging, moving and copying fail
(`GiveUp`), a copy half way. A shared directory that is somebody else's may hold a
pair of libraries, of some version of the jar; forged files are not modelled.
`Links` has the pairs of versions whose shim and engine link: where they do not,
`System.load` of the shim may fail or not (`Unlinked`), because linkers bind lazily.
`Compatible` is the assumption under which versions can be mixed at all, and part of
`ClasspathSuffices`.

Left out: the Android branch; a length that the class loader does not know
(a jar entry has one); concurrent copies without atomic moves, which a
staging file in the target's own directory does not need.

### ValueTransit

A call encodes its documents one after the other (`todo`, `made`), passes them
to the engine and frees them. The recursion of `encode_value_at` and of
`Values.encode` is `stack`, the containers being filled; `live` counts the trees
of engine values that exist and are in no other tree. One module has both
encoders, because they differ in three places only: C frees the container of
each frame on its way out and Kotlin has no handler (`Unwind`, `BadKey`), C looks
for null before the depth (`TooDeep`), and Kotlin puts map items through
`nValueMapPut`, which can fail before the engine takes the item (`PushFails`).
`call` stands for a group of methods with the same path around the encoder:
`"store"` for those where the native method frees what it encoded, `"update"`
for the callback whose result the engine takes, `"putMany"`.

A value is a null, a scalar, a list, a map, or unsupported. What a document
contains is chosen while it is encoded, so a run has every document within the
bounds. `deep` remembers the deepest null and the deepest other value; no action
reads it.

Left out: which Java types are accepted, and the exception thrown; a
constructor of the engine that returns NULL without an exception.

### Marshal

A native method is in progress one at a time, because its copies are its own.
`Needs` says of each method what it copies, allocates and pins; methods with the
same needs and exits are one. `Call` begins one with an array of any length up to
the bound; `Copy`, `Allocate`, `Pin` and `Element` get what it needs in the code's
order, and `CopyFails`, the failing halves of `Allocate` and `Pin`, and
`ElementFails` are the early exits, each giving back what the exit in the code
names. `EngineCall` is the call, guarded as in the code, and `Release` the last
exit. `cell` has the words of the pointer tables, so that an uninitialised one and
the static byte that stands for a null array (corvid_jni.c:216-224) can be told
from a copy. `pend` and `sent` say how the call ends.

Left out: the contents and lengths of the arrays; calls that pass only numbers.

### Results

A crossing makes its `Parts` in order. `Part` and `PartFails` are a JNI call that
makes one or throws; `DocBegins` and `DocEnds` enclose the decoder, whose recursion
is `stack`: `Scalar`, `Unknown`, `Container`, `Child`, `KeyFails`, `Put`, `Unwind` and
`Complete` are its branches. `Finish` is the last `ExceptionCheck`, which the callers
of callbacks do not have. `keys` counts the key cursors out, `own` the buffers of a
page, and the frames of `stack` count local references.

The decoder in Kotlin is the same machine with other endings: a failed key
cursor or an unknown type throws, and an exception leaves its key cursors behind
(no `finally` around Values.kt:125-132). Both are branches on `InC`.

Left out: what the values are; a failing `PushLocalFrame` counts as a container
that cannot be made.

### Bridges

Each thread has a stack of calls, each on a database of its own: a callback
"must not call back into this db" (Collection.kt:61 and :184-185). A call is a plain write,
a conditional one (`compareAndSet`, `delete` and the others that may find nothing to
do, `WriteIf`), `insertAuto`, `update`, `scan` or `schema()`. It fails in the shim (`ShimFails`,
`KeyFails`, `DecodeFails`, `EncodeFails`), in the engine (`NativeFails`), or in the
callback (`CallbackThrows`); `Abort` is what the bridges then do. `DecodeRefused` is
none of these: the engine refuses the decoder a key cursor, the callback gets a null,
and the call goes on with the refusal in the slot (corvid_jni.c:404-405). `Return` ends it
with what `Thrown` finds, in the wrapper's order: the pending exception, then the
status. A callback into which an exception returns goes on (it has caught it) or
throws too. `slot` is the last-error slot, one per thread as in the engine
(docs/PLAN.md:237-247). In a call, `gave` is what the callback of an update returned,
and `done` what the engine did: it wrote, found nothing to write, or neither. `last`
remembers the last call and what it threw; no action reads it.

Assumed of the engine, which is not in this repository: a failure or a refusal is
recorded in the slot, and a call that it fails has written nothing.

Left out: what a call reads or writes; other threads' writes between the read
and the write of an update (documented as not linearizable, Collection.kt:60-61).

## Checked by TLC

| Run | Question | Bounds |
|---|---|---|
| `handles_misuse` | `TypeOK`, `OwnersAreLive`, `GuardedCallsCrossLive`, `EngineHandlesAreOwned`, `WalksHoldTheirCursor` with misuse and exceptions; `Handles` implements `Lifecycle`; `HandsLetGoReleased` | 2 threads, 4 objects, 3 addresses |
| `handles_released` | `PredicatesAreOwned`, `CallsCrossLive`, `SpentAreInHands` for clients within the contract; `SpentIsReleased`, `WalkedIsFreed` under fairness; exceptions anywhere | 2 threads, 3 objects, 2 addresses, no symmetry |
| `loading` | `TypeOK`, `OwnPairAlone`, `ClasspathSuffices`, `LoadAdvances` on ten machines | 2 processes at a time, 2 versions of lengths 1 and 2 |
| `transit` | `TypeOK`, `NothingLeftByC`, `AcceptedIsDecodable`, `DocumentsAreAll` for all calls | cap 2, 2 documents, 5 items in all |
| `marshal` | `TypeOK`, `FreesOwnCopies`, `NothingLeft`, `EngineOrException` for ten kinds of methods | arrays of up to 3 |
| `results` | `TypeOK`, `NullMeansEnd`, `GivenIsWhole`, `NothingHeld`, `RefsFit` for nine kinds of crossings | 6 items, 3 containers deep, frames of 5 |
| `bridges` | `ThrowsOrWrites`, `RaisedIsThrown`, `ErrorIsOfThisCall`, `AbortIsReadable`, `CallbacksRunClean`, `ReturnedIsThrown` | 1 thread, 3 databases, 3 calls |

The five runs that expect a violation are below, under *Where code and documents
disagree*.

*Bounds.* Objects are never reused, addresses are: four objects on three
addresses is the least that has a database, a derived handle, and two predicates
or queries, one of them on an address that was freed before. Two threads give
every interleaving of a close, or of an allocation, with one method in flight.
The bound on objects ends the life of a model: then only `"leaf"` calls that fail
and calls on living objects go on. Two versions of lengths 1 and 2 make a cut
short copy of one as long as the whole of the other: `OwnPairAlone` holds all the
same, but such a file is taken for complete and does not load, which is why
`ClasspathSuffices` is about machines with atomic moves. In the runs any shim links with
any engine, so that `Compatible` holds; the theorems are for any `Links`. Five items at a cap of 2
reach one level below the deepest container allowed and leave items for a second
branch; of two documents one is finished when the other fails. Arrays of three
have an element before and one behind the one that fails, and arrays of none
skip the loop and the pin. Six items fill containers on three levels, with one
finished beside another that fails; the
code's frames have room for 32 references (corvid_jni.c:321), here for five, so that
a list of three would overflow one if its temporaries stayed. Three calls on three databases
are a call in a callback of a call in a callback, or two one after the other in
one. In `bridges` a thread that has used its calls stops, so deadlock is not
checked there; one thread is enough because nothing in the module is shared by
two, and the theorems are for any number.

*What the properties say.* `OwnersAreLive`: an open object, or one whose handle
a call has taken to free or to consume, stands for its own allocation: nothing
is used after its free or freed twice. `GuardedCallsCrossLive`: the same for the
handle that a call behind a guard carries; `CallsCrossLive` for every call.
`EngineHandlesAreOwned`: whatever keeps an engine open can still be closed by
somebody; it holds even with misuse and exceptions. It is the reason why
terminals mark the query done *after* the native call, while predicates are
marked before. `PredicatesAreOwned`: no predicate is left to nobody.
`WalksHoldTheirCursor`: a cursor is walked by one call and not freed under it.
`ImplementsLifecycle`: objects move forward only, and a derived handle comes from
an object that is open at that moment. `SpentIsReleased`: what is closed or
consumed is freed in the end; `WalkedIsFreed`: so is every cursor walked behind a
`finally`. `SpentAreInHands` and `HandsLetGoReleased` are the safety half of
`SpentIsReleased`: what is spent and not released is in the hands of a native
call, and no call drops what it took without releasing it. The first is for clients
that use nothing spent (a `take()` that throws leaves the other operand to
nobody), the second for all.

`OwnPairAlone` and `ClasspathSuffices`: a process gets its own libraries, and gets
libraries at all, the second for versions that can be mixed (a process that loads
what another version has just moved there fails otherwise, at the linker or at the FFI
gate). `LoadAdvances`: the fallback from the shared directory to a private
one is no loop. `StepsLeft` counts the steps a process has before it at most, and
each of its steps makes that smaller, whatever fails and whatever others do to the
files; the blocks of a copy are not counted. `NothingLeftByC`: a native method that returns or throws has
freed every value it built; that it freed none twice is `live \in Nat` in `TypeOK`.
`AcceptedIsDecodable`: the depth cap of both encoders is the engine's, except that
the C encoder accepts a null one level below it (corvid_jni.c:581).
`DocumentsAreAll`: when the engine is called, no value exists but the documents of
the call, so what `putMany` leaks when it succeeds is those and nothing else.

`FreesOwnCopies`: what the last exit frees, the method copied. It names two cases
in which the code does otherwise: a null in a client's list of keys, whose static byte is freed, and `nLoadWithRenames`, which counts the pair whose new name could
not be copied, frees an unset pointer for it (`HalfPair`), and with the last pair
calls the engine too (`LastPairFailed`, which `EngineOrException` leaves out). `NothingLeft`: every exit gives everything back. `EngineOrException`: a
method that did not reach the engine has left an exception, so a wrapper never
reads an older error for it.

`NullMeansEnd`: NULL without an exception only at the end. `GivenIsWhole`: a
document given to the JVM is complete ("a decoded map is always complete",
corvid_jni.c:401-403); where the engine refuses a key cursor or gives a type
unknown, C puts a null in place of the value without an exception, and the
property says so. `NothingHeld`: key cursors and page buffers are given back on
every path; those of the Kotlin decoder where it does not throw, because an
exception does leak them. `RefsFit`: frames do not fill up.

`ThrowsOrWrites`: a caller can trust an exception to mean that nothing was
written, `insertAuto` excepted, which may throw for want of memory when the
document is in; and can trust a call that returns to have done its work, which is
to write nothing only for a conditional call and for a callback that returned null. `RaisedIsThrown` and `ErrorIsOfThisCall`: what it catches is what
happened in its own call. `AbortIsReadable`: the last error behind an aborted
update is the update's, until the thread calls again or a decoder is refused.
`CallbacksRunClean`: nobody is called with an exception
pending. `ReturnedIsThrown`: a failure that the engine returns from a call, `schema()`
excepted, is thrown as that very failure, not as an older one. It says nothing of a
refused key cursor, which the engine does not return from the call and nobody
throws: `FailureIsThrown` includes it and does not hold.

*Fairness.* `FairSpec` of `Handles` has weak fairness for the native and the
walking step of each thread: the engine is synchronous, cursors are finite, and a
thread in a method goes on. No client has to call anything, so prologues have
none, and `handles_released` is run without misuse: a predicate marked by a
`take()` that threw is never released (see below). The other modules have no
fairness and no liveness property: each of their calls is straight-line code or
a loop over a finite array, and what matters is what it leaves behind.

### Where code and documents disagree

| Run | Property | What happens |
|---|---|---|
| `use_after_close` | `CallsCrossLive` | `neighbors`, `inNeighbors`, `traverse` call the engine with the freed handle of a closed collection, then throw |
| `mixed_pair` | `OwnPair` | two versions that start at once can load one engine and another shim |
| `library_path` | `PathSuffices` | a pair on `java.library.path` is loaded, then `load()` throws |
| `put_many_leak` | `NothingLeft` | every `putMany` leaks the values it encoded |
| `schema_swallowed` | `FailureIsThrown` | `schema()` answers null, "none declared", when the engine fails (and so, in more steps, do `scan` and `update` go on with a document decoded to null) |

The quotations are in `PROJECT.json`, under `findings`. Met while modelling, and
kept in the model but without a run of their own:

- `p and q` with a consumed `q`, `p and p`, and `filter(p)` on a finished query mark
  `p`, and nobody frees it (Predicate.kt:22-26, Query.kt:22-27).
- An exception in `Db.collections`, `Collection.get`, `Query.min` or `max` leaks the
  cursor or value: they have no `finally`, which docs/PLAN.md:270 and :273 promise.
- `Values.decode` leaks its key cursor when a child throws (Values.kt:125-132).
- `decode_value` answers NULL without an exception, which is a Kotlin null, for a map
  whose key cursor the engine refuses. The callback of an update then sees "null when
  absent" (Collection.kt:54) for a document that is there, and its answer is
  written, or deletes it.
- `nLoadWithRenames` and the null keys, above.

## Proved by TLAPS

Every invariant and every action property that a passing run checks, and the
refinement, are proved for every value of the constants. The proofs module of a
component has this shape: `IInv` in the component's
module is the inductive invariant (TLC has checked it on the instances above),
`Initially` and `Inductively` prove it, one step per action and one conjunct under
it, `Inductive` is the theorem, and the others follow from `IInv`.

`HandlesProofs`, for every set of threads, objects and addresses: `TypeCorrect`,
`OwnersStayLive`, `GuardedCallsStayLive`, `EngineHandlesStayOwned`,
`WalksKeepTheirCursor` for both values of `Misuse` and `Throws`, and
`PredicatesStayOwned` and `AllCallsStayLive` for `~Misuse`. The assumptions are
those of `Handles`: `None` is no thread, object or address, threads are not
objects, and the two switches are Booleans. `OwnersAreLive` is not inductive. That
an allocation frees no claimed address needs `CellsKnowTheirWrapper` (an
allocation made for a wrapper is at its address), and that a native free hits
nobody else's needs `TakenAreMarked` (what a call takes is marked, and taken by
one call). That a terminal may free its query needs `QueriesAreExclusive` and
`BorrowedStayOpen` (the object in a guarded call is still open: the contract on
`close()` enters here). `CallsHaveShape` says which calls hold what. The actions
fall into seven kinds of step with a lemma each (`BeginStep`, `DropStep`,
`ReturnStep`, `BindStep`, `TerminalStep`, `ReadStep`, `WalkStep`), which `PrologueStep`
and `NativeStep` instantiate. For careful clients `GraphsStayOpen` is added: the
collection of a graph read, whose guard comes too late, is open all the same.
`CursorsStayHeld` says that no cursor is lost, with or without a `finally`, for
`~Misuse /\ ~Throws`. Both are needed: an exception loses the cursor of a walk without
a `finally`, a graph read of a closed collection the one its native call
returned (see *Where code and documents disagree*).

`LifecycleProofs`, for any set of objects: `HomesStayBorn` and `EnginesStayClosed`. An
object only ever joins the engine of one that is open, so an engine that nobody
belongs to stays closed; `None` must be no object.

`HandlesLifecycleProofs`: `Implements`, the refinement. `Phase` and `home` of an object
are read off its flag and the cell at its address, so one write to the heap
can seem to change the phases of many. `StepsForward` says of each action that
no flag is taken back, that a wrapper gets its address when it is born, with an
engine of its own, none, or that of an open wrapper, and that no other cell starts
to be a wrapper's. The actions fall into three kinds with a lemma each: those that
set flags (`FlagStep`), that free (`FreeStep`), and that allocate (`BirthStep`).
`PrologueForward`, `NativeForward` and `WalkForward` go through the
actions. `IInv` of `Handles` is needed before and after the step: an object of phase
`"dangling"` would have no place in `Lifecycle`, and `OwnersAreLive` is what
excludes it (`NobodyDangles`). A derived handle belongs to the engine of an open
object only because `BorrowedStayOpen` holds of the call that made it. By the
refinement `EnginesStayClosed` carries over to `Handles`. `SpentStayInHands` (for
`~Misuse`) and `TakenIsReleased` are proved from the same invariant.

`NativeLoadingProofs`, for any processes, versions and machines:
`AloneRunsOwnPair`, if lengths tell versions apart (`LengthsDiffer`: the length is
all that `extract` compares), and `AlwaysLoads`, whose premise that versions can be
mixed is in `ClasspathSuffices` itself. `AloneStaysOwn`
follows the files a process is through with: each has the length of its own, and
a loaded library is whole, so it is its own. `FilesStayWhole` is the argument for
the other theorem: with atomic moves a file is absent or whole and never goes
away, so the loading finds both. `AloneRunsOwnLength` is what is left
without `LengthsDiffer`: two builds of equal length are confused, nothing else is.
`EveryStepAdvances` proves `LoadAdvances` for every machine, concurrent copies
without atomic moves included, which the run leaves out; it needs of the invariant
that a process has extracted nothing before it looks at the classpath.

`ValueTransitProofs`, for every depth cap and any documents: `TypeCorrect`,
`NothingIsLeftByC`, `AcceptedStaysDecodable`, `EngineGetsAll`. The invariant says whose each tree is
(`Accounted`: a container of the stack, an item about to be pushed, a finished
document; behind a failure in Kotlin possibly more) and what the stack can be at each step
(`ShapeOK`).

`MarshalProofs`, for arrays of every length: `TypeCorrect`, `FreesAreOwn`,
`ReturnsWithNothing`, `AllOrException`. `HeldOK` bounds what is held at each place
by what is given back from there on; `CellsOK` says that the tables hold exactly
the elements counted; `PendOK` that an exception is pending if and only if
something is missing.

`ResultsProofs`, for documents of every size and depth: `TypeCorrect`,
`NullIsTheEnd`, `DocumentsAreWhole`, `NothingStaysHeld`, and `FramesSuffice` for frames
of five or more (the code has 32). `KeysOK` counts: as many key cursors are out as
there are maps on the stack (lemmas `MapsOfAppend`, `MapsOfOuter`, by cardinality);
`PendOK` keeps what is missing known until the crossing returns.

`BridgesProofs`, for any threads, databases and nesting: `WritesOrThrows`,
`ExceptionsSurface`, `SameCallGuarantee`, `AbortRecorded`, `CleanCallbacks`, `OthersThrow`. `FrameOK`
relates a call to its thread's exception and slot; `CallsNest` says it of every
call of the stack: those below the innermost are in their callbacks and have met
no failure yet but refusals of their decoders, so whatever the calls inside of them do to the slot, their own
failure comes later and overwrites it. That is the argument behind the same-call
guarantee.

Only model-checked: `SpentIsReleased` and `WalkedIsFreed`. Liveness under fairness,
and everything with `ENABLED`, is beyond the prover. What the two rest on is
proved: `SpentStayInHands` and `TakenIsReleased` of the first, `WalksKeepTheirCursor`
of the second.

## Not modelled

- `JNI_OnLoad` and the calls that only pass numbers: no failure path to get wrong.
- The engine: a downloaded library; `Handles`, `Bridges` and `ValueTransit` have of it
  what the shim relies on, and mark those definitions external.
- Counts widened from `Int` to `size_t`: what the engine makes of a huge one is not in
  this repository.
- Types and enumerations, packaging, build and release scripts, tests and
  examples: no state, or steps one after the other.

## Plan

1. The agreement of the two encoders on what they accept (types, keys), as pure
   functions against one reference.
2. Several threads of one JVM in `load()` and the Android branch.
