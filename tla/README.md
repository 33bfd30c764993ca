# Formal models of stdiobus-cpp

TLA+ modules for the C++ SDK of stdio_bus (`src/include/stdiobus`,
`src/src/bus.cpp`) and the programs of `src/examples` that use it, TLC
configurations that check them on small instances, and TLAPS proofs about them
for every instance. Paths below are relative to the repository's root, without
their leading `src/`, unless they name a module.

## 1. The system

The SDK is a thin layer over a prebuilt C library, the *kernel*
(`prebuilds/include/stdio_bus_embed.h`), which spawns worker processes, writes
JSON-RPC messages to them and dispatches what they print. The kernel is
single-threaded: everything, callbacks included, happens inside a call that the
program makes.

| Part | State | Operations | Makes it correct |
|---|---|---|---|
| **AsyncBus** `async.hpp` | `bus_`, `next_id_`, `pending_` (id to promise and deadline), `pending_mutex_` | `request_async`, `pump`, `check_timeouts`, `start`, `stop`, `notify`, the handler `handle_response`, the destructor | each promise is settled exactly once; a future that is not settled can still be; the outcome is that of its own request; every call ends |
| **Bus** `bus.hpp`, `bus.cpp` | `impl_`: the kernel handle and the callbacks | constructors, moves, assignment, destructor, `start`, `step`, `stop`, `send`, setters, queries, six trampolines | one owner per handle; destroyed once, after being stopped; callbacks land in the live Impl of the right Bus; no handle is lost |
| **BusBuilder** `bus.hpp` | `options_` | setters, `build` | a Bus gets the options that were set, once |
| **Id extraction** `async.hpp:172-222` | none | `extract_id`, `extract_or_inject_id` | the id found is the one the worker reads; injected ids are new |
| **Error model** `error.hpp` | none | `from_c`, `is_retryable`, `error_code_name`, `message` | codes mean what the kernel means, and have their documented names |
| **Values** `types.hpp` | none | `to_ms`, `Options`, `State`, `Stats` | values survive conversion |
| **FFI layer** `ffi.hpp` | a non-owning pointer | `to_state`, `to_stats`, one-to-one forwarding | each counter keeps its name |
| **Programs** `examples/runner.cpp`, `basic.cpp`, `builder.cpp` | argv, `g_running`, a Bus | `main`, `signal_handler` | end when told to, leave no worker behind, report what happened |
| **Async program** `examples/async.cpp` | an AsyncBus, its futures | `main` | ends, and reads from each future the fate of its request |
| **Version, export** | none | compile-time constants | |
| **Kernel** (external) | instance state, workers, queues | the C API | outside the sources |

How they interact. `AsyncBus` owns a `Bus` and sets its `on_message` to
`handle_response`. `Bus` passes the address of its `Impl` to
`stdio_bus_create()` as `user_data`; the kernel calls a trampoline from inside
`start`, `step`, `stop`, `ingest` or `destroy`, and the trampoline finds the
callback through that address. Return codes become `Error`s by `from_c`, states and
statistics are cast and copied by `ffi.hpp`. `request_async` may run on any thread,
the documentation says, while one thread pumps; the map is behind a mutex, the Bus
is not. The programs own one Bus each; their signal handler shares one flag with
`main`.

Where it is hard: the gaps between the critical sections of `request_async` and
`check_timeouts`; replies that are late, repeated or unasked for; ids chosen by
the SDK, by callers and by workers in one name space; futures that only a call
of `check_timeouts` can end; the `Impl` address that must outlive moves; the
callbacks that run inside the destructor; assignment to a Bus in use; signals
between any two statements; a `stop` that only begins the shutdown; integers that are
cut. The complete list, with lines, is under `hazards` in `PROJECT.json`.

## 2. Modules

| Module | Models |
|---|---|
| `AsyncBus` | class `AsyncBus`, its callers, pump, sweeper, clock and workers |
| `RemoteCalls` | abstract: what `AsyncBus` promises about calls to workers |
| `MCAsyncBus` | small sets of message shapes for TLC |
| `AsyncBusProofs` | theorems about `AsyncBus` |
| `AsyncBusRefinement` | `AsyncBus` implements `RemoteCalls`: the proof |
| `AsyncExample` | `examples/async.cpp`, composed with `AsyncBus` |
| `MCAsyncExample` | its requests' texts, for TLC |
| `AsyncExampleProofs` | theorems about `AsyncExample`, on top of `AsyncBusProofs` and `AsyncBusRefinement` |
| `JsonIds` | `extract_id` and the injection, and a JSON parser's reading, on sequences of tokens |
| `IdExchange` | one id: from a caller's text to a worker and back |
| `MCIdExchange` | all texts of up to three members, for TLC |
| `IdExchangeProofs` | theorems about `IdExchange` |
| `Bus` | classes `Bus`, `Bus::Impl` and `BusBuilder`, and the kernel's callbacks |
| `KernelOwnership` | abstract: what `Bus` promises about kernel instances |
| `MCBus` | model values for TLC |
| `BusProofs` | theorems about `Bus` |
| `BusRefinement` | `Bus` implements `KernelOwnership`: the proof |
| `ErrorModel` | `ErrorCode`, `Error`, `from_c`, `error_code_name`, the kernel's codes |
| `Values` | states, listener modes and statistics on both sides of the C API; casts to `int` and `uint16_t` |
| `Programs` | `runner.cpp`, `basic.cpp` and `builder.cpp`, with `ErrorModel` and `Values` between them and the kernel |
| `MCPrograms` | return codes and counters for TLC |
| `ProgramsProofs` | theorems about `Programs` |

Operators that stand before a definition under the words *wrong form* (`NoneFiled`,
`ListedOutFirst`, ...) are not part of the models: each is the definition after it
with a plausible mistake, and shows that the property meant for the mistake fails.

### AsyncBus

A request is one call of `request_async`, on a thread of its own. Its program
counter `pc[r]` goes through the steps that other threads can come between:

| `pc` | Action that leaves it | Code |
|---|---|---|
| `idle` | `Prepare`: make promise and future, extract or inject the id (`next_id_++` is atomic) | `async.hpp:95-99` |
| `prepared` | `Register`: under the lock, file the promise; what was there is destroyed | `101-105` |
| `sending` | `SendAccepted` or `SendRejected`: inside `bus_.send()` | `107` |
| `rejected` | `ResolveRejected`: under the lock again, look the entry up and settle it | `109-114` |
| `returned` | | `117` |

`pending` is the map, from ids to the call whose promise is filed. The deadline
of an entry is its call's. The pump is `PumpEnter`, any number of
`HandleResponse` (one critical section each) and `PumpReturn`.
`check_timeouts` is `ReadClock`, which is before the lock, and `SweepExpired`,
one critical section for the whole loop. `Destroy` is the destructor: it
requires that nobody is inside the object, as C++ does.

A deadline is a signed count, of the clock's own unit. `Instant` is what a `time_point`
makes of `now() + timeout`: the count wraps at `Horizon`. A sum that is past `Horizon`
becomes one of the smallest values, so that the entry is expired when it is filed. A
timeout that is itself too large, whose conversion from milliseconds to the clock's unit
already overflows, may wrap to a deadline in the future again, earlier than the one asked
for. (The overflow is undefined behaviour; wrapping is what the compilers make of the
multiplication and of the addition, and of both together a value modulo the width.)
`start` leaves the kernel `running` or, when it fails, `created` or `stopped`; a running
kernel may meet a fatal error and stop by itself (`KernelStopped`).

Text is abstracted to three facts (`Message`): what `extract_id` finds, what
the worker's JSON parser will read as the id, and whether there is a `{` to
inject behind. The first two differ for a nested `"id"` that comes first, and
for ids `extract_id` cannot read; `WireIds` then gives the ids a worker may read
after the injection. An id is a number or a name; the number 1 and the string
`"1"` are one key, since `extract_id` returns the same characters.

What the kernel and the workers do is external and as free as their observable
behaviour: a send may fail at any time, for instance for a full queue; a worker
may answer any number of times, in any order, or never, or send messages of its
own (`WorkerIds`); a reply's text may hold another id before its own
(`NestedIds`). The kernel calls `on_message` only from inside `step`.

`AsyncBus` takes kernel calls from several threads as if each were atomic. The
code gives no such guarantee: run `AsyncBusThreads` shows that two threads may be
in the Bus at once. Everything else that is said of `AsyncBus` thus holds for
programs that serialise their calls into the kernel, or whose kernel bears them.

The variables `by`, `text` and `wire` are not in the code. `by[r]` records whose
reply, failure or overwriting settled `r`, and the properties use it to say *own*.

### RemoteCalls

A call is `unmade`, `waiting`, or ended in one of four ways. It begins under a key of
its caller's or the SDK's choice and with a time at which it is due, and breaks a call
that waits under the same key. Then one event ends it: an answer or a failure, each of
which ends one call that waits; a look at the clock, which decides by a time read
earlier and ends all calls that were due by then, and no others; or the close, which
ends all that wait. There is no map, no lock and no thread. The module does not say
*whose* answer ends a call, which is what `OwnReply` is about.

`AsyncBus!Remote` is the refinement mapping. A call waits from `Register` on: before,
its key is not in the map and it is nobody's. `due` is what the `time_point` holds
(`Instant`), negative if the sum overflowed. The steps of the clock, of the two
critical sections, of the handler and of the destructor that find something to
settle are events; all others, and those that find nothing, change nothing of it.

### AsyncExample

`examples/async.cpp` uses `AsyncBus` from one thread. The module extends `AsyncBus` with
one variable, the statement `main` is at, and each of its actions is an action of
`AsyncBus` that `main` is at the place to take, or, like the count, none: start, the
requests one after the other, then rounds of pump, `check_timeouts` and a count of the
futures that are ready, and at the end `get`, stop, whose error the program ignores if
the kernel has failed, and the destructor. The clock, the workers and what the pump
dispatches are those of `AsyncBus`. `UsesAsyncBus` says that the program is a behaviour
of `AsyncBus!FairSpec`: its scheduling meets the fairness that `EventuallySettled` asks
of callers.

### JsonIds and IdExchange

`extract_id` (`async.hpp:172-205`) searches characters; a worker parses. `JsonIds` has
both on the same text, a sequence of tokens. A token's `value` is what a parser makes of
it, its `scan` the characters `extract_id` keeps if it gets there: they are the same for
integers and plain strings, and differ for `1.5` (kept: `1`), `null` (nothing) and
strings with escapes. `IdTexts`, `Colons` and `Solids` are the three searches of
`extract_id`, and `Extract` chains them: it does not care whether the `"id"` it starts
from is a name or a value, nor at what depth it is. `ReadIds` takes the members of the
outermost object only; with two of them a parser may take either. `Separated` is the one
thing about a parser's grammar that the injection can spoil: it puts a comma behind the
id, and in an object without members a closing brace follows.

`IdExchange` sends one text through `extract_or_inject_id` (`Request`), a worker that
takes the text if it is `Separated` and answers under an id it reads, and `extract_id`
again (`Answer`); `Finish` makes room for the next. `Plain` is a text whose first `"id"`
is the name of its only top-level id, an integer or a string without escapes: for these
the shortcut that `extract_id` takes is right (`RoundTrip`). The shapes of `AsyncBus`'s
`Message` are the results the two readings can have: `found` is `Extract`, `id` is what
is in `ReadIds`, `object` is that there is a `{`. That `AsyncBus!WireIds` adds the
injected id to those of the text, no more and no less, is `InjectionAddsOne`. The request
`{}`, which no worker takes once it has an id (`SentIsSeparated`), is in `AsyncBus` a
silent one whose message is lost.

Left out: strings that hold a colon, or an escaped quote before the letters `id`,
and strings without a closing quote; callers are assumed to pass an object
(`TextsAssumption`), and text without one is a case of `AsyncBus`.

### Bus

A place `o` holds `Absent` (no Bus), `Null` (a Bus that was moved from) or an
`Impl`. `heap`, `handle` and `callback` are the Impls' memory, `kernel` and
`userData` the instances' state. Addresses and instances are used once, so that a
dangling one is told from a live one.

A call into the kernel is begun by `Invoke` or `Destruct`, which make its effect on the
instance's state, and ended by `Return` or `Destroyed`; between them the kernel may run
callbacks any number of times (`Trampoline`), and `step` may end a drain or meet a fatal
error (`Drained`). The program does nothing else meanwhile: a Bus belongs to one thread,
and callbacks do not call Bus methods (`docs/thread-safety.md:46`). An exception from a
callback (`Throw`) ends the behaviour, since what then happens, with C frames between the
throw and any handler, is undefined.

The `string_view` constructor builds a temporary and move-assigns it to a Bus
that is empty; its effect is `Construct`'s. The six callback slots work alike and
one stands for them. `wanted` and `abandoned` are history variables: the callback
the program last gave to a Bus, through moves, and the instances whose Impl an
assignment deleted. Calls on a Bus without a handle return an error and change
nothing; they have no action here, and neither have the queries (`Programs` has both).

### KernelOwnership

An instance is `unmade`, `held`, `lost` or `released`. It is used by one call at
a time, only while held; the call that destroys it releases it, once; it is lost
only between calls. `Bus!Ownership` maps `held` to *some Bus points to the Impl
whose handle this is*.

### ErrorModel, Values and Programs

`ErrorModel` has the codes on both sides: `ErrorCode`, and `KernelCode`, which consists of
`EmbedCode`, the six of the embed header, and `BaseCode`, those that header takes from
`stdio_bus.h`. That file is not in the repository: `tests/test_kernel_parity.cpp:69-77`
names its codes, and the table of `docs/02-core-concepts/04-error-model.md` has their
values.
`from_c` is a cast and takes any int. `STDIO_BUS_ERR_INVALID`, -14, has no enumerator and
is not in that table either, although `error.hpp:26` calls the enumeration *Error codes
matching C API*: `ErrorCode::Invalid` is -6, `STDIO_BUS_EINVAL`. `Values` has the
enumerations of states and listener modes and the counters, again on both sides,
`to_stats`, which copies by position, and the casts `to_int` and `to_port`.

`Programs` runs one of the three programs, chosen in `Init` with its command line. `at`
is the statement `main` is at; `Runner`, `Basic` and `Builder` give each statement's
successor, and an action per statement says what it does:

| `at` | Action | Code (of `runner.cpp`, and the same in the others) |
|---|---|---|
| `parse` | `Parse`: `--help` and a missing `--config` end the program | `49-65` |
| `build`, `check` | `Build`, `Check`: options, constructor, `if (!bus)` | `70-97`, `bus.cpp:81-117` |
| `SIGINT`, `SIGTERM` | `Install` | `100-101` |
| `start` | `Start`: error and `return 1`, or workers | `104-107` |
| `send` | `Send`: `basic.cpp` and `builder.cpp` only | |
| `loop`, `step` | `EnterStep`, `StepReturns`, `LeaveLoop` | `114-116` |
| `stop` | `Stop`: begins the shutdown | `120-123` |
| `stats` | `PrintStats` | `125-126` |
| `end` | `SayStopped` (`runner.cpp` and `basic.cpp`) | `127` |
| `leave` | `Leave`: `~Bus()` | |

Around `main`, a signal may come between any two statements and during `step`
(`Signal`), and the kernel may fail while `step` runs. `listener` is what the kernel was
given, `workers` the processes it has, `shown` and `said` what the program printed:
statistics, and messages about failures and the end. `counts` and `reported` are history
variables: what the kernel filled in for those statistics, and the code behind each
failure that was printed. What `start`, `send` and `stop` return is any member of
`Returns`, what the kernel counts any of `Counts`; both are constants, all of `Int` and
all counters for the theorems.

The kernel's part is what the prebuilt library does when it is called in these ways:
`start` returns 0 in state Running, or an error in state Created or Stopped; a `stop`
that returns 0 leaves a running instance in Stopping; workers end with the instance, or
when it fails.

## 3. Runs

| Run | Checks | Outcome |
|---|---|---|
| `AsyncBusClash` | all safety and action properties and that `AsyncBus` implements `RemoteCalls`; ids silent, chosen (1, which an injected one may equal), nested, unreadable, or text that is no object; replies may hold a nested 2 | hold |
| `AsyncBusLive` | calls that leave ids to the SDK: `Correlated`, and `EventuallySettled` if somebody calls `check_timeouts`; one timeout overflows | hold |
| `AsyncBusPumpOnly` | `EventuallySettled` if callers only pump, as the class's example does | **violated** |
| `AsyncBusWorkerIds` | `Correlated` when a worker sends requests of its own | **violated** |
| `AsyncBusThreads` | no `request_async` is in the Bus while another thread pumps | **violated** |
| `AsyncExample` | the program's results are its own; it ends; it is a fair behaviour of `AsyncBus` | hold |
| `IdExchange` | plainly spelled and injected ids come back as the key that was filed; what is sent holds that key; an injection adds one id to those a worker reads, and leaves a comma before a brace in an object without members only | hold |
| `IdExchangeNested` | any request with one plain top-level id gets the answer that bears it | **violated** |
| `BusMoves` | ownership, wiring and callbacks, of which there are two, set, replaced and unset; refinement of `KernelOwnership`; every instance is destroyed in the end, unless abandoned or an exception escaped | hold |
| `BusLeak` | every instance that lives is held | **violated** |
| `BusThrows` | no exception of a callback leaves its trampoline | **violated** |
| `Programs` | no workers left behind, no work on an unstarted kernel, failures have their documented names, the listener and the statistics are right, who says *stopped* has told the kernel, the programs end | hold |

The six violations are disagreements between the code and what its
documentation says; `findings` in `PROJECT.json` quotes both sides.

1. `pump()` alone never ends a call whose worker dies (`async.hpp:90`).
2. A message that a worker sends under an id of its own settles a pending call
   with the same id (`async.hpp:165`).
3. `request_async` and `pump` meet in a Bus without a lock (`async.hpp:107`).
4. Assigning to a Bus loses its kernel instance and its workers (`bus.cpp:135`).
5. `extract_id` takes the `"id"` of a nested object, or the string `"id"`, that
   comes before the request's own (`async.hpp:174`).
6. No trampoline catches what a callback throws (`bus.cpp:34`); `Released` of `BusMoves`
   excepts what follows from it by name.

Two more are visible in the models without a run of their own. `stop()` returns while
the kernel is still stopping, so that the state after it is Stopping, where
`docs/02-core-concepts/01-lifecycle-state-machine.md:168` says *State is Stopped
regardless of error*; what a program may rely on is `StoppedWhenSaid`, that it has told
the kernel to stop or has reported that this failed. And if a call ever returns -14, its
program prints *Unknown*: `FailuresNamed` lets that pass only because the documented table
does not have the code either.

### Bounds

* **Requests** of `AsyncBus`: two suffice for each way calls disturb one another (same
  id, overwriting, a late reply to a predecessor). `AsyncExample` has three, so that
  ids differ past a pair in flight. Each call is made once.
* **Timeouts**, **MaxClock** 2, **Horizon** 4: with timeout 1 a deadline can be ahead,
  reached and passed, and a sampled time can be older than an entry filed after it.
  Calls filed at time 2 are cut off by the bound. With timeout 7, `AsyncBusLive` has
  a timeout that is too large by itself and wraps to a deadline before the clock's; the
  clock stays below the horizon.
* **Messages**: the shapes of `MCAsyncBus`. Own id 1 is what the SDK injects
  first, and what a worker reads in the nested shape; 2, which a reply may hold before its
  own id, is what the SDK injects next. Messages that workers send unasked are
  notifications in `AsyncBusLive` and bear the id 1 in `AsyncBusWorkerIds`; with any id at
  all, they are covered by the theorems only.
* **Texts**: no member at all, with and without a blank, or an id member or none, among
  up to two others that may be a value `"id"`, an array with it, a nested object with or
  without an id. The position of the first `"id"`, of the first colon after it and of the
  first brace vary independently; a further member adds no new order of these. Ids are
  `1`, `2`, `"1"`, `"a"`, `""`, `1.5`, `null`, and `id` spelled with an escape.
* **Bus**: three places, two Impls, two instances and two callbacks are enough
  for a chain of moves, for an assignment over a Bus in use, for a Bus that has no
  callback, or another one, where another has one, and for a callback that replaces
  another or is taken away. The constraint `AddressesInOrder` takes addresses in a fixed
  order: every behaviour has a renaming that does, so that nothing is lost, for liveness
  either.
* **Programs**: `IntMax` 127 in place of 2147483647, with timeouts on both sides of it
  (200 becomes negative); the sources' 20 **Rounds** of `builder.cpp`; **Ports** 0 and 1,
  an ordinary one, the largest, and the two that are cut to 0 and 1; **Returns** all
  codes of both headers, -14 included, one negative and one positive int that are no
  codes; **Counts** eight counters that all differ, so that no two could be swapped
  unnoticed.
* `inbox` is a set: replies are dispatched in any order, which includes the order
  they were sent in, and equal replies in flight at once count as one.

Symmetry is used in safety runs only.

### Fairness

`AsyncBusLive` assumes that a thread inside `request_async` goes on (it never
waits for anything but a short critical section), that the clock advances, and
that somebody calls `check_timeouts` again and again (`SweepFairness`), which is
the caller's duty. Nothing is assumed of the kernel, the workers and the pump.
`AsyncBusPumpOnly` replaces the last assumption by the loop of the class's example:
pumping again and again, and workers that answer or lose what they hold.
`AsyncExample` assumes only that its one thread runs, that `pump(10ms)` comes back and
that time passes; that this amounts to the fairness of `AsyncBus` is what
`UsesAsyncBus` checks.

`BusMoves` assumes that every Bus with a kernel goes out of scope and kernel calls
return.
`Destruct` needs strong fairness, since it is disabled whenever a kernel call
runs. `Programs` assumes that the process runs, that basic.cpp's five seconds pass, and
that `stdio_bus_step` keeps to a timeout that is not negative, as the kernel's header
says; no signal, message or failure is promised.

## 4. Proofs

All theorems are checked by TLAPS, for any sets of calls, ids, texts, timeouts,
places, Impls, instances, callbacks, ports and waits and any width of `int`, under the
named assumptions of each module, which only say that the sentinel values are no
ordinary ones, that the parameters have their types, that the clock fits in a
`time_point` (a timeout or a deadline need not), and that callers pass text whose first
brace comes before any `"id"`.

**AsyncBusProofs.** `Inductive` proves `IndInv`. The properties are not inductive
on their own. That filed promises are unset (`FiledIsUnset`) needs that each is
filed under its call's id, and a call past `Register` only; that unset futures are
filed (`UnsetIsFiled`) needs in turn that a filed promise is its call's only one.
That outcomes are own (`OutcomeInv`) needs what messages in flight can say
(`WorkerInv`: a worker's message carries the wire id of a call that was sent, an id
of `NestedIds`, or one of `WorkerIds`), how the wire id relates to the local one
(`CallInv`), and that injected ids differ (`InjectedApart`: `next_id_` is ahead of
them all). `TimeoutNotEarly` needs that the sampled time is not ahead of the clock.
From these follow `TypeCorrect`, `NoDoubleSettle`, `NoLostPromise`, `RepliesAreOwn`,
`FailuresAreOwn`, `PromisesAreKept`, `TimeoutsAreDue`, the action properties
`OutcomesAreFinal` and `FailureReported`, and `SilentCallsCorrelate`: if neither callers
nor workers choose ids, any number of concurrent calls get only their own outcomes.

**AsyncBusRefinement.** `Implements`: every step of `AsyncBus` is an event of
`RemoteCalls` or leaves its variables alone. Two facts about reachable states carry it.
The map is the waiting calls (`MapIsWaiting`): what `Filed` finds under a key is the call
that waits under it, and a call that waits is found, by `FiledIsUnset` and
`UnsetIsFiled`; so settling what the map gives is concluding the calls that wait
(`SettlingConcludes`), and erasing every entry concludes them all (`DestroyCloses`).
And nobody is inside `request_async` once the destructor has run (`NobodyInside`), so
that no call begins after the close; `Destroy` is what makes that true, and no later
step undoes it (`NextNobodyInside`). `SweepExpires` needs that the sampled time is one
the clock has had. From `RemoteCalls` alone, `AnswersHaveOneTaker`: no two calls wait under
one key, and none waits after the close.

**AsyncExampleProofs.** A lemma, `ImplementsAsyncBus`, notes that every step of the
program is a step of `AsyncBus` or a stutter, as its actions are built from those, so that
all of the above holds of it. `ResultsOwn`: what it
reads is its own. `ProgramSeesCalls` puts `ImplementsAsyncBus` and `Implements` together.
The argument of `ResultsOwn`: its requests have the ids 1, 2, ... that it chose
(`OwnIds`), so that no two clash (`NoClash`), and a future that is ready before the
destructor runs is neither another's nor broken (`ReadyIsOwn`, from the invariants of
`AsyncBus`); the rest is in which statements futures are ready or not yet made
(`PlaceInv`).

**IdExchangeProofs.** For texts of any length. `ExtractMember` shows that if the first
`"id"` is the name of a member, the chain of searches ends at that member's value;
`InjectExtract` that what is put behind the first brace is what the chain finds,
provided that brace comes before any `"id"` (`TextsAssumption`). Both rest on `First`
being the least index, which needs that `<` on `Nat` is well-founded. From these,
`ExchangeTypes`, `PlainIdsRoundTrip` and `KeyStaysInText`. `InjectedIdsRoundTrip` is
about the parser: in a text that begins with its object and has no id, the injected
member is a member of that object (`InjectedIsMember`) and the only one, since
everything behind it is found four places on (`InjectSolids`) at the depth it had
(`InjectDepth`). Depth is a difference of two cardinalities; that neither changes is
the bijection of `GapKeepsCount`. The same two lemmas show, of a text that may have ids
of its own, that each of them stays one with its value (`InjectKeepsIds`), that no other
arises (`InjectMakesOneId`), hence `InjectionAddsOneId`; and, with `InjectSeparates`, that
each comma is followed by what followed it, and the new one by what followed the brace:
`CommaOnlyAfterEmpty`. The hypothesis of these three theorems, that the text begins with
its object, excludes an array of objects, inside which the injected member is at depth 2
and no id of the message; text with blanks before its object is left to it as well.

**BusProofs.** The invariant is the wiring: live Impls have one owner
(`SoleOwner`), their instances live and call back to them (`HandleIsOwn`), and live
instances have such an Impl or were abandoned (`NoneForgotten`); none is inductive
without the others. `CallLandsAtHome` ties a call in progress to it, `WantedInv`
lets callbacks travel with the Bus, `DestroyInv` says the destructor has stopped
what it destroys. Theorems: `TypeCorrect`, `OwnersAreSole`, `HandlesAreOwn`,
`InstancesHaveHomes`, `CallbacksLand`, `CallbacksAreRight`, `OnlyAssignmentLeaks` (RAII
holds of programs that assign to no Bus in use), `DestroyedAfterStop`.

**BusRefinement.** `Implements`: every step of `Bus` is a step of `KernelOwnership`
or leaves its variables alone. The argument turns *held*, which speaks of places,
into `Wires`, which speaks of one Impl; the two agree by the invariant
(`HeldIsWired`). Then there is one lemma for each kind of step.

**ProgramsProofs.** The invariant follows `main`. `LabelInv` says which statements each
program has, and rests on the three tables of successors (`FollowsRunner` and its like).
`StartInv` says that there are no workers before `start` and none after `~Bus()`, and
that in `runner.cpp` both handlers are installed from `start` on, so that no signal can
end the process while there are workers: `WorkersEnd`. `ListenerInv` ties the instance to
the options, and `PortKept` that the cast leaves every port that exists alone:
`ListenerAsAsked`. `ShownInv` says that what is shown is what `to_stats` makes of the
kernel's counters, and `StatsKeepNames` that the copy by position keeps names:
`StatsAreTrue`, for any eight numbers. `FailuresHaveNames` is for any int that the kernel
returns: `DocumentedCodesHaveNames` goes through the documented table, and
`EnumeratorIsName` says that no two enumerators have one value; hence a failure is
printed under the name the table gives to its code, and as *Unknown* only if the table
does not have it. `StopInv` follows the kernel past `stop` for `SaysTruth`: a program at
its last line has told the kernel to stop, or the kernel stopped by itself, or the
failure has been printed. `NoWorkUnstarted` and `TypeCorrect` follow from the same
invariant. `TimeoutsThatFit` says that `step` gets the timeout it was told if that fits
in an `int`, so that it comes back as the fairness of `EndsInTime` has it, and a negative
one for timeouts up to twice as large (`CutKeepsSmall`).

**Only model-checked:** liveness (`EventuallySettled`, `Released`, `Terminates`,
`EndsInTime`) and the fairness half of `UsesAsyncBus`, which are out of the prover's
reach.

## 5. Not modelled

* The kernel beyond what its callers observe: it is a binary, and its scheduling,
  restarts and buffers are not in the sources. In particular a worker's restart is seen
  here as a message that is lost.
* What `notify`, the read-only queries of `Bus` and `ffi::Handle` do: they forward, and
  change no state of the library. `ffi::create` and `ffi::destroy` are not used by it.
* A user who replaces `on_message` through `AsyncBus::bus()`, and messages dispatched by
  the kernel from inside `stdio_bus_destroy()` while `pending_` is already gone: both are
  listed as hazards; the first disables the class altogether, and whether the second
  can happen is up to the kernel.
* `Exception` and `throw_if_error`, compiled only on request; `state_name` and other
  wording; version and export macros.
* Snippets of retry and circuit-breaker patterns in the documents, benchmarks, the
  end-to-end program, tests, build and packaging.
* `is_retryable`: a predicate on codes that nothing in the library or its programs calls.

What could follow: `AsyncBus` over `Bus`, with the order in which the destructor takes
them apart.
