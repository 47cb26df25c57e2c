# dds-gamepad: a TLA+ model

`dds-gamepad` reads yoke, stick and button samples from DDS topics, maps them
to channels of a virtual Xbox 360 controller and submits every change to an
output device. It runs as a console program and as a Windows service. This
directory holds a model of its control flow: TLA+ modules translated from the
C++ sources, TLC configurations, and TLAPS proofs. The repository has no tests,
so its documentation and comments are what the model is compared with.

    tlc -workers 2 -config MappingEngine_gunner.cfg MCMappingEngine.tla
    tlc -workers 2 -config ReadLoop_gunner.cfg MCReadLoop.tla
    tlc -workers 2 -config ServiceRecovery.cfg MCServiceRecovery.tla
    tlc -workers 2 -config AppRunner.cfg AppRunner.tla
    tlapm MappingEngineProofs.tla

`PROJECT.json` lists the runs, and maps every definition to its source lines.

## Inventory

| Component | State | Operations | Interacts with | What is hard |
|---|---|---|---|---|
| `mapper::MappingEngine` | `mappings_`, `additive_state_` | `Apply(field, id, value, state)` | writes the `OutputState` its caller owns | several matches per message; sums that outlive a batch; names as keys |
| `app::AppRunner` read loop | one handler (reader + engine) per subscription, one shared `OutputState`, `_lastError` | `Run`, `ProcessSamples`, `MessageTraits`, `SleepWithStop` | takes from DDS readers, calls engines, calls the device | caches that overflow, order of instances, partial sticks, failures inside a batch, a stop at any time |
| `app::StopSource` / `StopToken` | one atomic flag | `RequestStop`, `StopRequested` | set by handlers, polled by the loop | a request during a pass or a sleep |
| Windows service | `gStatus`, `gWorker`, `gWorkerExitCode`, `gStopSource` | `ServiceMain`, `SetServiceState`, `ServiceCtrlHandlerEx`, `WorkerEntry` | the SCM, the read loop on a worker thread | `gStatus` is shared by two threads without a lock |
| `emulator::VigemClient` | client and target handles, button/axis report, last error | `Connect`, `AddX360Controller`, `UpdateState`, `Disconnect` | the ViGEmBus driver, the TX listener | clean-up after a partial failure, integer conversions |
| `emulator::UdpProtobufEmulator` | none | stubs | - | - |
| `config::ConfigLoader` | none (pure) | `Load` | its result becomes handlers and mappings | what it lets through: names, ranges, ports |
| `console::RxTable` | row maps, buffer height | `Begin`, `Update`, `SetTopicStatus`, `SetTxStateLine`, `End` | called by the read loop, the poller and the listener | rows keyed by topic name, a buffer that grows |
| `app::StatusPoller` | last poll, counts | `AddSource`, `Poll` | reads the handlers' counters | counters of all yokes, identifiers of one |
| console `main` | `gStopSource` pointer | arguments, `ConsoleCtrlHandler` | Windows' control thread | the pointer is reset while the handler may use it; arguments in any order |
| installation script | SCM failure actions, the service's command line | - | the SCM | restarts counted per period |

Correctness, per component: the engine's channels are functions of the last
word of every source, in any order and however often it is repeated; the loop
never leaves a change unsubmitted, never stops serving a subscription, stops
when asked, and never ends badly without an error; a run gives back every handle
and its error is that of the last run, whichever step failed; the client
library is never misused; the loader loses and reorders no mapping; the screen
shows what the table holds and rates are those of their window; an event
ends the process without cutting a run; the service tells the SCM the truth
about its worker and runs again when it failed.

Hazards are listed in `PROJECT.json`, each at its line with the properties that
watch it. Eight have none, with the reason in their note.

## Modules

`Mapper` holds the arithmetic of `MappingEngine.cpp` as operators: the value
pipeline (`MappedValue`), what one mapping remembers and writes (`Remembered`,
`Output`, `Write`), one loop iteration (`Visited`), and the whole call in closed
form (`Apply`, without recursion). A float is a whole number of `1/Unit`.

`MappingEngine` is `Apply` as a state machine: `Call` starts the loop, `Visit` is
one iteration. `heard` (what every mapping was last sent) and `before` (the state
the call started from) are history. `AtomicEngine` is the abstract call in one
step. `MappingEngine` refines it (`AtomicSpec`), with the state of the last
completed call as the refinement mapping; this is what entitles `ReadLoop` to
use `Apply` as one step.

`ReadLoop` composes one engine per subscription with the DDS caches, the shared
channels and the device.

| Code | Model |
|---|---|
| reader cache, `KeepLast(16)` per instance | `cache[<<reader, id>>]`, `Depth`, `Stored` |
| `while (!stopToken.StopRequested())` | `Top` |
| `handler.reader.take()` | `Take`, `TakeThrows` |
| sample not valid, other yoke, `FormatTable` gives nothing | `SkipSample` |
| `Traits::Apply(...)` | `ApplySample` |
| `client.UpdateState(state)` | `UpdateSucceeds`, `UpdateFails` |
| next handler, `SleepWithStop` | `NextHandler`, `Sleep`, `Wake` |
| publishers, receive threads, whoever requests a stop | `Move`, `Edge`, `Hold`, `Dispose`, `RequestStop` |

The publishers behave as the button controller's notes
(`docs/work/256_GunnerControls.md`) say: a press or release is one changing
sample, a held button is published again as not changing. `latest`, `overrun` and
`pressed` say what the world outside did; no step of the loop reads them. `take()`
keeps the order within an instance and nothing else, so the loop takes the
next sample of any instance. When the run ends, `channels` and the caches are
left as they are; what their destructors do is not modelled.

`VigemClient` is the client's lifecycle. The ViGEm client library is external: a
record of its live, connected and plugged-in handles, and of those that were
given to a call that may not have them (`Used`). Any of its calls that can fail may do so.
The code looks at every result but that of `vigem_target_remove` (`VigemClient.cpp:268`),
and so does the model (`RefuseUnplug`): after a removal that was refused the destructor frees the
target as ever. Whether the library's own rules allow that is not in this repository; the
model takes it that they do, and that the pad then stays on the bus until the process
ends (`driver.stranded`). `XusbReport` is `BuildReport`, the report that the client
makes of the channels: a fold over the channels in every order, as an
`unordered_map` may give them. It extends `MappingEngine`, so that the reports checked
are those of the states the engine reaches.

`AppRunner` is what surrounds the loop: both `Run` overloads, one run after another
on one `AppRunner`. It extends `VigemClient` and takes that module's actions as its
steps (`Connect`, `AddX360Controller`, `UpdateState`, ...), so that a client's failure is
a failure of the set-up or of the loop.

| Code | Model |
|---|---|
| first `Load`, choice of the backend | `SelectBackend` |
| `client.Connect()`, `client.AddX360Controller()`, their catch clause | `ConnectClient`, `AddController`, `Proceed` |
| `_lastError.clear()`, second `Load` | `Load` |
| participant, readers, engines | `Subscribe` |
| `table.Begin`, the listener on the stack | `BeginTable`, `frame` |
| an iteration | `SubmitState`, `IterationThrows`, `Finish` |
| `return` from the inner overload, the client's destructor | `Leave`, `Unwind` |
| callers and whoever edits the file | `Call`, `CallersClient`, `RequestStop`, `Edit` |

`ConfigLoader` is `Load` over parsed documents: a record per entry with `Absent` and
`Bad` where a value is missing or of the wrong kind. Of the output section an absent
or wrongly typed whole, and a port that is no scalar, are passed over (`SectionOf`, `PortOf`),
while a wrong type or host, and a port that is a scalar but no number (`NoInt`), throw. Its mappings are those of `Mapper`
(`TypeOK` says so), which is where the engine's assumptions come from. The key of a
subscription, in the code three strings joined with bars, is the triple: names with
bars in them, which could make two keys one, are outside the model.

`RxTable` writes to a console buffer: lines, a cursor, and a height that may or may
not be raised; a position outside is refused and the text lands at the cursor.
`StatusPoller` has the counters of the handlers, time, and readers whose
status query may throw. The `--table` runs call both from the loop's thread only.

`Arguments` is how `main` and the service read a command line, and the one that the
install script writes. `UsageIsKept` compares `main`'s loop with the usage text: the
words of a command line, from the first that is not empty, have places (`Place`), and the
first three are the file and the two ids. `ConsoleMain` extends it: `main`, step by step, and one handler
thread for each console event, which Windows starts at any time and does not wait for
when the handler is removed. A run ends by itself or after a stop.

`ServiceLifecycle` has the service's three threads. `SetServiceState` starts a
call, whose stores to `gStatus` then happen one at a time in any order (`Store`:
they are plain stores to a global that two threads write without a lock) before
`SetServiceStatus` hands the result to the SCM (`Report`). The worker is `AppRunner::Run`
seen from outside: it ends well only if a stop was requested, which is ReadLoop's
`ExitsAreClean`, and then does, which is its `StopEndsRun`. Wait hints and check points are
left out.

`ServiceRecovery` composes `ServiceLifecycle` and `Arguments` into the service as it is
installed: one process after another, each reading the command line of the service, and
the SCM, which is external, counting failures and taking the actions that
`install_service.ps1` configures. `retries` is history: how often it has restarted the
service since its count last began again.

| Code | Model |
|---|---|
| a process of the service | `Launch`, then the actions of `ServiceLifecycle` |
| `ParseServiceArgs` at the head of `ServiceMain` | `ServiceStep`, `options` |
| `sc failure`, `sc failureflag` | `Actions`, `OnErrorExit` |
| the SCM's start, restart and failure count | `Start`, `Restart`, `Ended`, `Crash`, `Failed` |

The modules whose names begin with `MC` hold the constants of the runs. Definitions
commented as a slip are variants of the definition after them; no specification
uses them. Each is a plausible bug that the named property must notice.

## Runs

| Run | Result | Shows |
|---|---|---|
| `engine` | passes | Channels in range; an additive channel is the clamped sum of all last contributions; last writer wins in configuration order; order of sources and redelivery do not matter; the report shows the channels in whatever order they are visited; no cross-talk; the loop is the one-step call |
| `engine_shared_name` | violated | Two additive mappings with one name share a contribution |
| `loop` | passes | No change is left unsubmitted; runs end cleanly or with an error; when all is processed the channels are what the sources last asked for, also those that share an instance, or a stick of which both, one or none of the fields are mapped; a step moves only the targets of one source of our yoke; the device ends up following the sources; a stop ends the run |
| `loop_prefilter` | violated | After an overflow the button pre-filter discards news |
| `service` | passes | The SCM hears the truth about the worker; clean stops and unasked failures are reported as such; a service that the script installed starts with the script's values in every process; one that failed runs again, at least as often as the script lists; a stop ends the process |
| `service_order` | violated | STOP_PENDING can be reported after STOPPED |
| `service_retries` | violated | A service that keeps failing is restarted a fourth time |
| `app` | passes | No handle of the client library is misused, leaked or left behind, whatever call fails; after any run everything is given back, but for a pad that the library refused to remove, and the error is that run's; listeners are alive when called; a stop ends the run, from the set-up as from the loop |
| `config` | passes | What is loaded is the file, grouped by subscription in the file's order, and every mapping can be served |
| `rxtable` | passes | Rows are distinct; a console that can grow never scrolls and always shows what the table holds |
| `poller` | passes | A rate is the samples of its window over its time, also after errors |
| `console` | passes | `main` runs exactly with what its usage says; a run is never cut off by an event, and an event that is handled ends the process |

The violated runs check what a comment or document says, quoted in the
findings of `PROJECT.json`:

* `MappingDefinition.h:68-70` promises independent contributions per source;
  `MappingEngine.cpp:90` keys them by a name that nothing makes unique.
* `docs/mainpage.dox:131-134` says the pre-filter only drops samples of an unchanged
  state. With a full cache the press itself is lost, and the
  held samples that still report it are dropped by `AppRunner.cpp:258`.
* `docs/work/WindowsService.md:37` gives the order of states. When the worker fails
  by itself while the SCM sends a stop, the handler's `SetServiceState` overlaps
  `ServiceMain`'s.
* `docs/work/WindowsService.md:150-152` restarts up to three times and then stops
  retrying. `install_service.ps1:132` lists no action after the third, and the SCM repeats
  the last one: without a reset of its count the fourth failure is restarted, too.
  `FailureIsRestarted`, in `service`, is therefore about the first three (`retries`).

## Divergences without a run

Where the code does otherwise than a comment or document says, the models follow
the code. These came up in the translation; no run is spent on them, and the
properties above are stated so that they hold of the code as it is:

* `MappingDefinition.h:53` puts the scale after the deadzone; `MappingEngine.cpp:63`
  puts it first (`MappingEngine.h:46-47` agrees with the code). See `MappedValue`.
* `MappingDefinition.h:65-70` sums additive mappings of one target; `AppRunner.cpp:158`
  gives each subscription an engine, and an engine sums only its own. `ChannelsFollowSources`
  leaves such targets out: it is about targets (`Followable`) with one mapping, or with
  additive ones of one engine, where each has one source and, if additive, a name of its
  own in that engine. A target that no source has moved is at rest.
* `docs/mainpage.dox:98-100` retains 16 samples per publisher; the cache of
  `AppRunner.cpp:106` is per instance, and publishers that leave `id` at 0:0 and name
  themselves in `another_id` (`:133`) share one.
* `AppRunner.h:111-113` promises a description of every failure; a table that cannot
  begin (`AppRunner.cpp:530`) leaves none. `LastErrorIsOfLastRun` excepts table mode.
* `IOutputDevice.h:93-94` has the listener notified on every update until it is
  deregistered; `AppRunner.cpp:544` registers one that dies with the run, and a device
  that its caller keeps calls it in the next. `ListenerAlive` is about the devices that
  a run owns.
* `AppRunner.cpp:389-391` calls the second parse (`:455`) redundant; an edit in between
  makes it the one that counts, for a backend chosen by the first. `inForce` and
  `backend` may differ.
* `ConfigLoader.h:85` has the deadzone in [0, 1], `ConfigLoader.cpp:227` for triggers and
  axes only; `ConfigLoader.h:86` has `output.type` checked, `ConfigLoader.cpp:161` stores
  what it finds; `ConfigLoader.h:91-92` has values in range, `ConfigLoader.cpp:164` narrows
  the port to 16 bits; `config/README.md:107-108` requires a type for custom fields,
  `ConfigLoader.cpp:46` takes them for axes.
* `main.cpp:27` and `RxTable.h:10` exclude scrolling; `RxTable.cpp:92` ignores a buffer
  that cannot grow. `ScreenShowsTable` is about consoles that can.
* `StatusPoller.h:57-58` calls `seenIds` the sources seen on the topic; the yoke filter at
  `AppRunner.cpp:318` keeps those of other yokes out, but counts their samples.
* `StopToken.h:91-92` calls repeated stops safe, which holds for the flag; `main.cpp:43`
  reaches it through a pointer that `main` resets without synchronisation, so a second
  Ctrl-C at the end of `main` may use a reset pointer or a dead object. `RunIsNeverCut` is
  about the time the handler is installed.
* `docs/work/WindowsService.md:54` reports a failure with a non-zero code;
  `ServiceMain.cpp:79` overwrites it when a stop comes during the failure.
  `FailureReported` is about failures that no stop accompanies.
* `docs/work/WindowsService.md:52` has the service disconnect the controller before it
  reports STOPPED; `VigemClient.cpp:268` does not look at whether the pad could be removed.
  `GivenBackAfterRun` and `NothingLeftBehind` except a pad whose removal was refused.
* `main.cpp:22` asks for integers; `std::stoi` at `main.cpp:95` takes what begins as one.

## Bounds

`Unit = 4` gives nine axis values, enough for values inside, at the edge of and
outside a deadzone, sums that clamp, and a button threshold between two values.
`engine` has six mappings: two additive sources on one axis, one of them
also driving a trigger through an input range, two buttons on one target and a
second mapping of one of them. Its state space is finite without a bound, since
an engine remembers one contribution per name, and is explored completely.

`loop` has a subscription of each type and six sources: an analog one, two that share
an instance, one of ours and one of another yoke (they leave `id` at 0:0), two sticks, of which
one has both axes mapped and the other one, and a button. Its caches hold two samples, so
three arrivals (`MaxArrivals`) overflow a cache, also one that two sources fill, or come
at any points of a pass, for three subscriptions or for one. Three is the smallest number with
which an instance can overflow. The code's depth of 16 only makes overflow take longer; no
guard compares it with anything. `loop_prefilter` has the button alone.
`ServiceLifecycle`, `ServiceRecovery` and `AppRunner` have no bound: their
state spaces are finite and explored completely. The SCM's failure count stops at the
number of actions, after which it no longer changes what is done, and `retries` one
above it. `AppRunner` has two
handles, as many as a client holds, and two listeners, so that a run's listener may
differ from the last one's. `ConsoleMain` has two events, the second of which may come
too late, and all sequences of up to five arguments (`MaxArguments`) of eight kinds: no
text, a file's name, a number, what begins as one, and the options, one of them unknown.
Five are the three words of the usage with both options, or with a word too many.

`service` has command lines of the script, one of them with a file that is named like an
option, and two that it did not write, one without a yoke id. `config` has documents of up to three
entries from a small set that has two subscriptions, every topic type and
every kind of fault once, and output sections with each of theirs; three is the first number at which a group is
joined after another was added. `rxtable` has two topics or one listed twice, two
identifiers of different width, and buffers that grow with the last row or cannot grow
(`Margin = 1` instead of 50). `poller` has two topics, `Period = 2`, time up to one
unit past it (`MaxAgo`), a first poll that `HeadStart = 4` makes due at once, and few
samples (`MaxTotal`): a window is late, full, empty or spoilt by an error.

CHECK_DEADLOCK is off in the runs of `ReadLoop`, `ServiceLifecycle`, `ConfigLoader`,
`RxTable` and `StatusPoller`: a run that has ended, a service that has
stopped, a document that is loaded, and a table or poller at its bound, do nothing more.
The run `service` has it on: an installed service can always be started again.

## Fairness

`ReadLoop`: weak fairness of `Loop`, as `LoopRuns`: it is `WF_vars(Loop)` with its ENABLED
written out, which is that the run is not over, since TLC would try every step of
the loop for it in every state. The loop's thread waits for nothing but a bounded
sleep, and the operating system schedules it. Nothing is assumed of the
publishers, of the device (which may fail at any call) or of whoever stops the run.
`ServiceLifecycle` and `ServiceRecovery`: weak fairness of `ServiceMain`, of a handler that
was called, and of the end of a worker that was asked to stop; none of a stop request,
of a failure or of a crash. `ServiceRecovery` adds a restart that is due, which is the
SCM's promise. `AppRunner`: weak fairness of the set-up, whose calls return, of the look
at the stop flag, and of the client's destructor; none of a failure. `ConsoleMain`: of
`main`'s own steps, of the handler threads, and of `Run`'s return once a stop is
requested, which is `ReadLoop`'s `StopEndsRun`.

## Proofs

Every safety property that a passing run checks is also a theorem, for every value of
the constants, under the constants' named assumptions: the types of configurations,
messages, sources and documents, a positive `Unit`, distinct null values
(`UnheardAssumption`, `SilentAssumption`, `NullAssumption`), a service that was
installed (`InstalledAssumption`). Four theorems about the engine need a further
hypothesis on the configuration, given with them. Where a program's loop is a
recursive function (the report, the arguments) or a table grows row by row, the proofs
take a least counterexample among the natural numbers (`LeastNatural`), since the
induction theorems of the library cannot be instantiated by the provers.

`MappingEngineProofs`:

* `TypeCorrect`: `TypeOK` is inductive as it stands. The range of a channel rests on
  one lemma (`ClampForRange`): a clamp lands in its range whatever it is given.
* `SumCorrect`: under `UniqueAdditiveNames`, which `engine_shared_name`
  shows to be necessary. `SumOfLastContributions` speaks of idle
  engines, so the inductive `IInv` says what holds inside a call: a source that
  the loop has yet to visit is `Pending`; what is remembered is the contribution of every source
  that is not (`Sources`), and each channel is the sum of what is remembered (`Sums`).
* `OrderDoesNotMatter`: two calls in either order, on any state of the right type. It
  has the hypothesis `UniqueAdditiveNames` as well: of two mappings that share a name the
  later call's contribution would stay.
* `RedeliveryIsHarmless`: under the weaker `NamesKeepToTargets` (a name may be shared,
  but not across targets). With a name on two targets the first of them sees, when the
  call is repeated, what the mapping of the second has stored.
* `LastWriterAlwaysWins`: `WInv` follows the loop; the last matching mapping among those
  visited decides (`LastShown`).
* `NoCrossTalkHolds`: an action property, from `TypeOK`.
* `LoopImplementsAtomicEngine`: `LInv` says that inside a call the state is the
  closed form of the mappings visited so far; `SkipStep` and `MatchStep` extend it by one.
* `ReportAlwaysShowsState`: under `TriggersAreTriggers`, which `InferChannelType`
  (`ConfigLoader.cpp:36-38`) gives a configuration that names no type; an explicit
  `type: axis` on a trigger lets a channel go below 0, which a report cannot show.
  `ReportFields` says what the fold over the channels computes in any order, and
  the rest is the arithmetic of the conversions.

`ReadLoopProofs`:

* `DeviceStaysInSync` and `ExitsStayClean`, from `RInv`, which adds that
  the channels are a map and where the loop can be with what (`Position`). The core
  is `TraitsApplyChannels`: a sample that reports no update changed no channel,
  for both calls of a stick.
* `LoopTypeCorrect`, from `TInv`: an instance's samples are its source's, and what is
  in the cache and with the loop is within the bounds.
* `EverySourceMovesItsOwn`, from `Ahead`: when an update is due, the channels are ahead of
  the device in the targets of one source that was heard, and in no other.
* `ChannelsAlwaysFollow`: end to end and without a hypothesis on the configuration, since
  `Followable` says which targets the property is about. The invariant `FInv` follows
  every sample from its source to the channel: the channels are what the
  mappings' contributions come to (`Combines`), each engine remembers the
  contributions of its own (`Kept`), the contribution of a mapping with one source is
  what the loop last heard of it (`Linked`), and what it heard, then what it has taken, then
  what the cache holds end in the source's last word (`Words`). What was heard
  and contributed is recorded nowhere in the program; the invariant says that
  such values exist, where a model checker would need history variables. Samples that the
  loop skips leave it true because they are not of our yoke or repeat what is known
  (`Buttons`).

`ServiceRecoveryProofs` has the service and its recovery. `StatusStaysRight`,
`CleanStopsAreReported` and `FailuresAreReported` are about one process. For the
first, every status stored or about to be stored is `Truthful` for each of its fields, and a
mixture of truthful statuses is truthful. For the second, `Controls` says that the
handler is through with `gStatus` once the stop flag is set, and `Ending` follows
`ServiceMain`'s last call store by store; the third follows the last call of
a failure in the same way (`FailureStored`). `EveryProcessIsTruthful`,
`EveryCleanStopIsReported`, `EveryFailureIsReported` and `EveryProcessIsTyped` carry them to
every process that the SCM starts: a launch leads to a state of `Init`, and every other step is
a step of `ServiceLifecycle` or leaves its variables alone. `ServiceStaysAsInstalled`:
while a process runs, its `options` are what it read of its command line (`Read`), and in one
that the script wrote each option is found with its value, since ids are numbers and a path
that is rooted is no option (`InstalledAssumption`).

`AppRunnerProofs` begins with the client: `TypeCorrect`, `NeverMisused` and `NothingLeaks`, from an
invariant that ties the client's flags to the library's sets: what is live are the two handles,
the client is connected exactly when `connected_`, the pad plugged in exactly when
`controller_added_`, and never without a connected client. `Disconnect` is then followed
call by call (`Removed`, `TargetFreed`, `ClientFreed`), for a removal that succeeds and for
one that is refused. They rest on the assumption about the library stated above: a
target whose removal was tried may be freed. `RunnerUsesClient` shows that every
behaviour of the runner is one of
`VigemClient`, from which `RunnerNeverMisuses` and `RunnerOwnsWhatIsLive` follow.
`RunnerInv` adds what ties a run to its client (`Ownership`: the convenience overload has
none outside a run, and the listener it was given is on the stack of the run) and to its
error (`Errors`); with the client's invariant it gives `EverythingIsGivenBack`, `ErrorIsOfLastRun`,
`ListenerStaysAlive` and `RunnerTypeCorrect`. The ways out share one lemma (`LeaveKeeps`).

`ConfigLoaderProofs`: `LoaderTypeCorrect`, `GroupsStayTheFile` and `OnlyServableIsLoaded`, from
`LInv`. The groups are always those of the entries read so far, each with its
mappings in the order of the file (`InFileOrder`), and no two have one key.

`RxTableProofs`: `RowsStayDistinct`, from the type of the rows and from `RowsDistinct`, which
is inductive because a row is allocated above all others. `TableTypeCorrect` and
`ScreenStaysRight`, from `VInv`: `Table` says what the columns and rows are (every topic fits
its column from `Begin` on, so that only the column of identifiers ever grows, and that
redraws everything), and `Screen` that every line is there and current. Most operations
write one line, so each is shown to leave the others where they belong.

`StatusPollerProofs`: `RatesRight`, from an invariant that splits each topic's total into
what its source noted last and what came since, and that equates the clocks.

`ConsoleMainProofs`: `NoEventCutsRun`, from `RunInv`: where `main` is says what it owns, and a
handler thread of an earlier moment that finds nothing to stop proves that `main` is past
the run. `ArgumentsAreTheUsage`: after `n` turns of the loop what is read is `Understood`, for
the `n` arguments the usage text's meaning of them; one lemma for each kind of argument
(`FlagIsMeant`, `EmptyIsPassed`, `WordIsMeant`, `ExitIsMeant`, `EndedStays`) adds one more.

Only model-checked are the liveness properties (`DeviceEventuallyFollows`, `StopEndsRun`,
`FailureIsRestarted`, `StopEndsProcess`, `EventEndsProcess`), which need ENABLED and
fairness and are out of the prover's reach, and the counterexamples of the violated runs.

## Not modelled

* NaN, infinities and rounding of floats; the fixed point rounds towards minus
  infinity in divisions.
* The narrowing of a row's position to `SHORT` (`RxTable.cpp:99-102`): a table has as many
  rows as sources, and a console buffer at most 32767 lines.
* What only prints: logging, padding, the event log, the names of status codes.
* The YAML text, and the DDS entities' own behaviour beyond their caches.
* An identifier whose role and yoke come from different fields (`AppRunner.cpp:121`
  against `:133`): `ReadLoop` can express such a source, no run has one, and no
  document says what should happen.
* The install script's checks, `vigem_sample.cpp` and the build: no state of their own.
* A console whose width changes, or that others write to, while the table is shown.

## Plan

An abstract bridge (the device shows a fold of a prefix of each source's samples) that
`ReadLoop` refines, proved step by step. `ChannelsAlwaysFollow` has most of what it needs.
