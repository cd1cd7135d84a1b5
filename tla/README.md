# A verification development for shadowsocks-ohos

TLA+ models of the shadowsocks client for HarmonyOS: the native library
`sslocal-ffi` (Rust), which embeds the sslocal core behind a C ABI, and the
ArkTS application around it. TLC checks the models on small instances; TLAPS
proves the theorems in the modules named `*Proofs` for every value of the
constants. `PROJECT.json` maps every definition to the lines it models.

## 1. The system

| Part | State | Operations | Talks to |
|---|---|---|---|
| **FFI lifecycle** `native/sslocal-ffi/src/lib.rs` | `INSTANCE`, `STAT_ADDR` (mutexes); one tokio runtime per instance | start, start_tun_fd, stop, is_running, set_stat_address | NAPI shim (any thread), shadowsocks-service, plugin forwarders, kernel descriptors |
| **Error slot** `lib.rs` | `LAST_ERROR`, `LAST_ERROR_HANDED_OUT` | set_last_error, last_error | every entry point, the core's task, the shim |
| **Plugin forwarder** `plugin.rs` | a listener, an accept loop and a task per connection on the runtime; descriptors | parse options, bind, accept, retry, dial, relay | core on one side, obfs or websocket stream on the other |
| **simple-obfs** `obfs.rs` | per stream: framing buffer, header scratch, record parser | poll_read, poll_write, poll_flush, poll_shutdown | tokio's `copy_bidirectional`, the server |
| **v2ray-plugin** `v2ray_plugin.rs` | none of its own | parse options, dial | TLS and websocket crates |
| **NAPI shim** `entry/src/main/cpp/napi_init.cpp` | none | one function per C entry point | ArkTS, C ABI |
| **VPN extension** `SsVpnExtensionAbility.ets` | VPN connection, stat server and its connections | onCreate, onDestroy, teardown, stat messages | system VPN service, native library, stores |
| **JSON store** `JsonStore.ets` | files shared by the UI and the extension process | read, write, remove | file system; `ProfileStore`, `Subscription`, `TrafficStats` |
| **Profiles, subscriptions** | two JSON files and the current id | upsert, remove, replaceSubscription, ... | JSON store, download |
| **UI pages** | page state, polling timer | connect, disconnect, poll, edit, update | stores, system VPN service |

Where it is hard:

* *Concurrency.* Any thread may call the C ABI; a start holds `INSTANCE` across
  several steps that fail; the core, the forwarders and tokio's background
  shutdown run beside it, and act after `sslocal_stop` has returned.
* *Names that are reused.* Descriptors are closed by number and loopback ports
  are handed out again, so late teardown may hit something new.
* *Arbitrary splitting.* The obfuscation wrappers must work for every way the
  inner stream splits reads and writes, `Pending` included.
* *Two processes and a file.* Reader and writer interleave between system calls,
  and either may be killed.
* *Awaits.* The extension and the pages read state, wait, and use it; handlers of
  one button overlap, and the answers they wait for may overtake each other.
* *Several writes.* Profiles, selection and subscriptions are three files that an
  operation writes one after the other, and each write may fail.
* *A limited supply.* Connections, the sockets their tasks dial with and the
  listener draw on the same descriptors.

What makes each part correct: a start is all-or-nothing and there is one
instance; nothing closes a descriptor it does not own; servers with a plugin are
reached through their own forwarder; the error pointer stays readable; the
wrappers transport a byte stream, exactly; a forwarder relays nothing before the
stream has the layers that were asked for, and stays; a stored document is seen
whole or not at all; the page shows what the system does and the extension starts
what the page shows. The hazards behind these, each at its line, are in `PROJECT.json`.

## 2. Modules

| Module | Models | Correspondence |
|---|---|---|
| `Sslocal` | `lib.rs` lifecycle | One action per entry point. A start is the sequence `BeginStart` (argument checks and `extract_plugin_specs`), `BuildRuntime`, one `apply_plugin_forwarders` per plugin spec, `LoadConfig`, `prepare` (the `dup`), `Launch`, with an action for every early return; `lock` is held from `BuildRuntime` on. `CoreBoot`, `CoreExit`, `Reap`, `ForwarderDies` are tasks of the runtime; `VpnCreate`, `OtherOpen`, ... the rest of the process. |
| `SslocalProps` | | properties and the inductive invariant |
| `SslocalAbs` | | the abstract specification: a switch whose calls are linearizable |
| `SslocalProofs` | | theorems about `Sslocal` |
| `LastError`, `LastErrorProofs` | error slot | heap buffers with addresses that are reused; `CloneMessage` and `HandOut` are the two locked sections of `sslocal_last_error`, `Read` the copy made by the shim |
| `SimpleObfs` | a simple-obfs wrapper | composes the next three; see below |
| `ObfsRead` | `poll_read` of both wrappers (`kind`) | one step per read of the inner stream, of any size, with the caller's room chosen anew |
| `ObfsWrite` | `poll_write`, `poll_flush`, `poll_shutdown` of both (`kind`) | with tokio's copy buffer that reads ahead as caller and the obfs server's parser as receiver |
| `ClientHello` | `build_client_hello` | one step per block, positions and claimed ends in u16 arithmetic |
| `ByteStream` | | abstract FIFO stream that ends or breaks, which both halves implement |
| `ObfsBase` | | the two variables and the helpers the halves share |
| `ObfsProofs` | | theorems about `SimpleObfs` and the modules it is made of |
| `PluginForwarder`, `PluginForwarderProofs` | `plugin.rs`, `v2ray_plugin.rs` | the option parsers are folds over the options; `Lower` is `to_ascii_lowercase`, which v2ray-plugin's parser applies to values and simple-obfs' does not. `loop` is where the spawned accept loop is (`Accept`, `AcceptFails`, `BackoffOver` are its steps), `task` where each connection's task is; `Dialed` is one await of `wrap_stream`, and `Layers` what those so far have put on the stream. `backlog`, the descriptors and the causes of accept errors (`Occurs`) are the external kernel |
| `JsonStore`, `JsonStoreProofs` | `JsonStore.ets`, `TrafficStatsStore` | one step per file operation; inodes, names and open descriptors are the external file system |
| `Utf8` | `encodeUtf8`, `decodeUtf8` | operators of `JsonStore`; the turns of a loop are a recursive function of its index |
| `VpnExtension` | `SsVpnExtensionAbility.ets` | one step from each await of a system call to the next, for `onCreate`, `onDestroy` and the `teardown` either may be in (`pc`); one action per event of a statistics connection. Awaits of the stores are no interleaving points, since the stores call the file system synchronously. `on` is the switch of `SslocalAbs`, which says that `INSTANCE` is set, and `core` that the core's task runs: `startTunFd` sets both, `CoreEnds` is the core failing or returning later, which leaves `on` as it is; `iface`, `listening` and `live` are the system's side |
| `IndexPage`, `IndexPageProofs` (of both) | connect, disconnect and polling of `Index.ets`, composed with `VpnExtension` | `handlers` counts the click handlers that wait at each await of `connect` and `disconnect`; `Served` is the system carrying a call out, `Started`, `StartRejected` and `Stopped` its answer arriving. `wanted` is what the system was last told; it creates and destroys the extension accordingly, and may stop it by itself |
| `Profiles`, `ProfilesProofs` | `ProfileStore.ets`, `Subscription.ets` and the pages `Index`, `ProfileEdit`, `Subscription` | one action per handler, since stores call the file system synchronously; `update` is split at its download (`Update`, `FetchEnds`). Each action chooses how many of its writes succeed (`Both`, `First`, `Neither`, `Removal`, `Landing`). `shown`, `edited`, `listed` are what the pages have read |
| `Filters` | `Array.filter` | `Without`, a recursive function of the length, for the stores, the payload of a stream and the NULs of a file |
| `SequenceLemmas` | | what `Without` and removal from a sequence return, and induction over the naturals; used by the proofs |

The halves of a simple-obfs wrapper share no field, and a stream's relay polls them
one after the other, so `SimpleObfs` looks at one `half` at a time, chosen
initially: each is checked against every behaviour of the stream below it, and the
product of the two would add no interleaving that either could notice. In
`IndexPage` page and extension interact only through the system, so their product
is the system's `wanted` and the two sets of steps.

`MC*` modules give TLC its constants. A definition `D_word` marked "Mutant" is a
faulty variant of `D` used to see that a property can fail; nothing refers to it.

Data is abstracted to what matters: a config argument is whether it parses, the
plugin field of each server entry, whether the core accepts it and the protocols
of its locals; an option is a key and a value, and values are told apart by their letters' case only as far as `Lower` says; a profile is its id and its owner; payload bytes are numbered; header and padding bytes are 0.

## 3. What the runs show

| Run | Bounds | Shows |
|---|---|---|
| `SslocalPlugins` | 2 threads, 2 runtimes, 2 ports, configs with two, one of two, and one (rejected) plugin | `NoOrphans`, `PluginsServed`, refinement `ABI` |
| `SslocalTun` | 1 thread, 2 runtimes, 4 descriptors, configs with and without a tun local and unusable ones | `NoStrayClose`, `IndInv` |
| `SslocalLive` | 2 threads, 2 runtimes, 1 port | `LockReleased` |
| `LastError` | 2 readers, 4 errors, 5 addresses | `PointerValid`, `OneOwner` |
| `SimpleObfs` | read: header blocks and bodies of a few bytes with `\r\n` fragments in them, header limit 8, scratch 4; up to three records of 0 to 3 bytes with two-byte lengths; room up to 3; the peer closing at any byte. Write: 8 bytes through a copy buffer of 5, chunks of 3. ClientHello: boundary sizes of chunk and host | `Accounted`, `ScratchBounded`, `AcceptedIsWritten`, `LengthsAgree`; `Delivers`, the refinement of `ByteStream` by each half; `Terminates` |
| `JsonStore` | 3 documents of 5, 6 and 7 bytes with characters of every encoded length, a surrogate pair and a lone surrogate; 3 inodes; writes that stop at any byte | `PublishedStable`, `LoadGenuine`, `RoundTrip`, `OneDocument` |
| `IndexPage` | 3 clicks, 2 handlers at a time; 2 processes, one after the other; 2 ports; 2 connections; profiles with and without host and ACL | `OnePoller`, `PollerEndsWithPage`, `UpIsShown`, `StopTakesDown`; of the extension `DestroyedIsDown`, `FailedStartIsUndone`, `NoBlackHole`, `ListExact`, `FreshStats` |
| `PluginForwarder` | 3 connections, 3 descriptors, 2 passing errors; 13 option strings, some with values in capitals | `RelayedAsAsked`, `ListenerKept`, `PendingTaken`, `GivesUp`, `Unjams` |
| `Profiles` | 2 subscriptions, 2 profiles, 2 downloads at a time of up to 1 profile | `StartsWhatIsShown`, `OwnersListed`, `RemovalHolds`, `GuardExact`, `OwnersKept`, `OthersKept`, `TypeOK` |

Why the bounds are enough. Two threads are what a race for the mutex needs; two
runtimes are one that is closing while another starts, and two ports let the
second start bind what the first has not released. Four descriptors are the
caller's, the core's duplicate, one of another owner and one to be reused. Three
inodes are all that can be held at once (the path's, the temporary, the reader's).
Two ports are one that may be taken and a last one; two processes are one that
leaves a statistics file and one that finds it; two connections are one that a
teardown has taken over and one that comes meanwhile (`MaxSessions` is the bound
on processes; connections come and go without bound). Two handlers are a start and
a stop, or two starts, that overlap; the third click stops what they have started.
Three connections can use up three descriptors before any of them has dialed, as
can one that relays and one that dials; two passing errors are one after a pause
and the next. Two profiles are a selected one and one to fall back to, of the same
or of different owners; two downloads are one that a page has left behind and one
that another page has started. Profiles, subscriptions, downloads and failures
otherwise come and go without bound.
The stream runs contain every split of every read and write of their inputs, and
lengths that just fit, just exceed, and equal their limits. `MAX_HEADER`, the
scratch and chunk sizes and the number base of the length field (`Base`, 256 in
the code) are scaled down together so that the limits are reached.

`CHECK_DEADLOCK FALSE` is used where the modelled object ends: a closed stream, a
finished ClientHello, a forwarder whose plugin was refused or whose runtime is gone,
a page that has gone with an ability that has been destroyed.

### What the code does not guarantee

Some properties name the cases in which they do not hold; each of these exceptions
was needed for TLC to agree.

The run `IndexPage`, for the extension, shows what the code does not guarantee. `DestroyedIsDown` and
`NoBlackHole` except the case `late`: `onDestroy` called while `onCreate` waits. Its
teardown then finds no core to stop, destroys the connection and completes;
`onCreate` goes on. If it was waiting for `create`, it trips over the missing
connection and tears down, but an interface that the system has made after all has
no owner any more. If it was waiting later, for the ACL or for the port, it starts
the core, and nobody stops it until the process ends. And a statistics connection
that is accepted while a teardown waits is closed by nobody; its sample may be
saved after the file was cleared, which is why `FreshStats` depends on the `clear`
in the next `onCreate`.

`NoBlackHole` also excepts a `destroy()` that fails, and `CoreLost`, a core that ends
by itself. `startTunFd` answers as soon as the core's task is spawned; when that task
fails or returns afterwards, `INSTANCE` stays set (`SslocalIsRunning`) and neither
the extension nor the page is told. The interface then stays up without a core, and
the page shows connected, until the user stops the VPN or the system does. What
`NoBlackHole` shows is therefore that a start comes to its end, with a core or with
the interface taken down, whatever ports are taken and whichever call fails; and
`StopTakesDown` that the stop works for an interface whose core has gone as well.

For the page, `PollerEndsWithPage` excepts `overtaken`: `aboutToDisappear` comes
while `connect` is waiting, and `connect` then starts a timer that nobody clears.
`UpIsShown` excepts `crossed`, a start and a stop under way at the same time, whose
answers may arrive in the other order, until one of them alone is under way again
and is carried out, and `stopFailed`, a stop that the system has
refused and that the page shows as disconnected on purpose (`Index.ets:165`).
`StopTakesDown` excepts `late`, a `destroy()` that fails, and a new start.

In `Profiles`, a subscription that is removed while it is being downloaded comes
back with what the download brings, or its profiles do (`raced` in `OwnersListed`
and `RemovalHolds`). `StartsWhatIsShown` excepts a selection that could not be
stored, which the page shows all the same, and a download that lands while Index is
in front and replaces the profile that it shows. And a new profile that has been
stored but could not be selected leaves the form open as a new one, so that saving
again stores it twice.

`PluginForwarder`: a connection waits in the backlog as long as no descriptor is
free, and nothing limits how long a handshake may hold one; `PendingTaken` says so.

### Disagreements between comments and code

Three runs are expected to find a violation; each states what a comment says.

* `SslocalIsRunning` / `IsRunningTruthful`: when `run_local` returns, nothing
  clears `INSTANCE`, so `sslocal_is_running` keeps answering 1 and the next start
  is refused as already running.
* `SslocalFdLeak` / `NoDescriptorLeak`: the duplicated tun descriptor is a bare
  number until the core has made a device of it. If the runtime is shut down
  before the core's task first runs, or `run_local` fails earlier, nobody closes it.
* `JsonStoreTorn` / `NoTornRead`: `read` sizes its buffer by one lookup of the path
  and reads through another; a rename in between yields a cut or NUL-padded text.
  `LoadGenuine` shows that users who parse JSON take this for an absent file;
  `getCurrentId`, which does not parse, would not notice.
  The same goes for a short write: the result of `writeSync` is ignored, and
  `rename` then replaces a whole file by the part.

## 4. Fairness

* `Sslocal`: `WF(lock = t /\ start_with_json(t))`: the thread that holds the mutex
  keeps running, and no step of a start waits for another caller (`block_on` of a
  bind returns). Nothing is assumed of callers, of the core, of tokio's background
  shutdown or of a thread that waits for the mutex.
* `IndexPage`: weak fairness of the settling of what `onCreate` and each teardown
  wait for: the promises of the system's calls resolve or reject; and of `Destroy`:
  the system destroys an extension it was told to stop. The user, the answers to the
  page, the statistics connections and the death of the process are under no
  obligation.
* `PluginForwarder`: `WF(AcceptLoop)`, `WF(BackoffOver)` and, per connection,
  `WF(OpenSocket(c) \/ NoSocket(c))`: tokio polls a task that is ready and fires its
  timers. What depends on the server or on the core's end (a connection, a
  handshake, the end of a relay) may never happen.
* `ObfsRead`: `WF(poll_read)`: the relay keeps polling an open stream
  and the inner stream makes progress, or ends.
* `ObfsWrite`: weak fairness of the relay's reading, of its writing and of the
  receiver. Errors are possible at any time and never required.

## 5. What is proved

Every safety invariant and action property of a passing run is a theorem, and so
are both refinements (`ABI`, `Delivers`); what is left to TLC is at the end of this
section. The theorems hold for every value of the constants that satisfies the
module's `ASSUME`s. Types are left to the proofs where there are any: `TypeOK` of
`Sslocal` is a part of `IndInv`, which `SslocalTun` checks too, and those of
`LastError`, `JsonStore` and `PluginForwarder` are theorems only, as is `NoBusyLoop`.

### Induction over data

What a loop computes for inputs of every length is proved by induction, in first-order
form: `SequenceLemmas!Induction` says that a set of naturals with 0 and with the
successor of each of its elements is `Nat`, and a proof applies it to the set of
those lengths (or distances from the end) for which the claim holds. That a
recursive function of the models is defined at all, `f[k]` by `f[k - 1]` or by
`f[k + n]`, is proved in the same way, once per loop (`KeptExists`, `DownExists`,
`TurnsExist`, ...). On top of this, `SequenceLemmas` says of `Without`: it keeps
the order (`WithoutPicks`), the elements (`WithoutRange`) and distinctness
(`WithoutApart`), and filters the parts of a concatenation one by one
(`WithoutConcat`).

### Lifecycle: `SslocalProofs`

From `ConfigsAssumption` and `DistinctAssumption` only (the arguments have the
declared shape, and "nothing" values differ from real ones), for any number of
threads, runtimes, descriptors, ports and configs:

* `Invariance`: `Spec => []IndInv`.
* `TypeCorrect`: `Spec => []TypeOK`.
* `DescriptorsSafe`: `Spec => []NoStrayClose`.
* `NothingOrphaned`: `Spec => []NoOrphans`.
* `Refinement`: `Spec => ABI`, the implementation of `SslocalAbs`.
* `EveryPluginServed`: `Spec => []PluginsServed`.

None of the properties is inductive alone. `NoStrayClose` needs that a
descriptor has one owner (`FdInv`), which needs to know which runtimes may hold
one: only the draft of a start that has done its `dup`, or a runtime whose core
has not exited (`RuntimeInv`); and that needs that the draft belongs to the
thread that holds the mutex and that `INSTANCE` is empty meanwhile (`LockInv`).
`IndInv` is the conjunction with `TypeOK`. The proof has one lemma per action,
and `Refinement` maps `Launch` to the abstract start, `sslocal_stop` to the
abstract stop and every other step to a refusal, a query, or a stutter, with
`on <- instance # NoRuntime`; it uses `LockInv` to know that the switch is off
when `Launch` stores the instance. For `PluginsServed`, `ServedInv` says of every
owned runtime, the draft included, that an entry is served or still to do; a bind
takes a port that is nobody's, and a teardown unbinds only its own.

### simple-obfs: `ObfsProofs`

For any headers, bodies, records and totals, any sizes of scratch, copy buffer and
chunk (`ChunkSize < Base * Base`), and every split of reads and writes:

* `BytesAccounted`: `Spec => []Accounted` and `HeaderBounded`:
  `Spec => []ScratchBounded`.
* `WrittenIsAccepted`: `Spec => []AcceptedIsWritten`.
* `ObfsImplements`: `Spec => Delivers`, from `ReadImplements` and `WriteImplements`:
  each half implements `ByteStream`.
* `LengthsCorrect`: `Spec => []LengthsAgree`, for every chunk up to
  `TLS_CHUNK_SIZE` and every host name up to `MaxServerLen`, beyond which the u16
  sums of the code would wrap. `Position` gives the position in the buffer at each
  block; `NoWrap` shows that no sum overflows.

`ReadInv` of the HTTP reader says that the payload is what comes behind the first
`\r\n\r\n` of what is buffered and on its way (`Headed`), and afterwards that it is
what the caller has, the leftover and what is on its way. The TLS reader knows
only where it is in one record, and a length is two bytes that may come in two
reads, so `InRecords` names the sequence of records, where each one begins, and
where in which record the parser is (`Where`), with as many bytes of the length as
it has; that the bytes it discards are framing and the ones it passes on are
payload then follows from what a record is (`RecordIn`). `WriteInv` says of the
writer that the server's parser can read everything that is on the wire or pending
and stands between two frames afterwards (`WriteParses`), and that the payload of
all this is the input taken so far (`WriteOwed`); `HttpFrame`, `RecordFrame` and
`HelloFrame` give both for one frame of each kind.

### Error slot: `LastErrorProofs`

`PointerStaysValid`: `Spec => []PointerValid` and `MessagesOwned`:
`Spec => []OneOwner`, for any number of threads, addresses and errors, with
`TypeCorrect`, all from `SlotInvariance`: `Spec => []SlotInv`. What a pointer reads
depends on who may free its address, so `SlotInv` adds to `TypeOK` that an address
is in use exactly as long as a slot or a call owns it (`Owned`), that no two of them
own the same one (`Apart`), and that what an owner holds is what was cloned (`Texts`).

### Plugin forwarder: `PluginForwarderProofs`

* `ListenerStays`: `Spec => []ListenerKept`, `LoopPauses`: `Spec => []NoBusyLoop`
  and `TypeCorrect`: `Spec => []TypeOK`, for any requests, connections, descriptors
  and passing errors. `LoopInv` says why the loop may be in the state it is in; the
  lemma `OnlyListenerErrorsAreFatal` compares the errors that are retried with
  their causes.
* `RelayedRight`: `Spec => []RelayedAsAsked`, for option strings of any length and
  with any keys. `Means` says that a value is that of the last option with a key, or
  the default; `ObfsParsed` and `V2rayParsed` show by induction over the options
  that the parsers' folds compute it for each setting, and that a bad `mode`
  anywhere refuses the whole string. `ParseBool` and `V2rayCases` say that the
  parser's comparison, lower the value and look it up, is the one `Asked` states: the
  value says one of the words in whatever mixture of capitals (`Says`). `RelayInv` adds that a task that relays has seen
  all awaits of `wrap_stream`.

`Lower` is a constant, any function on strings that leaves the words it is compared
with as they are (`LowerAssumption`); in the run it is a table of the words there.
`Strings` is a constant too, Rust's `String`: TLA+ gives the prover no way to see that a
literal is in `STRING`, so `StringsAssumption` says so of the literals of the model.
`NoPluginAssumption` says that the error is neither a plugin nor a stack of layers.

### Page and extension: `IndexPageProofs`

Of the page: `TimerOwned`: `AppSpec => []OnePoller` and `TimerEnds`:
`AppSpec => []PollerEndsWithPage`, for any number of clicks and of handlers under
way. `PollInv` adds that after the page has gone with no `connect` waiting, none
waits later (`NoLateStart`), which needs the types of the counts. `StartShown`:
`AppSpec => []UpIsShown`, for any number of clicks, where the run has three:
`ShownInv` says that without a crossing no start and no stop are under way
together, that an answered stop finds nothing wanted, and that what is wanted is
shown or about to be. A click that is rejected repairs no crossing, so only a call
that is carried out ends the exception; it takes a fourth click to see that.

Of the extension: `DestroyedClean`: `AppSpec => []DestroyedIsDown`,
`FailedStartClean`: `AppSpec => []FailedStartIsUndone`, `StatsOfSession`:
`AppSpec => []FreshStats` and `ListKept`: `AppSpec => []ListExact`, for any ports,
profiles, connections and number of processes. `VpnInv` says what a teardown at its
last call has behind it (`Closed`), and that an `onDestroy` which came in time meets
an `onCreate` that makes nothing any more (`InTime`); the callbacks outside of these
cases may be anywhere. `ListInv` says that a connection is in the list exactly as
long as it is open and no teardown has taken it over, and is there once, so that
removing its first occurrence (`forget`) removes it. The lemma `AppStep` carries the
invariants over from the steps of the extension to those of the composition.

### JSON store: `JsonStoreProofs`

For any documents (nonempty, without NUL, ending in an ASCII unit, none the
beginning of another: `DocsAssumption`, which is what JSON objects and arrays are)
and any inodes:

* `PublishedNeverWritten`: `Spec => PublishedStable`, and `TypeCorrect`:
  `Spec => []TypeOK`. `NamesInv` says that the temporary file has another inode than
  the published one and than what the reader has open, and that the writer has the
  temporary one open; `FreeKeeps` that an inode is used again only when no name and
  no descriptor is left.
* `DecodeEncode`: `decodeUtf8(encodeUtf8(text)) = text` for every string of UTF-16
  code units, of every length, lone surrogates included.
* `LoadsGenuine`: `Spec => []LoadGenuine`, `ReadsBack`: `Spec => []RoundTrip` and
  `ReadsOneDocument`: `Spec => []OneDocument`.

The induction behind these is over the characters of the text, from its end. It is
about more than the whole text: `Reads` says of the bytes from any character on,
wherever they stand in the buffer, of any number of them, and of the NULs behind
them, what `decodeUtf8` makes of them. All of the bytes give the text and the NULs
(`Gives`). Some of them give the beginning of the text (`Begins`), unless a
character was cut and NULs took the place of its rest: then the string has a NUL
in it or ends in a unit that is not ASCII (`Spoilt`), and no document is like that.
`ReadInv` adds what the steps are to be counted on for: every file holds the
beginning of some document (`FilesInv`), and what is read and its size are those of
contents the path has named since the call began (`SeenInv`).

### Profiles and subscriptions: `ProfilesProofs`

For any number of profiles, subscriptions, downloads and fetched lists: `TypeCorrect`
(`TypeOK`), `NoOrphans` (`OwnersListed`), `RemovedForGood` (`RemovalHolds`),
`GuardIsExact` (`GuardExact`), `StartsShown` (`StartsWhatIsShown`), `OwnersAreKept`
(`OwnersKept`) and `OthersAreKept` (`OthersKept`), from `Invariance`:
`Spec => []Inv`. The stores are kept right by what the pages hold, so `Inv` is about
those as well: everything that names a subscription, the form and each download
included, names one that is listed or whose removal raced (`Owners`), and never a
removed one (`Gone`); the form has the owner of the profile it edits (`Editing`);
what Index has first or selected is so in the store (`Showing`); and one download at
most is waited for (`Waiting`). A fetched profile gets an unused id because among
`Cardinality(U) + k` numbers there are `k` outside of `U` (`NthUnused`).

### Only model-checked

The liveness properties: `LockReleased`, `Terminates`,
`NoBlackHole`, `StopTakesDown`, `PendingTaken`, `GivesUp` and `Unjams`. They rest on
fairness, and the prover has no rules for ENABLED.

## 6. Not modelled

* `recover_tun_name` and `sslocal_version`: they read and change nothing.
* Parsing and formatting of `ss://` links, configs and subscription documents, and
  `Routes.ets`: pure string work without state, with unit tests beside it. That a
  download brings no usable profile is `FetchEnds` with none.
* TLS and WebSocket framing under `v2ray_plugin.rs`: external crates.
* Accept errors that have no cause on a loopback listener: Linux passes pending
  network errors (`EPROTO`, `ENETDOWN`, ...) through `accept`, and
  `is_transient_accept_error` does not list them; `PluginForwarder` assumes that
  loopback connections do not have them.
* The rates that Index computes from two samples: arithmetic on two numbers for
  display.
* A page opened while the VPN is up: `connected` starts as false and nothing asks
  the system, so that the page shows it as disconnected. There is no code whose
  result could be stated.
* `VpnGrant.ts`, `EntryAbility.ets`, ACL files, layout of pages, build scripts.
* Poisoning of mutexes: no code panics while it holds one.
* `STAT_ADDR` is part of `Sslocal`, and reaches the core's config in `LoadConfig`,
  but no property is stated about it yet.

## 7. Plan

Done: `Sslocal`, its abstract specification and proofs; `LastError`; the obfs
wrappers; `ClientHello`; `JsonStore` and `Utf8`; `VpnExtension`; `PluginForwarder`;
`Profiles`; `IndexPage`; the proof of every safety property the runs check.

Left, in this order:

1. The converse of `DecodeEncode`: which files written by another program
   `encodeUtf8(decodeUtf8(bytes))` leaves as they are.
2. Abstract specifications that the other components implement, as `SslocalAbs` is
   for the lifecycle: an atomic register for `JsonStore` read by `load`, a switch for
   the extension.
3. A property of `STAT_ADDR`: which start it takes effect in.
4. Lemmas towards the liveness properties that need no fairness: what each of them
   waits for cannot be put off for ever by other steps.
