# A verification of fisk

fisk is a distributed build system. `fiskc` stands in for the compiler on a
developer's machine, preprocesses, and sends the result to a builder that the
scheduler picks; the builder compiles it in a chroot that holds the client's own
toolchain (an "environment"), or answers from its cache of objects. This
directory holds TLA+ models of the parts of fisk that are concurrent or keep
state over failures, the TLC runs that check them, and TLAPS proofs of the
properties that matter most. All of it was written from the code under `src/`;
file and line numbers in comments and in `PROJECT.json` are those of that code.

## 1. The system

Four programs, each with one thread that changes its state (Node's event loop, or
`fiskc`'s main thread), talk over sockets:

    fiskc --unix socket--> fisk-daemon            (one per build machine)
    fiskc --websocket----> fisk-scheduler         (one)
    fiskc --websocket----> fisk-builder           (many)
    fisk-builder --websocket--> fisk-scheduler
    fisk-builder --pipe--> VM child               (one per environment)
    fisk-builder --http--> fisk-builder           (objects), scheduler (environments)
    monitors --websocket--> fisk-scheduler

A handler runs to its end, so the interesting orders are those of handlers, of the
code after an `await` or in a callback, of messages, and of the two ends of a
connection that notice its end at different times.

### Inventory

| component | state | operations | hard because | correct when | module |
|---|---|---|---|---|---|
| daemon slot pools (`daemon/Slots.ts`, `fisk-daemon.ts`) | holders and waiters of three pools, flags per connection, subscribers | acquire, release, compiler lookup, close, subscribe | a lookup resolves after the close; a close moves several pools | capacity, no lost slot, no forgotten waiter, first come first served | `DaemonSlots`, `FifoSemaphore` |
| fiskc's slot protocol (`client/main.cpp`, `DaemonSocket.cpp`) | where each process is, slots it read about | ask, wait, time out, fall back, exit | late grants, two pools held at once, kills, the daemon's death | the daemon's assertions hold, every process ends | `FiskcSlots` |
| fiskc's remote compile (`client/Client.cpp`, `Watchdog.cpp`, websockets, `Preprocessed.cpp`) | stages, sockets, preprocessor thread, what the builder was told | connect, hold, upload, answer, fall back | retries, timeouts, a second thread, messages handled while another wait goes on | a result is whole, every wait is guarded, every process ends | `ClientJob` |
| builder job queue (`builder/fisk-builder.ts`) | `jobQueue`, a state per job | job, data, error, close, finish, start the next | priorities, asynchronous cache reads, aborts | no idle slot, nobody left behind, reports paired | `BuilderJobs` |
| VM and child (`builder/VM.ts`, `CompileJob.ts`, `VM_runtime/`) | `compiles`, pipe, child | start, cancel, destroy, finish, die | messages sent to a child that exits | what runs is what the builder thinks runs | `BuilderJobs` |
| builder object cache (`builder/ObjectCache.ts`) | index, size, pending writes, directory | add, fetch, load, serve, remove, purge | check now and act later, several writers of a directory, reconnects, crashes | index = directory, size right, bounded | `BuilderObjectCache` |
| builder connection (`builder/Client.ts`) and scheduler registry | registry by address, counters, pings, `ws`, its listeners, reconnect timer | connect, open, close, ping, restart | attempts overlap; a close takes the listeners of another attempt | counters match, live entries, a builder keeps trying | `SchedulerRegistry`, `BuilderRegistry` |
| job assignment (`scheduler/fisk-scheduler.ts`, "compile") | active jobs, load, last job | assign, error, close | error then close, builder gone meanwhile | counted once, free builders first | `JobAssignment` |
| scheduler object cache manager (`ObjectCacheManager.ts`) | objects by node and node by object, pending transfers, timers | announce, insert, remove, hit, distribute, expire | two maps, keys by address | the maps agree, transfers end, not too many copies | `ObjectCacheManager` |
| environment upload (`requestEnvironment`, `File.ts`, `Environments.ts`) | who was asked, the file, known environments | ask, receive, save, unpack, error, close | promises outlive the connection | known is whole, refusals end | `EnvironmentUpload` |
| environment sync (`syncEnvironments`, "getEnvironments") | listed and had environments, directories, loops | sync, download, unpack, start, inform, drop | concurrent loops, late exits, restarts | they agree in the end, listed is had, every VM has its root | `EnvironmentSync` |
| users and database (`Database.ts`, monitor messages) | one file, its temporary, a queue of operations, `pendingUsers` | get, set, login, add, remove | read, await, write; crashes; broken files | what was answered is in the file, everybody is answered | `UserDatabase` |
| environment links (`Environments.ts`, `Links.ts`) | links in memory, in the file, and in writes that wait | link, unlink, remove | waiting writes refer to links that change | memory and file agree | `UserDatabase` |
| job ids and reports (`nextJobId`, `VM.ts`) | counter, compiles by id | number, start, end, abort | wrap, restart, lost reports | a result reaches its own job | `JobFeed` |
| terminal monitor (`monitor/fisk-monitor.ts`) | tables of builders and jobs | the scheduler's messages, connect, clear | joins late, reports get lost | shows what there is | `JobFeed` |
| compiler info cache (`daemon/CompilerInfoCache.ts`) | entries, shared promises | get, stat, probe | a compiler replaced meanwhile | info is of the compiler that was there | `CompilerInfoCache` |
| daemon framing (`daemon/Compile.ts`, `ClientBuffer.ts`) | bytes, message state | data | any cut | same messages | not modelled (section 8) |
| peaks, compatible environments, compile arguments | pure data | | | a reference definition | not modelled (section 8) |
| command line analysis, debug info patching, configuration, logging, terminal monitor, packaging | | | | | not modelled (section 8) |

`PROJECT.json` lists the same components with their files, and under "hazards"
every place where this code can go wrong in a way that a test would hardly reach.

## 2. How the modules are built

* A component's variables are its module's VARIABLES; a handler, or the part of it
  that runs in one turn, is one action; its guard is the handler's conditions and
  early returns. Control is kept; data is abstracted to what the properties tell
  apart. Names are those of the code.
* `MC<module>.tla` gives constants values for TLC, and the `.cfg` files name what is
  checked.
* Beside some operators stands a "Mutant of ..." operator: the same definition with
  the slip that a property is there to catch. Nothing uses it; put in the place of
  the original, it makes TLC find that property violated (`PROJECT.json`, "mutants").
* Two runs expect a violation: the property says what an option of the code promises,
  and TLC shows an order of events in which it does not hold (section 6).
* A type invariant that says little by itself is the first conjunct of the property that
  needs it.
* A property that holds except when two owners meet (two uploads, two indexes, two loops) is
  stated with a history variable that says they met (`raced`, `shared`, `crossed`,
  `overlapped`) or what failed before (`torn`, `lingering`), or with the step that may break
  it. So the passing run says exactly how far the code can be relied on, and section 6 says
  what happens beyond.

Composition: `FiskcSlots` EXTENDS `DaemonSlots` and `CompilerInfoCache` and adds
processes and sockets; it implements `DaemonSlots`' `Spec` (checked, and proved), whose
assumptions about clients are thereby justified. `DaemonSlots` implements
`FifoSemaphore`, three times. `BuilderRegistry` (builders that reconnect) and
`JobAssignment` (clients) both extend `SchedulerRegistry`; `JobFeed` (jobs, their ids
and a monitor) extends `BuilderRegistry` and implements its `Spec` (proved). The others
stand alone; each names what it takes from its neighbours as an input.

## 3. The modules

**Queues** are a JavaScript Map or array used as a waiting line.

**FifoSemaphore** is what a slot pool promises: holders within a capacity, waiters
only if there is no room, served in order. **DaemonSlots** is the code. `used` and
`pending` are `Slots.used` and `Slots.pending`; `requested` the three flags of a
connection; `lookups` the unresolved `CompilerInfoCache.get`. `AcquireSlot` is the
handler up to its await and `CompilerInfoReady` the rest. `Close` is "error" or "end"
with all three releases. `granted` is a history of what the connection was told.

**CompilerInfoCache** is `get()` for one path. A compiler stands for its file with its
mtime; `key` is what a lookup's stat read, `computing` the map of promises that lookups
share, and `seen` and `left` the probes under way. Each probe runs what is at the path
when it runs. `cached` keeps which compilers the info under a key was made from: one, if
all is well. `window` (what was installed during a lookup) and `overlapped` are history.

**FiskcSlots** has a program counter per `fiskc` process that stops at the waits of
`main()`; `toDaemon` is its socket. The daemon reads one message at a time
(`HandleMessage`), so a request may be read after its writer has timed out or died.
`acquireSlot` starts a lookup of `CompilerInfoCache`, whose end (`LookupDone`) is
`DaemonSlots`' `CompilerInfoReady`, found or not. `DaemonDies` ends every wait. What a make
starts is one of `Makes`: a process that will ask for a slot ("idle"), or one that may not
distribute and asks for a compile slot at once ("local"). A process that meets no daemon,
or not before the watchdog barks, is `StartAlone`. `Watches` is a monitor that subscribes
and unsubscribes.

**ClientJob** takes one `fiskc` from the moment it has a cpp slot, where `FiskcSlots`
only says "remote compile". `pc` is the wait `main()` is in; `wdog` and `stage` are the
watchdog; `thread` is the preprocessor thread, whose buffers `main()` may read before
it is done if the daemon dies. `ws` are the two websockets, `peer` their other ends
(which may fall silent or go away, then `Broken` loses what was not handled yet),
`attempt` the retries. `answer` holds `wait`, `done`, `error` and `files` of
`BuilderWebSocket`, the files as positions in the index (their order is that of the
positions); `job` is the builder's side, `stream` the messages between them,
`input` what the builder was given and `out` a history of what was printed and which
contents went into which file. `select()` runs all handlers in one round, so `OnFile`
and its siblings are enabled in every wait, also in the one for a compile slot after
`main()` has given up. The assertions are those of a build without `NDEBUG`.

**BuilderJobs** holds `jobQueue`, a record per job with its websocket, `VM.compiles`,
the pipe to the child, what runs in the child and what comes back. Cached objects are
served over several turns. `startPending`, `cancel` and the reports to the scheduler
are parts of the actions that call them. A compiler that cannot be run (`CompilerCannotRun`)
emits an error that nobody listens to: its job stays in `compilers`, in `failed`, and no
result is ever sent.

**SchedulerRegistry** is `insertBuilder` and `removeBuilder`, with `builderCount` and
`capacity`. **BuilderRegistry** adds the builder's process (`up`), its end of each
connection, `Client.ws`, the reconnect interval, restarts of the scheduler, and pings with
the pongs that are missing. Its "close" handler removes the listeners of whatever
websocket is the latest by then: that one is in `deaf` from there on. Its "open" is not
heard, its close starts nothing, and its error, which nobody handles, ends the process
(`DeafFails`). **JobAssignment** adds clients: filter, candidates from the object cache or
the registry, the score, and giving a job back on error and close.

**JobFeed** adds to `BuilderRegistry` what a job is called. `jobId` and `life` are the
scheduler's counter and which process of it counts; `compiles` is `VM.compiles` by id, and
`CompileEnds` gives a result to whatever compile has the id. The monitor's `known`,
`active`, `table` and `shown` are its tables of builders, their counts, its jobs by id, and
the lists of clients' jobs. A report is passed on only if the builder's latest websocket
is open and inserted (`Heard`).

**UserDatabase** has the file with its two records and the operations queued for it; a `set`
reads, writes a temporary file and renames. A monitor's message is a `get`, then a hash
(add, login) and a `set` of the whole record of users as it was read (`base`). A pending
write of links holds the `Links` objects themselves (`live`): it sees changes made until its
contents are made, but not those of an object that was deleted and made anew (`Seen`). An
unlink is by source, by target or by both, and writes also when it finds nothing to unlink.
`Crash`, `FileFails` and `Damage` are the faults; `promised` is what replies have said.

**ObjectCacheManager** has the two maps, `pendingTransfers` and its timers; `Distribute` is
about one object or all, as the query says. The scan of
`distribute` starts where the last one stopped, so the module lets any set of the size
that the scan yields be chosen. `orphans` are timers whose key was set again, which
the code can no longer clear.

**BuilderObjectCache** has one `cache` per index: the builder makes a new one on every
connection (`NewIndex`), while the old one's writes go on (`End`, with the old `g`).
The bytes of items are pairs of an object and a place, so that a size is a cardinality;
`Load`, the constructor's loop over the directory, is a recursive function of the number
of files, in any order.
`disk` is the file under an object's name: where its bytes are from, whether they are
all there and who is writing it. Compiled objects are written in place, fetched ones
renamed into place. `Restart` is a crash: memory goes, the directory stays.

**EnvironmentUpload** is `requestEnvironment` with `File` and `untarFile`, one stage per
promise. The file is named by the client that created it; opening a path that exists
truncates the file of another client (`cut`).

**EnvironmentSync** has the scheduler's set, its view of a builder, messages both ways,
and the builder's loops. A loop is one "getEnvironments"; `dir` is the state of an
environment's directory and `owner` the loop that made it last. The headers of a connection
carry what the builder had when it began to connect (`Attempt`), the first in `toSched`.
`Exit` is the late exit of a destroyed child, which begins to remove the directory. That
takes a while (`removing`): it may get to the root before it gets to environment.json
(`RemoveSome`), go on to the end, by when it removes whatever is there (`Removed`), fail
(`RemovalFails`), or be cut short by a `Restart`. `Quit` removes some directories, leaves
some, and leaves some half removed. `Restart` loads whatever has an environment.json, with
all of its root ("whole") or not ("gutted"), and removes the rest. `torn` names the
directories that a removal left. That `work` itself may fail to remove an old directory is
left out: only those of `torn` and `crossed` are there to be removed.

## 4. The runs

All passing runs visit their whole state space.

| run | instance | shows |
|---|---|---|
| `fiskc_slots` | 2 processes that may distribute or not, or 3 that may not; 1 slot of each kind, a monitor, a compiler of 2 probes replaced once | the protocol makes only the requests that `DaemonSlots` allows, and its pools are first come first served; late messages trip no assertion, slots bound what runs and none is lost, flags, pools, clients and the monitor agree; info is of a compiler that was there; every process ends |
| `client_job` | 1 process, 2 attempts per connection, 5 shapes of output | assertions hold, waits are guarded, a result is whole and printed once, every process ends, each with named exceptions |
| `builder_jobs` | 3 jobs, 1 urgent, 1 slot | order, no idle slot, paired reports, nobody left behind, VM and builder agree, no start without a free slot but by one handler; every job ends unless its compiler cannot be run or the child lost it |
| `builder_compilers` | the same | expects a violation: more compilers than slots |
| `builder_cache` | 2 objects, one with a larger fetched copy, 2 indexes | never overfull; true to the directory, over crashes, unless two owners meet |
| `job_feed` | 1 builder with 3 attempts, 2 jobs, ids limited to 2, 2 lives of the scheduler | registry entries are live, counters match, a builder keeps trying and is forgotten only by its own rival connection; results reach their own jobs unless an id was given twice; the monitor shows what there is |
| `silent_builder` | 2 builders, 1 connection each | expects a violation: a builder that never answers a ping stays |
| `job_assignment` | 3 clients, 3 connections of 2 builders | each job counted once and given back once; only connected builders; free builders first |
| `cache_manager` | 3 builders, one with two connections, 2 objects | the maps agree, transfers end, copies bounded |
| `env_upload` | 3 clients, 1 environment | known is whole unless uploads overlapped; refusals end |
| `env_sync` | 2 environments, one there at the start, 2 arrivals, 2 loops, 1 failure | listed is had; every VM has its whole root unless directories were crossed or a removal was cut short; they agree in the end |
| `user_database` | 2 users, 2 environments, 2 messages, 2 changes of links, 1 fault | what was answered is in the file unless messages overlapped; links in force are in the file; names are freed; everybody is answered |

Bounds. Two parties are enough to conflict, a third to be overtaken or left behind: so three
connections, jobs or clients, and one slot, where a pool is at its limit at once.
`fiskc_slots` has two processes in every pool, and three that only ask for compile slots, of
which two wait for one: the order of a queue can go wrong with them. What more do to each
other is proved, for any number, of `DaemonSlots` and of `FiskcSlots` itself. Its compiler
has two probes, so that a replacement can fall between them, and is replaced once. In
`job_feed` the three attempts are an old, a current and a next one; the scheduler has
numbered one job before, so that with the limit at 2 the wrap falls on one of the two jobs;
and one restart is enough to hand an id out again. Objects are two, chosen so that only one
fits. `client_job` has two attempts, so that the last and one that is not the last are
different (0, for unlimited, is left out: then only the watchdog ends the attempts, as it
ends the second one here), and outputs of no file, one, two of one size (which a swap would
not reveal by size), and an empty one on either side of another. Two arrivals in `env_sync`,
with an environment that is there at the start, are enough for it to be purged and come
again, while its VM exits or its directory is removed; one failure at any moment suffices
since restarts, lost connections, failed downloads and failed removals all lead back to
states of the same kind. In `user_database` two messages can overlap in every way, with one
name or two, and two changes of links can make, delete and make anew a `Links` object under
a waiting write. `MaxFetches`, `Gens`, `MaxOrphans`, `MaxSilence`, `Loops`, `MaxArrivals`,
`MaxChanges`, `MaxRequests`, `MaxFaults`, `MaxSerial` and `MaxLives` are bounds of the
models and not of the code; where one is reached, only the step that would pass it is
disabled. Symmetry is used for interchangeable connections, jobs and attempts, and only
where no liveness is checked.

`CHECK_DEADLOCK FALSE` is given where every process may have ended, every connection
been used up, or every client answered.

## 5. Fairness

* `FiskcSlots`: weak fairness of the daemon's reads, of stats, probes and resolving lookups,
  all of which end or fail, and of each process going on. A wait for a slot ends by the
  grant or the daemon's death, not by its timeout (section 6), and the property holds
  without fairness of the timeout; the compiler ends, and the remote compile ends as
  `ClientJob` says. No fairness of kills, failures or the daemon's death.
* `ClientJob`: weak fairness of `main()` going on when a loop's condition is over, of its
  handlers, and of the watchdog where no heartbeat comes: `select()` sleeps no longer than
  the watchdog's time, which a heartbeat restarts. None of the preprocessor, the
  scheduler, the builder, the network or the upload.
* `BuilderJobs`: weak fairness of the builder's turns, of the child's reads and of
  compilers that end, where they can be run. None of deaths, failures or disconnects.
* `UserDatabase`: file operations, hashes and random bytes end. None of faults, messages
  or changes of links.
* `EnvironmentUpload`: a client's process ends some day and its connection closes; what
  the scheduler has begun (a write, tar) ends. None that a client sends anything.
* `EnvironmentSync`: messages arrive or the connection is cut; the reconnect interval
  fires; a download, tar, or a child's start comes to an end, and a child that was told to
  exit does. Failures have none and are bounded in number, so the property is about what
  happens after the last one.

## 6. Where the code does not do what it says

Two runs state a promise of the code and expect TLC to find it broken:

| run | the code says | what happens |
|---|---|---|
| `builder_compilers` | `--slots` is the number of compile slots | `done` is set before `cancel` looks at it, so the compile of a client that left runs on while its slot is reused |
| `silent_builder` | `--max-pong-interval` is the "Maximum pong interval before disconnect" | `Client.ping` needs an `option` that a builder's `Client` is never given, and `pingSent` is overwritten by every ping: a silent builder stays registered until its connection breaks |

The findings in `PROJECT.json` quote the lines. Other surprises are exceptions that the
properties of passing runs name; drop the exception and TLC shows an example:

* `OnlyBackloggedClosesOvershoot`: the close of a backlogged client starts another job
  although every slot is at work (`fisk-builder.ts:1060`).
* `ForgottenOnlyByRival`: the late close of a builder's old connection deletes the
  registry entry of its new one (`fisk-scheduler.ts:345`); the builder is then connected
  on both ends and gets no jobs.
* `TimerLostOnlyByTwins`: two connections of one builder are ordered the same transfer,
  and the timer of the first forgets the second early (`ObjectCacheManager.ts:41`).
* `SoundUnlessShared`: a fetch and a compile of one object are both counted, and the
  fetched file replaces that of the object under a header of another size
  (`ObjectCache.ts:223`, `fisk-builder.ts:336`).
* `WholeUnlessRaced`: a close after the last byte clears the mark while the file is
  still read; the next client truncates it, and it becomes known (`fisk-scheduler.ts:968`).
* `RootsAreWhole`: a second "getEnvironments" removes the root of a running VM; if its
  download fails the environment is announced all the same (`fisk-builder.ts:554`). A
  removal (`VM.ts:75`, `fisk-builder.ts:479`) that ends half-way, by a crash or an error
  that is ignored, may leave environment.json with part of a root; the next start loads it,
  starts its VM and announces it (`fisk-builder.ts:430`). A failed download whose directory
  cannot be removed leaves the same (`fisk-builder.ts:609`).
* `EveryJobEnds`: the error of a compiler that cannot be run is emitted where nobody listens
  (`Compile.ts:240`, `VM_runtime.ts:154`), ends in the handler of uncaught exceptions, and is
  only logged (`VM.ts:43`): the job keeps its slot, and its client gets heartbeats, until the
  client gives up. So does a job whose child dies.
* `AssertionsHold`: a connection to the scheduler that is lost after its handshake and
  before its answer is retried, and the second handshake passes the stage
  `ConnectedToScheduler` again: the watchdog's assertion aborts `fiskc`, unless
  `--websocket-connect-attempts` is 1, its default (`SchedulerWebSocket.cpp:5`,
  `Watchdog.cpp:24`).
* `AssertionsHold` and `ResultIsRight`: if the daemon dies while the preprocessor's thread
  compresses or hashes, its exit status is already set and `main()` uses the buffer
  (`main.cpp:379`, 393, 497): it may upload a part, hash a part, or assert on nothing.
* `ResultIsRight`: an answer that comes while the upload is held prints the preprocessor's
  stderr twice, in `BuilderWebSocket.cpp:103` and `main.cpp:552`.
* `Watched` and `FiskcEnds`: an error in one output file stops the watchdog and sets
  `done`, but the file after it, or the end of the loop over the index, overwrites `done`
  (`BuilderWebSocket.cpp:163`, 231). If that happens before `main()` looks, `fiskc` waits
  without a watchdog, and for ever if the builder then falls silent. It also waits for
  ever for a scheduler that falls silent while it receives an environment
  (`main.cpp:436`), and for a builder that only sends heartbeats.

* `InfoIsOfTheCompiler`: a compiler that is replaced while its probes run leaves a mixture
  of two in the cache, under the key of the old one: it is served to whoever waited, and
  again if the old compiler comes back with its mtime (`CompilerInfoCache.ts:249`).
* `KeptUnlessOverlapped`: a file that is damaged from outside loses what it held; and every
  message writes back the record of users it read. Two that overlap lose one update, and
  both report success; a login that overlaps a `removeUser` brings the removed user back
  (`fisk-scheduler.ts:1365`; `pendingUsers` excludes only adds and removals of one name).
* `LinksKept`: a removal saves three times; a crash between them leaves links to an
  environment that is gone (`Environments.ts:224`); so does a failure of the first one, for
  good, since the other two are then left out; and a failed write leaves memory ahead of
  the file until the next one. A monitor can link environments that do not exist.
* `ResultsAreOwn`: a scheduler that restarts numbers from 1 again, while builders still run
  jobs of before under the same ids. The second compile takes the place of the first in
  `VM.compiles`, so that its client may get the first one's output, and the first one's
  client waits, with heartbeats, for ever. The wrap at 2147483647 replaces only that one
  id: the ids after it go on beyond it (`fisk-scheduler.ts:145`).
* `MonitorIsRight`: a builder that reconnects is entered anew with nothing active, and the
  ends of its old jobs then count below zero; reports are dropped while its latest
  websocket is not open (`builder/Client.ts:206`, 221).

And five that no property states:

* The close of one attempt to connect removes the listeners of the latest one
  (`builder/Client.ts:190`). The deaf attempt opens unheard while the reconnect interval goes
  on; if it fails instead, its error is an uncaught exception and the builder ends
  (`DeafFails`). `KeepsTrying` says that a builder that runs is not left without either.
* A `login` whose `set` fails is answered as failed, and the monitor is logged in all the
  same: `user` is set before (`fisk-scheduler.ts:1455`).

* `--slot-acquisition-timeout` is looked at after `select()` returns, and `select()` has
  no timeout once the watchdog is stopped (`DaemonSocket.cpp:234`, `main.cpp:271`).
* A cached answer with an empty file before another one is always rejected: `getFromCache`
  sends empty contents, which `fiskc` does not expect (`fisk-builder.ts:191`,
  `BuilderWebSocket.cpp:193`), while the compile's path leaves them out
  (`fisk-builder.ts:999`).
* An answer that arrives while `fiskc` waits for a compile slot is still printed and its
  files are written, and then the compiler runs as well.

## 7. What is proved

The proofs hold for every finite set of connections, clients, jobs and builders, every
capacity, limit and interval; their only assumptions are the named ASSUMEs of the modules,
which TLC evaluates in the runs. No theorem rests on a bound of a model: where a bound
occurs, it is a constant that may be any number.

* `QueueTheorems`: what `Position`, `Without`, `Append`, `Tail` and `InsertAt` do to a queue
  without duplicates.
* `SlotsProofs`, first of `DaemonSlots`: the daemon. The inductive invariant says for each
  pool that waiters are distinct and no holders, that nobody waits while there is room, and,
  per connection, that its flags are exactly its memberships; the last part is what makes
  `Close`, which trusts the flags, give everything back. There is one lemma per pool
  operation (acquire, promote, release) and one step per handler. `PoolsImplementFifo` maps
  each pool to `FifoSemaphore`. Then `FiskcSlots`: any number of processes against that
  daemon. `InTouch(c)` relates where process c is, the messages the daemon has not read, and
  its flags: a process that never connected has sent and holds nothing; messages in a socket
  are distinct and each was sent from a place that no other request of its kind can follow;
  "end" is the last; a process that preprocesses has nothing unread and a cpp slot that it
  was granted. With the daemon's invariant this gives, at once, that each step of the system
  is a step of `DaemonSlots` or a stutter (`FiskcUsesTheSlots`), and so all that is proved
  of it; that no assertion fails; and that the slots bound what runs. `InfoInv` does the
  same for the compiler lookups: a computation that no replacement fell into has run only
  the compiler of its key.
* `JobFeedProofs`, first of `BuilderRegistry`: what `insertBuilder` and `removeBuilder` do,
  then the registry is right, a builder keeps trying, only rivals make the scheduler forget.
  `builderCount` and `capacity` are cardinalities (of the inserted connections, and of their
  slots as pairs), so that each step adds or removes one element or one disjoint finite set.
  The invariant adds that `Client.ws` is a living attempt of the builder's own that it
  listens to: a close that takes listeners away takes them from that one, and sets the
  timer. Then `JobFeed`: it implements `BuilderRegistry`'s `Spec`, which carries the three
  theorems over; a result reaches its own job; and the monitor is right. The invariant
  numbers the jobs (two of one life have different serials, none beyond the counter), and
  says that a compile under way is in `VM.compiles` under its id, or another job of that id
  is. For the monitor it relates its table to the jobs by their ids, and its count of a
  builder to those of the builder's running jobs that are in the table.
* `JobAssignmentProofs`: `activeJobs` and each `activeClients` count the connected clients
  that have a builder; the invariant adds that a client has a builder exactly when it is
  assigned or failed and that registry entries and object holders are connections whose
  close has not been handled. The error that comes before a close is why "failed" must be
  distinguished from "gone". `FreeBuildersComeFirst` is about the score: a product of free
  slots and idle share, positive exactly for a builder that has both, so that the best score
  is positive if there is one. Both may be at or below zero, since builders are given jobs
  beyond their slots.
* `BuilderJobsProofs`: the builder's queue. The invariant says for each job what its
  mode, its websocket, its place in the queue and `VM.compiles` allow of one another and of
  its reports (`JobRight`), and that a compile is asked for, runs or has its result under
  way, one of these at most (`ChildRight`); one that cannot be run counts as running
  (`FailedRight`). All handlers that take a job out of the queue go
  through one lemma (`Leave`): who leaves was at work and one job is started, so that the
  number at work does not grow, or was backlogged, which is the exception the last theorem
  names. On arrival the queue's length is compared with the slots, not the number at work;
  that every slot is then busy follows by counting. No cancel is ever in the pipe: `done` is
  set before `cancel()` looks at it.
* `EnvironmentProofs`, first of `EnvironmentSync`: what the scheduler lists, the builder has
  a VM for. Lists travel in messages, so the invariant follows them: until a purge, all that
  is listed or about to be is had, and no order to drop is under way; what loops and
  directories hold is known to the scheduler, or about to be purged. For the roots
  (`RootsRight`): until `crossed`, a VM's directory is whole or in `torn`, no child that
  still has to exit and no removal under way will touch it, and loops that are busy with a
  directory have different ones, with neither a VM nor such a child or removal; and what has
  an environment.json without all of its root is in `torn`, or is being removed, and a
  restart then puts it there. Then `UserDatabase`. The invariant says which messages the
  queued operations belong to (`OpsAwaited`: no message has two, and it waits for the one it
  has), what the operation that is performed has read and written (`CopyRight`, `InPlace`),
  that the file is what was promised (`Kept`), that the last queued write of links refers to
  the links in force (`LastWritesLinks`), and that links to an environment that is gone are
  left only where `lingering` says, or until the save that drops them (`LinksGone`). Every
  step does one of few things to the queue: it leaves it, appends, takes the head away, or
  changes what the waiting writes refer to; the lemmas about these carry the conjuncts.
  `LinksKept` used to promise more, and TLC agreed, with two environments: the proof did not
  go through for a removal whose first write fails (`Environments.ts:225`): the links to the
  removed environment then stay in memory, and a later change of other links saves them.
  With three environments TLC shows it too. `lingering` now names the environments this may
  happen to, those that a monitor links after they are gone, and all after a crash. Then
  `EnvironmentUpload`: until two uploads overlap, what is listed is whole. At most one
  client is between its first byte and the end of the tar, and the file it writes is its
  own.
* `ObjectCacheProofs`, first of `ObjectCacheManager`: the maps agree because only announced
  connections are nodes and only nodes have objects. An order fits when it goes to nodes
  that neither have the object nor wait for it; the redundancy then follows by counting: its
  copies, its pending transfers and the new ones are disjoint. Then `BuilderObjectCache`:
  one lemma for each thing done to an index (`SetItem`, `SetBytes`, `PurgeItems`, `PutItem`,
  `DropItem`, `ServeItem`) says which items it has afterwards and how size and bytes have
  changed. `PutItem` is the heart of it: a purge that does not get down to its target has
  removed everything, the new item included, so that what is left of the size is no more
  than before. That holds even when the size has drifted from the bytes, as it does when two
  owners meet; the drift only makes an index purge too early. `LoadItems` is an induction
  over the files, with a set in place of a predicate (`SetInduction`, from the least element
  of a set of numbers, `WFMin`); that the loop defines a function at all is one more
  (`LoopExists`). The invariant (`CacheInv`) adds to the properties that sizes cover the
  bytes in every index, since an old one may still be written to, and, until two owners met,
  that only the index in use writes, only what it has not, and to names whose file was
  compiled, if there is one. Without the last, what is at the name when the write ends might
  be a file that was fetched, under a header of another size, and `LooksDone` compares no
  more than sizes.
* `ClientJobProofs`: one remote compile, for any number of attempts and any output files.
  The first half of the invariant (`MainInv`) is about `main()`: which stage the watchdog
  has in each wait (which differs with the object cache, and while a connection to the
  scheduler is tried again), that only an error stops it there, and what was given to the
  builder. The second half (`AnswerInv`) is about the answer: a response comes once and
  before its files; the files come in the order of the index; and until an error, those
  that are awaited are exactly those with contents which the builder has still to send or
  which are under way. The order is what makes the file at the front of `files` the one
  whose contents arrive: `fiskc` compares nothing but sizes, and outputs of equal size
  would be exchanged without notice.

All safety invariants and action properties of the runs are theorems. Only model-checked
is liveness (`EveryFiskcEnds`, `FiskcEnds`, `EveryJobEnds`, `WaitingEnds`, `Converges`,
`EveryMessageAnswered`): it needs ENABLED, which is out of the prover's reach.

## 8. Not modelled

Command line analysis (`CompilerArgs.cpp`) and debug info patching (`DwarfPatcher.cpp`)
are long sequential functions over byte formats, without state between calls; the same
holds of the daemon's framing (`daemon/Compile.ts`, `ClientBuffer.ts`), of the files and
arguments of a compile in the VM's child (`VM_runtime/Compile.ts`), and of the statistics
in `Peak.ts`. Configuration, logging, `load.ts` and formatting are read-only or output. Of
the terminal monitor the tables are modelled, not the screen, its keys, or the display of
a local daemon's slots. HTTP pages of the scheduler only read, apart from the object
cache's, which are actions of `ObjectCacheManager`. Inside the modelled parts: two
builders' clocks, sizes of messages, the split of an object into files, the expiry of
cookies, arguments and blacklists of links, and partial file system failures of `mkdir`
and `remove`; `PROJECT.json` says of each component what is left out.

## 9. Plan

What is left, in this order.

Modules
1. `ObjectCacheNet`: `ObjectCacheManager` with several `BuilderObjectCache`s: do transfers
   that are ordered end in copies, and does the manager's map follow the builders'.
2. `JobAssignment` and `BuilderJobs` over `JobFeed`'s ids: a job from its client to its
   builder's queue and back.
3. Start-up of a VM with its chroot, whose child may exit before it is ready.
4. Pure functions against a reference: framing under any cut, `Peak`, compatible
   environments.
