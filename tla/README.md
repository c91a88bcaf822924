# Netzhaut in TLA+

A specification of the parts of Netzhaut, a browser engine in C, in which the order
of events decides: the workload scheduler every part of the engine runs on, the
loader of its modules, the table of child processes, the settings, the containers,
the log monitor, the HTTP client, the HTML parser and the reader of WebIDL. TLC
checks the modules on small instances, TLAPS proves the properties of most of them
for all. Paths are relative to the repository's `src/lib`, and a file
name alone stands for the one file of that name in the part it is about.

## 1. The system and its parts

Netzhaut is a set of libraries, loaded into one process by a small API library.
What happens at run time is organised by nh-core.

| Part | State | Operations | What makes it correct |
|---|---|---|---|
| **Workload scheduler**, `nh-core/System/Thread.c` | table of workload slots, command queues, pool flags, one mutex and one condition variable | activate, deactivate, execute, run, runOrSleep, waitForCompletion, start and end of the pool | callbacks on the right thread, free last, no lost wakeup, no dangling command, calls return, shutdown ends with an empty table |
| **Module loader**, `nh-core/Loader/Loader.c` | which modules are loaded | load, loadSymbol, initializers, freeLoader | dependencies first, initialised once, unloaded in an order terminators can live with |
| **Fork table**, `Process.c`, `Channel.c` | per process: table of children, count, pipes | fork, check, kill, init, free | count equals table, channels stay theirs, ended children leave the table |
| **Configuration**, `nh-core/Config`, `nh-wsi/Window/WindowSettings.c` | list of settings with priority and namespace | register, load, overwrite, read, toggle a window | look-ups do not depend on order, a user's choice stands |
| **Containers**, `nh-core/Util` | arrays and lists in chunks, ring buffer with markers | append, insert, remove, read | equal to sequences, within their memory |
| **Logger and monitor**, `nh-monitor` | connection, buffer, acknowledgements, trees of nodes | log, run, send, receive, file | the monitor's tree becomes the logger's, nothing is invented |
| **HTTP client**, `nh-network/HTTPClient.c` | socket, buffer, response | connect, TLS, send, read a response | a request ends, the response is the server's, descriptors are closed |
| **HTML parser**, `nh-html/Parser` | tokenizer state and token; insertion mode, open elements, active formatting elements | one code point, one token | the right kind of token, the end is seen, the body stays |
| **WebIDL**, `nh-webidl` | fragments and their interfaces | tokenize, parse, load, look up | what was written exists, under its name |
| Life cycle, `Common/*.c`, `nh-api/nh-core.c` | library handle, loader pointer | initialize, terminate | a failed start can be repeated |
| The rest: ECMAScript, CSS, DOM, URL, encodings, graphics, windows | documents, realms, surfaces | parse, evaluate, lay out, draw | the web standards |

**How they interact.** `nh_api_initialize` opens nh-core and calls
`nh_core_initialize`, which sets up configuration, the process pool with the thread
pool in it, the system and configuration workloads, and the loader, in this order.
Every API function asks the loader for its symbol, which may load modules. Modules
hand work to the scheduler as workloads: an `init_f`, a `run_f` called over and
over, a `runCommand_f` for commands sent to it, and a `free_f`. The logger is such a
workload, its monitor is in another process. The application calls `nh_core_run` in
a loop on the main thread for as long as `nh_core_keepRunning` says so, which asks
the fork table. All workloads of the repository select thread 0 today; workers
(`nh-core.threads`) are there for applications. Windows keep their state in the
settings and their events in ring buffers. `nh_core_terminate` frees the pool, then
the loader. The HTML parser, given a whole document, drives its tokenizer code point by
code point; the tokenizer drives the tree builder token by token, and that one
switches the tokenizer's state. Elements are created by the interface that WebIDL has
for them.

**What is hard.** Scheduler: callbacks run outside the lock and may call any
scheduler function again, on any thread, so a thread is a stack of half-finished
operations; commands are objects on their sender's stack; slots are reused while calls
wait on them; shutdown runs against all of it. Loader: loads nest through
dependencies and initializers, fail half way, and unloading follows a table of its own.
Fork table: children inherit it, and `waitpid` leaves its status unset. Monitor: records are
torn apart on a byte stream, processes end at any moment. HTTP: everything may end
at any byte. HTML: a hundred states write to a union that another state made. WebIDL:
a hundred parse functions share one position, and errors are silent. The complete
list, each with its line, is `hazards` in `PROJECT.json`.

## 2. Modules

| Module | What it is |
|---|---|
| `Scheduler` | `Thread.c`: the scheduler and its thread pool |
| `CommandService`, `SchedulerRefinement` | what the scheduler promises to senders of commands, with no threads or slots, and the refinement mapping |
| `Loader`, `LoaderTables` | `Loader.c` for any modules and tables; Netzhaut's own |
| `ForkTable` | `Process.c` and the pipes of `Channel.c`, over the kernel's processes and descriptors |
| `Settings` | `Config.c`, the splitting of names in `Config/Parser.c`, `Updater.c`, and the window states |
| `Ring`, `Lists`, `Arrays` | `RingBuffer.c`; `List.c`, `Queue.c`, `Stack.c`; `Array.c`, `ArrayList.c` |
| `LogMonitor` | `nh-monitor`: `Logger.c`, `Client.c`, `Server.c`, `Monitor.c` and the connection between them |
| `HTTPClient` | `HTTPClient.c` and the network |
| `HTTPServer` | what a server that follows HTTP/1.1 sends, and what a request promises of it |
| `HTMLTokenizer` | `nh-html/Parser/Tokenizer.c` |
| `TreeConstruction` | `TreeConstruction.c`, `TreeConstructionHelper.c`, `AdoptionAgencyAlgorithm.c` |
| `WebIDLGrammar`, `WebIDLParser` | `nh-webidl/Utils`: `Parser.c` as a table; `Tokenizer.c`, `Interface.c`, `Global.c` |
| `MC...` | instances for TLC |
| `SchedulerProofs`, `LoaderProofs`, `ForkTableProofs`, `SettingsProofs`, `HTTPClientProofs`, `ContainerProofs`, `HTMLParserProofs`, `LogMonitorProofs` | theorems |

`map` in `PROJECT.json` gives the lines of every definition. A definition next to
another whose name it varies (`CloseOthers`, `KeepCount`, `AnyRecord`, ..., commented
as mutants) is a defect the code does not have: in its place, the property it belongs to
must fail. A few properties are stated and checked by no run, because the
code does not have them: section 3 lists them.

### Scheduler

| Variable | In the code |
|---|---|
| `workload` | `Workloads_p`: per slot `signal`, `Thread_p` (`owner`), `initialized`, `activating`, `deactivate`, the command queue (a sequence of addresses), and `gen`, which activation occupies it: the handle `args_p`, taken to be unique |
| `stack`, `depth` | the C stack of each thread, as far as it is in the scheduler: a callback in progress (`op = "run"`), or a call that waits. The counters `running` and `waiters` are not variables: they are how many calls on the stacks bracket them (`Running`, `Waiters`) |
| `asleep` | threads inside `waitForChange()` |
| `pc`, `pos` | what a thread does between calls: the worker loop, `nh_core_run()` at slot `pos`, main in `nh_core_initThreadPool()` or `nh_core_freeThreadPool()` |
| `pool` | `ready`, `closing`, `failed`, `stopping`, `threadCount` |
| `gens` | activations so far |

One action is one critical section of the code, with everything between it and
the next lock that other threads cannot see. `runWorkload()` is two: `EnterCallback`
(choose the phase, take a command, count `running`) and `EndRun` (the callback
returned). Between them the callback executes, and `Call` lets it call the
scheduler, as it lets main and the application's threads. A waiting call is a frame
that `EnterOwn`, `ReturnRan` (on the workload's own thread) or `WaitOther` take on;
`ExecuteLoop` does so for commands. A thread that sleeps takes no step until
another broadcasts (`Wake`); spurious wakeups are harmless, because every wait
tests its condition again, and are left out. The second critical section of
a command's execution writes `done` into its sender's frame, which is how the model
would notice a sender that left.

Some steps the code takes under two locks are one: `nh_core_run()` reads whether
a slot is its own and then enters `runWorkload()`, which asks again; a slot that
belongs to a thread is given away by that thread only, so nothing can come
between. Refused calls (a full table, a closing pool, a negative thread, a
workload that is gone) change nothing and are no steps. `crucial`, timing, signal
counters and names do not affect control and are left out.

The application is external. It makes the calls in the constant `Calls`, each an
operation, a calling thread and an owning thread, from anywhere it executes.
Assumed of it: it shuts the pool down from the main loop, and not from a
callback; it deactivates, runs or waits for what `nh_core_getWorkload` has just found
(look-up and use are one step); below `free_f` of a workload it does not run that
workload again (`FreedBy`: the code would call `run_f` on freed arguments); handles
are unique; callbacks return; and `init_f` and `free_f` return no signal. The liveness
run also assumes what `README.md` asks for: no cyclic waits between threads
(`OrderedCalls`).

### CommandService

Workloads open and close, a request waits, is served, finishes, and is answered.
Handles are activations, callers the places of `execute()` on the stacks. It says
that a request is served at most once, only by an open workload, the one it was
addressed to, and that it fails only when that one is closed. `ImplementsService`
is the scheduler's refinement of it.

### Loader

`loaded` are the `loaded` flags. `frame` and `depth` are the calls of `nh_core_load()`
in progress: in its dependencies (`deps`, at `next`) or in its initializer
(`init`). `free` is `nh_core_freeLoader()`. A load that fails (`OpenFails`, `Unwind`)
unwinds every load that waits for it as a dependency. It ends where somebody asked
for a module: at the application or at an initializer, whose callers ignore what it
returns. An initializer may in turn report a failure through `NH_CORE_CHECK` or go on;
since the result is not looked at (`Initialized`), both are the same step.
`Unwind` chooses `k` only where the frames above it all wait for dependencies, and
`k` itself runs an initializer or is the application: there is exactly one such `k`.

`OpenFails` is the build with static libraries, and the platforms where
`nh_core_loadLibrary()` returns NULL; the build with shared libraries exits the process
there, which is one behaviour less. `CloseFails` exists when `nh-core.loader.unload` is
set (`Unload`).

The tables are constants of `Loader`: `RankAssumption` says that they, and what
initializers ask for, have no circle, and `UnloadAssumption` that unloading respects
every dependency but the ones in `Unordered`; for Netzhaut's own `LoaderTables` TLC
checks both. For initializers it is a rule the code base observes
(`nh-encoding/Common/Initialize.c` keeps a call commented out "because nh-monitor
circular dependency"): a circle through two initializers would initialise a module
in the middle of its own dependencies. `MCLoader` lets each initializer ask for any module
of a lower layer and for itself, more than any does.

### Fork table

Each process has its own copy of everything: `init`, `forks` and `table` are
`NH_PROCESS_POOL` of the process, `scan` the entry its `nh_core_checkForks()` is at,
`files` what its descriptors refer to. `ForkChild` copies them to the child, as `fork()`
does, and closes the ends that are not the child's. The kernel is external: `life` and
`parent` say who is a zombie and whose, `pipe()` takes the lowest free numbers, and
`close()` frees a number whatever it refers to, so a number that is closed twice takes
somebody else's channel away. `CheckEntry` has every outcome of
`waitpid(id, WNOHANG)`, among them 0 with `status` uninitialised: the entry of a running
child may be kept or taken out. `ForkFails` leaves an entry with id -1, for which
`waitpid(-1)` reaps any child.

`CheckEntry` runs in any process that calls `nh_core_keepRunning()`. `KillForks` kills without
waiting. With fewer than four free descriptors nobody forks: what `pipe()` leaves half made is not modelled.

### Settings

A setting's text is the sequence of words between its underscores and points, since only
these decide what `parseRawConfig` takes for a namespace; a value is the words it has
when it is read without its quotes, which is what `nh_core_overwriteGlobalConfigSetting` does
to it. `Changed` is `nh_core_updateConfig` for one setting: a name without default
becomes one (also when it was given with a namespace), a default gives way to an
equal or higher priority, a namespace's own setting is replaced always. `Load` and `Toggle`
go through `Overwrite`, which writes the setting down and parses it again. `chosen` is
a history variable: which names a user changed.

`FilesAssumption` says of the files that a setting has a value, and of `default.conf` that
its names are all different, without a namespace, with the state of windows among them.
`WindowsAssumption` says that the namespace of a window is neither empty nor has an underscore
or point in it, so that the parser finds it again.

### Containers

`Ring` is a window's event buffer (1024 cells in the code, `ItemCount` here) with one
reader's marker: a marker's `overflow` counts nothing but is taken over from the
buffer's at its wrap. `Lists` has the chunk count next to the items, `Arrays` the
allocated cells next to the length: what was removed stays in its cells, fresh
ones are zero. `Arrays` carries the sequence its callers expect in `model`;
counts and indexes beyond the end that the code does not survive are left
out. Stack and queue are wrappers of the list; hash maps and linked lists are not
modelled.

### Logger and monitor

`run` is the logging process, one after the other; `state`, `pause`, `block`, `buffer` are the
fields of `Logger_p`; `call` and `pending` say where the main thread waits inside
`nh_monitor_handleLogMessage` or the workload. `wire` and `acks` are what TCP has accepted and
not delivered. `Receive` takes any number of cells, as `recv()` does, and is a message
only when whole records have come; `Gap` is a pause longer than the 50 ms of
`SO_RCVTIMEO`, after which the part read is forgotten and slots of 256 bytes are counted from wherever
the rest begins: the code has no mark of where a record begins. What it does with a slot that
begins inside one depends on what `nh_monitor_splitByTwoPluses` finds there, two separators or not, and the
constant `NameFrom` says which node's name is read from which part on. In the instance a record is the first
byte of the name, the rest of the name with both separators, and the text. `End` and `MonitorEnds` are ends of a
process at any moment. `Filed` is used by both sides, as the code uses the same function for both.

### HTTP client

One call of `nh_network_performHTTPRequest`. `pc` is the function and loop it is in; `fds`,
`fd`, `session` what is open; `buffer` what `recv()` gave and nobody took; `line`,
`headers`, `left` the parsing state; `response` what the caller will get. A response
is a sequence of cells, each byte that is looked at or not a cell: so `Receive` may
end between CR and LF, in a chunk size or anywhere else. What a number, a header or a
status line looks like in characters is not modelled, but that it may be missing, too large or -1
(`strtoull` makes both `SizeMax`) or its line too long is. The server may send any of
`Streams`. `Encode` of `HTTPServer` is what one that follows HTTP/1.1 sends for a response
(interim responses, status, framing, parts of the body, trailers), and `Sent` the responses that the
reply encodes. TLC is given seven of those, in every framing the client knows, and ten malformed ones: among them lengths that are none, `SizeMax`
or given twice, bodies longer than their length or cut short, and characters behind a chunk.

### HTML tokenizer

One action per tokenization state (a function of the code each), one per way
`nh_html_handleEOF` deals with the end. `Reconsume` is a recursive call in the code: `calling`
stays true until a handler consumes its code point. The token is a union, in the model its
`type` and the fields a later state uses. Code points are sixteen classes. Script and CDATA
states cannot be entered in this code, and four of the character reference states call `exit`,
which is `health = "exit"`.

### Tree builder

Operators take the parser and return it, one per insertion mode and per algorithm of the
standard that the code has; `Dispatch` gives the result to `parser`. Elements carry a number
so that two `<b>` are two. What is inserted where in the document does not affect any later
token and is left out. A mode with no handler (select, template, frameset, tables) is
`state = "failed"`, as parsing then returns an error; the adoption agency algorithm's
inner part and the end of a script are `exit(0)` in the code and `"exit"` here. The tokenizer is
the environment; it is in `text` exactly what the tree builder sets.

### WebIDL

Every `nh_webidl_parseX` is an entry of `Grammar`: its alternatives in the code's order. What a
failed alternative does to the parser's position differs from function to function, and
so is part of an entry: `Local` alternatives work on a copy, `Direct` ones on the
caller's parser, `Committed` ones fail for good after their first token, and the one
`Dropped` alternative is the static member whose node `parsePartialInterfaceMember` forgets
(`Parser.c:2175` tests the node of the stringifier). `Parse` interprets the table; `Tokens` joins punctuators
greedily. The environment writes definitions member by member, in shapes taken from the
built-in fragments and from the standard, and `LoadFragment` is
`nh_webidl_parse` and `nh_webidl_load`, as `nh_webidl_createGlobal` calls them.

What the module says of the code, checked by parsing the built-in fragments: 156 of 160 are read to
their end. `HTMLTableElement`, `HTMLTableRowElement` and `HTMLTableSectionElement` (a default of
`-1`, which is two tokens) and `URLSearchParams` (`>>` of nested sequences is one) are not; since
`SyntaxErrors` is filled by nobody, `nh_webidl_getInterface("HTML", "HTMLTableElement")` is simply NULL and
tables become plain elements (`Elements.c:288`). Constructors are read as operations without a
name, an unnamed `getter Element (...)` as an operation called `Element`, and attributes that
are called like a keyword (`async`), stringifiers and iterables have none. Set-like members, asynchronous
iterables and constants of a named type can never be read.

## 3. Runs

| Run | Instance | Shows | Distinct states |
|---|---|---|---|
| `sched_safety` | main, 1 worker, 1 application thread, 2 slots, 2 activations, stacks of 3, `OK` and `ERROR`; every call from main and the worker, activate and execute from the application | five invariants of the scheduler | 1 070 001 |
| `sched_live` | the same, calls without cyclic waits, `OK` | calls return, shutdown ends, no starvation, nothing left, `CommandService` implemented, no deadlock | 44 394 |
| `sched_hang` | an application thread activates for main | `CallsReturn` is violated | |
| `loader` | Netzhaut's 13 modules and tables | four properties of loading, `freeLoader()` ends | 9 683 |
| `forks` | 3 processes, tables of 2, 7 descriptors, 2 initialisations | counts, channels, that ended children leave | 126 194 |
| `settings` | 3 names, 2 windows, 3 files of each kind | look-ups, priorities, window states | 2 424 |
| `containers` | ring of 3 with 10 writes; lists of 5 in chunks of 2; arrays of 5 in chunks of 3 | order, memory, content | 13 347 |
| `monitor` | 5 messages, 2 processes, buffer of 2, records of 3 cells, 2 pauses | the mirror, truth, delivery | 315 550 |
| `http` | 4 requests, 17 replies, 2 addresses, small buffers | response, framing, end, descriptors, termination | 15 536 |
| `tokenizer` | any input | token kinds, termination, the end | 21 483 |
| `html` | 12 tag names, 5 open and 3 formatting elements | stack, text states, end | 151 281 |
| `idl` | 2 definitions, 2 members, 2 fragments, 9 and 11 shapes | interfaces and members exist | 34 003 |

**Bounds.** Every bound is a constant.

- Scheduler: two slots and two activations make a slot be reused, a table be full and a
  pass of `nh_core_run()` go past another workload. A stack of three has a callback that makes a
  waiting call that runs a callback. One worker and main give both kinds of owner, and the
  application thread is the one that owns nothing. At the depth bound a callback makes no further
  call.
- Loader: `MaxDepth = 9` is never reached, there are eight layers of modules.
- Forks: three processes make siblings and grandchildren; two entries a full table; seven
  descriptors one more than three channels' ends in use at once; two initialisations forget the
  entries of the first.
- Containers: each wraps, grows and shrinks more than twice its chunk.
- Monitor: a buffer of two is full with a message to spare; three cells are enough to be torn
  inside the name and behind it; a second pause shifts slots that were shifted already, and two slots are read from
  a shifted batch; a second process meets what the first left behind.
- HTTP: lines, header block and buffer are so small that each limit is met by one of the
  streams; two addresses let one fail.
- Tokenizer: no bound but the classes of code points, of which each state tells apart fewer.
- Tree builder: the twelve names have one of each kind the handlers tell apart in body
  and head; five open elements leave three above `html` and `body`, which is
  where implied end tags, formatting elements and scopes meet.
- WebIDL: two members let one be read behind a static or unreadable one, two fragments let
  an interface be partial in one and whole in the other.

`CHECK_DEADLOCK FALSE` stands where the system really stops: threads that wait for each other
in a circle (`sched_safety`, `sched_hang`), children and messages used up, a request that has returned, an
input that has ended. `sched_live`, `loader` and `settings` check for deadlock.

**Fairness.** *Scheduler:* threads are scheduled (`WF` of `Proceed`). Callbacks return: `WF` of
`EndRun` is enough at the bound of the nesting; below it a callback that keeps calling the
scheduler is interrupted by its own calls, and `SF` per level says that it returns nevertheless.
Main builds and closes the pool (`WF` of `PoolStep`), and the application keeps calling
`nh_core_run()` (`SF` of `MainRun`, since other calls of main interrupt it) until it shuts down.
Nothing says that it ever does, calls anything, or that a worker starts. *Loader:* the loop of
`nh_core_freeLoader()` goes on. *Forks:* main calls `nh_core_keepRunning()` again and again.
*Monitor:* the main thread runs the logger's workload, the monitor its update; nobody must log,
end or pause. *HTTP:* every call returns, each being bounded by a timeout of the socket; the
responses are finite, since the code reads interim responses without limit. *Tokenizer:* its handlers
are functions that run.

### What they show

- Scheduler: callbacks run on the owner of their slot and for the activation that
  occupies it, and `free_f` is the last one, alone (`SchedulerInv`). `waiters` pins slots (`SlotPinned`, a part of it), no queue or
  callback refers to a command whose sender has left (`NoDanglingCommand`), no thread sleeps with
  nothing to wait for (`NoLostWakeup`). An activation is not accepted for a worker that
  stops (`NotStranded`), and a workload does not run before its activation returned
  unless the pool is closing (`ActivationHeld`). Without cyclic waits, every call
  returns, workloads that share a worker take turns, and a shutdown ends with nothing left. To its
  senders the scheduler is a command service (`ImplementsService`).
- Loader: modules are loaded after their dependencies (part of `LoaderInv`), initialised
  once, and freed completely unless a library cannot be closed.
- Forks: despite the uninitialised status and the id -1, the count is that of the table in every
  process (`ForkInv`), a live entry's pipe ends in main stay the ones made for
  that child (`ChannelIntact`), and a child that ended does not keep the main loop running
  (`Settles`).
- Settings: a name has one default and a namespace one setting of it (`Unambiguous`), later
  files do not change what a user changed (`ChoiceStands`), a toggle changes its own window only
  (`OwnState`).
- Containers: the ring's reader that is at most a round behind misses nothing (`InOrder`), lists hold exactly
  the chunks they need (`ListFits`), arrays hold what was put in (`SameContent`).
- Monitor: with a monitor that serves the process and no pause in a batch, what the monitor
  has and what is on its way make the logger's tree (`Mirror`); with a pause or
  after an end, what it shows was logged and is shown once (`Truthful`), under its node, or once a part of a record
  was forgotten under the end of its node's name; while both stay connected everything arrives (`Delivered`).
- HTTP: of a response that follows HTTP/1.1 a success has the status and the whole body, whatever `recv()` did, and one cut
  short is none unless its body ends with the connection (`ResponseExact`); whatever else comes, no more is
  delivered than the length announced, and success means that the announced end was reached (`FramingHonoured`); the client
  does not wait for more than the response has (`EndNoticed`); the request ends
  (`RequestEnds`) with all descriptors closed (`DescriptorsClosed`).
- Tokenizer: each state finds the kind of token it writes to (`TokenFits`), no code point but `/` is
  consumed again for ever (`Consumed`), and the end of the input reaches the tree builder from every state
  but `Lost` (`EndSeen`).
- Tree builder: `html` and `body` stay on the stack, and no loop that pops runs out of it
  (`BodyStays`); mode and tokenizer switch to text and back together (`TextTogether`); the end of the file
  ends the parse (`EndStops`).
- WebIDL: a fragment's interfaces are exactly those before its first unreadable definition, with
  their parents (`InterfacesStand`), and their members are found, in order, each under the
  name the code gives its kind (`MembersFound`).

### Disagreements between the code and what it says of itself

One is a run; the others are properties of the modules which TLC refutes when they are
added to the run's configuration, or follow from the definitions named.

1. `sched_hang`: "Activation waits for init" (`README.md:39`). If shutdown frees the workload
   first, the wait for `initialized` (`Thread.c:335`) has no end.
2. "Shutdown frees workloads" (`README.md:45`): it passes over a workload of main whose
   activator, a worker, has not woken up yet, because `activating` makes `runWorkload()`
   return (`Thread.c:67`), and there is no second try (`ClosedEmpty` with
   `WorkerActivatesOnMain`). The theorem `ShutdownEmpties` shows that this is the only way.
3. `InitBeforeReturn`: "Init completes on the selected thread before returning" (`Thread.h:142`).
   Marked by shutdown before its first run, a workload is freed instead of initialised
   (`Thread.c:71`), and the activation returns.
4. `NoDependent`: "No module has this module currently as a dependency, so we can unload it"
   (`Loader.c:321`). The conditions for nh-gfx and nh-encoding (`Loader.c:374`) do not
   know of nh-css and nh-monitor. `DependenciesHeld` shows that these two pairs are the only ones.
5. `HandleKept`: `nh_core_getFork()` "Returns the process handle of the executing process if it is
   a child" (`Process.h:102`). The child's first `nh_core_checkForks()` waits for its own id,
   gets -1, and unregisters the entry (`Process.c:137`).
6. `UserTrumps`: a user's configuration "should always trump default settings"
   (`nh-core/Common/Initialize.c:38`); one that repeats the default's values does not take over its priority
   (`Config.c:168`), and the next registered file changes it.
7. `StatusMeansResponse`: status "0 if no response was received" (`nh-api/nh-network.h:51`); a
   connection lost after an interim response leaves its 1xx (`HTTPClient.c:581`).
8. `ListeningIsTrue`: the monitor says "Listening on 127.0.0.1" (`Monitor.c:654`) also after it
   closed its socket to start over (`Monitor.c:214`).
9. `Terminated`: "Ensure that the array is null-terminated" (`Array.c:64`); after a second
   append into a reused cell it is not (`Array.c:67`).
10. `Reformatted`: the algorithm linked at `TreeConstructionHelper.c:234` reopens all formatting elements;
    the loop of the code (`:263`) leaves out some.
11. `Definition` and `Values` (WebIDL): four built-in fragments are not read to their end, see
    section 2.

1 to 3 need workers or threads outside the pool, which no workload of the repository uses
yet.

## 4. Proofs

*Scheduler.* The theorems hold for any number of workers, application threads, slots, activations
and nested calls, and any `Calls` and `Results`, from the assumptions on the constants in
`Scheduler`. `SchedulerInv` is inductive, and TLC checks it in `sched_safety`. It has three
layers, each inductive given the ones before it. `CoreInv` is about slots,
callbacks and commands; its parts need each other:

- `CallbackOnOwner` and `FreeIsLast` are about callbacks. A slot changes hands only by
  `EndRun` of a `FREE` and by `Activate` of a free slot; the first finds no other callback of
  the slot (`FreeIsLast`), the second none at all (`CallbackOnOwner`: a slot with a callback
  is in use). `FreeIsLast` is stable because the phase `FREE` is entered when nothing
  runs, and a callback below it can neither enter (`FreedBy`, `deactivate`) nor wait for the
  slot.
- `SlotPinned` holds because `Activate` takes only slots without waiting calls.
- `NoDanglingCommand` and `CommandOnce` say where a command can be: in the queue of the
  slot its sender waits on, or with one callback. A sender leaves only when its command
  is done, or when the slot is free and its queue empty (`FreeSlotClean`).
- `NoLostWakeup` needs that every action that makes some `Satisfied` true wakes everybody,
  and that waits of the owner never sleep (`LoopIsForeign`).

The proof has one lemma per kind of step (`ActivateStep`, `ExecuteStep`, ..., and `QuietStep` for
those that leave slots and stacks alone), and `...Keeps` lemmas that connect them to the actions.
The theorems for the single invariants follow.

`HandlesInv` and `ShutdownInv` add that a handle names one activation, and
how far shutdown has come: the slots below the one that main is at are empty or belong to a
worker that will still free them, and a worker that stops has nothing left. `NotStranded` and
`ActivationHeld` follow. `ClosedEmpty` follows only under `OnlyMainActivatesOnMain`, which the calls of
`sched_live` satisfy. Without it, it is false (disagreement 2 of section 3), and what
remains true is that no workload of a worker is left (`ShutdownEmptiesWorkers`).

The end of `SchedulerProofs` is the step simulation behind `ImplementsService`: each action opens or closes a
workload, takes in, serves, finishes or answers a request, or changes nothing that a
sender sees. Handles that name one activation are what makes the mapping a function,
and `CommandOnce` that a request is served once.

`LoaderProofs` proves `Spec => []LoaderInv` for any modules and tables that satisfy
`TablesAssumption` and `RankAssumption`. `FramesOK` keeps track of the dependencies a load has
passed, `RankDecreases` shows that a load never meets itself further down, and `ScanOK` that
`unloadNeeded` is truthful. Loaded modules have their dependencies, no
initializer runs twice, and a successful `freeLoader()` leaves only nh-core. For
`DependenciesHeld`, `UnloadInv` adds `PassedGone`: a dependency is respected because it
waits for its dependents (`Blockers`), or because a scan unloads what nothing keeps the first
time it passes, and has passed the dependent before it comes to the dependency.

`ForkTableProofs` proves `Spec => []ForkInv` for any number of processes, entries and
descriptors. The count is the cardinality of the entries in use (`Used`, `Taken`, `GivenBack` are
the lemmas about that), and a check is only in progress in an initialised pool.
`ChannelIntact` needs more than itself: `NumbersApart`, that no two pipe ends held by main have
the same number (else closing one would take away the other), and `MainHasFiles`, that main never ends.
That `pipe()` gives out numbers nobody holds is proved from its taking the lowest free ones
(`RankExists`, `NthFacts`, `PipesApart`).

`SettingsProofs` proves all properties of `Settings`, for any files and windows that satisfy
the assumptions. The invariant is that the list is `Clear` (what `Unambiguous` says) and that a name a
user chose has the priority of users (`Prior`). `Follows` is what any number of changes of one
priority may do to a list; it holds of one change (`ChangedFollows`), is transitive, and so holds of a
file. `OwnState` needs in addition that a namespace and a name that are written
down are read back as they were (`WindowLine`).

`HTTPClientProofs` proves `DescriptorsClosed` for any server, any number of addresses and any
sizes. The invariant needed is `DescriptorInv`: while addresses are tried the descriptor
belongs to the loop, afterwards to the connection, until it is closed.
It also proves `EndNoticed` and `ResponseExact`, which are about replies that follow HTTP/1.1, of any
length, from `SizesAssumption` and `ResponsesAssumption` (a body fits into the memory of the client, no chunk is empty). The
inductive invariant is `Understood`: what is still to be read of the reply (`Rest`, the buffer and what is yet to come) is
what the client expects where it is (`Stage`, with a case for each part of a response: `InStatus`, `InHeader`,
`InBody`, `InChunks`, `AtEnd`). As `Rest` does not depend on where `recv()` splits it, receiving changes nothing. `Ahead` says it of a
line that was begun, `Missing` of the part of a body that is not there yet, and `RequestOK` counts what was sent.
At the end of a body nothing is missing, which is `ResponseExact`; and as long as something must be read, `Rest` is not empty, which
is `EndNoticed`. Two responses may be encoded alike (the same body in other parts), so `Stage` is shown for
each of `Sent`. The chunks are flattened by a recursion, whose equation is shown with `SetInduction`.
`FramingHonoured` is proved for any cells at all with numbers that `strtoull` can return (`NumbersAssumption`): `Arrived`
says that what the client looks at is what came, `FramingInv` that nothing is delivered before the headers end, and that from
then on what was delivered and what is left make the length (`Counting`).

`ContainerProofs` proves `InOrder` for any size of the ring buffer: the invariant relates each cell to
the last item written at its position, `Position` of buffer and marker being the number of items passed.
It also proves `ListFits` and `SameContent` for any size of a chunk. An array is a sequence to its
callers because every operation is one on its content (`AppendedIs`, `TailRemovedIs`, `CutOutIs`, ...); a list of arrays
is one because only its last array has room (`ArrayListInv`), which is what lets the elements be
flattened. `Padded`, `FlattenSeq` and the changes of a file are recursive functions; what they are is shown
by `RecursionExists`, `FlatExists` and `StepsExist`, with induction over the numbers as `SetInduction` (a finite
set cannot be mapped into itself by adding 1, as `FS_Injection` has it).

`HTMLParserProofs` proves all properties of `TreeConstruction`, for any set of tags and any bounds.
`TreeInvariant` says which stack each mode relies on (`Base`), and that a text has the
stack of the mode it returns to below it. In the body the argument is about `Still`: a step keeps `<html>` and `<body>`
at the bottom. Every loop that pops stops above them, because it looks for an element that was seen in
the stack, or at tags `<html>` and `<body>` are not among (`CloseStill`, `GenerateStill`); the adoption agency removes an
element with a formatting tag and those above it; and opening the active elements again only adds to the stack, however
many there are (`OpenedStill`). A tag of the head that comes after it finds the head put
back on the stack, and taken out from below it afterwards: it must not be the `<html>` element, and is not because it was
given a number nobody had (`FreshIs`). `NextHandles` and `TokenDone` take a token through the chain of
handlers, of which the last one stops at the end of the file (`Done`).

It also proves the tokenizer's `TokenFits`, for any input: no handler finds a token of another kind than the one it
writes to. In a character reference this depends on where the tokenizer returns to, so `TokenizerInvariant` says it of
the state the reference is in (`User`), and that a reference returns to text or to a value (`StartsReference`), where one was
started. In a tag it depends on the attribute written last: `AfterAttributeName` is entered without one, but only for `/`, `>` or
at the end of the input, so every other code point that is handled there still finds an attribute (`AttributeBehind`). There is one lemma per group of
states (`TextsSuit`, `TagStatesSuit`, `CommentsSuit`, `DoctypesSuit`, `ReferencesSuit`), and one for the
end of the input (`HandleEOFSuit`).

`LogMonitorProofs` proves the invariants of `LogMonitor` for any messages, nodes and number of processes, any size of the
buffer and of a record, any `NameFrom` and any number of pauses. `Base` is inductive: types; one process after the other, of
which the monitor serves one (`OneByOne`, with `Fresh` for a process that has yet to connect); one order, in which everything
was logged, through what is shown, the part of a message that was read, the wire, the buffer and the message about to be
added (`Sequence`); each message shown once (`Tidy`) and under a name of its own (`Named`); and whole records on their way until
the first pause (`Even`). `Truthful` needs the order: what is shown is smaller than all that can still come. After a pause
that holds because slots are as long as records: cells that are a record apart belong to different messages (`Apart`), so
no message starts two slots, in one message read or in two (`RecordsOrder`). Until then, each slot
is read from a first cell (`Even`, `BatchRecords`), and so filed under its node. For `Mirror`, `Complete` adds that the logger's tree
is that of the monitor with all that is on its way: `Send` puts a batch behind a batch (`BatchTogether`), and `Receive` cuts one off at
the end of a record, which leaves two (`BatchCut`, `ReadCut`), or keeps what it read in front of the rest. The cut
files the records in front of it (`PutTogether`), and `BatchHeads` reads the messages back from the
cells. `Batch` and `FiledAll` are a function and a recursion over any lengths; `Place` and `EveryPlace` are the division with remainder
behind the first, `FilesExist` and `FilesUnique` (with `SetInduction`) make the second what its equation says.

Some leaves name their prover with a time limit of their own (`SMTT(40)`, `ZenonT(60)`): how long
Z3 takes depends on the numbering of names in the file, and these need more than a second in some of them.

Only model-checked:

- `Consumed` and `EndSeen` of the HTML tokenizer, `Delivered` of the monitor and everything else under fairness, which is out of the
  prover's reach, as are `ENABLED` and deadlock freedom. The tokenizer's model is finite: TLC sees all of it.
- `InterfacesStand` and `MembersFound` of WebIDL. Both say what the recursive parser makes of texts of any nesting: an
  induction over the text and the grammar, through operators declared `RECURSIVE`, which the prover
  does not take; and they depend on which `Shapes` the parser can read, which is what TLC finds out.

## 5. Not modelled, and the plan

`PROJECT.json` lists every part with its status. What is left out of parts that are modelled:

- *Scheduler:* timing, `crucial`, signal counters, names. `nh_core_getThreadIndex()` is 0 for main and
  the first worker alike (`Thread.c:310`).
- *Loader:* external modules (`Loader.c:240`), which have no caller, and reload. The results of initializers are
  ignored (`Loader.c:99`).
- *Fork table:* reading and writing of channels (a message that is a multiple of 128 bytes ends with a
  read that blocks). A forked child has no workers.
- *Settings:* the tokenizer of configuration files.
- *Containers:* `LinkedList`, `HashMap`, `String`; the calls whose results the code does not define
  (`List.c:79` inserts below the size without growing the list, and so overwrites its last item; `Array.c:157` tests an unsigned value for being negative;
  `Array.c:178` removes past the end; `String.c:153` recurses).
- *Logger and monitor:* nothing says where a record begins (`Monitor.c:223`), so a message whose record was interrupted inside
  the name is filed under the end of the name; the model has this (`Misnamed`), the code no remedy. Left out are the display, log levels, paths of nodes longer than their buffer, `SIGPIPE`, and
  logging from several threads, which the code does not guard.
- *HTTP:* names and values as text, the TLS library, `Socket.c`, `HTTP.c` and `URL.c`. The client is lenient, and the model with
  it: a `Content-Length` of -1, or one that is too large, is `(size_t)-1` and its body is read to the end of the connection
  (`HTTPClient.c:613`), of two the first counts, characters between a chunk and its line break are skipped (`:457`), and what follows
  a number is not looked at. Such responses succeed.
- *Tokenizer:* the content of names, values and comments. In the source, outside the model's
  classes: numeric and ambiguous character references and CDATA call `exit(0)`; `<!` and `<!----!` at the end of
  the input are not ended (`Lost`); `<br />` consumes its `/` again for ever (`Consumed` excepts it).
- *Tree builder:* tables, select, templates, framesets and foreign content, which have no handler;
  the document. The loop of
  `TreeConstruction.c:982` does not end for a `<li>` two formatting elements deep (`<b><i><li>`); the model stops there,
  with `state = "stuck"`.
- *WebIDL:* comments, numbers and strings as text (a multi-line comment ends at its first `*`; a character
  no rule matches is never stepped over), brackets inside brackets of extended attributes
  (`Parser.c:273` recurses for ever), reads past the end of a fragment cut short, and
  `ECMAScriptBinding.c`, which nothing calls.

Whole parts: the start and end of the library (a failure at `nh-api/nh-core.c:151` leaves the
library handle set; `Terminate.c:35` returns early with modules loaded), encodings, CSS, DOM, URL and
ECMAScript (transformations of text and trees with no concurrency), graphics and windows
(platform interfaces), generated tables, vendored code. These, and above all the generated tables, are
most of the lines of the repository.

The modules are written so that these can follow, in this order: the life cycle, as a composition
of the scheduler's pool and the loader; the grammar of ECMAScript (`CST.c`) as a table like WebIDL's;
the CSS tokenizer; the messages of channels.

Of what the runs check, no theorem states the liveness properties and the two of WebIDL (section 4 says why). A proof
about WebIDL would need the parser as a function on the positions of the text, and the shapes described by their
productions instead of as tokens.
