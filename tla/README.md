# HypervisionPLC verification

TLA+ models of the HypervisionPLC firmware (ESP32, C++ on FreeRTOS), the TLC
configurations that check them on small instances, and TLAPS proofs of what
holds for every instance. Paths are those of the repository, under `src/`.

## 1. The system

### Tasks

| Task | Core | What it runs |
|---|---|---|
| `loopTask` | 1 | `loop()` in `main.cpp`: Modbus slave, counters, timers, NORMAL ST programs, CLI |
| HIGH ST task | 0 | ST programs of priority HIGH |
| `mb_async` | 0 | Modbus RTU transactions, one at a time |
| `mbx_async0..3` | 0 | Modbus TCP transactions to expansion boards |
| `httpd` | any | REST handlers: uploads, compilation, settings, external registers |
| SSE, telnet, `exp_api` | any | event streams, sessions, REST calls to expansion boards |

They share RAM: most components are a global structure, a mutex or spinlock
for part of it, and a convention for the rest. That is where the hard
behaviour is, and what the models keep: what a step reads, what it writes, and
what may happen between two steps.

### Components

| Component | State | Operations | What makes it correct |
|---|---|---|---|
| Modbus RTU master (`mb_async.cpp`) | priority queue, value cache, backoff table, semaphore | queue read/write/block, upgrade, evict, dequeue, transact, store, sweep | no write lost or reordered, no sleeping on a queue that is not empty, no register PENDING for good, no starvation |
| Modbus TCP master (`modbus_expansion_async.cpp`, `modbus_expansion.cpp`) | queue, claims, connections, backoff | queue, claim, find/evict/close a connection, transact, release, pause | a channel is serial, a socket belongs to one worker, an answer to its request, everything is served |
| ST program store (`st_logic_config.cpp`, `st_bytecode_persist.cpp`) | source pool, code, globals, files | upload, compile, delete, globals, save, load, restore | code is that of the text, texts are not mixed, a reboot restores what was saved |
| EXPORT pool (`ir_pool_manager.cpp`) | register ranges | allocate, free, reallocate | no overlap, refused only when full |
| ST engine (`st_logic_engine.cpp`, `st_vm.cpp`) | variables, generation counters | execute a cycle, reinitialise | one execution at a time, a reset is not undone |
| ST watchdog (`st_wdt.cpp`) | trip state per program | supervise, trip, clear | a tripped program stays stopped until it is cleared |
| Bindings and register allocator (`register_allocator.cpp`, `gpio_mapping.cpp`) | owner of each register, variable maps | bind, unbind, allocate, free | a register has one writer |
| Persistent groups (`registers_persist.cpp`) | groups of registers with values, auto-load list | create, delete, save, restore | a restore writes what was saved, to the right registers |
| Task watchdog (`watchdog_monitor.cpp`) | reboot counters, crash streak, safe mode | boot, feed, reboot | safe mode after repeated crashes, and only then |
| Counters, timers | counts, overflow flags, modes | edges, start/stop/reset, compare | no lost edge, right wrap |
| Modbus slave (`modbus_server.cpp`, `registers.cpp`) | frame buffer, registers | receive, answer, side effects of registers | one answer to a frame addressed to it |
| Configuration (`config_*.cpp`) | NVS blob, CRC, schema | load, save, apply, restore | a torn write is noticed |
| Network, HTTP, SSE, telnet, ACL, OTA | slots, sessions, failover state, pending change | connect, authenticate, time out, confirm | slots are returned, a lock-out is undone |
| Language (`st_lexer.cpp`, `st_parser.cpp`, `st_compiler.cpp`) | source to code | compile | an accepted program means what it says |
| Drivers, logs, web pages | | | |

How they interact: ST programs call the Modbus masters through builtins
(`st_builtin_modbus.cpp`, `st_builtin_modbus_expansion.cpp`), which queue a
request and read the cache without blocking; SCADA clients do the same through
REST (`api_ext_registers.cpp`); the background tasks answer into the cache.
Uploads arrive on the HTTP task and change the store that the executing tasks
read. Every handler that changes programs ends in `st_logic_save_to_nvs`.

`PROJECT.json` lists all components and, under `hazards`, what in this code is
hard to test, each with the properties about it.

## 2. The modules

| Module | Models | About |
|---|---|---|
| `MbPriorityQueue` | `mb_pq_*` in `mb_async.cpp` | the queue as operators, shared by both masters |
| `MbAsync` | `mb_async.cpp`, its callers | the RTU master at the grain of critical sections |
| `MbWriteFifo` | | abstract: writes are a first-in first-out queue; the mapping to it is in `MCMbAsync` |
| `RtuMaster` | `modbus_master.cpp`, `uart_driver.cpp`, `mb read`, `mb write`, `mb scan` | the bus and its users: who transacts when, and what is taken for an answer |
| `MbAsyncProofs` | | theorems about `MbAsync` |
| `MbxPool` | `modbus_expansion_async.cpp`, `modbus_expansion.cpp` | worker pool, claims, connections |
| `MbxPoolProofs` | | theorems about `MbxPool` |
| `ModbusSlave` | `modbus_server.cpp`, `modbus_rx.cpp`, `modbus_fc_*.cpp`, parser, serializer | the device as a slave, from piece of a frame to answer |
| `StSourcePool` | `st_logic_pool_*` | the source pool, step by step through its compaction |
| `StSourceStore` | | abstract: a store of texts; the mapping to it is `StSourcePool!Store` |
| `StSourcePoolProofs` | | theorems about `StSourcePool`, and that it implements `StSourceStore` |
| `StPrograms` | `st_logic_config.cpp`, `st_bytecode_persist.cpp`, `ir_pool_manager.cpp`, handlers | text, code, globals, EXPORT registers and files of the programs, with power failure |
| `StProgramsProofs` | | theorems about `StPrograms` |
| `StEngine` | `st_logic_engine.cpp`, `st_wdt.cpp`, HIGH task, handlers | execution of the programs, their watchdogs, resets and settings |
| `StEngineProofs` | | theorems about `StEngine` |
| `StValue` | `st_vm.cpp`, `st_builtins.cpp` | values, operators and builtin functions |
| `StBlocks` | `st_builtin_*.cpp`, `st_stateful.cpp` | timers, counters, edges, latches and signals |
| `StBlockCalls` | | one block called at any times, and what its output has to be |
| `StVm` | `st_vm.cpp` | the stack machine |
| `StParser`, `StCompiler` | `st_parser.cpp`, `st_compiler.cpp` | from text to code |
| `StLanguage` | | abstract: what a syntax tree means; the machine beside it |
| `StVmProofs` | | theorem about `StVm` |
| `SseServer` | `sse_events.cpp`, handlers | the event stream: the clients' slots and counter, and what is sent |
| `NetLinks` | `network_manager.cpp`, `wifi_driver.cpp`, `ethernet_driver.cpp` | joining and losing the links, and the servers that run on them |
| `Terminals` | `cli_shell.cpp`, `cli_history.cpp`, `telnet_server.cpp`, `tcp_server.cpp` | the lines of the serial console, of Telnet and of the web page, login and upload |
| `IpAcl` | `ip_acl.cpp`, handlers, commands | access rules, drafts, the change on trial |
| `Watchdog` | `watchdog_monitor.cpp` | crash counting and safe mode |
| `PersistGroups` | `registers_persist.cpp`, handlers, commands | groups of registers over restarts |
| `OtaUpdate` | `ota_handler.cpp` | upload, rollback, restart |
| `Counters` | `counter_*.cpp`, `pcnt_driver.cpp`, `modbus_fc_read.cpp` | one counter, its interrupt, tasks and registers |
| `Timers` | `timer_engine.cpp`, `timer_config.cpp` | one timer |
| `Settings` | `config_*.cpp`, backup and restore in `api_handlers.cpp` | the configuration, its older layouts, backup and restore |
| `ConfigCommands` | `cli_parser.cpp`, `cli_commands*.cpp`, `rbac.cpp`, `register_allocator.cpp` | what every `set` line does to the configuration and the engines |
| `ConfigText` | `cli_show.cpp`, `config_load.cpp`, `config_apply.cpp` | `show config`, the factory's configuration, the start |
| `ConfigRest` | `api_handlers.cpp` | the settings over REST, GET and POST |
| `Configuring` | | a device that is configured by all of them, and its copies |
| `MC*` | | values for TLC; `MCDevice` and `MCLiveParts` hold several parts that share nothing and explore one after the other |
| `DeviceProofs` | | theorems about the parts of `MCDevice`: `Watchdog`, `Timers`, `PersistGroups`, `Settings`, `Counters`, `SseServer`, `RtuMaster`, `Terminals` |
| `LiveProofs` | | theorems about the parts of `MCLiveParts`: `IpAcl`, `OtaUpdate` |

### Modbus RTU master

`pq`, `cache`, `backoff`, `sem` are the fields of `g_mb_async`; `pc` and `loc`
are where each caller is and its local variables, `tpc` and `task` those of
the task. One action is one critical section or one access to shared state, so
that a cache slot found before the queue is entered may have been evicted when
it is written after (`MarkRead`, `ShowWrite`), and a request may be served
before its caller has given the semaphore (`Signal`). `millis()` is kept as
saturating ages. `dev` holds the registers of the slaves and `lastQueued` what
was queued last, for the properties only.

- *Wake-up* (`NoLostWakeup`): a request waits only while a token, a caller
  about to give one, or the task about to look is there.
- *Writes* (`WritesKept`, `WritesAreFifo`): neither eviction nor the swap on
  removal loses or reorders one. `WritesAreFifo` is a refinement of
  `MbWriteFifo`, without its progress, which is `QueueDrains`. That a block
  write carries its own values (`SendsWhatWasQueued`) is false: the ring that
  holds them is shorter than the queue (section 3).
- *Recovery* (`PendingRecovers`, `QueueDrains`): under fair scheduling.
- *Starvation* (`AgedNotOvertaken`): an aged REFRESH read is overtaken only by
  writes and by older requests, until `insert_seq` wraps.

### Modbus TCP master

`inflight` is the array of claims. A worker goes through `top`, `take`,
`check`, `slot` (and `scan`), `connect`, `send`, `receive`, `finish`; a
connection carries the answers that are still to come (`wire`), so that a late
answer can meet the next request. `connLock` is `g_mbx_conn_mutex`, held over
the scan for a connection to evict, which asks slot by slot whether a channel
is in flight. `Drop` is the board hanging up.

- `ChannelSerial`: the claims of BUG-417.
- `SocketUntouched`: no other worker changes a connection in use (BUG-419).
- `AnswersMatch`: transaction ids are not compared; closing the socket after a
  timeout (BUG-469) is what keeps answers with their requests.
- `WritesInOrder`, `QueueDrains`.

Left out: the value cache, whose protocol is that of `MbAsync`; ageing, which
is that of `MbAsync` too; the semaphore, a hint since BUG-478; adding a board.

### Modbus slave

`line` is what the UART has received, `buffer` is `rx_buffer`, `state` the state
of `modbus_server_loop`, `quiet` the time since `last_rx_time`. A frame travels in
two pieces, which may be cut off, spoiled by `Noise` or run into the next one; a
buffer is a valid frame when it is exactly the two pieces of one, which is what
the checksum tells. The function codes are those of the dispatcher; writing
the register of a program has effects that `StPrograms` has, reading a counter
those of `Counters`. Nothing is assumed of the master's patience: it may give up at
any time and ask again, on a silent line or on one that is not.
`QuestionsAreAnswered` says that every answer is to a request to this slave that was
not answered yet, in the order of the requests; that a master that waits gets the
one to its own request, unless it gave up and asked again in the moment in which the
answer was made; that the values are what the requests left in the tables; and that
a request that comes whole on a bus that has been silent, with nothing after it, is
answered once the receiver's time-out has passed. That time-out is
`MODBUS_TIMEOUT_MS`, 3500 ms, not the 3.5 characters of the comment (see
*Disagreements without a run*). `may` is what each register may hold for all the
master knows: a write that was sent and not answered may have been obeyed or not.

### ST program store

`StSourcePool` moves texts one by one through the compaction, with the bytes
of the pool as cells that remember whose text they are. `StPrograms` takes the
pool as `StSourceStore` promises it and adds compilation, the globals and the
files. A handler is a list of steps (`todo`), one per compilation and per file
operation; handlers run one at a time, the power fails between any two steps
and inside a write.

- `RunsItsText`: the code that runs is that of the text shown.
- `OnlyBootMisbinds`: code reads the globals it names, and only a boot (see
  `NeverWrongGlobal` below) leaves code that does not.
- `BootRunsSaved`: a boot runs what flash holds.
- `IrDisjoint`, `CompiledIsSaved` (proved, in no run): EXPORT registers do not
  overlap; between handlers what is compiled is what flash holds.

### ST engine and watchdog

`StEngine` has the loop task, the HIGH task and one HTTP task or command at a
time. A cycle is `Start` (the generation and a copy of the variables are
taken), `Exec` (the instructions and `st_wdt_after_exec`) and `Store` (the copy
is written back unless the generation has changed), so that the other tasks can
act in between; `Pass` is a program that is not due, disabled, or the other
task's. A round of the loop looks at the watchdogs when 100 ms are over (`Well`,
`Trip`), runs the programs and writes the output bindings (`Outputs`). A reset
is `Mark` and `Reset`, two steps as in `st_logic_reinit`, from the watchdog or
from a handler. Handlers that change a setting end in `Save`. The variables of
a program are one value, its output; time is a set of events.

- `ResetHolds`: a cycle that a reset interrupts stores nothing (BUG-436).
- `StopNotSaved`: a stop by the watchdog never reaches flash (BUG-430).
- `FailureIsNoticed`: a program that keeps failing is dealt with, although its
  watchdog runs in the same task.

Left out: the debugger, safe mode, deletion of a program, the watchdog's reboot
action, and its time limit, heartbeat and standstill conditions. What a cycle
computes whose code has been freed by a compilation is an arbitrary result.

### The ST language

`StParser` is the recursive descent parser over a sequence of tokens, with a
function per `st_parser_parse_*`; the lexer's classification of characters is
left out, a token is given. `StCompiler` follows `st_compiler.cpp` construct by
construct; a piece of code holds relative jumps until `Link` puts it together.
`StVm` is the machine: one action for each group of instructions, `BeginScan` and
`EndScan` for the copy in and out of the bindings and globals. `StValue` computes:
INT has `IntBits` bits and the others `DIntBits`, so that overflow happens at small
numbers; where the code reads a byte of the value union that nobody wrote, an
operator has several results. `StBlocks` has the function blocks with their
memory.

`StLanguage` holds the meaning of a syntax tree as the manual's sections D.1 to
D.4 tell it, without slots, stack, jumps or instances, and runs both side by
side:

- `RunsAsWritten`: after every scan the machine has the variables the tree
  means, for programs with nested CASE, EXIT and RETURN out of them, function
  blocks in functions, FOR with BY, precedence and conversions.
- `CodeVerified`: what the compiler makes passes a check of one instruction at a
  time: jumps inside, one stack height at each address, operands that exist.
- `NeverStrays`: the machine never reads below its operands, or jumps, calls or
  indexes outside; `StVmProofs` proves it from `CodeVerified`.
- `HistoryDecides` (`StBlockCalls`): each block's output is a function of the
  calls so far, stated over the history of its inputs and times.

Left out: STRING, arrays of function blocks, the remote reads and writes of the
Modbus masters (their effect is `MbAsync`'s and `MbxPool`'s), the line map,
letter case, the debugger.

### The other parts of the device

*Access control* (`IpAcl`). A function of `ip_acl.cpp` is a critical section, its
save a step of its own. `MgmtNeverCloses`: what HTTP or Telnet may use is
narrowed for good only by a confirmation; `LockOutEnds`: a trial ends, confirmed
or taken back. Addresses are the sets of hosts a network has in it.

*Watchdog*. `phase` tells how far a start is, `rtcLong` what the memory that
outlives a reset says. `CrashLoopIsCaught`: crashes and reboots in a row, each
within ten minutes of the start, lead to safe mode whatever power failures and
restarts come between. `late` counts those `watchdog_init` can have seen.

*Persistent groups*. `pr` is the array of groups in the configuration, `flash`
its saved copy, `job` the steps of a call of two tasks. `ValuesFollow`: a saved
value stays with its register through every shift of the arrays;
`SavedComesBack`: a start puts into the registers what was saved.

*Update* (`OtaUpdate`). `DoneMeansStarted`: after an upload that was answered
"done" the device starts that firmware.

*Counters*. One counter, with its scan task, interrupt or pulse counter, the
main loop's pass in its parts, and the other core's resets and configurations. The
task that polls the pulse counter has the main loop's core and a higher priority:
the main loop never sees the middle of a poll, but a reset from the web server's
task on the other core does, so the poll is seven steps (`PollLooks` to `PollWraps`)
and the reset four. `EveryEdgeOnce`: the count, with everything delivered that
waits, is what the edges since the last reset amount to. It exempts

- the reset itself, from its first step to its last;
- a reset that stores while a poll holds a reading or a sum (`Disturbed`), until the
  next reset: the poll writes the old count back, or an old reading. A poll that has
  begun and ends before the store, or has not read yet, does no harm and is not
  exempt. Without this exemption the property is `EveryPulseOnce`, which is violated
  (see below);
- an edge that an interrupt counts between the reading and the writing of the wrap in
  the loop, until the next reset: it is lost.

A stop drops what waits with the scan task, and so does the count that is due.

*Timers*. A pass reads the clock once and the commands read it again.
`PhasesLast`: a phase that began before the pass read the clock, with the
configuration that the pass reads, ends in the first pass that finds it over and
in none before, wraps of the clock among them. It does not speak of a phase that
begins after the pass has read the clock (`ahead`): when a tick lies in between
that phase ends at once.

*Settings*. The struct is a sequence of fields, a blob the sequence an older
firmware wrote; a load lays the one over the other and migrates.
`SettingsSurvive`: every setting that existed when the blob was written has its
value after the start, from any schema since 19; `RestoreGivesBackup`: a restore
that is answered as complete gives settings, programs, keys and mappings of the
backup.

*Configuration*. The device can give its configuration away as the text of
`show config`, as the blob it saves, and as the answers to GET requests.
`Configuring` changes a device by any of some 90 lines and 30 requests, in any
order, with saves and starts between them; a device is a record of the stored
configuration and of the copies the engines run from. `Text` is the text, as a
sequence of lines that `Paste` feeds to the same parser. A behaviour stays with
one subject (bus, network, users, counters and timers, the rest), for the
settings of two hardly meet.

`MCDevice!CopiesComeBack` is two statements of `Configuring`:

- `PasteRestores`: the text, pasted on a fresh device with the same programs,
  sets every value that has a line which takes it. It says section by section
  what those are; what they are not is under *Configuration* below.
- `CopiesComeBack`: a save and a start show the same text again, and a GET that
  is posted back changes nothing.

*RTU bus* (`RtuMaster`). A transaction is its steps on the mutex and on the wire;
answers come in pieces, late, half or never, and stay in the buffer. What a
console does to the bus and to the background task (pause, baud rate, back)
can be cut by any other's step. `AnswersAreFresh`: what is taken for the answer
came after the own request was sent and before another was. That it belongs to
the own request cannot be said, since nothing in a frame tells; what a slave
answers late to an earlier request of the same form is taken.

*Event stream* (`SseServer`). The counter of clients is written by all workers
without a lock, a read and a write apart. `RoomWhenIdle`: it may be wrong, but
with all clients gone it is below the configured limit, on which the acceptor lets
a client in, as long as that limit is the highest there has been. Under a limit
that was lowered it need not be (`RoomAlways`, below). `ChangesArrive`: a change that
stays is sent to each client that watches it. The model assumes that a worker has
counted its client before the acceptor's 500 ms are over.

*Links* (`NetLinks`). The drivers' events are handled one after the other, and the
loop, the radio, the DHCP client and a call from the console come in between.
`LinksComeBack`: a Wi-Fi that can be joined is joined and has an address, an
Ethernet whose cable is in reports it. A connect on top of a connection is
exempt: the driver goes on in state "connected" and no longer looks after the
address. `network_manager_stop` also stops the servers, and only a restart of
the device starts them again.

*Terminals*. `wire` are the bytes that have arrived, and `telnet_server_loop` takes a
step to look who is connected, one to accept, and one for each byte and each line;
in between the client may leave, the access rules may cut it off
(`Cuts`: `network_manager_disconnect_telnet_client`, from the HTTP task), and the HTTP
task may run a command of the web page. Keys are what they mean to the line
(`Typed`), apart from the bytes they send. `LinesAreTheirs` is two statements:
`LinesAreTyped`, that each terminal has the line that was typed on it, and the
cursor where it was moved to, whatever the other terminals and earlier clients
did; and `NoticedLogin`, that a Telnet client whose coming the loop has noticed runs
commands only after it has itself given a name and a password. Five cases are
exempt, and the code does differ there:

- a client that takes the place of one that was cut off between the look and the
  accept of one round: the loop takes it for the same client, so that it goes on
  with the other's line and login (`spoilt.login`, until the next client that is
  noticed). Without this exemption the second statement is `LoginFirst`, which is
  violated (below);
- a client that leaves in the middle of a Telnet command: `parse_state` is not
  among what is reset for the next one (the comment at `telnet_server.cpp:909`
  says "reset all state"), which takes its first bytes for the rest;
- a line feed long after a carriage return: `last_was_cr` is cleared by the next
  carriage return or line feed only, so the feed is swallowed although other bytes
  came in between;
- a pasted line that has not arrived in full when there is nothing more to read;
- the line being typed on the serial console when another terminal starts an
  upload: it is cleared.

The mode of an upload is shared, so a line of any terminal goes into the text. Left
out are the longer sequences (Delete and the like), what a user may run (a choice
in `IgnoresLine`), the wrap of the lockout's clock and the stop of the server. To
accept, and to cut off, is one step each, though the code closes a socket and
changes the fields of the client one after the other.

## 3. The runs

Run names are those of `PROJECT.json`; every passing run reaches all its
states, and each of its properties is violated by a mutant of the code.

| Run | Bounds | Why they are enough |
|---|---|---|
| `mb_core` | 1 ST caller, 3 calls of any kind, queue 1, cache 1, every outcome of a transaction and of the filter, waits for the mutex may expire | every insertion evicts or is refused, the only slot is contended, a slave backs off and its next request is skipped |
| `mb_order` | 1 ST and 1 SCADA caller, 4 write calls, queue 3, every transaction answered | three waiting writes are the fewest that removal by swapping puts out of order; the fourth is refused; the semaphore is behind, level and ahead |
| `mb_live` | the same callers, 3 calls (single and block reads, a write, a pause), queue 2, cache 1, requests age at once, a slave that need not answer | refusals, evictions, overtaking, skips in backoff and the sweep all occur |
| `mbx_pool` | 2 workers, 3 channels, 2 connections, 3 requests, queue 2 | a third channel must evict while either connection may be in use; two writes of one channel meet two workers |
| `mbx_live` | 2 channels, 1 connection, 3 requests, a pause, an edit | requests wait for a channel, a connection, a pause |
| `st_store` | 2 programs, 4 calls, failing compilations, power failure at any step | a change after a failure after a success; a boot between any two file operations |
| `st_engine` | 1 program of either priority, any number of calls, one error trips, one restart, generation modulo 2 | program and watchdog are in one task, the HIGH task and the handlers in two others; a restart, an escalation and a healing occur, and a cycle is interrupted by the largest number of resets the generation can count |
| `st_lang` | 9 programs, 3 scans, inputs changing between scans, INT of 6 and DINT of 12 bits; each block kind with up to 5 calls (CTUD 3, BLINK, HYSTERESIS and FILTER 4), clock modulo 64 | every statement, operator and kind of call occurs, nested; numbers overflow; the clock wraps within the calls of a block |
| `device` | groups: 2 groups of 2 of 2 registers, 5 calls, 2 tasks; watchdog: 6 resets, streak 3 of 4; counter: 7 configurations, range 0..3, pulse counter modulo 5, bursts of 2, 2 calls; timer: 6 configurations, clock modulo 4, 2 calls; settings: blobs of 9 schemas, 6 calls; slave: 13 requests, 2 frames, 1 piece of noise, silence of 2 ticks, buffer of 4 pieces; stream: 2 clients, limits 0 to 2; bus: the task and a console, 1 slave, 2 rates, 2 requests; terminals: lines of 2, upload of 4, history of 2, 2 attempts, 4 calls; configuration: 3 calls | removal shifts entries and groups; the fourth crash is past the limit; every wrap and comparison is met in both directions, and a reset of either core between any two steps of a poll; every phase order and a clock wrap in each; each schema whose migration differs, a failed save, a restore over edits; a frame is cut, overheard, overflows and is repeated; the counter of clients is off by one in both directions; an answer comes late into another's exchange; a line is full, a client leaves or is cut off at any byte and before the accept, a login is locked out; two settings that depend on each other and a start or a third between them |
| `live_parts` | pool: 3 programs, 3 sizes, too small for all; access control: 2 rules, 3 calls, 2 tasks; update: 3 uploads, clock modulo 8; stream: 1 client, 1 register and 1 external value; links: either link, interval 1 up to 2, time limits of 1 tick, 1 waiting event | compaction moves texts in either order; a trial with a draft, a restore or an edit in it; an upload after a rollback, torn, repeated; a value changes between comparison and sending; the interval grows to its limit, an event meets every step of a call |
| `st_f_safe` | 1 program with a bound output | the fewest |
| `config_f_timer` | 2 calls | one is enough |

Bounds that are in guards: `MaxOps`, `MaxReqs`, `MaxCalls` (of each part), `MaxSent`,
`MaxNoise`, `MaxUploads`, `MaxEnds`, `MaxScans` (calls or events in one behaviour),
`MaxEdits`, `MaxPauses`, and in `StEngine!Mark` fewer than `GenMod` resets during
one cycle (the code's counter has 8 bits, and a cycle that is interrupted 256
times would not notice).

`st_f_safe` and `config_f_timer` are disagreements between a comment, or what the
device prints, and the code; `PROJECT.json` quotes both (`findings`). In
`st_f_safe` the watchdog sets a program's coil to its safe value and
`gpio_mapping_write_outputs` sets it back in the same round; in `config_f_timer` a
timer switched on over REST is printed with a control register that the
allocator of the command line does not know, so its line is refused.

### Fairness

Weak fairness of each task's own step: FreeRTOS runs every ready task, and
mutexes are held for short sections only. Nothing is assumed of callers, of
slaves and boards, of the network or of when a timeout comes, only that a wait
with a timeout ends. In `MbxPool` a scan that paused the workers ends
(`MbxAsyncPauseGuard` is a scope guard). In `StEngine` the hardware timers fire
and intervals end, the tasks are scheduled; fairness of the loop task is strong
only because the bound in `Mark` may disable it for a while, which the code does
not. In `live_parts` the steps of a compaction are weakly fair (one task runs them
in a loop), so are the clock and `ip_acl_tick`, which the main loop calls in every
round; the poll for the restart is strongly fair, because a rollback that is
repeated puts the time off again and again. So are the worker of a stream, the
event task, the main loop's look at the links, time, and the steps of a call from
the console or the REST API that has begun. Strongly fair are joining and getting an address:
a radio that is told again and again joins in the end, if it can. A behaviour
stays in one part, so the fairness of several parts is written as that of one
disjunction.

### Disagreements without a run

The modules state more of what the repository promises than the runs check.
These properties are violated by what the code does; to see it, take the
configuration named, replace its properties by the one in the first column
and change the constants as told.

| Property | From | Change | What the code does |
|---|---|---|---|
| `MbAsync!PendingHasRequest` | `mb_core` | `MutexTimeouts = FALSE` | A block read marks its registers PENDING before the queue refuses it. |
| `MbAsync!NoLostWakeup` | `mb_core` | | With expiring waits the task drops a token and leaves the request (BUG-478 repaired this in the other master). |
| `MbAsync!DuplicateWasWritten` | `mb_core` | `StCallers = {st1, st2}`, `Ops <- SingleOps`, `MaxOps = 5`, `CacheLimit = 2`, `MutexTimeouts = FALSE`, `BusResults = {"ok", "other"}`, `FilterResults = {"accept"}` | A write is skipped against a cached value that never reached the slave. |
| `MbAsync!StNotBehindScada` | `mb_core` | `ExtCallers = {ext1}`, `MaxOps = 2`, `Ops <- SingleOps`, `QueueLimit = 2`, `TtlSet = FALSE`, `MutexTimeouts = FALSE` | Without a TTL the builtin does not queue a read whose entry is PENDING, and so does not lift the SCADA read it waits for. |
| `MbAsync!SendsWhatWasQueued` | `mb_order` | `PoolSize = 2`, `MaxOps = 3`, all `BusResults` | The ring of block-write values (`g_mb_multi_write_pool`) is shorter than the queue, and a request that waits is sent with the values of a later one. |
| `MbxPool!ChannelSerial` | `mbx_pool` | `Leaks = TRUE`, `MaxReqs = 4`, `LockTimeouts = FALSE`, `Reaps = FALSE` | A claim that could not be released is left, and a second one of its channel follows. |
| `MbxPool!SentToBoard` | `mbx_pool` | `Addresses = {ip1, ip2}`, `MaxEdits = 1` | A board's address changes between the look-up of its connection and the request. |
| `MbxPool!PausedStartsNothing` | `mbx_pool` | `MaxPauses = 1` | A worker that has passed the test of the pause takes one more request. |
| `MbxPool!BusyOnlyWhenFull` | `mbx_pool` | | The scan finds every slot busy one after the other, never all at once. |
| `Counters!EveryPulseOnce` | `device` | as `Counter!EveryPulseOnce` | A reset on the other core stores while a poll, which has looked at `is_counting` before, has still to write its sum or its reading: edges come back or are counted twice (comment `counter_hw.cpp:253-254`: "polling task will skip this counter"). |
| `Timers!PhasesLast` without `~ahead` | `device` | | A start command that a pass obeys a tick after it has read the clock begins a phase in its future, and the difference ends it at once (`timer_engine.cpp:61`). |
| `ModbusSlave!AnsweredWithin(n)`, `n < Silence` | `device` | as an action property of `Slave` | A frame ends after 3500 ms of silence (comment `modbus_rx.cpp:8`: 3.5 characters); the repository's own master waits 500 ms for an answer (`constants.h:692`). |
| `SseServer!RoomAlways` | `device` | as `Rooms!RoomAlways` | A count left too high by lost decrements reaches a limit that was lowered since, and nobody is let in though nobody is connected. |
| `Terminals!LoginFirst` | `device` | as `Terminal!LoginFirst` | A client cut off by the access rules after the look leaves its login to the one accepted in the same round (comment `telnet_server.cpp:876-878`: "reset all Telnet state so next connection requires authentication"). |
| `Terminals!LinesAreTyped` with `spoilt` of a new client | `device` | `spoilt.telnet` without `telnet.parse # "none"` | A new client finds the state of the Telnet parser the last one left (comment `telnet_server.cpp:909`: "reset all state"). |
| `StPrograms!NeverWrongGlobal` | `st_store` | | A boot loads cached code against another layout of the globals than it was compiled for (comment `st_logic_config.cpp:1176`). |
| `StPrograms!WorkingVersionKept` | `st_store` | `PowerFails = FALSE`, `HeapFails = FALSE` | A save by another handler writes a text that does not compile over one that did. |
| `StPrograms!GlobalsRevive` | `st_store` | `PowerFails = FALSE`, `MaxCalls = 5`, `GTexts = {blockAB, blockA}`, `Backups = {}`, `HeapFails = FALSE` | A program stays without code after the globals it needs are back. |
| `StPrograms!IrRefusedOnlyWhenFull` | `st_store` | `PowerFails = FALSE`, `MaxCalls = 5`, `HeapFails = FALSE` | The pool grows at its end only; a hole is not used. |
| `StPrograms!IrSurvivesReboot` | `st_store` | `PowerFails = FALSE`, `MaxCalls = 5`, `HeapFails = FALSE` | A boot allocates in slot order. |
| `StPrograms!IntervalInRange` | `st_store` | `PowerFails = FALSE` | Deletion leaves the interval 0. |
| `StPrograms!IntervalsSaved` | `st_store` | `PowerFails = FALSE` | The handler saves before it changes the intervals. |
| `StPrograms!RestoreStores` | `st_store` | `PowerFails = FALSE` | A restore that fits runs out of pool because the old texts are still there. |

The models leave out, or have as the code does it, what else the code does and
the repository says otherwise or does not say. Found while modelling and
confirmed by reading, for the language also by running the code:

*Language.*
- TIME arithmetic is that of INT, 16 bits (the comment at `st_vm.cpp:36` has it
  normalised); the end of FOR is tested by a product in 16 bits, so
  `FOR i := 0 TO 1000 BY 100` runs not once (BUG-385); FOR up to 32767 fails (BUG-159).
- A FUNCTION is not stateless (`D_ST_Logic_Funktionsreference.md:37`): its locals
  keep values between calls of a scan, start as BOOL, ignore initial values;
  `RETURN;` returns what is on the stack; parameters are not converted; after a
  function with fewer parameters stale symbols refuse or drop some.
- A FUNCTION_BLOCK without parameters cannot be called as a statement; timers in
  a FUNCTION_BLOCK are shared by all its calls (the manual, line 38, says one per
  call); `Q => v` stores into a global slot even where v is a local.
- `VAR x : INT := -5` drops the value, `REAL := 2` copies the bits; the size of an
  array is computed in 8 bits; a CASE label beyond INT never matches; an INT
  compared with a literal beyond 32767 compares unsigned; BOOL = BOOL looks at a
  byte nobody wrote; SEL and MUX label and do not convert; LIMIT, MIN, MAX and SUM
  know no DWORD.
- The parser skips a statement that begins with neither a word nor a name, and a
  stray END_IF at the top ends the program, silently; a user function named like
  a builtin is accepted and never called; positional arguments beyond eight are
  dropped.
- A branch of a CASE with several labels, behind another branch, is lost in the
  parser, though the manual shows one; `CV => n` of CTU and CTD stores the flag QD,
  because the field number the parser gives CV is that of QD in the machine.
- TP: an edge in the call in which the old pulse ends starts none. BLINK and
  FILTER take times as INT. CTUD compares QU before it clamps.

*Settings.* From schema 19, analog defaults are converted a second time; from 30,
boards after the first are shifted by a byte (`types.h:771` says nothing is ever
inserted in the middle); a newer blob gives defaults and success; a wrong
checksum is found and ignored at the start. A backup lacks analog samples and
the second Modbus master (`B_REST_API_Reference.md:273`: complete); users and the
GLOBAL_VAR block that are absent from a backup stay. A restore whose save fails
leaves RAM new and flash old.

*Configuration.* The text of `show config` has these lines, which the parser
refuses: `set http enable`, `set http auth enable`, `http priority`, `wifi power-save`,
`set persist enable`, `set persist group <n> name`; `set id 0` and a baud rate that
`set id` and `set baudrate` have let through; a GPIO line whose pin Ethernet has
taken since; a timer's line whose control register is not among the 180 of the
allocator or is held by a counter. It prints passwords as asterisks, which are
taken as the password; leaves out what stands behind a switch that is off, RBAC
that is on without users, NTP, the access rules, scale, offset and switch of the
analog outputs, the module flags, bindings, priority and interval of each
program; prints a delay of 0 as a comment, a scale with two or six digits, a text
with blanks without quotes; both Modbus roles on (REST) come back as one.
A compare value loses its upper half, and a network mask that REST has checked
less than the command line is refused.
`set modbus-master enabled on` after a start in another mode runs the bus with
the defaults of the compiler while the stored parameters are shown; posting
the GET of the master overwrites the stored parameters with those; slave-id 257
is 1 for the command line and an error for REST; a prescaler of 0 is refused by
the engine, stored, and answered with success; `running` and
`compare-reg-reset-on-read` of `set counter control` are not stored; `load` leaves
counters and timers running that the loaded configuration has off; a POST that
fails at one field has already set those before it.

*Counters and timers.* Bit 1 "start" of a counter starts nothing unless bit 7
(running) is set; start and reset together reset twice; a stop that REST writes
between a pass's read and write is lost; the comparison register is overwritten
in every pass, although a comment says it can be changed (BUG-030); the pulse
counter wraps to start - 1, the others to start; mode "exact" is at least. A
timer started in a tick between two clock readings ends its phase at once;
start and stop together start it in the next pass; deleting it leaves its coil.

*Watchdog, groups, update, access.* A crash before `watchdog_init` counts for what
the last run was; a power failure then hides it; an external reset never counts.
Clearing the watchdog of a HIGH program enables it without starting the timer of
its task, so it waits for the next change of a program. Auto-load numbers stay when a group before is deleted. An upload within the
second after a rollback erases what was to be started; repeated rollbacks put
the restart off. A restore during a trial contradicts `ip_acl.h:113` and is
overwritten by the confirmation.

*Slave.* A frame ends after 3.5 seconds of silence, not 3.5 characters
(`modbus_rx.cpp:8`), and `inter_frame_delay` is read by nothing: a master that
asks again, or asks another slave, within that time is not answered, because
all of it is one frame. Writing an interval that is not allowed to HR236 or HR237
(`registers.cpp:575`) calls the handler again for the register it repairs while
the other half is still wrong, and does not return.

## 4. Proofs

| Theorem | States |
|---|---|
| `MbAsyncProofs!TypeCorrect` | `Spec => []TypeOK` |
| `MbAsyncProofs!WakeupsKept` | `NoLostWakeup`, assuming no wait for `pq_mutex` expires |
| `MbAsyncProofs!WritesAreKept` | the action property `WritesKept` |
| `MbAsyncProofs!AgedReadsAreServed` | the action property `AgedNotOvertaken` |
| `MbxPoolProofs!TypeCorrect` | `Spec => [](TypeOK /\ Located)` |
| `MbxPoolProofs!ChannelsAreSerial`, `WritesKeepOrder` | `ChannelSerial`, `WritesInOrder`, assuming `~Leaks` |
| `MbxPoolProofs!SocketsAreTheirOwn`, `AnswersAreMatched` | `SocketUntouched` (action property), `AnswersMatch`, assuming `~Leaks` |
| `StSourcePoolProofs!TypeCorrect` | `Spec => []TypeOK` |
| `StSourcePoolProofs!TextsStayIntact` | `PoolIntact` (in no run: `IsAStore` implies what it says) |
| `StSourcePoolProofs!SegmentsDisjoint`, `PoolIsOnePiece` | `Disjoint`, `NoGaps` |
| `StSourcePoolProofs!PoolIsAStore` | the safety part of `IsAStore`: `StSourcePool` refines `StSourceStore` |
| `StProgramsProofs!TypeCorrect` | `Spec => []TypeOK` |
| `StProgramsProofs!RunsWhatIsShown` | `RunsItsText` |
| `StProgramsProofs!RegistersAreApart` | `IrDisjoint` (in no run) |
| `StProgramsProofs!SavedWhenCompiled`, `BootRunsTheFiles` | `CompiledIsSaved` (in no run), `BootRunsSaved` |
| `StProgramsProofs!NothingElseMisbinds` | the action property `OnlyBootMisbinds` |
| `StEngineProofs!TypeCorrect` | `Spec => []TypeOK` |
| `StEngineProofs!StopIsNotSaved` | `StopNotSaved` |
| `StEngineProofs!ResetsHold` | the action property `ResetHolds` |
| `StVmProofs!VerifiedNeverStrays` | `NeverStrays`, assuming every program passes the check |
| `DeviceProofs!CrashLoopsAreCaught` | `CrashLoopIsCaught` |
| `DeviceProofs!PhasesLastAsSet` | the action property `PhasesLast`, which leaves out the phases begun after the pass has read the clock |
| `DeviceProofs!ValuesFollowTheirRegisters`, `SavedValuesComeBack` | `ValuesFollow`, and the action property `SavedComesBack` |
| `DeviceProofs!RestoresGiveTheBackup` | the action property `RestoreGivesBackup` |
| `DeviceProofs!EveryEdgeIsCounted` | `EveryEdgeOnce`, for the ranges, start values and bursts of `CounterAssumption` |
| `DeviceProofs!IdleMeansRoom` | `RoomWhenIdle`: room below a limit that is the highest there has been |
| `DeviceProofs!AnswersAreTheirs` | `AnswersAreFresh` |
| `DeviceProofs!LoginsComeFirst` | `Terminal!NoticedLogin`, the second half of `LinesAreTheirs` |
| `LiveProofs!TypesOfTheParts` | the types of `IpAcl` and `OtaUpdate` |
| `LiveProofs!ManagementStaysOpen` | the action property `MgmtNeverCloses` |
| `LiveProofs!UpdatesAreStarted` | the action property `DoneMeansStarted` |

*Source pool.* `PoolIntact` is not inductive alone: a text stays whole while
another is moved only because segments do not overlap, lie inside the pool,
and everything below the segment being moved has been packed already. `IInv`
is the conjunction of the type, `Inside`, `Disjoint`, `PoolIntact` and the
state of the job in progress. `PoolIsAStore` needs one fact more, `Packed`: in
front of a segment every byte belongs to a segment, where in the middle of a
compaction the segments already moved count as where they were (`Before`), so
that a memmove changes nothing and the hole appears at the end only. The pool
asks whether a text fits behind the last segment, the store whether it fits
beside the sum of the sizes; `BytesCounted` shows that the bytes of segments
that do not overlap are as many as their sizes add up to, slot by slot, and
`UsedIsTheEnd` that, packed, they are the bytes in front of that end.

*Wake-up.* The count `sem + signalling callers + looking task` changes by one
exactly where the length of the queue does; the proof counts the callers at
`Signal` as a finite set that gains or loses one element. The bound on the
semaphore matters: a token given at its maximum is lost, which is harmless
only because the maximum is the size of the queue.

*Writes.* A lemma says what `RemoveBySwap` keeps, another what eviction does:
a victim's class is strictly worse than that of the newcomer, and no class is
better than a write's. *Ageing* takes from the choice of the next request that
nothing precedes it, and from the type that sequence numbers below the wrap
compare as they were given.

*Worker pool.* A claim belongs to the worker that made it, and there are as
many places as workers, so that a worker with a request finds one free
(pigeonhole over the finite set of workers); then nobody else takes a request
of that channel. For the sockets, a connection is in use only by the worker
that serves its channel, and whoever evicts holds `connLock` and has seen the
slot's channel idle; a channel cannot become busy with that slot meanwhile, as
the worker needs the lock to look it up. For the answers, what is on the wire of
a connection in use is the answer to the request in progress or nothing, because a
timeout closes the socket. All four assume `~Leaks`, that a worker gets the lock
when it releases its claim: with `Leaks` `ChannelSerial` is false (section 3).

*Programs.* The invariant speaks of the script of the handler (`todo`) as
well: what is compiled and differs from flash has its save still in the script,
in an order that puts it after every compilation; a script of the boot loads each
file once. `BootRunsSaved` needs that the files which were loaded so far fit
together with those to come, hence sums over slots, whose laws are proved by
induction on the number of slots. `IrDisjoint` follows from an allocation behind
the highest end, and for the boot from the slots already placed.

*Stops.* `StopNotSaved` speaks of the moments when no handler is at work, and
is not inductive: what is saved is computed from `enabled` and from the
watchdog's `stopped`. `StopInv` adds `Wanted` (a program the user wants is
enabled, or its watchdog has stopped it) and `Kept` (flash is behind only
while a save is still to come). `Wanted` survives `Trip` because stopping sets
`stopped` in the same step that clears `enabled`, and `Clear` because it enables
what it forgets to be stopped.

*Resets.* `MarkInv`: the generation of a program is the one its cycle started
with plus the resets since, modulo `GenMod`, and those are fewer than `GenMod`;
so it equals the start's only if there were none.

*Machine.* `VerifiedNeverStrays` assumes that every program has been verified
(`AllVerified`), which is `CodeVerified` of the run `st_lang`. The invariant
`Places /\ Running /\ NeverStrays` says that the address is in the code, that the
stack is as high as the check has noted there, above what the frames below
left, and that every frame returns to a place with a note; a lemma per action
shows that the next instruction keeps it.

*Device.* A step of `MCDevice` is a step of one part (`DeviceSteps`), and the parts
have no variable in common. `WatchInv`: without a flag of safe mode the crashes
in a row are at most the streak the next start will read. `TimerInv`: what a phase
has lasted is the clock minus its start, below the modulus. `GroupsInv`: every
group is a pair of sequences of one length, and a value stands beside its
register in RAM, in flash and in the call in progress; removal of an entry and
of a group each have a lemma about the shifted sequence. `SettingsInv`: while a
restore is under way, what has been set so far is the backup's. `CounterInv`: `due`
is what the count comes to when everything that waits is delivered, except
between the clearing and the storing of a pulse counter's reset and while something
is torn. For a poll under way it adds `PollSums`: the pulses that came after its
reading and those it has read make what is unread, and the sum it holds is the
value with those it has read; so that storing the sum, noting the reading and
wrapping each leave what is due. The lemmas are about remainders, the two ways to
wrap, and that a burst may be split in two at any pulse (`PolledTwice`).

`RoomInv`: `RoomWhenIdle` says nothing of how wrong the counter is, and it can be
wrong by more than one. What holds is that it is at the highest limit there has been
(`highest`) only while some client is counted (in its session, or at the reading and
writing of either end), that a worker which is about to store read a value below that
limit going up, and that the acceptor lets in nobody at it: the client that is
accepted last is counted before the next is looked at. A worker that loads or stores
has taken its client from the queue, so that the acceptor's slot is known from the
queue alone. A change of the limit only raises `highest`, and every part of the
invariant that compares with it survives that.

`BusInv`: who is between sending and receiving holds the mutex (`Exchange`), what it
has received was on the wire after its request, and the number of its request is
that of the last one sent; no piece on the wire is from a request that is not yet
sent (`NoLater`), so that what was taken for an answer is of an earlier request than
any that is in progress. The commands' changes of the baud rate come in only as steps that
leave the exchange alone or drop what has been received (`SameExchange`).

`LoginInv`: the login is "authenticated" only if this client has entered a name and a
password or has come unnoticed (`spoilt.login`). It is inductive once the fields of the
login are known, because each way for a client to be noticed leads to `NoLogin`
(`TelnetAccepts`), and a failed login leaves the state alone only while it is not
"authenticated"; `ExcuseKeeps` says that no other step touches the excuse.

`CounterAssumption` came out of this proof, and the theorem is as wide as it is: the
edges between two collections, from the start value on, pass the end of the range at
most once, and a pulse counter that counts down from another value than 0 gets at
most twice that many pulses in one poll. Beyond that the code does miscount: when one poll of a pulse
counter that counts down brings more pulses past zero than twice its start value,
`counter_hw.cpp:98` and `counter_hw.cpp:131` fold the count in 64 bits and leave it
near the end of the range.

*Access and update.* A list in which only rules that keep HTTP and Telnet open
come and go lets in what the old one did: an added rule is a new place, a removed
one a lost place, and the rest are matched one to one in order. `OtaInv` ties the
answer, the partition chosen for the next start and its content together;
`ClockMod > 1` is all it needs of the clock.

Assumptions on constants are the named `ASSUME`s of the modules; TLC evaluates
them on every run.

*Not proved, only model-checked*: everything with fairness (`PendingRecovers`,
`QueueDrains`, `FailureIsNoticed`, `LockOutEnds`, `ChangesArrive`, `LinksComeBack`,
the progress of `IsAStore`), as the prover has neither fairness nor ENABLED; what
recursive operators compute (`RunsAsWritten`, `CodeVerified`, `HistoryDecides`);
`LinesAreTyped`, because the bytes of a sequence of keys are a fold over it, so that
the line they come to is an induction over data;
`SettingsSurvive` and `CopiesComeBack`, which are about concrete
tables of fields and lines more than about steps; `WritesAreFifo`, which holds
within the bounds only, as `insert_seq` wraps; and
`QuestionsAreAnswered`: with noise enough to fill the buffer more than once an
answer comes later than a time-out after the last piece, so that the time in which a
request is answered depends on the numbers.

## 5. What is not modelled

Parts without a module: the web server (transport, sessions, tokens), the REST worker
of the boards and their directory, the trend recorder, logs, drivers, web pages.
Of the ST runtime: the bindings of variables to registers with the paths that go
around the allocator, the debugger, the time limit, heartbeat and standstill of the
watchdog. Of the language: STRING, the lexer. Of the network: scans, ping, names,
the time servers. Of REST and the command line: reading, parsing and rendering,
which is most of `api_handlers.cpp`, `cli_show.cpp`, `cli_parser.cpp` and
`cli_commands*.cpp`; what they change is in the modules of the parts they change.
`PROJECT.json` says part by part what is left out (`components`).
