# A verification development for the Smart AP firmware

The firmware turns an ESP8285 into a Wi-Fi access point with a captive portal: every station that joins gets all
its DNS questions answered with the device's address and a web page and files from an SD card or from flash. It runs
on FreeRTOS with lwIP and Espressif's Wi-Fi driver, event loop and file-system glue; its HTTP server is a modified copy
of `esp_http_server`.

This directory holds TLA+ models of the firmware, the TLC configurations that check them on small instances, and
proofs that TLAPS checks for every value of the constants. `PROJECT.json` is the index: components, runs, mutants,
the map from definitions to source lines, findings, hazards and theorems. Paths below are relative to the
repository; `main/` and `components/` stand for `src/main/` and `src/components/`.

To check: `tlc -config <run>.cfg <module>.tla` for each run of section 3, and `tlapm <module>_proofs.tla`.

## 1. The system

### 1.1 Tasks and what they share

All tasks run on one core, preemptively, with priorities set by Kconfig (1..10 each), so any of them may be switched
away between any two accesses to shared state. They share one `sys_ctx_t` (`main/include/smart_ap_types.h:79-91`):

| shared item | written by | read by |
|---|---|---|
| `events` (event group: SHUTDOWN, SERVERS_RUNNING, DNS_RUNNING, DNS_STOPPED, scan and `*_DONE` bits) | all tasks | all tasks |
| `server_cmd_queue` (START, STOP, DNS_ERROR, SHUTDOWN) | event handler, DNS task, `free_proc()` | orchestrator |
| `dns_task`, `dns_socket`, `web_server` (under `state_mtx`) | orchestrator, DNS task (its socket) | orchestrator |
| `beep_sem`, the beep queue | HTTP task, beep task | beep task |
| `shutdown_sem` | reset timer, battery monitor | - |
| mount flags and handles of the storage | boot, `storage_deinit` | HTTP task |

### 1.2 Components

| component | source | state | operations | what makes it correct |
|---|---|---|---|---|
| orchestrator | `main/orchestrator.c` | command in progress, error count | START, STOP, DNS_ERROR, SHUTDOWN | servers run exactly when stations are there; bits agree with handles; it always ends |
| DNS server | `main/dns_server.c` | socket, rate limiter, receive buffer | start, stop, answer | one task at a time; a socket is closed once, and only when unused; answers stay in the buffer and within the rate |
| Wi-Fi | `main/wifi_ap.c` | channel, scan protocol | event handler, channel scan, AP task | no event lost that matters; a scan's result is its own; a good channel is chosen |
| web server | `main/web_server.c` | - | start, stop, page and file transfer, beep request | a client gets the whole file, an error, or sees that it was cut; transfers end when the servers stop |
| storage | `main/storage.c` | mount flags, mutex | mount, unmount, queries | no file of an unmounted medium is used |
| power management | `main/power_mgmt.c` | shutdown semaphore | reset timer, battery monitor, `free_proc()` | one teardown; nothing in use is torn down; it ends |
| buzzer | `main/buzzer.c` | beep semaphore, queue, pin | beep request, beep task | the semaphore is a token; silence at the end |
| boot and context | `main/main.c` | the context | `sys_ctx_create`, `app_main` | a failed creation frees what was made; a guest who comes during boot is served |
| HTTP server core | `components/esp_http_server/src/httpd_main.c`, `util/ctrl_sock.c` | control socket, its semaphore, run state | select loop, work queue, start, stop | queued work is bounded and run; stop joins the task; a failed start leaves nothing |
| HTTP sessions | `.../httpd_sess.c` | session table, contexts | new, process, close, LRU purge, contexts | a slot is never closed for its successor; a context is freed once |
| HTTP requests | `.../httpd_txrx.c` | the request, the response's headers | send, chunks, errors, asynchronous requests | what arrives is one well-formed answer, or the connection ends |
| HTTP parser | `.../httpd_parse.c` | parser state, block, bytes put back | parse, look up a query, header or cookie | fragments make no difference; the limits hold; the value of the right name |
| HTTP URI table | `.../httpd_uri.c` | handler table | register, unregister, match | the right handler; no hole after a failure |
| WebSocket | `.../httpd_ws.c` | handshake, the frame being read | receive, send, control frames | frames are read as sent; PING and CLOSE are answered |
| SD card driver | `components/sd_spi_driver/` | card state, mutex, SPI bus | mount, read, write, trim, password, unmount | the bus is given back; no transfer on an unregistered card; a transfer is whole or an error |
| FatFs | `components/fatfs/src/ff.c` | volume, window, open files | the file and directory API, format, mount | what is read is what was written; the volume stays consistent; an interrupted call harms no other file |
| character tables | `.../src/ffunicode.c` | - | conversion and upper case by table | a character of the table is found |
| POSIX face of FatFs | `components/fatfs/vfs/vfs_fat.c` | descriptors, contexts, lock | open, read, write, seek, link, directories, times | a descriptor keeps its position and its file whatever other tasks do |
| flash media | `.../vfs/vfs_fat_spiflash.c`, `.../diskio/` | drivers, handles | mount, unmount, dispatch | a write goes to the medium that was mounted there |

### 1.3 What is hard here

* **Decisions that age.** A command is queued by what its sender saw; when the orchestrator gets to it, stations,
  servers or the DNS task may have changed. START and STOP are checked again against the station list; DNS_ERROR
  against one bit. A queued close of the HTTP library names a slot, not a session. A SCAN_DONE may be an older scan's.
* **Hand-overs.** The DNS task's descriptor passes from the task to `ctx->dns_socket` to `stop_dns_server()`; the
  beep semaphore from the HTTP task to the beep task; the shutdown from whichever task came first; a session's context
  from the session to the request and back.
* **Shutdown.** Up to five tasks report through bits, some may hang or be asleep in a back-off longer than the grace
  period, and then what they use must not be torn down. A card is unmounted while a file may be read from it.
* **Bounds.** Queues of a few entries with timed sends: a command may be lost. Buffers that a name, a URL, a header or
  a path may just fill.
* **Half-done work.** Creation, mounting, registration, a response, a chain of clusters: each takes several steps of
  which any may fail, or after which the power may go.
* **Fragments.** Requests and frames come in any split; what is left over is put back and read again.
* **Several copies.** A sector of a FAT volume may be in a file's buffer, in the window and on the disk.

The 40 hazards in `PROJECT.json` list these at their lines, each with the properties that are about it.

## 2. The modules

The firmware's tasks:

| module | models | state and actions |
|---|---|---|
| `PortalService` | what the two servers promise (abstract) | `phase`, `held`; open, grow, serve, close, retire, reboot |
| `ServerLifecycle` | `orchestrator.c`; start, stop and life of the DNS task in `dns_server.c`; the event handler of `wifi_ap.c`; start, stop and transfer loop of `web_server.c`; the orchestrator's part of `free_proc()` | one program counter per task (`opc`, `hpc`, `dpc`, `spc`), the shared context, the queue, the open descriptors |
| `ServerLifecycle_proofs` | theorems about it and about how it implements `PortalService` | |
| `Shutdown` | `power_mgmt.c`, the loop of `smart_ap_task()`, the battery check of `app_main()` | `fpc` (where the two tasks that may end a session are), the tasks waited for, what is torn down, what fails in the session |
| `Boot` | `app_main()` and `sys_ctx_create()`, with the stations that come meanwhile | `bootPc`, `heap`; one action per step, each of which may fail |
| `Beep` | `buzzer.c` and the beep request of `main_handler()` | the token `sem`, the queue, the pin, the two tasks |
| `DnsQuery` | one datagram after the other: checks, rate limit, walk over the labels, answer | the buffer's bytes as they are read, the window and its count |
| `DnsBackoff` | the delay before a failed DNS server is started again | the error count, of `Width` bits |
| `ChannelScan` | `find_best_channel()` beside the driver and its late events | the scan's bit, the driver's scan, the scores |
| `FileServing` | `main_handler()` from the routing to the last chunk, `storage.c`, starts and stops meanwhile | the request's place, the answer's parts, the mounts and their flags |
| `WebPaths` | from a URI to a path, the fallback path and the content type | a function of texts |
| `Device_proofs` | theorems about `Beep`, `Boot`, `ChannelScan` and `DnsQuery` | |

The HTTP library:

| module | models | state and actions |
|---|---|---|
| `HttpServer` | `httpd_main.c`, `httpd_sess.c`, `ctrl_sock.c`, the asynchronous requests of `httpd_txrx.c` | `pc` (where `httpd_thread` is), `fds`, the session table, the control socket's mailbox and semaphore, the tasks that call the API, the one that stops the server |
| `HttpServer_proofs` | theorems about it | |
| `HttpdStart` | `httpd_start()` and what it undoes, `httpd_stop()`, the task's own cleanup | `held`, `step` |
| `HttpdUri`, `UriMatch` | the table of handlers; the wildcard matcher | the table with its allocations; a function of texts |
| `HttpdParse` | `read_block`, `parse_block` and the callbacks, over any split; the bytes put back; the purge of a body | the block `scratch`, the parser, the pending buffer |
| `HttpLookup` | values of a query, a cookie, a header; the URL's query | functions of texts |
| `HttpResp` | a handler's calls in any order, error handlers, sends that fail or come short | the response's fields, the wire |
| `HttpdContexts` | the contexts of session, request and transport | who holds which context, and its free function |
| `WebSocket` | handshake, frames in, control frames, frames out of three kinds of caller | the bytes of the client, the frame being read, the wire |
| `HttpLib_proofs` | theorems about `HttpdUri`, `HttpdStart`, `HttpdContexts` and `HttpResp` | |
| `WebSocket_proofs` | that `WebSocket` keeps its property `WebSocketRight` | |

The storage:

| module | models | state and actions |
|---|---|---|
| `SdSpi` | `diskio_sd_spi.c`: mount and unmount, disk functions, passwords, under the bus's mutex | `sdpc`, the callers, `Stat`, the card with its sectors and the transfer it is in |
| `SdLayout` | command frames, checksums, the card's size and erase block | functions of bytes and bits |
| `FatVolume`, `FatFile` | the layers of `ff.c`: window, table, directories; files and names | operators on a volume, named as the functions |
| `FatFs` | sequences of calls, disk failures, power cuts | the `FATFS` with its disk, the open files, what should be in them |
| `FatNames` | long and short names: making, numbering, checksums, finding, listing, removing | the entries of a directory, character by character |
| `FatMkfs` | `f_mkfs`, finding a volume, `f_mount`, stale file objects | the drive's sectors by what they hold, the `FATFS` |
| `FatTimes` | time stamps from the clock to the entry to `stat()` | the words of an entry |
| `FatMount` | flash partitions and the card mounted side by side | tables of drivers, handles, contexts |
| `VfsFat` | `vfs_fat.c` with two tasks | descriptors, positions, the lock, streams, contexts |
| `CharTables` | the search of a code page | functions of a table |
| `Storage_proofs` | theorems about `SdSpi`, `FileServing`, `FatMount` and `FatTimes` | |
| `VfsFat_proofs` | that `VfsFat` keeps its property `VfsRight` | |

`Sums` (the sum of a function over an interval) serves `ChannelScan` and `DnsQuery`; `Induction` has the lemmas
about natural numbers and sums that several proofs need.

`MC*` give the bounds. `MCServerLifecycle` and `MCHttpServer` hold one module each; `Shutdown` needs none.
`MCDevice` and `MCContent` hold *parts*: modules whose code does not interact, or only by what another module already
promises, so that their product would tell nothing. `part` names the one that is explored while the others rest in an
initial state. Their larger instances are in `MCHttp` (`HttpdParse`, `WebSocket`), `MCSdSpi` and `MCFiles` (`FatFs`,
`VfsFat`).

**Granularity.** A step is one access to shared state: an event-group or queue call, one critical section of
`state_mtx`, one blocking call, one FatFs call under the volume's mutex. What a task does on its locals between two
accesses is part of the step. Where only one task runs (`FatFs`, `FatNames`, `FatMkfs`, `HttpLookup`) a step is one
call, and a failure or power cut is placed at any disk operation inside it. Calls that fail do so by a constant set
(`Faults`, `MayFail`) or by a choice in the action, so a run names the failures it assumes away.

**`ServerLifecycle`.** `Receive`, `Begin*`, `Finish` are the loop of `server_orchestrator_task`;
`StartDns`..`CloseSocket` and `StartWeb`..`JoinWeb` the four functions it calls, which return to `AfterStartDns`,
`AfterStopDns` or `AfterStopWeb` according to the command, as the code does by being called from several places.
`Dns*(t)` is `dns_server_task` in control block `t`; control blocks and descriptors are reused, which is what makes
late answers and stale descriptors possible. `Restart` is `esp_restart()`. Wi-Fi's driver and event loop are external:
`Connect`, `Disconnect` change the station list at once and post an event that is handled later.

**`PortalService`** has two variables and no tasks. The refinement mapping reads `phase` off the bits and
the orchestrator's place, and `held` off the handles *and* the running tasks, so that a handle given up before its
task has ended would show.

**`Shutdown`** abstracts the orchestrator and the beep task to "run until they report"; `ServerLifecycle` and `Beep`
show that they do report. What a session suffers is chosen at boot (`faults`).

**`HttpServer`.** `Prepare` and `Select` are `httpd_server` around `select()`, apart because asynchronous requests may
end in between; `CtrlProcess`, `Serve*`, `EndSession`, `Purge` and `Accept` are what it does when a descriptor is ready,
in the code's order; `Call`, `Take`, `SendMsg`, `Complete` are the API as other tasks call it, `Stop*` `httpd_stop`. The
options that change control (`max_open_sockets`, `lru_purge_enable`, blocking `httpd_queue_work`) and what the
application calls are a record, `config`, that is fixed for a behaviour. The contract of the application is in the
guards: it hands requests over and calls the API only until it stops the server, and stops it only when its tasks are
done with it. `ServerLifecycle` uses the server through `httpd_start`/`httpd_stop` alone: `StopReturns` is what its
`JoinWeb` relies on.

**`FileServing`** relies on `ServerLifecycle` for when servers start and stop, and abstracts a medium to the files on
it and whether it is mounted; `SdSpi` shows what an unmount during a transfer does below. `FileServing` also models
`httpd_stop()` failing (`lost`), which `ServerLifecycle` takes to succeed.

**`HttpdParse`, `HttpResp`, `HttpdContexts`, `WebSocket`** follow one connection. `http_parser` is a library outside
the repository: only when it calls back, and with which bytes, is modelled. Handlers keep a contract, stated in the
guards: they answer once and pass on the errors of calls.

**`FatVolume` and `FatFile`** write `ff.c` as operators from volume to volume, so that a call of the API is one
expression; `Then` is the chain of `if (res == FR_OK)`. `io` counts down to a disk operation that fails, and `trace`
keeps the disk after each write, so that a fault or a power cut can be anywhere. `FatFs` keeps what each call promises
about the contents and compares.

**`VfsFat`** takes FatFs for what `FatFs` shows it to be, and puts two tasks above it; what the context's lock covers
is a step, what it does not is several. Beside the real files runs `posix`, what POSIX would make of the calls that have
returned. FatFs is built without its file lock (`FF_FS_LOCK` 0, `ffconf.h:443-452`) and leaves it to the application
not to open a file twice nor to remove one that is open; `mixed` notes when a program does (`OpenAlready`), when two
tasks use one descriptor at once, and when a directory changes while a stream is open. From then on nothing is promised about
contents. Programs that do what FatFs's users are told to avoid are not the question.

## 3. The runs

| run | question | bounds |
|---|---|---|
| `LifecycleSafety` | with every fault: one DNS task, no use after close, no double close, all down when the orchestrator reports, no orphaned HTTP task; the abstract service is implemented; the proofs' invariant | 1 station, 2 control blocks, 2 descriptors, queue of 1 |
| `LifecycleQuiet` | in any order of comings, goings and DNS failures: no server runs for nobody, bits and handles agree | 2 stations, queue of 2, 2 pending events |
| `LifecycleProgress` | a shutdown request always reaches the orchestrator's exit, its command lost or not; a failed DNS server comes back; servers stop after the last station | 1 station, queue of 1 |
| `LifecycleStranded` | *violated*: a connected station has servers | 1 station, queue of 2 |
| `LifecycleSocketLeak` | *violated*: the descriptor is always released | 1 descriptor |
| `LifecycleSpuriousRestart` | *violated*: only a failed DNS task is restarted | 2 control blocks |
| `Shutdown` | one teardown, nothing pulled away, every shutdown ends, a critical battery means sleep, healthy tasks all report | a voltage in each range, every set of faults |
| `HttpServer` | the semaphore counts the mailbox's places, the session count is right, an asynchronous request keeps its session, requests are read, a full table is purged, `httpd_stop` returns | 1 or 2 slots, 3 connections, 2 API tasks, mailbox of 1 |
| `HttpServerSelfClose` | *violated*: `httpd_stop` returns, if a handler may wait for a place in the mailbox | as above, blocking |
| `Device` | the firmware's other parts and the making and naming of files: next table | next table |
| `Content` | what a request passes through on its way to a file: the table after | that table |
| `SdLockedCard` | *violated*: a locked card with a configured password is mounted | 1 locked card |

The parts of `Device`:

| part | properties | bounds |
|---|---|---|
| `dns` | `DnsSafe`: only bytes of this datagram are read and answered, nothing is written past the buffer, no second sees more than twice the limit. `DatagramEnds`: the task returns to `recvfrom()` whatever the labels | bytes 0, 1, 5, 63, 64, 191, 192, 255; buffer of 36; rate 1, window 2, horizon 5 |
| `backoff` | `BackoffGrows`: however often the server failed, the next delay is no shorter, and within the limits, whatever the shift does | numbers of 4 bits, 7 errors in a row |
| `scan` | `ScanSafe`: the channel is chosen from this scan's own result, no scan is left running, and where there is a silent channel none with an access point is chosen | 5 channels, 2 records, 2 strengths, 2 scans |
| `boot` | `ContextAllOrNothing`: a failed creation leaves nothing, and frees nothing twice. `GuestAtBootServed`: who associates during the boot gets servers, or the device restarts | queue of 2, 1 reset |
| `beep` | `TokenTrue`: the semaphore is a token, and busy says so; silence after the teardown. `BeepEnds`: a promised beep sounds, the token returns, the task sees the shutdown | complete |
| `mkfs` | `FormatRight`: what `f_mkfs` makes is found and mounted with the layout it was given, nothing large enough is refused, an unreadable sector is not taken for "no file system", a file opened before a format is refused | drives around every threshold from 127 to 16,778,000 sectors, alignments, leftovers of other systems |
| `names` | `NamesRight`: objects have short names of their own, are found by their names and by nothing else, are listed as made, and leave no stray entries | names to 26 characters, five directories (accented letters, crowded, numbered to the end, odd characters, entries of others), 3 calls |

The parts of `Content`:

| part | properties | bounds |
|---|---|---|
| `uri` | `TableSound`: the table stays dense, also when memory runs out, and no entry is hidden by one in front of it. `ServiceKept`: a request keeps its handler until that is removed | 3 templates, 3 handlers, 4 registrations |
| `match`, `lookup`, `layout`, `pages`, `paths` | `TextsRead`: the matcher's language, the value of a name, checksums and sizes of a card, the characters of a code page, the path of a URI, each against a reference | all strings of up to 4 (match), 5 (lookup) and 6 (paths) characters; pages of 1..40 characters and of the real sizes |
| `parse` | `ParsedAsSent`: whatever the split, handlers see the requests that were sent, within the limits, and the rest is put back | 2 requests; URLs and headers that fit, fill or exceed; bodies of 0..2; blocks of 5, buffers of 6 and 8 |
| `file` | `ServingRight`: the client gets all of the right file, an error, or a cut; no medium is unmounted under a transfer that may go on | 2 media, 1 request at a time, 2 starts |
| `sd` | `SdRight`: a read gives what was last written, a locked card is known to be, no call leaves the card in a transfer, a failed mount leaves nothing | a block, a byte and a locked card, 3 calls, 2 sectors |
| `fat` | `FatRight`: results, reads and directories are those the calls imply, chains are disjoint and whole, both tables and the free count agree. `PowerSafe`: after a power cut the files the call was not about, and what was synced, are on the disk; a renamed file has a name | five volumes, 4 or 5 calls, one disk fault, a cut at any write |
| `vfs` | `VfsRight`: a descriptor is its owner's, contents, positions and directory streams are what POSIX promises, nothing stays allocated | six programs of two tasks |
| `mount` | `MountsApart`: what is written under a path is on its medium and changes no other, whatever was mounted, unmounted and given up before | 2 volumes, 2 partitions and the card, 4 mounts |
| `ws` | `WebSocketRight`: frames arrive unmasked and whole, PING and CLOSE are answered once, the stream stays in step | frames of three length forms, three kinds of handler |
| `resp` | `ResponseRight`: the wire holds one well-formed answer to a request, or the connection ends | 3 calls, 1 header, 2 exchanges |
| `contexts` | `ContextsFreedOnce`: a context is freed once, with its own function, and by the server only if it owns it | 3 contexts, 1 session |
| `start` | `ServerWholeOrGone`: after a failed start or a stop nothing is held, and nothing was freed twice | 2 calls |
| `times` | `TimesRight`: the time shown is the one stamped, to two seconds, within what 16 bits can hold | 2 names, 4 moments |

**Why the bounds are enough.** A queue of one is full after one command, so every timed send can expire; a queue of two
holds a command beside a stale one. The DNS task never has more than one live successor (proved), so two control
blocks give every pair of a task that is still reporting and the next one; with a third, `StartDns` could do no more
than with two. Two descriptors let one leak and still be reused. Stations only matter as "none or some" to the code,
so two give a departure that is not the last. `MaxEvents` bounds only the driver's undelivered events. The
shutdown's thresholds compare one voltage with three values: `Volts` has one member in each interval.
In `HttpServer` one slot makes the table full at once and slots be reused; two let the order of use and of the
table differ. A mailbox of one is full after one datagram, so that every sender meets a full one; what is counted does
not depend on its size. `MaxLru` ends requests only until the counter is reset, and `Backlog` is lwIP's bound.
`Device` and `Content` take, for each comparison in the code, a value on each side and one on it: labels of 63 and 64,
buffers that a text just fills, sizes of drives one sector apart, names of 8 and 9 characters. A volume has few
clusters and sectors of few cells, so that a file of three units crosses clusters, a directory grows into a second
cluster, and the disk fills. Two calls after a fault are enough for what it left to be met. Two tasks suffice for
`VfsFat`: a descriptor has an owner and a rival. Halving is checked at the real sizes of the code pages, with keys at
both ends, in the middle and at each twin.

**Every property has a mutant** (`Mut*` in the modules, `PROJECT.json` "mutants"): the change of the code that it
would catch. Many properties are conjunctions of named parts; a counterexample is read off by checking the parts.

### 3.1 Fairness

Each task is scheduled eventually (weak fairness per task): all of them block on queues, bits or delays, so a task of
lower priority runs. Not fair: stations, requests, faults, the decision to shut down, the next scan, datagrams. These
assumptions are stronger:

* `SendFairSpec` (`LifecycleProgress`): a sender blocked on the full queue gets its turn if the queue has room again
  and again; FreeRTOS hands room to a waiting sender when the orchestrator receives. Without it `DnsFailureRepaired`
  fails, with a DNS_ERROR that waits for ever behind other commands.
* `Beep` (in `Device`) assumes that a pattern of beeps, which has at most 255 rounds, ends, and that httpd does not
  take requests for ever after it was told to stop.
* `HttpServer`: a task that waits for the control socket's semaphore gets it if it is given again and again.

`Boot` needs no more than the main task and the orchestrator being scheduled, `DnsQuery` the DNS task.

## 4. The proofs

`ServerLifecycle_proofs`: `LifecycleInv` is inductive together with `TypeOK`. It has three parts.
`TaskInv`: a live DNS task is the one in the context, and none is live once `EVT_DNS_STOPPED_BIT` is set - without the
second half, `WaitStopped` could not conclude anything. `SocketInv`: each place that holds a descriptor (the task,
the context, the orchestrator's local) holds an open one, and no two the same descriptor but for a task and its own
publication; `NoDoubleClose` alone is not inductive since closing one copy would break the other. `StageInv`: what has
been done so far at each place of the orchestrator in each command, from which the agreement of bits and handles
follows at `receive`, and `DownWhenDone` at `done`. The proof of each step goes action by action. From it follow
`LifecycleIsSafe`, `OneDnsTask`, `SocketHasOneOwner`, `BitsAndHandlesAgree`, `TornDownWhenDone`, and the refinement
`ServiceImplemented`, which needs the invariant in each step that changes the phase. `NoServerForNobody` (the property
`NoIdleServer`) is about who still has to act: `StopFollows` says that while no station is left and the servers run or
come up, a STOP is coming - the departure is undelivered, the handler has it in hand, or the command is queued or begun
- and `ShutdownTold` that whoever acts on a shutdown has its bit set. It assumes that the station list can be read and
a command sent (`Faults`): the code drops the stop otherwise.

`HttpServer_proofs`: the invariant `IInv` has one part for each thing the parts of the server rely on. `Jobs` is what a
caller may hold at each point of a call, `Stops` how far a stop can be, `Loop` what the server's task knows at each
point of its round - a control socket that was ready still has its datagram, a listening socket that was ready its
connection and, without purging, a free slot, because only this task takes them. `Table` keeps the connections of the
table and the backlog apart, and counts them; `Async` says that `select()` does not watch a session in asynchronous use,
that in a use without queued closes no message closes a session, and that two requests being answered never share
one. `AsyncKept` alone is not inductive: a purge or a queued close could take the session but for those. The lemmas
count: what `Cardinality` does when a slot, a sender or a place in the mailbox changes hands.

`Device_proofs`. *Beep:* the tokens - the semaphore, the handler's, the queue's, the beep's under way - add up to one,
or less once the device shuts down. *Boot:* while the context is made, what is held is what was made so far; while
a failed creation is undone, it is among what the labels still to come free. *Scan:* whatever the event loop can
still deliver is of a scan that was begun and is over, so that a SCAN_DONE of this scan means that it is; then a
channel near no network has the penalty 0 and one that holds a network has more. *DNS:* the cursor never passes the
length; for the limiter, no datagram was admitted after the window's end, the window and the second before it had at
most the limit each, and every second before that twice the limit (`WindowBounded`): a second that ends now begins in
one of the two. *Shutdown:* `ShutdownInv` says that whoever is in `free_proc()` past the semaphore holds it, so there
is one of them; that a teardown begins after both critical tasks have ended; and that it goes past the handlers only
with none running. `TeardownSafe` also needs the order of the teardown.

`HttpLib_proofs`. *URI table:* a removal leaves a table that is *found in* the old one in its order, and a registration
appends an entry that no entry serves; both keep `NoShadowedHandler`, and the first entry that serves a request stays
first (an induction over the places of the table). *Start:* at each step exactly what the steps before made is held.
*Contexts:* the log of what was freed names each context that was made and is not in use exactly once, with its own
function; a context in use has the function it came with, and the session's and the request's may be the same one while
the transport's is another. *Responses:* what is on the line is, up to a token that may be cut, what the handler wanted
to be sent (`Said`), and all of that while the handler goes on or the connection is kept. A client finds the end of the
head, of a chunk and of the body by tokens that nothing before them can be taken for, so what it understands is the
whole; the lemmas say at which place of `FlattenSeq` each token of a head and of chunks stands.

`Storage_proofs`. *SD card:* whoever is at work on the card holds the bus, what stands at each stage of a mount, and
what a transfer has done so far is on the card, with the sectors it is about promised to nobody. *Serving:* the stages
of the storage against those of the orchestrator (flags are set after mounts, media go after the orchestrator's end),
and what was sent at each stage of a request: the head and the first chunks of the file that is open. *Mounts:*
each mounted path has a drive of its own whose driver, handle and context are its own. *Times:* the words of the entry
are the packed form of a moment, and a packed moment in the range of the format unpacks to itself (two seconds apart);
the arithmetic is that of fields of a word, one field after the other, at the widths `TimesConstants` states.

`WebSocket_proofs`: `WebSocketRight` relates the bytes of a client to what the handler was told and what was
answered, so the invariant `WsInv` has to say where in the stream the server is. `InStep`: what the server has not
taken is the rest of the client's stream from some byte of some frame on - before the handshake, between two frames, inside a
header, a length, a mask or a payload - and the fields of the frame being read (`ws_final`, opcode, length, mask) are those of the
frame the place is in; `mistaken` names the one place where the code loses its step (a frame read in two calls whose
length is zero, see 5.1) and then nothing more is promised. What was told and answered so far is what the frames
before the place call for. `FramesSent`: the wire is a sequence of frames the callers meant, whole up to the
transfer under way. `Transfers`: each queued transfer is of one caller, which waits for it or does not, and is carried
out at most once. The lemmas are about stretches of a sequence (a stretch cut into two; the stretch from a frame on), about
numbers put together from bytes, and about unmasking. The proof holds for any frames of any length below the
bound of `WsConstants`, any masks and any splits of reads.

`VfsFat_proofs`: `VfsRight` speaks of the files *between* calls, so `VfsInv` says what each place inside each call is
about. `Shapes` is the types, with what a copy has read being at most what is left of it. `LockKept`: the lock is held by
exactly the task that is in a section of it, and the descriptor an `open()` is about to give is free. `MemoryKept`: what
is allocated is what the tasks' calls hold, their streams and the contexts. `StreamPlaced` is inductive as it stands: an
entry is stepped over at a time. `Agreed`, as long as nothing is mixed and the disk works: no two FILs - of
descriptors, or of a `link()` or `truncate()` under way - are of one file, no two tasks use one descriptor, every file but the one a
call is changing (`Changing`) has the content POSIX gives it, every descriptor but one whose position is being moved
(`Moving`) its position, and `TaskWell` says what each stage of a call has made of its file: what is kept of the old
position, how far `pwrite()` has grown the file, what is copied of a linked file, where it is to be cut. A step of one task keeps
all that of the other because it depends only on the other's own FILs (`TaskKept`). That attempt corrected the model
twice: the sharing rule above, without which the files do not agree, and the refused append of 5.1.
It holds for any number of descriptors and contexts, any copy unit and any sequences of calls of the two tasks on three names.

All hold for every value of the constants that the assumptions named in the modules allow (`LifecycleAssumption`,
`ShutdownAssumption`, `HttpServerAssumption`, `ScanConstants`, ...): any sets of stations, connections, workers, control
blocks and sectors, any size of a queue or buffer, any faults. They say what the types need and what the code's own
definitions guarantee; TLC evaluates them in every run.

`Induction` has no induction theorem of the library, whose operator parameters the provers cannot instantiate: it
derives induction for a *set* of numbers from a well-founded order on them, and the facts about sums (splitting,
monotony, one change) with functions as witnesses. So induction over a number or a length is possible where the
definition is a function; what is defined by a RECURSIVE operator is not.

**Only model-checked:**

* all liveness (`NobodyStarves`, `ShutdownDone`, `BeepEnds`, `DatagramEnds`, ...): the prover has no rules for fairness
  and ENABLED; `AdcInPlace` is a part of `ShutdownDone`;
* `FatRight`, `PowerSafe` (RECURSIVE operators in `FatVolume` and `FatFile`) and `TextsRead` (in an MC module);
* `BackoffGrows`: it is about `2 ^ n` at a width, for which no backend has rules;
* `ParsedAsSent`: it compares byte positions of a head with texts put together by folds over its characters;
* `FormatRight`: its sizes are quotients of words of 16 and 32 bits, at which the provers' arithmetic gives up, and
  `NamesRight` compares names character by character with what recursive definitions make of them: both would need an
  induction over data.

## 5. Findings

1. `NoStrandedClient` (`main/orchestrator.c:67-82`): the station count of STOP is taken before the bit is cleared. A
   station that connects in between asks for nothing (its handler sees the servers running) and then loses them.
2. `SocketAlwaysReleased` (`main/dns_server.c:74-77, 135-145`): a stop between `socket()` and the publication of the
   descriptor takes -1; the descriptor is published afterwards and overwritten by the next task.
3. `OnlyFailedDnsRestarted` (`main/dns_server.c:410-412`): a failed task looks at DNS_RUNNING after it has let the
   orchestrator go on, may find its successor's bit, and gets the successor restarted.
4. `StopReturns` with `CONFIG_HTTPD_QUEUE_WORK_BLOCKING` (`httpd_main.c:166, 585-587`): a handler that calls
   `httpd_sess_trigger_close()` with the mailbox full waits for its own task. The firmware leaves the option off.
5. `LockedCardMounted` (`diskio_sd_spi.h:108-109`, `ff.c:3788`): a locked card is to give `FR_WRITE_PROTECTED` and to
   be unlocked with the configured password. `f_mount()` mounts in mode 0, which asks for no write access; reading the
   locked card's first sector fails, `FR_DISK_ERR` is returned and the unlocking branch is not reached.

### 5.1 What the models show besides

No run is about these: the models have them as the code does, and the properties are stated around them. Where a text of
the repository says otherwise, it is quoted.

*The firmware.*
- EVT_SERVERS_STOPPED_BIT is set and never read. The second station count of START (`orchestrator.c:43-54`) and the
  clearing of EVT_DNS_STOPPED_BIT in `start_dns_server()` are redundant: removing either breaks no property here (a
  STOP follows in the queue; the wait clears the bit).
- A request served before `EVT_SERVERS_RUNNING_BIT` is set (`orchestrator.c:56-57`) is aborted with the log "servers
  stopping" (`web_server.c:411-413`); one that comes between `httpd_start()` and the registration gets a 404.
- The longest DNS back-off is longer than the shortest grace period, so a shutdown during it ends in a forced restart
  (`faults = {"slow"}` in `Shutdown`).
- The DNS rate counts queries before the OPCODE and QDCOUNT filters, and up to twice the limit pass in one second
  across a window's edge (`main/Kconfig.projbuild:210-211`: "packets per second", "counted after filtering garbage (QR,
  OPCODE, QDCOUNT)").
- With the captive page only on the card while SPIFFS is mounted, `GET /` is redirected to itself. A file whose first
  chunk is aborted gets no answer. If `httpd_stop()` fails (`web_server.c:624`), the handle is lost and the server runs on.
- A URI longer than the path buffer is cut, so it names what it begins with; names with two dots in a row cannot be
  fetched; there is no percent-decoding; extensions are case-sensitive; a dot in a directory's name makes a dotless
  file's type octet-stream.

*The HTTP library.*
- A queued close names a slot, not a session (`httpd_sess.c:136-151`). When it runs, the slot may hold another session,
  or its own in asynchronous use, although `for_async_req` says "If true, the socket will not be LRU purged"
  (`esp_httpd_priv.h:86`). `AsyncKept` states the cases without queued closes, the firmware's among them.
- A request without headers: `cb_headers_complete` does not move `last.at` in its PARSING_URL branch (311-319), so what
  is put back begins with the request line itself, contrary to the comment at `httpd_parse.c:152-153`.
- Only the first Cookie header is read; a buffer size of 0 wraps (`size - 1`); a query's piece without '=' hides the
  next one; a header value exactly as long as the buffer is cut and reported as copied.
- When `open_fn` fails, `httpd_sess_delete` closes the descriptor and `httpd_accept_conn` closes it again
  (`httpd_main.c:132-141`). An asynchronous copy of a request keeps the session's context as it was.
- An error handler for 400, 414 or 431 that returns ESP_OK keeps a connection whose request was read only in part.
  TCP_NODELAY failing after the message was sent counts as an error.
- WebSocket: a handler that takes the length first and the payload then, as `esp_http_server.h:1784` says, reads the
  second byte of the header again when the frame is empty; opcodes 0xB..0xF leave their payload in the stream; 65535 is
  sent in the 64-bit form; a short send is not noticed; a list of subprotocols cut at 48 characters may match by its cut
  last name; a frame or a close that is queued goes to whoever has the descriptor or slot then; `httpd_ws_send_data`
  waits for ever if the server stops.

*The SD card driver.*
- The stop token "always" follows a write (comment near line 672), but `xmit_datablock(NULL, 0xFD)` does not send it to
  a card that stays busy. A lost answer to CMD13 leaves `Stat` wrong; clearing the password of a locked card leaves
  STA_PROTECT. After a failed mount FatFs still points at the freed FATFS. The mutex is deleted while others could
  wait for it. A second mount of the mounted path would tear down the running mount.
- For an MMC the erase multiplier's low bits come from `csd[11]` instead of `csd[10]` (`LayoutRead` takes cards where
  they agree).

*FatFs and its glue.*
- `f_sync` clears FA_MODIFIED even if `sync_fs` fails (4281), so a later `f_close` is OK with the entry unwritten.
  `f_truncate` before `f_sync`, and a power cut, leave the entry pointing at freed clusters. A failed `f_rename` can
  leave both names on one chain. A directory can be moved into itself.
- The check "Too small volume?" of `f_mkfs` (6392) leaves the alignment gap out: if exactly no cluster remains, FR_OK
  is returned and the volume does not mount; `FormatRight` excludes that case by name. A format that fails after its
  boot sector was written leaves that over the old tables. On a partitioned drive an unreadable partition is reported
  as no file system.
- A failed flash mount keeps the wear levelling instance and a stale handle; raw handles are never cleared. Drive
  numbers are not reserved atomically. Mounting a path that is already registered goes on with an uninitialised pointer
  (`vfs_fat_spiflash.c:66-74`), so the model's caller does not. The firmware mounts no FAT volume on flash.
- `vfs_fat_link` leaks two FIL objects when an open fails and ignores the copy's `f_close`; unregistering a path leaves
  `s_fat_ctx` dangling; O_APPEND and pread/pwrite restore positions in steps of their own; O_CREAT alone opens only what
  exists; O_APPEND alone creates; O_TRUNC alone truncates nothing; seeking past the end of a file open for writing grows it;
  a write refused on a descriptor with O_APPEND that is open for reading leaves the position at the end.
- `fstat()` gives time 0 where `stat()` gives the time; `utime()` on an open changed file is overwritten at close; with
  the clock unset, files are stamped 1980; years past 2107 wrap.
- Code page 950 has ten characters with two OEM codes; a short name stored with the other one is listed but not found.

## 6. Plan

Done: the firmware's tasks, the HTTP library, the storage down to the commands on the SPI bus.

Proved: the firmware's tasks, the HTTP server's core, its table, start, contexts and responses, the SD driver, file
serving, the mounts and time stamps, WebSocket, the POSIX face of FatFs.

What remains, in this order:
1. `ParsedAsSent` (`HttpdParse`): what was parsed of a head as a prefix of what was sent.
2. Of `FormatRight` the part without arithmetic: what a failed format leaves.
3. FatFs as `VfsFat` takes it, shown to be what `FatFs` has: for TLC, since `FatVolume` is recursive.

**Not modelled.** In modelled components: exFAT and FAT12 files, `f_fdisk`, labels, `f_expand`, `f_forward`, string
functions and working directories of FatFs (compiled out), attributes and CHS fields; `sd_spi_is_locked()` and changing
a card's password, pins and clock; chunked request bodies, global contexts of a server, handlers that answer twice;
WebSocket lengths from 2^31. As a whole: the content of the code pages (15,000 lines of data); configuration files and
the web page (data); logging. External, modelled from how the code uses them: FreeRTOS, lwIP, the Wi-Fi driver, the
event loop, `http_parser`, the wear levelling layer, the SD card itself.
