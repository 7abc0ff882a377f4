# A TLA+ verification of elaphureLink

elaphureLink lets the Keil µVision debugger use a CMSIS-DAP probe over TCP.
Three pieces run on the developer's machine:

    µVision + AGDI driver + RDDI library        (process 1: the debugger)
            |  shared memory: ready flag, request page, response page
            |  two auto-reset events: producer (request), consumer (response)
    proxy DLL inside the WPF application        (process 2: the proxy)
            |  TCP
    the host on the network, which talks DAP to the target

This directory models the part where these pieces meet, and three places
inside the debugger's process that keep state of their own to get wrong: how a
call of the RDDI library becomes commands and comes back, how the AGDI driver's
monitor thread is suspended, and how the driver reads and writes the target's
memory through registers it remembers. TLC checks small instances; TLAPS
proves the safety properties for all instances.
Paths below are relative to `src/`.


## 1. The system

### Components

| component | code | state | operations | model |
|---|---|---|---|---|
| Proxy manager | `elaphureLinkProxy/proxy.cpp` | `client_`, `saved_reconnect_config_`, callbacks | `el_proxy_start_with_address`, `el_proxy_stop`, enable and disable auto-reconnect, callback setters | `Proxy` |
| Socket client | `elaphureLinkProxy/SocketClient.hpp` | `is_running_`, `is_running_post_done_`, configuration, attempt counter, `is_reconnecting_`, socket, timer, `io_context`, main thread | `start`, `kill`, `close`, `close_socket_only`, `do_connect`, `schedule_reconnect`, `attempt_reconnect`, `on_connection_lost`, `notify_connection_status` | `Proxy` |
| Protocol and data phase | `elaphureLinkProxy/protocol.cpp` | the pages, the wire | handshake, device information, request/response loop, parsing of responses | `Proxy`, `ElaphureLink`; the parsing in `RddiDap` |
| Shared memory and events | `common/ipc_common.hpp` | info, producer and consumer pages, two events | `produce_and_wait_consumer_response` | `Proxy`, `ElaphureLink` |
| RDDI session and register access | `elaphureLinkRDDI/rddi_dap.cpp`, `ElaphureLinkRDDIContext.*` | `rddi_handle_` | `RDDI_Open`, `RDDI_Close`, `DAP_*`, `CMSIS_DAP_*` | `ElaphureLink`, `RddiDap` |
| JTAG probing | `elaphureLinkRDDI/dap_jtag.cpp`, `data/` | list of IDCODEs | count devices, read IDCODEs and IR lengths | `RddiDap` |
| Reconnect delay | `SocketClient.hpp`, `calculate_reconnect_delay` | none | a pure function of the counter | no |
| WPF session | `elaphureLink.Wpf/Core/Core.cs`, `ViewModel/HomePageViewModel.cs` | toggle, `isProxyRunning` | start, stop, disconnect callback | no |
| Driver installation | `elaphureLink.Wpf/Core/Driver` | TOOLS.INI, DLLs | read, edit, write back, copy | no |
| AGDI device state monitor | `elaphureLinkAGDI/DbgCM/DSMonitor.cpp` | monitor thread, suspend count, events, last DHCSR | start, stop, suspend, resume, hand over a DHCSR value, wait for state | `DSMonitor`, without the matching of states |
| AGDI link layer | `elaphureLinkAGDI/DbgCM/DbgCM.cpp`, `SWD.cpp`, `JTAG.cpp` | handle, interface number, mutex, `AP_Sel`, `AP_Bank`, `AP_Context` | `RddiOpenInstance`, `RddiCloseInstance`, reads and writes of DP, AP and memory | the two calls in `ElaphureLink`, the mutex in `DSMonitor`, the SWD sequences in `SwdAccess` |
| AGDI debug access levels | `elaphureLinkAGDI/DbgCM/DebugAccess.cpp` | the current level | detect, recover | the recovery's accesses in `SwdAccess`, its place in the monitor in `DSMonitor` |
| AGDI debug driver | the rest of `elaphureLinkAGDI` | breakpoints, flash, trace, GUI | - | no (vendor template) |
| asio | `thirdparty` | - | - | as the socket client uses it |

### How they interact

* The **application** calls the exported functions from its own threads. They
  are documented as thread unsafe, except that `el_proxy_stop` "can be used at
  any time". It hears back through status callbacks, made on the main thread.
* The **main thread** of the client runs `io_context.run()`. A handler that
  connects does not return: it does the handshake, reads the device information
  and stays in the data phase until the connection is lost or it is told to stop.
* The two threads share plain booleans, the `io_context`, the socket and the
  shared memory. `kill()` runs on the caller's thread and pulls these away from
  under the main thread; `~SocketClient` then joins it.
* The **debugger** tests the ready flag, writes a request, signals the producer
  event and waits for the consumer event without a timeout. The proxy withdraws
  the page (`ready := false`, response invalid, both events signalled) at any
  point in between.

* Inside the debugger's process, a **monitor thread** polls the target through the
  same library. The other threads suspend it around their own work with a
  reference count, two events and a flag; every access of either side takes one
  recursive mutex.

### What is hard

* The announcement of a session (`notify_connection_status`) and a stop write the
  same flags in an order nothing fixes. A stop can be half undone.
* A reconnection has stale things around it: a posted close of the old socket,
  a timer that has already expired, two events signalled for nobody.
* `RDDI_Open` resets both events without knowing why they were signalled.
* Requests have no numbers: an event too many puts every later answer one late.
* A list of register accesses is cut at every match retry, first, last and repeated
  ones, and the answers must come back into the places they were asked for. A
  response is walked with a pointer that some commands do not advance.
* The driver writes SELECT and CSW only when its copy says that it must. The copies are
  changed before the write, after it or not at all, by some twenty functions, and the
  target refuses everything while a sticky flag is set.
* The suspension tests the count, then the flag, then changes the count. It nests,
  it is used by the monitor itself, it may time out, and one of its branches waits
  without a timeout while the caller holds the mutex of the link.

### What makes each component correct

* **Client**: the page is ready only while something will clear it again; after a
  stop it is not ready; the data phase is entered only fully announced; a caller
  of `start` is not left behind; the thread ends only after the application was
  told; a lost connection is settled one way or another; attempts are bounded.
* **Link**: the answer read is the answer to the request made; the request page is
  not rewritten while it is sent; a request comes back in every case.
* **Library**: the transfers of a call are made once each and in order, a success
  means that all of them were made, every value read is where it was asked for, an
  error means that there was one, the chain is counted and identified as it is.
* **Memory access**: no byte is touched but those asked for, a success means all of
  them, an error that was reported leaves nothing behind that makes the next call fail,
  and a copy that saves a write is right.
* **Monitor**: the count is the number of suspensions in force, a monitor seen
  suspended stays off the target, a resume never leaves it asleep, a kill ends it.

The hazards are listed line by line in `PROJECT.json`, each with the properties
that cover it or the reason none does yet.


## 2. The modules

| module | what it is |
|---|---|
| `ProxyLifecycle` | abstract: what the proxy promises its observers, in five phases |
| `Proxy` | `ProxyManager` and `SocketClient`: application thread, main thread, network, timer, and a debugger that may do anything to the events |
| `ElaphureLink` | `Proxy` with one debugger that runs the RDDI library, and the two pages |
| `RegSequence` | abstract: what a register access promises its caller |
| `RddiDap` | one call of the library on its whole way: batching, probe, parser, result; with the detection of SWD and JTAG devices |
| `DSMonitor` | the monitor thread, the threads that suspend it, and the link's mutex |
| `SwdAccess` | a call of the SWD memory functions, register by register, with the driver's copies and the target's registers |
| `MCProxy`, `MCElaphureLink`, `MCRddiDap`, `MCDSMonitor`, `MCSwdAccess` | instances for TLC |
| `Proxy_proofs` | theorems about `Proxy` |
| `ElaphureLink_proofs` | theorems about `ElaphureLink`, from those about `Proxy` |
| `RddiDap_proofs` | theorems about the control of `RddiDap`, that it implements `RegSequence`, and how many steps a call takes |
| `RddiData_proofs` | theorems about the data of `RddiDap`: values read, errors, counted devices |
| `DSMonitor_proofs` | theorems about `DSMonitor` |
| `SwdAccess_proofs` | theorems about `SwdAccess`: what a call transfers |
| `SwdSession_proofs` | theorems about `SwdAccess`: the state a call leaves, and how many steps it takes |

`ElaphureLink` and `RddiDap` split the library between them: the first has the
events, the pages and everything that can happen to a single exchange, and takes
a response as right or wrong; the second takes the exchange as it should be
and has what is sent and what is made of the response.

### Proxy

A step is the code between two points where another thread can make a difference:
a blocking call, or a write of a flag the other thread tests. Three program
counters give the position: `io` (main thread), `starter` (the caller waiting in
`start()`) and `stopper` (a caller in `stop()`, which `start` calls first).

| variables | code |
|---|---|
| `client`, `saved` | `ProxyManager::client_ != nullptr`, `saved_reconnect_config_` |
| `running`, `postDone`, `config`, `count`, `reconnecting` | the members of `SocketClient` of the same meaning |
| `told` | the last status callback; `outcome` is the status about to be reported |
| `pending` | the one asynchronous operation: a connection being made, its handler queued (`connected`, `refused`), the timer (`armed`, `tick`) |
| `closePosted`, `stopped`, `sockOpen` | the posted `close()`, `io_context::stopped()`, `socket_.is_open()` and connected |
| `ready`, `producer`, `consumer` | `is_proxy_ready` and the events |

Points worth knowing when reading it:

* `StopFlags` .. `StopJoin` are `kill()` and the destructor, in order. A timer that
  has already expired cannot be cancelled, so `tick` survives `StopFlags`. A
  connection under way completes with an error when its socket is closed.
* `StartBlocks` and `StartSleeps` are separate: `notify_connection_status` does not
  take the mutex, so it may notify between the test of the predicate and the sleep.
* A posted close is dispatched before an operation started after it
  (`DispatchesOperation`); asio's queue is first in, first out.
* `Restart` is the part of `attempt_reconnect` behind its guards. It is a step of
  its own since `kill()` may run in between.
* `HandleConnectedThrows`: `set_option` throws on a socket that `kill()` has closed.
* The bytes of handshake, device information, request and response are abstracted
  to success or failure. A response that does not parse is a failed receive.
* `TakeRequest` reads `is_running_` in the step that consumes the event. The two
  are adjacent in the code; `kill()` clears the flag before it signals.

### ElaphureLink

`ElaphureLink` extends `Proxy`. Each of its steps is a step of `Proxy` (or leaves
`Proxy` alone) with its effect on the pages. `handle` is
`rddi_handle_`, `attached` is the success `RddiOpenInstance` saw (it takes
`RDDI_TOOMANYCONNECTIONS` for one), and `dbg` follows one call through
`produce_and_wait_consumer_response`. A request is a number of `1..Requests`; the
host answers with that number or with a fault. A function that transfers a block in
pieces goes from `Read` to `Fill` again without testing the ready flag.

Two history variables state the properties. `calm` holds from the start, or from an
`RDDI_Open` that finds the proxy waiting and no answer on its way, until the page is
withdrawn. `withdrawn` says whether the page was withdrawn since the current call
found it ready.

### ProxyLifecycle

Five phases: *off*, *trying*, *serving*, *over*, *stopping*. The page becomes ready
only from *trying*, and not once a final failure was reported; a reported failure is
final until the next start; a loss withdraws the page; a stop overlaps anything
but ends with the page withdrawn. `Proxy` maps its state to `Phase` and implements
it (`ImplementsLifecycle`).

### RddiDap

The four parts take turns: `build` (the library adds transfers or sends), `probe`,
`parse` (the proxy, one command of the response per step) and `check` (the library
reads the consumer page). A transfer is known by its position in the call, and the
value read by transfer *p* is *p*, so a value in the wrong place shows.

| variables | code |
|---|---|
| `call`, `pos` | `regIDArray` with the function it was given to, and `i` |
| `setup`, `batch`, `reads` | the two forms of `dap_transfer_array`, and `read_reg_index_array` |
| `out`, `result` | `dataArray`, and what the function returns |
| `phase`, `devices`, `idcodes`, `port` | the step of a JTAG detection, `*noOfDAPs`, the context's list, `debug_port_` |
| `page`, `resp`, `status`, `data` | the producer page, the rest of the response under `p`, `command_response` and the data of the consumer page |
| `executed`, `failed`, `tdo`, `known`, `aligned` | history: what the target did, whether the probe reported an error, what was captured, and whether `p` is at a command |

* The **probe** is external. It executes the commands in order, stops a list of
  transfers at the first error and reports how many it made and that status; an
  error may also be noticed after the last. Commands of the lead of a request may
  report an error and are executed all the same.
* `SendBatch` is the four cases of `DAP_RegAccessBlock` that send: a configuration
  alone, a batch alone, or both, at a match retry or at the end. The pattern of a
  match retry counts as one transfer, since it has a place in the list.
* `Stored` copies from the consumer page whatever is there. `LengthChecked` says for
  which calls the length was compared before.
* `Left` and `ZeroMask` are the loop of `get_jtag_scan_chain_devices_num` with its
  partial word first.

### DSMonitor

The program counter of the monitor, `mon`, has the places where another thread can
make a difference; `stage` says what its next access is for. `at` and `stack` are
the program counter and the nesting of calls of each user; `Users` who are `Readers`
also read DHCSR (`SWD_ReadD32`, and the same code for JTAG) and run sessions.

| variables | code |
|---|---|
| `suspendCount`, `inSuspension`, `wakeup`, `suspended`, `extDHCSR`, `kill` | the members of `DSMonitorThread` of the same name |
| `handle` | `DSMonitorThread.h # NULL` |
| `playDead` | `PlayDead` when the link has failed |
| `loadedKill`, `loadedExt` | the other side's bit in the byte a thread is about to store |
| `lock` | the owner of `kSWDOpMutex` or `kJTAGOpMutex` |
| `sure`, `timedOut` | history: a user saw the monitor suspended; a suspension was given up |

* `extDHCSR` and `kill` are bit-fields of one byte. A store of either is a load and a
  store of the byte (`MonLoadsByte`/`MonStoresByte`, `StopLoadsByte`/`StopStoresByte`),
  which is what a compiler makes of it; `suspendCount` is a `std::atomic`.
* `PollSuspended`, `CheckSuspended` and `CheckAgain` are one turn of the 50 waits; how
  many turns there are is left open, so giving up is possible after any.
* An iteration of the monitor reads, detects, recovers, notifies or updates; which of
  them happen is a free choice (`MonProceeds`, `MonUncovers`) since it depends on the
  target, while the three tests before each part (`MonGate...`) are kept.

### SwdAccess

Every call holds the mutex of the link from its first transfer to its last, so the module
is sequential; what makes it hard is the state that one call leaves to the next.

| variables | code |
|---|---|
| `apSel`, `apBank`, `lastBank` | `AP_Sel`, `AP_Bank`, `k_last_ap_bank` |
| `ctx` | `AP_Context`: whether the port was analysed, and `CSW_Val_Base` |
| `sel`, `csw`, `tar`, `flags`, `mode` | the target (external): DP SELECT, CSW and TAR of each port, the sticky flags, the transfer mode |
| `pc`, `adr`, `many`, `how`, `n`, `res` | the call: where it is, `*nAdr` and `nMany`, whether the piece is one access, a block or the word by word accesses after a block, what is left of the piece, the status |
| `req`, `touched`, `lost` | history: the call and the state it started in, the bytes it transferred, the answers lost |

* A step is one transfer with the SELECT it may need first. Each may be answered, be refused
  because something is sticky, or get no answer, and then it may have happened or not.
* `NextPiece` is the loop of `SWD_ReadARMMem`, `SWD_WriteARMMem` and `SWD_VerifyARMMem`: at most
  two single accesses to align the address, blocks that end with the page, at most two single
  accesses for the rest. `Fail` has the change to word by word accesses after a memory error.
* The **target** does what the driver relies on: a sticky flag makes it refuse everything
  but a read of CTRL/STAT and a write of ABORT; a write may be refused after it was
  acknowledged; in the mode of a pushed verify a write is compared instead.
* The values of the bytes are left out. `touched` is which bytes of which port a call reached, or
  `Window` where memory was meant and banked registers were selected.
* `Sound` is the state in which nothing is sticky and the copies are right. The properties
  of single calls are about those that start there.
* `DebugRegisters` stands for the functions that use the window of bank 1, each of two blocks: the
  first opens the window, the second, `MoveRegisters`, moves the registers through it, and fails
  when a register is never ready (`SWD.cpp:1902`). Then bank 1 stays selected.
* `Recover`, `CheckCsw` and `RestoreCsw` are the part of the recovery that writes SELECT, reads CSW, which
  may show that the debug access is disabled (`EU13`, `DebugAccess.cpp:575`), and writes it.


## 3. What is checked

### Runs that pass

| run | properties | what it shows |
|---|---|---|
| `proxy_safety` | `TypeOK`, `ReadyHasAThread`, `QuietWhenStopped`, `SessionAnnounced`, `StartNotStranded`, `Inductive`, `ImplementsLifecycle` | the client is safe with stops during a start, reconfiguration at any time and a debugger that signals whatever it likes; about 190 000 states |
| `proxy_reconnect` | `EndedIsReported`, `CountWithinLimit`, `Recovers` | with the configuration left alone auto-reconnect neither stalls nor ends silently; about 30 000 states |
| `link_safety` | `LinkTypeOK`, `ReplyMatches`, `PageIsOwned`, `InStep`, `ImplementsProxy`, `RequestReturns` | in step, answers match requests and a request made comes back, through losses and stops; the composition only does what `Proxy` allows; about 850 000 states |
| `rddi` | `RddiTypeOK`, `InOrder`, `ReadsInPlace`, `NoFalseError`, `ParserAligned`, `ChainCounted`, `IdListWhole`, `RddiInductive`, `ImplementsRegSequence`, `CallReturns` | however a call is cut and wherever the probe stops, the transfers are made in order, the values are in place, success means all of them, an error means there was one, and the call ends; about 180 000 states |
| `monitor` | `CountBalanced`, `SuspendedIsQuiet`, `NoLostWakeUp`, `MonitorInductive`, `KillEnds` | two threads that suspend the monitor at the same time, nested, with reads that hold the mutex and suspensions that time out; about 870 000 states |
| `swd` | `OnlyRequestedBytes`, `SuccessIsComplete`, `ReportedErrorsHeal`, `GoodCallSucceeds`, `BankAgrees`, `WindowOnDebugRegisters`, `RecoveryAgrees`, `SwdInductive`, `CallEnds` | reads, writes and verifies of unaligned ranges in any order with register functions, recoveries and changes of the port, with words that are refused or differ and one lost answer: the pieces cover the range and nothing else, errors that are reported leave nothing behind, the copy of the bank is right where it is relied on, and every call ends; about 1 700 000 states |

`MonitorInductive` and `SwdInductive` begin with the type invariants of their modules.

### Runs that find a disagreement with the documentation

| run | property | what happens |
|---|---|---|
| `proxy_stop` | `NoConnectAfterStop` | a stop overlaps the announcement of a session, which sets `is_running_` again; the session is lost and an expired timer restarts the stopped `io_context`: the proxy connects while the stop is joining it |
| `proxy_attempts` | `AnnouncedAttemptIsMade` | the limit is tested before an attempt is counted and again after: with `max_attempts` = N the N-th announced attempt is not made |
| `proxy_disable` | `DisabledMeansDisabled` | a disabled configuration is saved, but only an enabled one is applied to a new client, whose default is enabled |
| `link_wakeup` | `NoFalseWakeUp` | a withdrawal leaves the consumer event signalled; the first request after the reconnection is woken at once |
| `link_stop` | `StopReturns` | `RDDI_Open` resets the producer event that `kill()` has just set; the main thread waits for ever and the stop joins it |
| `monitor_suspend` | `SuspendReturns` | a read of DHCSR takes the link's mutex, finds the count above zero because the monitor has suspended itself for a recovery, and waits for it without a timeout; the monitor needs the mutex before it can come to its suspension |

`PROJECT.json` quotes the sentence of the documentation each of these contradicts.

### Bounds

* `Limits` - the finite values of `max_attempts`. `{2}` has an attempt that is made,
  one that is announced and given up, and a refusal; the unlimited value -1
  is always there. The link runs use `{}`: the debugger cannot see the counter.
* `CountCap` - where the counter saturates. Only comparisons with a limit read it, so
  any value not below the largest limit is enough. (At the cap the code would go on
  counting; the delay computed from it is not part of this module.)
* `Requests` - 2 tells a late answer from the right one, which is all the properties
  ask. `link_stop` needs only 1.
* `CountRange` = 3, `MaxTransmit` = 2 - the values of the count byte and the words of one
  chunk. Lists of up to five registers then have batches that fit, that fill the byte and that
  are longer, and chunks that are full, partial and empty.
* `WordBits` = 2, `TdoWords` = 3 - six captured bits in all patterns: chains that fill no
  word, one, several, part of one, and noise.
* `MCRequests` - every list of up to two registers, and longer ones with the retries
  first, last, repeated and around batches that do and do not fit.
* `Users` - two in `monitor`, one of whom reads DHCSR and runs sessions: with two,
  suspensions overlap in every way, and each nests up to three deep. The suspension is
  symmetric in the users; the proofs are for any number. One user is enough for the deadlock
  of `monitor_suspend`. `Recovery` = TRUE has the larger iteration of the two.
* `PageSize` = 8 - two words, so that ranges of up to 16 bytes have blocks that end before the
  page does, with it, and go on behind it. The code's page is 1 KB or more, a multiple of 4 like this one.
* `MCRequests` of `MCSwdAccess` - an odd start, ends of no, one and two bytes behind the last
  word; words that *may* be refused in a single access, in a block of one word and at the end of a
  longer one; a word that differs, and one just behind the range.
* `AP` - two: the debugged CPU's and one not analysed yet.
* `MaxLost` = 1 - one lost answer leaves driver and target apart in each of the possible ways,
  and what follows starts from there.
* `Reconfigure`, `StopDuringStart` - which calls of the application are allowed.
  `proxy_safety` allows all of them. `proxy_reconnect` does not: a configuration
  lowered while the counter is above it makes `CountWithinLimit` meaningless, and a
  timer that finds auto-reconnect disabled returns without a report (a hazard).

### Fairness

* The operating system runs a thread that can run: weak fairness of the main
  thread, of `stop()`, of the caller of `start()` and of the debugger inside a call.
* A connection attempt ends and a timer fires: weak fairness.
* A blocking read or write on a socket that was closed under it fails: weak
  fairness (`ClosedUnderRead`). On an open socket nothing forces a read to end:
  the code sets no timeout.
* `HostFairness`, used by `Recovers` only: a host that is tried for ever is reached
  and answers in the end. Without it an unlimited client retries for ever, which is
  what it is for.
* In the link runs, the host answers a request it has received (`Send`, `Receive`).
  `RequestReturns` depends on it: with a silent host the debugger waits until the
  connection breaks.
* `RddiFairSpec`, for `CallReturns`: the probe answers and both processes run. What
  happens when they do not is the subject of `ElaphureLink`.
* `MonitorFairSpec`, for `KillEnds` and `SuspendReturns`: the monitor thread and a thread
  inside a call run when they can. Nobody has to resume, and a poll that times out may
  always time out. `KillEnds` is still true then, since `MonGateExits` comes before
  the next suspension, and `StopMonitor` wakes a monitor that sleeps.
* `SwdFairSpec`, for `CallEnds`: each transfer is answered or given up (`RequestReturns` is what
  `ElaphureLink` says of that). Nothing is assumed of the answers.
* Nothing is assumed of the application or of the driver's users: they need never
  call, nor stop calling.

### What the runs do not claim

* `NoFalseError` leaves out the reset, whose response sets no status, so that it is
  always reported as failed, and the detection of SWD devices, which also fails when two ID
  codes differ. A batch longer than its byte counts is an error too.
* `ChainCounted` covers chains of up to one word of devices.
* `SuspendedIsQuiet` covers suspensions that saw `inSuspension`, the promise of the first branch of
  `DSM_SuspendMonitor`. The branch that takes the event alone may take a stale one.
* `NoLostWakeUp` leaves out sessions in which a suspension timed out: that path does not
  wake the monitor.
* `BankAgrees` and `WindowOnDebugRegisters` hold until an answer is lost: the copy is then behind
  the target. `RecoveryAgrees` is about what mends it.
* `WindowOnDebugRegisters` ends when another port has been used. SELECT is written when the bank
  differs from the copy, not when the port does (`SWD.cpp:557`): after a change of `AP_Sel` with bank 0
  selected an access goes to the port of the access before. So `OnlyRequestedBytes`, `SuccessIsComplete` and
  `GoodCallSucceeds` are about calls that start in a `Sound` state. The analysis of a port is
  not one: it leaves CSW at 16 bits, and its copy without a size.
* `GoodCallSucceeds` is about reads, writes and verifies. A register function also fails when a register is
  never ready, and a recovery when the debug access is disabled: the target decides that in
  any session.
* `ReportedErrorsHeal` leaves out two ways a call ends. A word refused in a block comes back as an
  error like any other (`rddi_dap.cpp:555`, `:605`): no word by word access follows, unless it was the last
  word of a write, and the sticky flag stays. A verify that finds a difference sets a
  sticky flag, with which the target refuses the write that restores the transfer mode
  (`SWD.cpp:1398`): it ends with an error, in the mode of a verify.
* `KillEnds` ends with the kill undone by the other store into its byte.


## 4. What is proved

`Proxy_proofs` proves, for every `Limits`, every `CountCap` and both values of the
two switches (from `ProxyAssumption` only):

| theorem | statement |
|---|---|
| `TypeCorrect` | `Spec => []TypeOK` |
| `InductiveCorrect` | `Spec => []Inductive` |
| `ReadyHasAThreadCorrect` | `Spec => []ReadyHasAThread` |
| `QuietWhenStoppedCorrect` | `Spec => []QuietWhenStopped` |
| `SessionAnnouncedCorrect` | `Spec => []SessionAnnounced` |
| `StartNotStrandedCorrect` | `Spec => []StartNotStranded` |
| `LifecycleImplemented` | `Spec => ImplementsLifecycle` |
| `CountWithinLimitCorrect` | `Spec => []CountWithinLimit`, if `~Reconfigure` |
| `EndedIsReportedCorrect` | `Spec => []EndedIsReported`, if `~Reconfigure` |

**The invariant.** None of the four safety properties is inductive alone. `Inductive`
adds what each needs:

* `StopDiscipline` - what exists at each place of `stop()`; so that the last step of
  a stop finds a client to destroy and nobody else creates one.
* `KillClearsThePage` - a ready page with `is_running_` false in the data phase means
  `kill()` has the page write still ahead of it. This is why the return of the data
  phase that withdraws nothing is safe.
* `Announcing` - how far each write of `notify_connection_status` has come; it carries
  `SessionAnnounced` into the data phase.
* `OneOperation` - without a stop under way, one asynchronous operation at a time,
  on a socket that no posted close can hit.
* `FailureIsFinal` - after the disconnect callback there is only the withdrawal
  of the page left to do. The lifecycle's `Finish` needs it.
* `WorkLeft` - while a caller waits in `start()` without a result, `run()` has work.
  `StartNotStranded` follows: `run()` returns only without work.

There is one lemma per conjunct, each with one step per action that can disturb it;
the lemmas are combined once, and each theorem follows with temporal logic. The
refinement has one lemma per action, which names the step of `ProxyLifecycle` it is.
TLC checks `Inductive` as an invariant in `proxy_safety`.

The last two theorems assume that nobody changes the configuration while a client runs
("Bounds" in section 3 says why). `Counting` adds to `CountWithinLimit` that a
retry is scheduled only below the limit, so that the increment stays within it. `Reporting` adds
that `is_running_` and the last status callback agree, that a timer is only set with
auto-reconnect enabled, and that `run()` has nothing left to do only after the disconnect
callback: these carry the promise through the timer, whose handler is the one place that returns
without a report when it finds auto-reconnect disabled.

`ElaphureLink_proofs` proves, for every `Requests` as well (`LinkAssumption`):

| theorem | statement |
|---|---|
| `ProxyImplemented` | `LinkSpec => ImplementsProxy` |
| `LinkInductiveCorrect` | `LinkSpec => []Inductive` |
| `LinkTypeCorrect` | `LinkSpec => []LinkTypeOK` |
| `InStepCorrect` | `LinkSpec => []InStep` |
| `ReplyMatchesCorrect` | `LinkSpec => []ReplyMatches` |
| `PageIsOwnedCorrect` | `LinkSpec => []PageIsOwned` |

**The argument.** Every step of the link is a step of `Proxy` or leaves it alone, so the
first theorem carries all of `Proxy_proofs` over. For the pages, `InStep` says what the
two events, the request page, the wire and the response have in common while the two
sides are in step: at most one event is signalled, and only for a debugger that
waits. It rests on both events being auto-reset and on every withdrawal
ending the step (`calm`). `RDDI_Open` may begin it again only when it finds the proxy
waiting and no answer on its way; `NoFalseWakeUp` shows what happens otherwise.
`ReplyMatches` and `PageIsOwned` are read off it.

`RddiDap_proofs` proves, for every set of calls and every `CountRange`, `MaxTransmit`,
`WordBits` and `TdoWords` (from `RddiAssumption`):

| theorem | statement |
|---|---|
| `RddiInductiveCorrect` | `RddiSpec => []RddiInductive` |
| `InOrderCorrect` | `RddiSpec => []InOrder` |
| `RegSequenceImplemented` | `RddiSpec => ImplementsRegSequence` |
| `ParserAlignedCorrect` | `RddiSpec => []ParserAligned` |
| `IdListWholeCorrect` | `RddiSpec => []IdListWhole` |
| `CallIsBounded` | `RddiSpec => [][CallShrinks]_rddiVars` |

**The argument.** `Follow(s, n)` says that a list is the positions behind *n*. While
the library builds, what is made, the configured retry and the batch add up to `pos`
(`Built`); the same holds of the page (`Sent`). A probe that stops early leaves a
response that is short, and `Answers` says that its last command will then be
refused: by its count, or by the status of a WriteABORT. So an accepted response
(`Accepted`) is never short, a next batch starts where the target is, and a success comes only when
`pos` has passed the end with nothing missing. It holds although a later status overwrites
an earlier one, because only the last command of a request makes transfers. For the same reason
the parser, which does not step over data, stays aligned: every command before the last one of a
response is one it does step over (`ParserInv`). The list of ID codes is empty from the count of
the devices to the end of a detection (`ListInv`).

`CallIsBounded` is the safety part of `CallReturns`, for calls of any length: a number
(`Variant`) falls with every step of the library, the probe and the parser, and a call of *n*
transfers begins with at most 16(*n* + 3) + 15. It counts the transfers and phases ahead, and for
the request under way what is left of at most eleven commands (`LengthInv`). So no loop goes round
without using something up, whatever the probe answers; what `CallReturns` adds is that the steps are taken.

`RddiData_proofs` proves, from the same assumptions and `RddiInductive`:

| theorem | statement |
|---|---|
| `RddiTypeCorrect` | `RddiSpec => []RddiTypeOK` |
| `ReadsInPlaceCorrect` | `RddiSpec => []ReadsInPlace` |
| `NoFalseErrorCorrect` | `RddiSpec => []NoFalseError` |
| `ChainCountedCorrect` | `RddiSpec => []ChainCounted` |

**The argument.** `ReadsOf` (the reads among the transfers of a request) and `Left` (how many
devices are left for each captured word) are recursive functions. That such a function is what its
definition says, and what it then computes, is proved by induction: a set of naturals has
a least element (`Least`, from the well-foundedness of the order), so a set that holds the first
number and the next one of each holds them all (`SetInduction`), and a recursive definition over an
interval has a solution (`Recursion`). The rest are three invariants. `PageInv` ties the page of the proxy to the
arrays of the library: the reads of the request are in `read_reg_index_array`, its transfers
end at `pos`. `AnswerInv` says what the last command of a response tells: values are taken only when
they are all there, and a status is good unless the probe, or the count byte, has `failed`.
`OutInv` says that the array of the caller is filled as far as the requests that were accepted.
For the chain, `DevicesNumSmall` shows that the algorithm with its remainders finds
*n* devices, up to a word of them, exactly when the captured bits are *n* low ones of the first word; `ChainInv`
keeps the result to the end of the detection. `RddiAssumption` says that the functions for reads
are called for reads and the ones for writes for writes, as their signatures do.

`DSMonitor_proofs` proves, for every finite set of users (`DSMonitorAssumption`):

| theorem | statement |
|---|---|
| `MonitorInductiveCorrect` | `MonitorSpec => []MonitorInductive` |
| `MonitorTypeCorrect` | `MonitorSpec => []MonitorTypeOK` |
| `CountBalancedCorrect` | `MonitorSpec => []CountBalanced` |
| `SuspendedIsQuietCorrect` | `MonitorSpec => []SuspendedIsQuiet` |
| `NoLostWakeUpCorrect` | `MonitorSpec => []NoLostWakeUp` |

**The argument.** The count is the size of the set `Holds` of pairs of a user and a level it
suspends at, and one more while the monitor covers itself. A step of a user adds or
removes one pair of its own (`HoldsUp`, `HoldsDown`, `HoldsStay`), so the count can be
followed without saying how many users there are. A user that is `sure` is counted
(`SureIsCounted`), so the gate the monitor passes before each access is closed to it:
`SuspendedIsQuiet`. `WakeUpComes` is `NoLostWakeUp` extended to a monitor about to sleep. The
clamps of the code for a count of zero turn out never to be needed.

`SwdAccess_proofs` proves, for every set of ports, every page size that is a multiple of 4, all
ranges, refused and differing words and any number of lost answers (`SwdAssumption`):

| theorem | statement |
|---|---|
| `BankSafe` | `SwdSpec => []BankAgrees` |
| `Inductive` | `SwdSpec => []SwdInductive` |
| `TypeCorrect` | `SwdSpec => []SwdTypeOK` |
| `OnlyRequestedBytesHolds` | `SwdSpec => []OnlyRequestedBytes` |
| `SuccessIsCompleteHolds` | `SwdSpec => []SuccessIsComplete` |

**The argument.** `LoopInv` follows the pieces: aligned, within the call and, for a block, within
its page. `InStep` says that, in a call from a sound session, driver and target agree at each
transfer: the lost answers and the failures that would part them end the call. With it an
access reaches the aligned bytes it names (`CellsAligned`), and a block the bytes from its
address on (`TarCounts`, `BlockBytes`), since TAR counts up without wrapping inside a page
(`InPage`, from the division lemmas). `PassedIsDone` says what of the range is done, with the one
exception of a late error that the word by word accesses have still to find; a success
comes only after the test that finds it. `BankSafe` stands alone: it needs only that
`AP_Bank` follows each SELECT that was answered.

`SwdSession_proofs` proves, from the same assumptions and `SwdInductive`:

| theorem | statement |
|---|---|
| `ReportedErrorsHealHolds` | `SwdSpec => []ReportedErrorsHeal` |
| `RecoveryAgreesHolds` | `SwdSpec => []RecoveryAgrees` |
| `GoodCallSucceedsHolds` | `SwdSpec => []GoodCallSucceeds` |
| `WindowOnDebugRegistersHolds` | `SwdSpec => []WindowOnDebugRegisters` |
| `CallIsBounded` | `SwdSpec => [][CallShrinks]_swdVars` |

**The argument.** `ModeInv` says where the transfer mode may differ from normal in a call from a
sound session: while a block is compared, and after a compare that was refused at its last
element, until the first of the word by word accesses finds the sticky flag. That is why a verify is left out of what a
memory error heals. `RegistersInv` and `RestoreInv` carry that agreement over the steps of
the register functions and of the recovery. `SmoothInv` says that an undisturbed memory call never leaves the fast path: what it
transfers lies in its range, so nothing is refused (`SmoothData`, `SmoothBlock`). `WindowInv` says
that bank 1 is only ever selected with TAR on the debug registers: a system call that
writes TAR with bank 1 selected reaches no TAR, and finds it right. `CallIsBounded` is the
safety part of `CallEnds`, for all calls, ranges of any length and any number of refusals and lost answers: the
`Variant` of a call falls with each of its steps, from 64 for each byte of the range. A block weighs
more than the slow accesses that may follow it, and those pass a word before they look for
its error, so a block is repeated once and no more.

**Only model-checked**: liveness (`Recovers`, `RequestReturns`, `CallReturns`, `KillEnds`,
`CallEnds`), which the prover cannot do under fairness. Of `CallReturns` and `CallEnds` the
safety part is proved: how many steps a call has at most. Every invariant and every action
property of the passing runs is proved.


## 5. What is not modelled, and why

* **Split and merged responses.** The proxy takes one read for one response; so does
  `RddiDap`. Nothing in the code handles anything else.
* **A proxy process that dies**, leaving the mapping behind. No code handles it: the
  debugger waits.
* **Callbacks that call the proxy again.** The application's callbacks only post
  messages; a stop from inside one would join its own thread.
* **Two applications, or two debuggers.** The shared names are unique per machine;
  the driver serialises its accesses.
* **Destroyed waiters.** A caller of `start()` whose client is destroyed by a stop is
  marked `dangling` and not followed: what it does is undefined.
* **The matching of states and the settings of the monitor.** `DSM_WaitForState` and
  `DSM_ConfigureMonitor` wake the monitor and poll for an answer with a timeout. Their stores
  into the bit-fields are races like the one between `kill` and `extDHCSR`
  (a hazard); `inSuspension` itself shares a byte with `configSynced`.
* **The rest of the register sequences**: JTAG (`JTAG.cpp`), which has the same functions over
  other transfers; the connection and power-up of the port; blocks of 8 and 16 bits; security
  attributes; patches of a debug description.
* **The levels of debug access**: they come out of what the target's registers hold. The recovery of
  the port is in `SwdAccess`.
* **The WPF session and the driver installation.** The session shows a toggle while a start is in
  progress, and the installation edits a file in place; the repository does not say what either
  should do when something comes in between, so there is nothing to hold the code to.
* **The reconnect delay**: a pure function whose result only sets how long a timer waits; the
  timer of `Proxy` may take any time.
* **The AGDI template, asio, the user interface.** Most of the lines of the repository are
  here: the vendored network library, the debugger vendor's driver template
  (breakpoints, flash, trace, pack descriptions, dialogs) and WPF pages. They are
  not the program's own logic, and modelling them would say nothing about it.


## 6. Plan

Done, in this order: `Proxy` with `ProxyLifecycle`; `ElaphureLink`, which composes `Proxy` with
the RDDI library; `RddiDap` with `RegSequence`; `DSMonitor`; `SwdAccess`; the proofs of each.

Left, in order of importance:

1. The matching of states of `DSM_WaitForState`, on top of `DSMonitor`.
2. The sequences of `JTAG.cpp`, as a second implementation of what `SwdAccess` promises.

To repeat the checks: `tlc -config <run>.cfg <module>` for a run and `tlapm
<module>_proofs.tla` for the proofs. The runs `link_safety`, `monitor` and `swd` take one to three minutes
with two workers, the others less.
