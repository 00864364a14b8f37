# Verification of the Xinu kernel (src/xinu-x86)

TLA+ models of the kernel in `src/xinu-x86`, checked with TLC on small
instances, with theorems proved by TLAPS for every size of the tables.
`PROJECT.json` lists components, runs, mutants, the source lines each
definition stands for, hazards, findings and theorems. Paths below are
relative to `src/xinu-x86`.

## The system

Xinu is an embedded kernel for one processor. All code runs in one address
space. A system call disables interrupts, changes the tables, and restores the
mask. The processor changes hands in one place, `ctxsw()` inside `resched()`,
which `ready()` calls for a caller that expects nothing special. A call is
therefore *not* atomic: it is cut wherever it calls `ready()`, `resched()`,
`wait()`, `signal()`, `send()` or `receive()`, and what it read before may be
stale after. `resched_cntl(DEFER_START/STOP)` postpones the switch in a few
loops. The clock interrupt is the other source of interleaving.

### Inventory

| Component | State | Operations | Interacts with | What is hard, and what makes it right |
|---|---|---|---|---|
| Scheduler (`resched.c ready.c insert.c getitem.c ctxsw.S`) | `currpid`, `readylist`, keys, `preempt`, `Defer` | `ready`, `resched`, `resched_cntl` | everything | one process runs; the list is exactly the ready ones in key order; deferred switches are made up for |
| Process manager (`create.c resume.c suspend.c kill.c userret.c chprio.c yield.c xdone.c`) | `proctab`, `prcount`, stacks | create, resume, suspend, kill, chprio, yield, exit | scheduler, memory, messages, semaphores | `kill()` is cut in two by its message to the parent; keys copied from priorities go stale |
| Messages (`send.c receive.c recvclr.c recvtime.c`) | `prmsg`, `prhasmsg` | send, receive, recvclr, recvtime | process manager, clock | no message is slept on; the message races the timeout and the kill |
| Semaphores (`wait.c signal.c signaln.c semcreate.c semdelete.c semreset.c`) | `semtab` and its queues | the calls of those names | process manager | the count is the queue; order; loops that wake several processes |
| Clock and sleep (`clkhandler.c insertd.c unsleep.c wakeup.c sleep.c`) | `sleepq`, relative keys, time slice | sleep, unsleep, wakeup, tick | scheduler, messages, kill | keys are relative to the entry before; `wakeup()` switches in the middle of the handler |
| Reader-writer locks (`lock.c releaseall.c lcreate.c ldelete.c lab3functions.c`) | `locktab`, lock fields of `proctab` | lock, releaseall, lcreate, ldelete | scheduler, chprio, kill | undeferred switches in loops; inherited priorities; holders that record themselves late |
| Message ports (`pt*.c`) | `porttab`, node list | create, send, receive, reset, delete | semaphores, memory | a port deleted or recreated while a process waits in it |
| Memory, stacks (`getmem.c freemem.c getstk.c`) | free list | getmem, freemem, getstk | create, ports, pools | disjointness, joining of neighbours, rounding |
| Buffer pools (`mkbufpool.c getbuf.c freebuf.c`) | `buftab`, links in the buffers | make, get, free | semaphores, memory | semaphore and list agree although a waiter takes its buffer late |
| Marking (`mark.c`) | `marks`, `nmarks`, the locations themselves | mark, notmarked | semaphores | table and location confirm each other; the test before the mutex |
| Terminal (`device/tty`) | input, output, echo rings | interrupt handler, getc, putc, read, write, control | semaphores | rings shared with an interrupt handler in three modes; editing what was stored |
| Ethernet (`device/eth`) | descriptor rings, multicast list | read, write, control, interrupt | semaphores, DMA | the rings are shared with the device; full and empty look alike |
| Remote disk (`device/rds`) | request queue, cache, free list | read, write, sync, server process | UDP, semaphores, messages | a buffer is promised before it is free; requests for one block must keep their order |
| Remote files (`device/rfs`) | open files, sequence number | open, read, write, seek, truncate, close | UDP | an answer to an exchange that was given up |
| Local files, RAM disk (`device/lfs device/ram`) | disk, directory, one index and one data block per open file | open, getc, putc, seek, truncate, close | mutex | copies in memory against the disk; blocks neither lost nor shared |
| Name space (`device/nam`) | prefix table | open, mount | all devices | the order of prefixes; names whose length does not fit |
| SD card (`device/sdmc`) | registers, relative card address | open, read, interrupt | controller | error recovery within a command; a card pulled out between two commands |
| Network (`net/net.c arp.c udp.c icmp.c ip.c`) | ARP cache, slot tables, packet queues, buffer pool | register, send, receive with timeout, input, output process | messages, pools, Ethernet | slots reused while somebody waits; timeouts racing answers; no path forgets a buffer |
| TFTP (`net/tftp.c`) | position in the file, port of the peer | get | UDP | repeated, late and reordered datagrams |
| DHCP (`net/dhcp.c`) | message sent last, address data | getlocalip | UDP | answers to earlier messages, of other servers, to other machines |
| Shell (`shell/`) | line, tokens, child | lexan, parse, create, wait | processes, messages, devices | an old message taken for the end of a command; process ids used again |
| qsort, dates (`lib/qsort.c system/ascdate.c`) | the array; - | sort; date of a time | - | three moving bounds and an explicit order of recursion; leap years and summer time |
| Queue pointers (`queue.c newqueue.c`) | `queuetab` | insert, remove | all lists | doubly linked lists implement sequences |
| Rest of the C library, boot, PCI, configuration program, image tool | - | - | - | see "Not modelled" |

## Modules

    Queues           queues as sequences
    Sched            scheduler state k and its operations (no VARIABLES)
                                                   SchedProofs (lemmas)
      ProcMgr        processes and messages        ProcMgrProofs
      Semaphores     counting semaphores           SemaphoresProofs
        CountingSem  what semaphores promise (abstract)
      Timer          delta list, clock, recvtime   TimerProofs
      Locks          reader-writer locks           LocksProofs
    Ports            message ports, on semaphores of their own
    Memory           the heap
    Buffers          buffer pools
    Marks            marked locations              ResourceProofs (from Ports on)
    EthRings         the Ethernet driver and its DMA engine
    Tftp             file transfer at boot
    Dhcp             address of the machine        NetworkProofs (from EthRings on)
    Net              netin, ARP, UDP, ICMP, routing, ipout
    Tty              the terminal driver
    RemoteFiles      files of a server
    Sdmc             the SD card
    NameSpace        prefixes of names
    Lexan            the lines of the shell
    Shell            commands and jobs             DeviceProofs (from Tty on)
    RemoteDisk LocalFiles                          other devices
    Qsort Ascdate    algorithms of the library
    MCNetwork        Net EthRings Tftp Dhcp Memory Buffers Marks, side by side
    MCDevices        the devices, the shell and the library, side by side
    MC<module>       instances of the other modules for TLC

`Sched` writes the scheduler as functions on a record `k` (`Ready(k, p)`,
`Resched(k)`, `Block(k, s)`, `DeferStop(k)`...), because the code composes it by
calls: `send()` changes a message and *then* calls `ready()`. `ProcMgr`,
`Semaphores`, `Timer` and `Locks` EXTEND it and have `k` among their variables:
in those the hazards lie in who runs next. The modules of the second half do not
use `Sched`: any process that is not blocked may be the next to run, which allows
every order that some choice of priorities gives, and more.

Conventions common to the component modules:

- One action is what the code does from where a process gets the processor to
  where it can next lose it, or to its return. `cont[p]` says what process `p`
  goes on with when it next runs; `InUser` is its own code, from which it may
  make any call of `Workload`. Each turn of a loop that calls `ready()` is a step.
- A queue is a sequence of process ids; the linking of `queuetab` is abstracted.
- On `Sched`, only the process that runs acts (`Self`), the clock interrupt excepted, which
  comes when interrupts are enabled, i.e. in user code.
- Calls on a free slot, a bad id and the like return `SYSERR` and change
  nothing; where a failing call does change something (`create()`), it is modelled.
- A definition `Bug...` is a mutant of the next definition: a plausible slip in
  that code. No specification uses one; each is used to check that the property
  it belongs to can fail.

### How they correspond to the code

**Sched.** `InsertPos` is the walk of `insert()`, `MakeReady` `ready()` without
its `resched()`, `KeepsCPU`/`Dispatch`/`Switch` the three parts of `resched()`.
`readylist`, `qkey`, `prstate`, `prprio`, `preempt`, `ndefers`, `attempt` carry
the names of the code. `qkey` is separate from `prprio`, as in `queuetab`: the
key is a copy, and may be stale.

**ProcMgr.** All process and message calls. `kill()` is `Kill` (to the end of
its `send()`) and `KillEnds`; the process it switched to may do anything in
between, including killing the same victim. `receive()` is `Receive` and
`ReceiveReturns`. Stacks are numbers of a set; `create()` takes one before it
can fail. Calls of `kill()` overlap freely, and killers are killed; only with "overlap" in `Workload`
is a victim killed again in the middle of its own `kill()` (`MayKill`).

**Semaphores.** Every call; `signaln`, `semdelete` and `semreset` each a first
step and `...GoesOn` steps, with the deferral counted as the code does. `wait()`
that returns after a deletion or reset still returns OK, as in the code.

**CountingSem.** A semaphore has permits or a line of waiters; `V` gives to the
first in line. `Semaphores` implements it under
`permits <- max(scount, 0)`, `waiting <- squeue` (`ImplementsCountingSem`).

**Timer.** `Insertd` and `Unsleep` with the relative keys as `int32` (width
2*MSB), `clkhandler()` as `ClockTick`, `WakeupGoesOn` (a turn each) and
`ClockReturns`: the interrupted process counts its time slice only when it runs
again. `due` is a history variable, what a sleeper should still have to wait in ticks that reach
the list (`TickCounts`): the tick that a `recvtime(0)` at the front swallows is not one of them. That sleeps
get longer by those ticks is `timer_starves`, not `DelaysKept`.

**Locks.** `lock()` with its immediate grant and its wait, `LockReturns` what a
waiter does after `resched()`; `Releaseall`/`ReleaseOne`/`GrantMore` the nested
loops of `releaseall()`, `Ldelete`/`LdeleteGoesOn` those of `ldelete()`; `Inherit`
follows holders as `swapPriority()` does, up to a dead one (`Awaiting`), and sets `overflow` if that
never ends, in which case the system stops.

**Ports.** `Ptsend`/`Ptrecv` are the calls up to their return or their wait,
`...GoesOn` what follows the wait, behind the test `StillThere`. `ptreset()` and
`ptdelete()` are `ClearBegins` and then the parts of `_ptclear()` between which
other processes may run: `Disposes` (the caller's function, which may signal),
`ClearSenders`, `ClearReceivers`, `ClearEnds`. A message stands for the generation
its sender saw; the list from `pthead` to `pttail` is a sequence and the node list
a number. Its semaphores are records; `semcreate()` fails when `NSEM` are in use, and
`ptcreate()` stores the failure. `ptlost` is a history variable: permits of
processes killed between the signal and their next step.

**Memory.** Addresses and sizes in units of a `struct memblk`. The list is linked
in the order of addresses, so it is the set of its blocks. `getmem()` takes the
first block that is large enough, `getstk()` the last. `freemem()` makes the
overlap test with the neighbours of the list and joins on both sides. A request
rounds modulo `MemWord`, as in the code; `MemAssumption` excludes the requests of
`getmem.c:22` that round to 0, for which the theorem would be false.

**Buffers, Marks.** `getbuf()` in two steps when it waits. In `mark()`, which leaves
interrupts on, a step is what lies between two accesses to shared data. The
location's content before the call is arbitrary, as `mark.h` says; what lies
behind the table is one cell, and the model ends when it is written.

**Net.** A process is cut where it waits: `netin` for a buffer and a frame, `ipout`
for a packet, a resolver and a receiver for a message or their timeout; and where `send()` or `signal()`
may switch before the buffer in hand is freed (`NetFrees`). `Route` is `ip_send()` and `ipout()` from the choice
of the next hop on. A frame is what the demultiplexing tells apart. A message and the step of the process
it wakes are separate, which is where a timeout races an answer. Messages also come from elsewhere
(`Stray`), with OK or something else, and a client may be killed while it waits (`NetKilled`). Any message ends the
wait of a resolver; anything but OK makes a receiver return `SYSERR`, its endpoint still marked as waiting. The output
queue has its ring and its semaphore apart, because `ip_enqueue()` tests the semaphore. Three faults of the code
itself end a behaviour (`netlost`): a reply that overwrites one of a full output queue, an ICMP queue
filled beyond its size or read past its end, and an endpoint read where it has no packet.
`left`, `netgone` and `netlost` are history: entries and endpoints marked for a process that is gone, buffers that died with
their process. `netin` and `ipout` are not killed, and programs use the endpoints they registered; the calls do
not check that.

**EthRings.** `DmaSends` and `DmaReceives` are the device, which goes through the
rings on its own; `TxHandler`, `RxHandler` the interrupt handler. `ethfull` and
`ethdue` are history variables.

**Tftp, Dhcp.** The network is a set of datagrams that only grows: anything sent may
arrive any number of times, in any order, or never. A byte of a file is its own
position. `TftpAssumption` excludes files with so many blocks that their 16-bit numbers
repeat: there the client cannot tell a late block from the one it waits for. For DHCP answers to other machines, some with the same transaction number, are there from the start: the
number is four bytes of the hardware address (`dhcp.c:49`), and nothing else of an answer is compared.

**RemoteDisk.** The request queue and the cache are the doubly linked lists of the
code, with both sentinels, and the free list goes through the same `rd_next`. The
communication process is atomic between its waits (it has priority 200); a client
is cut before and after each search, wait and list operation, and in `rdswrite()` between finding a
request that waits and copying into it (`WriteCopies`): the request may have been sent in between.

**LocalFiles.** Directory, index blocks and data blocks on the RAM disk with their two
free lists, and per open file the index block, the data block and the dirty flags.
`lfsetup` is `StartIndex`, `FindIndex`, `LoadBlock`, after a flush. A section under the directory's `lf_mutex` is
a step. `lflputc()` stores its byte in another step (`LfPutByte`), and `lflclose()`, which holds only the mutex of its
file, writes the directory, marks it clean, writes the data block, and reads and writes the sector of
the index block in steps of their own. `lfclobber` is history: a close has overwritten what another file
changed in between (`lfflush.c:24`, `lfibput.c:41`); the behaviour ends there.

**RemoteFiles.** An operation holds the mutex to its end; requests and replies are two
FIFO channels that may lose, and keep what an abandoned exchange left. The server
executes a request each time it arrives.

**Tty.** `ttyhandle_in` for each character with the editing of the three modes,
`ttyhandle_out` for each transmit interrupt; readers and writers character by
character. `tykept`, `tyunsent` and `tyoverrun` are history variables.

**NameSpace.** `naminit()` mounts the prefixes of `NmPrefixes`, first those of the devices, one a step:
`nmleft` is what it has still to mount. Then `mount()` adds to the table, and
`nammap()` goes on until the name leads to a device other than the name space. What the order
of the prefixes rests on is assumed by name: `NmDevAssumption` of the names in `devtab`,
`NmDirAssumption` of the directories that `naminit()` writes out, `NmSizeAssumption` of the sizes.

**Lexan, Shell.** `lexan()` on every line, beside an automaton that reads it character by character; the shell's parse, its files, the child, and
`recvclr()`, `resume()`, `receive()` as separate steps, the refusal of `addargs()` included, with commands that end when
they like and `kill` as a command of the shell.

**Sdmc.** The calls in progress are a stack, because a command calls its own error
recovery, which sends a command. Controller and card, and pulling the card out, are
actions of the environment.

**Qsort, Ascdate.** `qs1()` as a step machine with the loop labels of the code and
its recursion as a stack, and the date of each day beside a civil calendar that
advances by one day.

## Runs

| Run | Question | Instance |
|---|---|---|
| `proc_all` | are lists, stacks and messages right, and does a process no key can pass get its turn? | 3 slots, 2 ticks, priorities 0..2, 3 stacks |
| `proc_prio_order` | *violated*: no ready process outranks the running one, after `chprio()` | 4 slots |
| `proc_kill_count` | *violated*: `prcount` counts the active processes, after overlapping kills | 4 slots |
| `sem_all` | counts, queues, free entries, deferral, the refinement, service | 4 slots, 2 semaphores, counts 0..1 |
| `timer_all` | the delta list, times kept, sleeps end | 4 slots, delays 0, 1, 3 and waits 0, 2, MSB = 4 |
| `timer_starves` | *violated*: a sleep ends whatever the others do | 3 slots |
| `locks_all` | waiters queued, locked means somebody will release, nobody is left below its own priority | 4 slots, 2 locks, lock priorities 0, 1 |
| `locks_writer` | *violated*: a writer is alone | 5 slots, 1 lock |
| `ports_all` | permits and messages agree, no message passes to another life of a port, nodes conserved, waiters of a dead port get out | 3 processes, 2 ports of size 2, 3 nodes, 3 semaphores; 3 generations of one port, 1 of the other |
| `rds_write_lost` | *violated*: what was written last is on the disk or on its way | 2 clients, 2 buffers, 2 blocks |
| `devices_all` | the ten modules of `MCDevices`, see below | see `DevicesAll.cfg` |
| `network_all` | the seven modules of `MCNetwork`, see below | see `NetworkAll.cfg` |

Why the bounds are enough to be of interest: with the null process, four slots
give three user processes, so that a third can act in the window between two
halves of another's call, and two can wait in one queue; one of them outranks
the others, so that waking it switches at once. Two semaphores let one be
deleted and handed out again while the other is waited for. A time slice of one
or two ticks preempts everywhere. The delays give equal, adjacent and nested
keys and the zero cases. Between them the runs reach every action and disjunct;
each property fails when the `Bug...` operator named in `PROJECT.json` replaces the
code it is about.

In `ports_all` the two ports promise more places than there are nodes, and the
second finds one semaphore left, so that the panic and the half-made port happen.

`devices_all` and `network_all` hold modules that share no variable and do not act
on each other. A variable `which` picks one of them in the initial state and only
that one moves, so the run is the union of their state spaces, not the product.
Where the driver of a device has two independent halves (`Tty`: typing and
writing; `Shell`: jobs and the parsing of all lines) each half has its own value.

| Module | Property | What must not happen | Instance |
|---|---|---|---|
| `RemoteDisk` | `RdPromisesKept` | the semaphore lets `rdsbufalloc()` through and there is no buffer | 1 client, 2 buffers, 2 blocks, 2 transmissions |
| `LocalFiles` | `LfFilesKept` | unless a close has overwritten another file's change: a file reads back otherwise than written; a block is lost or has two owners; a closed file is not whole on the disk | 2 files, one of 3 bytes over 2 index blocks of one data block each, 2 open, 1 truncation |
| `RemoteFiles` | `RfAcknowledgedKept` | an old copy of a request or reply undoes an acknowledged write | 1 file, 3 exchanges, 2 transmissions |
| `Tty` | `TtyInputKept` | a reader gets a character twice, out of order, or after it was erased | ring of 3, 5 keys, 3 modes |
| | `TtyOutputFaithful` | a cell is sent that holds no unsent character, or output waits with the interrupt off | ring of 2, FIFO of 2 |
| `NameSpace` | `NamesKeepTheirMeaning` | a name opens another device or another rest than its longest prefix in order says (names that lead back to the name space are left open) | all names of 5 prefixes and 4 characters, 2 mounts |
| `Lexan` | `LexanFaithful` | tokens that, read in order, are not the line | all lines of up to 5 characters |
| `Shell` | `ShellSound` | a prompt while the foreground command runs; a command runs with other arguments or files than typed; a line outside the syntax starts something | 3 processes; all lines of up to 6 tokens |
| `Sdmc` | `SdReadsSelectedCard` | a block is read from a card whose state was not looked at | 2 cards, errors anywhere |
| `Qsort` | `LibrarySound` | an element is lost or out of place | all arrays of up to 6 elements over 3 keys |
| `Ascdate` | `LibrarySound` | a day gets another date | every day from 1970 to 2003 |
| `Net` | `NetBuffersAccounted` | a path forgets a buffer or frees it twice | 1 client, a host and a router, 3 buffers, ARP cache of 1, UDP queue of 2, output queue and ICMP queues of 1, 2 ICMP slots |
| | `ArpPendingOwned` | a timeout or an eviction takes the entry of another resolver; an entry is pending for nobody, but for those left by a stray message or a kill | |
| | `EndpointsAgree` | a slot says somebody waits and nobody does, or the reverse | |
| `EthRings` | `EthRingsAgree` | a sender writes a descriptor the device still owns; a frame is skipped or read twice | rings of 3, 2 senders, 2 multicast addresses |
| `Tftp` | `TftpPrefix` | the buffers hold something other than the beginning of the file | sizes 3, 4, 6, 7 in room for 6, block numbers modulo 5 |
| `Memory` | `MemListExact` | a cell free and used, or neither; neighbours not joined | two regions, 4 request sizes, sizes modulo 64 |
| `Dhcp` | `DhcpUsesItsLease` | an address no server granted under this transaction number is used | 2 servers, answers to a machine with the same and with another number, 4 forms of answers, 2 tries |
| `Buffers` | `BuffersAccounted` | list and semaphore disagree, a buffer has two holders | 3 processes, 2 pools |
| `Marks` | `MarkedStaysMarked` | a marked location is not marked, or an unmarked one is | 3 processes, 2 locations, table of 3 |

The ARP cache has one entry so that entries are contended for; two blocks of the remote disk
contend for two buffers. Sizes of TFTP files are a multiple of a block, one less and
one more, and beyond the room; block numbers are taken modulo 5, which the longest
file just does not reach.
`Ascdate` alone was also run to the year 2099, and `Qsort` alone under weak fairness of its
steps, where it ends.

Named bounds: `MaxSeq` (generations a port goes through), `MaxCount` (no `signal`
above it), `MaxLocks` (a process whose `nlocks` has reached it does not call `lock()`:
the code never counts down, so `nlocks` is unbounded), `Targets`/`Releases` (arguments of
`chprio`, `kill`, `releaseall`), how late a late sleeper is (`Elapse`), `RdMaxSeq` and `RfMaxSeq`
(requests made), `LfMaxTrunc`, `LfMayWrite` (the bytes that may come at a position), `RfMaxPos`,
`LxMaxLen`, `QsMaxLen`,
`AsLastYear`.

Restrictions of the passing runs, each with a reason in the code. Without them
the property fails, and the hazard in `PROJECT.json` says so:

- `RemoteDisk` has one client; with two the write is lost (`rds_write_lost`) and
  the semaphore counts a buffer whose reader still refers to it. `Late = FALSE`: no reply comes after its exchange.
- `TtyPrompt = TRUE`: a writer that is let through stores its character before the
  next transmit interrupt; otherwise the handler sends a cell that is not written.
- `LfFilesKept` excuses what a close has overwritten; that it may is seen in the code, and nothing there says otherwise.
- `LfTwice = FALSE`: no program opens a file that is open. `lfsopen()` means to
  refuse it, but `lfsopen.c:161` never advances the pointer that copies the name.
- `EthRingsAgree` holds until a ring has been full: `ethhandler()` then takes the
  transmit ring for empty. The input of `Tty` ends with an overrun of its ring, `Marks` with
  one of its table.
- The properties of `Net` hold until one of the three overruns (`netlost`), and excuse what a stray message or a
  kill leaves marked.
- `proc_all` lets kills overlap, but not on one victim; that is `proc_kill_count`.
- `locks_all` lets a process take one lock; the violation of `locks_writer` needs two readers and a writer.

Runs that do not check for deadlock are those in which the system may really stop:
after a panic, when every process waits or is dead, or when a bound is reached.

### Fairness

Weak fairness on the continuation steps: code of the kernel, once begun and on
the processor, goes on. Strong fairness on `ClockTick`: the interrupt stays
pending while interrupts are disabled or the handler is at work and is taken
when they are enabled, which happens again and again. In `Ports` the processes are of one priority and
share the processor by time slices, so weak fairness holds of the steps of each
process inside a call. No fairness is assumed of calls: a process may stay in its own code for ever; `WaiterServed` has its
signals in its premise, `SleepEndsInTime` the absence of polling. Runs without
a liveness property use `Spec`, without fairness.

### What the violated runs show

- `chprio()` (`chprio.c:35`) changes the priority of a ready process without
  moving it on the list.
- `kill()` (`kill.c:24`) counts its victim out before the `send()` that may
  switch to a process that kills the victim once more.
- `recvtime(0)` (`recvtime.c:27`) puts its caller first on the delta list with
  key 0; the next tick is spent on it alone. A process that polls that way keeps
  every sleeper asleep.
- A reader made ready by `emptyWaitQueue()` is not in `plist` until it runs
  (`lab3functions.c:129`). Another reader's release sees an unused lock, and a
  writer is let in beside the first reader.
- When a read is done, `rdsprocess()` (`rdsprocess.c:109`) answers the next request
  for that block and frees its buffer, without a look at `rd_op`: a write of
  another client disappears.

### Observations without a property

What was met while reading, and no run is spent on; nothing in the repository contradicts it, the comment of
`nammap()` excepted:

- `kill()` of a process that waits for a lock increments the count of `semtab[prsem]`,
  a semaphore of an earlier wait; `insertlockq()` lets readers starve a writer;
  `nlocks` is never decremented.
- `nammap()` does not copy the new name into `tmpname`, so a name that leads back to the
  name space fails, where its comment (`nammap.c:28`) has the prefix substituted again: `NamesKeepTheirMeaning`
  says nothing of such names; `mount("/dev/", ...)` with `SYSERR` is refused by `isbaddev()`, so unknown
  `/dev/` names go on to the next prefix.
- `mkbufpool()` keeps its memory when `semcreate()` fails; the shell keeps an input file
  open when the output file fails.
- The shell waits for ever when the message of the foreground command was
  dropped because another was in the mailbox (`shell.c:302`).
- `sdmccmd.c:246` writes a write-1-to-clear register with "or" and clears the other bits;
  `sdmcread()` does not look at the result of `sdmcread_dma()`.
- `dhcp.c` knows an acknowledgement only when the message type is the first option,
  looks for the boot server within the length of the message it *sent*, and
  keeps its UDP slot when an offer is not usable.
- Two concurrent calls of `mark()` for one location use up two entries.
- `ascdate()` gives the wrong weekday in the last hour of a day in summer; with
  `dt_daylight` "ON" it runs over the names of the months on December 31.
- In raw mode `ttyhandle_in()` wraps the wrong pointer, and in cbreak mode it does not signal.
- `icmp_recv()` wraps the head of a queue of `ICMP_QSIZ` (8) packets at `ICMP_SLOTS`
  (10), `icmp_in()` puts a reply into a queue that is full, and `ip_enqueue()` one into a full
  output queue while `ipout()` has been let through and not yet run. `Net` reaches all three, and stops there.
- A message from elsewhere ends the wait of `arp_resolve()` as if it were the answer (`arp.c:133`): the packet goes
  out to whatever the entry holds, and the entry stays pending, as it does when the resolver is killed.
- A program that is woken in `udp_recv()` by another message leaves its endpoint marked as waiting, and no packet
  count is looked at when a later one tells it OK.
- `rdswrite()` copies into a request that may have been sent since it found it (`rdswrite.c:35`): the data is lost
  with a single client. `RdWritesReach` leaves this out and is about `rdsprocess.c:104`.
- `lflclose()` flushes without the directory's mutex (above); `lfsopen()` looks for a free control block before it
  takes that mutex.
- An inherited priority is hardly ever given back (`releaseall.c:25`): `OwnPriorityKept` is only about
  priorities that are too low.

## Proofs

All theorems are about the specification of their module with arbitrary constants. Those
on `Sched` (any number of processes, semaphores, locks, any priorities, delays and
workloads) rest on `SchedAssumption` and the module's own assumption: at least two process slots, a time slice of at
least a tick, arguments of the types the calls take, created priorities
positive. The others rest on the assumption of their module alone. TLC evaluates
all of these in every run of the module. Two theorems have a premise of their own,
and each premise excludes what the code is known to get wrong:

- `StacksOwnedAlways` excludes that a process is killed again in the middle of its own `kill()`:
  the two free its stack twice (`kill.c:24`, run `proc_kill_count`). Other kills overlap freely.
- `DelaysKeptAlways` excludes delays of 2^31 ms and more, which `insertd()` takes for
  negative keys (`sleep.c:41`, in the hazards).

Type correctness is a part of each inductive invariant, not a property of its own.

**SchedProofs** has two parts. The first is about `Queues`: who is on a queue after `Append`, `Tail`, `InsertAt`, `Unlink`, and that
nobody is there twice; how the number of `Places` in a family of queues changes with
one of them. `Smallest` and `CountUp` take the place of the library's induction theorems, which the provers cannot
instantiate for an operator: if a statement about the numbers up to n failed, it would
fail for a smallest one. To use them on a recursive function (`TimeLeft`,
`RaisedLprio`) its existence is shown first, by counting up through its finite restrictions.

The second part proves, once, what each operation of `Sched` preserves.
`SchedPre(k)` is what holds of the scheduler *between* the halves of a call: types,
at most the current process is in state CURR, the ready list is exactly the ready
processes, sorted by key, and the null process is eligible. `SchedInv(k)` adds that
the current process *is* in state CURR. The step from one to the other is
`SwitchInv`: the null process is never blocked, so whenever the current process
has given up the processor the list is not empty. On top: `ReadyInv`, `BlockInv`,
`WithdrawInv`, `DiesInv`, `TickInv`, `DeferInv`, each also saying which processes
change state (`SameButRunning`). A second layer adds that keys are priorities
(`Ranked`), from which the running process outranks the list after a switch.

**ProcMgrProofs.** `IInv` = types, `SchedInv(k)`, nothing deferred, and for
messages: a process blocked in `receive()` has no message, one that was inside
`receive()` and is not blocked has one or has been killed (the part
`NoMessageSleptOn` lacks: it speaks only of the current process). For the stacks: the `kill()`s
under way have victims that are alive, and no two have the same (`OneKill`). Theorems
`ProcessesListedAlways`, `NoMessageSleptOnAlways`, `StacksOwnedAlways`.

**SemaphoresProofs.** `IInv` = types, `SchedInv(k)`, `CountIsQueue`, `WaitersQueued`,
plus `LoopsDeferred` (only the current process is inside a loop, and rescheduling
is deferred exactly then: without it another process could call `wait()` on a
half-emptied queue) and `FreeCounts` (`semdelete()` leaves no negative count).
Theorems `CountIsQueueAlways`, `WaitersQueuedAlways`, `FreeSemsEmptyAlways`; with
`Served`, which says that keys are priorities and that nobody ready outranks the running process unless the
deferred attempt is noted, `DeferralEndsAlways`. `CountingSemImplemented` is the refinement: the
initial states map to initial states, and each step of the calls and of their loops maps to
one step of `CountingSem` or to none.

**TimerProofs.** `IInv` = types of the lists, `SchedInv(k)`, `SleepersListed`, plus
`LoopDeferred` (as above, for `wakeup()`, and that nobody kills the null process)
and `ReceiverServed`. Theorems `SleepersListedAlways`, `NoMessageSleptOnAlways`,
`SchedulerSound`. For `DelaysKeptAlways` the keys are read as *differences of the times due*: each
key is what its process is due later than the one before, the head's is its own
time, except that `wakeup()` leaves a late head at -1 while it runs. This says of every link what
`TimeLeft` says of the whole list, so that insertion and removal disturb only two of them.

**LocksProofs.** The operations are functions of the scheduler, the lock table and
`proctab`, so the invariant is one too: `Sane` = types, `SchedInv`, `WaitersQueued`, a waiter goes
on with the lock it waits for (`Known`), whoever is on `plist` counts the lock among its own (`Holders`), and
`OwnPriorityKept`; `AllHeld` = `LockedMeansHeld`, lock by lock. `SwapKeeps`: `swapPriority()` keeps
`Sane`, changes no queue and no holder, and only raises. `GrantKeeps` is a turn of `emptyWaitQueue()`
from any state in which the *other* locks are held, since this one is not just then. `Holders` is
what makes the release of a shared lock safe. Theorems `WaitersQueuedAlways`,
`LockedMeansHeldAlways`, `OwnPriorityKeptAlways`.

**ResourceProofs**, on four modules.

*Memory.* For every memory map of regions that do not touch and every sequence of
requests and returns. `IInv` = types, the free blocks are apart (not even
touching), the cells of the blocks are exactly those not handed out, the length
agrees, and everything is finite. `GetmemKeeps`, `GetstkKeeps` and `FreememKeeps`
are the steps; the third shows that the overlap test with the two neighbours of the
walk (`BeforeIsLast`) excludes every overlap, and that joining with them restores
"apart". Theorem `MemListExactHolds`.

*Marks.* `MkInv` = only the holder of the mutex is between reading `nmarks` and
the end of the assignment, its copy of `nmarks` is current, the table is empty from
`nmarks` on, and every location for which `mark()` returned OK is marked or being marked
again. The second needs the first, and the third keeps an assignment from
changing an entry others rely on. Theorem `MarkedStaysMarkedAlways`.

*Buffers.* `BpInv` says of each buffer where it is, on the list of its pool once or with one process,
that its header names that pool, and of each semaphore who is in its queue and how many it has
let through. Theorem `BuffersAccountedAlways`.

*Ports.* Besides permits and messages: a process inside a call carries a sequence number no later than the
port's, and the port's own only while the port is allocated (`YoungOk`), so what a step does to a port in
use concerns only those who came in its present life; who is in line has called on that side of the
port; a port in LIMBO has at most one process that clears it, and what it has done so far is
done (`ClearOk`). Theorems `PermitsMatchMessagesAlways`,
`NoStaleMessagesAlways`, `NodesAccountedAlways` (nodes are counted as `Places`, for any number of ports).

**NetworkProofs**, on three modules.

*Tftp.* `TftpInv` = while blocks are awaited, exactly the blocks before the
expected one are stored; whatever the network carries as data is a block of the
file under its own number (`BlockNumber`: with `TftpAssumption` the 16 bits cut
nothing). A datagram with the expected number therefore holds the bytes that come
next, however often and late it was sent. Theorem `TftpPrefixHolds`.

*Dhcp.* `DhcpInv` = an acknowledgement with this machine's transaction number names an address that
has been granted under it, to this machine or to another one that has the same four bytes; leases are never taken back. Theorem `DhcpUsesItsLeaseAlways`.

*EthRings.* The descriptors of the DMA engine lie between the driver's two indices, in the order in which it
goes through them; frames received lie from the head on. Once the transmit ring has been full
its handler takes it for empty, but then nobody is let in again, which keeps the first part of
the property true. Theorem `EthRingsAgreeAlways`.

**DeviceProofs**, on six modules.

*Tty.* `TyRing` says that a sequence lies in a ring between two indices, and lemmas say what storing
(`RingStores`), taking from the front (`RingTakes`) and taking back at the end (`RingCuts`) do to that.
Input (`InInv`): what the semaphore counts, what a reader was let through for and the line being typed are
together no more than the ring holds; so a reader finds its character, and `erase1()` and the
kill character move the tail back only over their own line. Theorem `TtyInputKeptAlways`.

*RemoteFiles.* `RfInv` = the sequence numbers of the requests on their way do not decrease, all are
before `rfseq`, and those of the exchange under way are copies of its request (`Numbered`, `Exchange`); a reply
with the number of the exchange tells of a time at which all older requests had been executed, and what it says is
still so on the server (`RepliesTrue`). Before a byte is sure, the write that makes it so has therefore overtaken
everything an exchange that was given up left behind (`SureKept`). Theorem `RfAcknowledgedKeptAlways`.

*Sdmc.* Between the calls of the driver the controller is at rest: no command on its lines, no status and no error
left, the signal enables as `sdmcinit()` set them. A call stands alone, or a command over it, the command's recovery over
that, and the abort command over the recovery (`OnCall`, `OnCmd`, `OnRecovery`, `OnAbort`): the stack never gets
higher, because an abort that fails starts no recovery of its own. `SdInv` says of each layer
what the registers may hold while it is there, and of a command that waits to return that its copies
`c.sig` and `c.sten` are the enables to restore. The read goes on to `CMD17` only if `CMD16` was accepted
while the card it had looked at was in the slot. Theorem `SdReadsSelectedCardAlways`.

*Lexan.* The reference is an automaton that reads one character at a time and has nothing to do with the loops
of `lexan()`. `StatesTyped`, `ReadsBlanks`, `ReadsWord`, `ReadsString` say, counting up, what it does over a
stretch of the line as long as one likes. `LxScan` is the invariant of the outer loop: between two tokens
the tokens so far are the automaton's, which is in a gap, or in a word that the next character ends. For the
error of too many tokens, `LxEnded`: a token begun beyond the last that fits is never taken back (`StaysEnded`), so
the reference has too many as well, or an error of its own. Theorem `LexanFaithfulAlways`.

*Shell.* The parser takes an ampersand and two redirections off the end of a line. The lemmas up to `ParsedIsRead` show
that what it leaves is always the beginning of the line, up to some token, with what it took off
written behind; that it reports an error exactly if no reading exists; and that there is at most one reading, since an
operator cannot stand for a name. That is for lines of every length. The jobs: from `recvclr()` on, while the child is suspended,
a message of the child's id can only be the child's own, so `ShWaiting`: if the mailbox holds the number the shell
waits for, that child has ended. Theorem `ShellSoundAlways`.

*NameSpace.* `NmOrdered` things come before what they continue: in the table and in what is still to be mounted, a prefix that
begins another one is later. The empty prefix is mounted last and begins every name, so what comes behind it is
never reached, which is why later mounts change nothing. The first match is found with `Smallest`; a char holds the
length of a short name (`CharHolds`). Theorem `NamesKeepTheirMeaningAlways`.

Only model-checked:

- liveness (`RoundRobin`, `WaiterServed`, `SleepEndsInTime`, `WaitersReleased`): outside what the
  prover handles;
- the properties of `Net`: what strays, kills and overruns leave behind takes a larger invariant than the one that is known;
- `RdPromisesKept` and `TtyOutputFaithful`: they need one client, and a writer that stores at once, which the
  code does not guarantee. A theorem would have these as premises;
- `LfFilesKept`: index blocks, data blocks, their two free lists and the copies in each open file, related by
  positions. The invariant is known only as what TLC checks;
- `LibrarySound`: `Ascdate` counts the years and months with RECURSIVE operators, in whose modules the prover loses
  its arithmetic, and what `Qsort` returns is compared with its input by counting each key with a fold.

## Hazards

`PROJECT.json` lists them at their lines, with the properties that would catch
them. Those without a property have a note: some strike only where a run does not go (two clients of the remote
disk, a file opened twice, a writer's store after the interrupt, a delay of 2^31 ms), some are reached and
excused (a table overrun, a full transmit ring, a priority kept too high, the endless walk of `swapPriority()`),
because nothing in the repository says they cannot happen.

## Plan

What is left, in the order of weight:

1. Proofs for `LocalFiles` (which block belongs to which file), for `Net` with what strays and kills leave, and for
   `RemoteDisk` with several clients, in which answers may cross.
2. The linked `queuetab` implements the sequences of `Queues`.
3. Compositions: `recvtime()` of `Timer` under the resolvers and receivers of `Net`,
   semaphores and locks in one model for the count that `kill()` changes.

## Not modelled, and why

- Device registers beyond the SD card's, byte order, checksums, interrupt controller, context switch
  in assembler: hardware; their effect on the kernel's tables is what the models
  start from.
- The rest of the C library, printing, the shell commands that only print:
  sequential functions on strings. PXE and the start-up of the network: calls
  one after the other at boot, over what `Net`, `Tftp` and `Dhcp` model.
- The calls of the device switch: each checks a number and calls through `devtab`.
- Boot: `sysinit()` runs before there is concurrency; what it leaves is `Init`.
- `config/` and `compile/uboot-tool/`: programs of the build host.
- In modelled components: message contents, stack contents, return values no
  property needs, `clktime`, `semtab[prsem].scount++` of `kill()` for a process that waits
  for a *lock*, deletion of the remote disk, the asynchronous SD card commands that
  nothing calls, error interrupts of the UART.
