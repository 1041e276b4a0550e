# A TLA+ model of MiyarOS

MiyarOS is a small 32-bit x86 kernel: processes and threads with a round-robin
scheduler, paging, a heap, a keyboard and a text screen, a FAT32 file system and
a shell. These modules model the parts of it that keep state, TLC checks them on
small instances, and TLAPS proves the invariants of the scheduler for any number
of threads and processes, the heap for any sizes and requests, the frame
allocator for any memory map, the isolation of address spaces for any number of
frames, pages and entries, the disk driver for any sectors and addresses, the
files for any volume, texts and faults outside a deletion, and the keyboard buffer,
the line on the screen and `echo`'s reading of it for any sizes. Paths like `process/thread.c` are below
`src/kernel/`.

Contents: [1 inventory](#1-the-system), [2 modules](#2-the-modules-and-the-code),
[3 runs](#3-the-runs), [4 fairness](#4-fairness), [5 proofs](#5-proofs),
[6 disagreements](#6-where-the-code-disagrees-with-its-documents),
[7 limits](#7-what-is-left-out-and-what-is-assumed), [8 plan](#8-plan).

## 1. The system

| Part | State it keeps | Operations | Talks to |
| --- | --- | --- | --- |
| threads, `process/thread.c` | ready and terminated queue (linked lists with a tail), `current_thread`, each thread's state, process, `next` | create, destroy, yield, block, unblock, terminate, terminate the threads of a process, reap | called by threads and by the timer interrupt; counts threads in the process; frees with `kfree` |
| scheduler, `process/scheduler.c` | none of its own | `scheduler_schedule` on every tick: put back, dequeue, switch, reap | threads, processes, address spaces |
| processes, `process/process.c` | process list, state, `thread_count`, `current_process` | create, destroy, exit, reap | threads, address spaces |
| heap, `memory/heap.c` | block headers in a fixed area, `heap_offset` | `kmalloc` (first fit, else grow), `kfree` | every part that allocates |
| frames, `memory/pmm.c` | one bit per frame | init from the memory map, alloc, free, reserve | address spaces, page tables |
| address spaces, `memory/address_space.c`, `vmm.c`, `paging.c` | page directory and tables, a second copy of the pointers to the tables, CR3 and, in the processor, the TLB | create, activate, destroy, map, unmap, look up | frames, heap, processes |
| keyboard, `arch/x86/irq.c`, `drivers/keyboard.c` | shift flag, ring buffer with head and tail | interrupt puts, `keyboard_getchar` takes | line editor |
| line editor, `kernel.c` | the input line | type, erase, execute | screen, shell |
| screen, `drivers/vga.c` | cells, cursor | putc, scroll, clear, backspace | everything that prints |
| FAT32, `fs/fat32.c` | allocation table and clusters on disk | find, allocate, append, free, zero | files, directories, disk |
| files, `fs/file.c` | a `file_t` per call, the directory entry | create, write, append, read, copy, move, delete | FAT32, directories |
| directories and paths, `fs/directory.c`, `fs/path.c`, `fs/fs.c` | entries, the current directory as a cluster and as a path | mkdir, rmdir, cd, find, create, rename, move, delete entry; split, normalize, lookup | FAT32, shell |
| shell, `shell.c` | none | take a line apart, run one command at a time | files, directories, screen |
| disk, `drivers/ata.c`, `drivers/disk.c` | the drives found at boot; in the hardware, the channel's registers and what each drive does | detect, read a sector, write a sector | FAT32, files, directories |
| timer, PIC, IDT, GDT, serial, multiboot, exceptions | device registers, a tick counter | set-up, interrupts | scheduler |

What is hard here:

* One CPU, but the **timer interrupt** may come between any two instructions of
  a thread that has interrupts enabled, switch to another thread and reap dead
  ones. Most operations of `thread.c` mask interrupts only after their first
  lines, and the allocators do not mask at all.
* **Life times**: a thread is freed by the reaper while queues, wakers and its
  process may still name it; a process is freed when its count says that no
  thread is left.
* **Failures in the middle**: a file call is a sequence of sector writes, each of
  which may fail, or be done and reported as failed; the machine may stop between
  two of them.
* **Hardware with a will of its own**: the processor keeps translations as long as
  it likes until it is told otherwise; a drive is busy as long as it likes,
  ignores commands while it is, and fails some.
* **Boundaries**: the ring buffer wraps, the cursor wraps and the screen scrolls,
  files end at the end of a cluster, directories grow into a second cluster, the
  volume and the heap get full.
* **Two copies of one fact**: head and tail of a queue, `thread_count` and the
  threads, `current_process` and CR3, the pointers to page tables and the
  directory's entries, size and chain of a file, the current directory's cluster
  and its path.

What makes each part correct: no thread is lost, queued twice, run after its
death or used after it is freed; dispatch is in order and everybody gets a turn;
an exited process goes away with all its threads and only with them; callers of
an allocator own what they got alone, and nothing leaks; keys reach the line in
order and the screen shows the line; an address space maps what was mapped in
it and nothing else; a sector is read and written whole; chains end and are
disjoint, and files read back what was written; the directory tree is a tree,
also after a failure, and `..` and the printed path tell the truth; what is typed
is what is entered.

## 2. The modules and the code

```
Scheduler ----------- SchedulerProofs (TLAPS)      MCScheduler
ThreadQueues -------> FifoQueues (abstract)        MCThreadQueues
     `--------------- ThreadQueueProofs (TLAPS)
Screen <-- Console --> BoundedFifo (abstract)
Console <-- CommandLine                            MCConsole
     `--------------- ConsoleProofs (TLAPS)
Heap                                               MCHeap
     `--------------- HeapProofs (TLAPS)
Memory                                             MCMemory
     `--------------- MemoryProofs (TLAPS)
PageTables ---------> Mappings (abstract)          MCPageTables
     `--------------- PageTableProofs (TLAPS)
Ata ----------------> Sectors (abstract)           MCAta
     `--------------- AtaProofs (TLAPS)
Fat32 <-- Files                                    MCFiles
            `--------- FilesProofs (TLAPS)
Paths, Slots <-- Directories --> Tree (abstract)   MCDirectories
Fat32, Slots <-- DirectoryWrites --> Tree          MCDirectoryWrites
```

`<--` is EXTENDS, `-->` is "implements, checked as a PROPERTY". `PROJECT.json`
maps every definition to its lines.

**Scheduler** has the queues as sequences, the threads and processes that are
allocated (a `thread_t` is a slot that `kmalloc` may hand out again), their
states, owners and counts, the current process and address space, and for each
thread the operation it is in. Code with interrupts masked is one step. A
*window* is a place where an operation runs unmasked between two accesses to
shared state; an operation with windows is one action per side, the locals in
`call[t]`. The constant `Preempt` says in which windows the timer strikes:

| Window | Code | Let in by the run | What a tick there breaks |
| --- | --- | --- | --- |
| `unblock` | `thread.c:387-392`, state tested, not masked yet | yes | nothing |
| `exited` | `process.c:215`, threads swept, caller not yet terminated | yes | nothing |
| `exit` | `process.c:212`, state set, sweep not begun | proofs only | `ExitHitsOnlyExited`: the process may be reaped and its memory reused |
| `yield` | `thread.c:304-311`, next thread dequeued, not masked | no | `NoThreadLost`, `EnqueuedRuns` |
| `create` | `thread.c:99`, process checked, thread not yet counted | no | `NoDanglingProcess` |
| `grow`, `shrink` | `thread.c:120`, `:232`, load and store of `thread_count` | no | `CountMatches` |

So the run and the proofs say what the kernel guarantees when the timer stays
out of the last four windows, and the table says that each of them is really
needed. `MCScheduler` has a definition for each to try it out.

**ThreadQueues** is the same queues one level down: heads, tails and the single
`next` field, a step per C statement of `thread_enqueue` and `thread_dequeue`,
called from masked and unmasked code. It implements **FifoQueues**, two queues
with append, take the head and remove, by reading the sequences off the links.
It keeps the interrupt out of `thread_enqueue` and `thread_dequeue` themselves
(`Preempt = {}`): with it in `thread_enqueue`, the tail may be dequeued between
the test and the link, and the new thread is reachable from no head
(`InEnqueue` in `MCThreadQueues` shows it as a violation of `ReadyRuns`).

**Console** composes the keyboard interrupt, the ring buffer and `kernel_main`'s
loop with **Screen**. The interrupt may come between any two keys the editor
handles. The ring implements **BoundedFifo**.

**Heap** is `kmalloc` as a search and an update, which other threads may come
between where `Preempt` says, and `kfree`. **Memory** is the frame bitmap built
from the memory map with its round-ups, and the address spaces, page tables and
pages made of frames; `bitmap_set` and `bitmap_reset` read and write a byte of
several frames.

**PageTables** is what those frames hold: every frame has entries, a directory is
a frame, and so is a table, and a frame that is freed keeps its entries until
somebody clears it. The kernel's own stores go through the translation that is in
force, as they do with paging on, and end in `page_fault_handler` when there is
none. The processor walks from CR3 and may put any translation it finds into the
TLB (`Fill`). `page_tables` is kept next to the entries, as in the code.
`vmm_map_page` and `vmm_unmap_page` are one action up to each place where a
switch matters: before a table is created, before the entry is stored, before the
page is invalidated. The flag bits are reduced to present or not. It implements
**Mappings**: each address space has a function from pages to frames, and a call
changes one page of the current one.

**Ata** has a channel with two drives on one side and the driver's registers,
waits and words on the other. A drive is a disk, a packet device or missing; it
is busy as long as it likes, may fail a command, and ignores what comes while it
is busy. The error bit and the data request bit are its answer; device fault is
taken as an error, as the driver takes it. Detection comes first. It implements
**Sectors**: a call returns what is in the sector, or stores it whole, or fails.

**Fat32** has the table and the clusters; **Files** the calls of `file.c` as
sequences of sector writes. A fault is a failed read, a failed write, a write
that is done and yet reported as failed (its flush failed), or the machine
stopping, anywhere; `contents` is a history variable with what the
successful calls have put into each file. A call that was told of a wrong end
of a chain stores its bytes in the wrong place and succeeds; it is *excused*:
`contents` promises nothing about its file any more, and everything about the
others. With `Accountable = FALSE` the appends and copies of section 6 are
excused in the same way. A directory entry is one record, written at once.

**Directories** is the complement: files are empty there, and the directories
are entries in slots (**Slots**), with the end mark, deleted slots and growth by a
cluster.
A command is one step. **Paths** has `path_normalize` and `path_build_absolute`
on components. It implements **Tree**, where a command adds, removes or moves
one node and the current directory is always a node. `shown`, a history
variable, is the tree that the names on the disk show.

**DirectoryWrites** takes the same commands apart into their sector writes on the
table and clusters of **Fat32**: taking a cluster, zeroing it, linking it to a
directory that grows, adding an entry, the two dots, freeing a chain, marking a
slot deleted, taking a move back. Each write may fail, early or late, and the
machine may stop before each. The lookups before the first write are part of
`Begin`. `slots` and `shown` are derived from the disk in every step; it
implements **Tree** with the tree that is shown.

**CommandLine** is what the shell does with the line that Console hands over:
`split_command`, `get_next_argument`, `cmd_echo`'s search for the mark,
`directory_set_name` and `directory_get_name` are operators on a line. The shell
keeps nothing from one line to the next, so its two properties say of every line
up to a bound what happens when it comes after an empty prompt.

## 3. The runs

| Run | Checks | Shows |
| --- | --- | --- |
| `Scheduler` | `TypeOK`, `NoDanglingThread`, `NoDanglingProcess`, `QueuedOnce`, `NoThreadLost`, `CountMatches`, `AddressSpaceFollows`, `NoOvertaking`, `DeadStayDead`, `EnqueuedRuns`, `SweptProcessReaped`, `ExitHitsOnlyExited` | no thread is lost, freed too early or queued twice, counts are exact, dispatch is FIFO and reaches every queued thread, the dead stay dead, an exited process goes away with all its threads and exit hits no other |
| `ThreadQueues` | `ImplementsFifo`, `ReadyRuns` | the links are the queues at every statement, and every ready thread gets its turn |
| `Console` | `ScreenShowsLine`, `KeyIsKept`, `BufferIsFifo`, `KeysAreRead`, `WordsBecomeNames`, `EchoLosesNothing` | keys arrive in order and are lost only when the buffer is full; the screen shows what Enter will execute; of every line, the words become the names entered and `echo` splits it without loss |
| `Files` | `ReadsBack`, `ChainsOwned`, `BootUntouched`, `NothingLost` | write, append, copy and delete with a fault in any but the last: files read back, chains end and are disjoint, the boot sector is not written, no cluster is lost but by a call that gives up |
| `FilesCopy` (violation) | `ReadsBack` | section 6 |
| `Directories` | `DotsAgree`, `CwdAgrees`, `ImplementsTree` | the entries are a tree of which a command changes one node, `..` and the printed path are right |
| `DirectoriesMove` (violation) | `MovesWhereTold` | section 6 |
| `DirectoryWrites` | `EntriesOwn`, `OneNodeAtATime`, `NothingVanishes` | with one fault in a command, chains end and are disjoint, no cluster is lost without a fault, the tree changes by one node at a time, and a moved file keeps a name |
| `Heap` | `Exclusive`, `BlocksFill`, `ChurnBounded` | callers own disjoint blocks, no block is lost, churn does not use up the heap |
| `MemoryFrames` | `FramesExclusive`, `FramesAccounted` | no frame is given out twice, leaked or taken from the kernel |
| `PageTables` | `LookupsAgree`, `NoStaleTranslation`, `ImplementsMappings` | address spaces are isolated although their frames are used again; the kernel's lookup, the processor's walk and the TLB agree |
| `Ata` | `ImplementsSectors`, `CallReturns` | sectors are read and written whole, whatever the drives do; detection and every call end |

`mutants` in `PROJECT.json` has, for every property of a passing run, a plausible
bug in the modelled code that the property catches; each is defined just before
the definition it replaces.

### Bounds, and why they are enough

* `Scheduler`: two thread slots, one process slot, boot and idle thread and the
  kernel process. Slots are reused, so creation goes on for ever; four threads
  fill a queue's head, middle and tail. No symmetry, as liveness is checked. The
  proofs cover any number of slots, and the window `exit` besides.
* `ThreadQueues`: three workers, two of them in the process that exits, two
  queued at the start: the sweep unlinks at the head, in the middle and at the
  tail, and empties the list.
* `Console`: a 3 by 3 screen, a line of four characters after a prompt of one (it
  wraps once), a buffer of `Size` 3 (two keys; head and tail wrap), replies that
  scroll. `ScreenHoldsLine` asks that the line fits the screen, as 255
  characters fit 80 by 25. For `CommandLine`: lines of up to eight of five
  characters (a letter in both cases, blank, point, mark), a command of two,
  arguments of five, names of 2 + 1 characters, and buffers that cut a name at
  four and the one of `echo` at three, so that every buffer is too small for some
  line.
* `Files`: two names (symmetric), three clusters of two bytes (the volume gets
  full), writes of nothing or of a cluster and a half, appends of one byte, so
  that files end at and around a cluster's end; `MaxFaults` 1 fault per
  behaviour; `MaxSize` 3 stops appends. Two names suffice for sharing; one fault
  puts every prefix of every call on the disk. `Careful` leaves out the faults in
  a deletion (section 6). `FilesCopy` is the same without faults, with
  `Accountable = TRUE`.
* `Directories`: four clusters of three entries, so that a directory with dots
  grows with its second name, three names, and `MaxComponents` 2 where the code
  has 16, so that `cd` meets the limit. `Input` lists the paths of each command:
  relative, absolute, through `.` and `..`, above the root.
* `Heap`: two callers, three sizes, `Live` 2 blocks per caller, some five blocks
  of room. `MemoryFrames`: two threads, five and a half free frames, four frames
  to a byte of the bitmap, `Live` 2 pages each, one page-table index.
* `PageTables`: eight entries to a table, two threads, `MaxSpaces` 2 besides the
  kernel's, three frames for directories and tables (two spaces and one table,
  so that a frame becomes now one and now the other), two data frames, two pages
  of one table, a page below and one above the processes' addresses.
* `Ata`: one caller, two words to a sector, registers of one bit each (`Base`,
  `Sides` 2), so that every address has four digits; sectors 0, 4 and 11, where 11
  is within one drive and just beyond the other; all nine pairs of kinds.
* `DirectoryWrites`: four clusters of two slots, two names, `MaxFaults` 1; the
  root grows with its third entry, the volume gets full, and a freed cluster of
  bytes becomes a directory. Names are symmetric.

## 4. Fairness

* **Scheduler**: strong fairness of the tick and, for every thread, of going on
  with an operation it is in. The PIC holds an interrupt that comes while
  interrupts are masked and the timer fires every 10 ms, so ticks never stop;
  10 ms are enough for the few instructions of a window, so a thread that gets
  the CPU again and again leaves it. Nobody is obliged to *call* anything:
  threads may loop, and the properties hold all the same.
* **ThreadQueues**: the same for ticks, and the running context goes on.
* **Console**: weak fairness of the editor's read only. The keyboard owes
  nothing and may flood the buffer.
* **Ata**: weak fairness of detection and of every call, which is the only thing
  the CPU does meanwhile; and of each drive, which gives up its busy bit some
  time, with an answer or an error. The driver's loops have no time limit, so
  nothing less would do. No drive is obliged to succeed.
* The other modules check safety: their calls are loops that walk a chain, which
  ends (`ChainsOwned`, `EntriesOwn`), or take a bounded number of steps.

## 5. Proofs

`SchedulerProofs` proves for every `Worker` and `UserProc`, from the assumptions
`SlotsAreDistinct` (slots are finitely many and distinct from boot, idle, kernel
and null) and `PreemptInWindows`, and for every `Preempt` with the windows of the
second column:

| Theorem | Windows | Statement |
| --- | --- | --- |
| `TypeCorrect`, `DispatchInOrder` | all | `Spec => []TypeOK`; `NoOvertaking`, an action property |
| `CountsExact`, `OwnAddressSpace`, `ThreadsAllocated`, `ProcessesAllocated`, `OneLinkIsEnough`, `ThreadsFindable` | `SafePreempt`: `unblock`, `exited`, `exit` | `[]CountMatches`, `[]AddressSpaceFollows`, `[]NoDanglingThread`, `[]NoDanglingProcess`, `[]QueuedOnce`, `[]NoThreadLost` |
| `NoResurrection` | `SafePreempt` | `DeadStayDead`, an action property |
| `ExitIsExact` | `SweepSafePreempt`: `unblock`, `exited` | `ExitHitsOnlyExited`, an action property |

The argument: none of the properties is inductive alone. That the reaper frees
nothing in use needs to know that the terminated queue holds exactly the
terminated threads; that needs every state change to go with a queue change,
also for a thread whose waker was preempted half way; and the count is exact
only if what was loaded is still in memory when it is stored. `IInv` is the
conjunction of these facts:

* `Residents`: boot, idle and kernel are never freed and idle calls nothing;
* `LocalsFresh`: only the running thread is in masked code, and its locals agree
  with memory;
* `Placement`: each thread state is one place, and each place one state;
* `WakersAgree`: a thread that is being woken is blocked, and has one waker;
* `Ownership`: threads belong to processes that exist;
* `TypeOK`, `AddressSpaceFollows`, `CountMatches`.

There is one lemma per action for each group of conjuncts it can disturb, a lemma
per operator on sequences the queues are built with, `IInvInductive` puts them
together, and each invariant follows with `IInv => property`. `NoOvertaking` needs
the types alone: `LeavesInOrder` says who stays when a queue is changed in each of
the three ways it is, and `OrderStep` that nobody behind the head leaves unless it
has been terminated. `ExitHitsOnlyExited`
needs `SweepsExited` beside `IInv`: the process that is being swept has exited and
is not replaced before the sweep, which is what the window `exit` breaks.

`ThreadQueueProofs` proves `LinksAreQueues`, `Spec => ImplementsFifo`: at every
statement the heads, the tails and the one `next` field are two disjoint lists
without repetition, and every change of them is a put at the end, a take from the
front, a removal, or a move from the ready queue to the other. It holds for every
`Worker`, every `Doomed` and every ready queue to begin with, from
`ThreadsAssumption` (threads are finitely many, and neither boot, idle, the interrupt
nor the null pointer is a worker), and for `Preempt = {}`. That hypothesis is needed
and TLC says so: with `{"enqueue"}` and with `{"dequeue"}` it finds `ImplementsFifo`
violated. The interrupt may come anywhere else, and does.

The property is about `ReadyChain` and `TerminatedChain`, what one reads off by
following the links; but a chain is a poor thing to reason about, as one store may
change all of it. So the invariant is about two sequences that somebody knows,
`IInv == \E r, q : Inv(r, q)`:

* `Lists(r, q)`: `r` begins at the head and goes on along `next` (`Linked`), and so
  does `q`; the threads of `r` are ready, those of `q` terminated;
* `OneInside`: one context at a time is in a call, and it is the running one;
* `CallAt(r, q)`: what the call has done so far. `tail` is the last of `r` but for two
  statements, and a thread that is on its way in or out is ready and on no list;
  a loop's cursor is at some place of its list, with the thread before it
  (`PlaceIn`), which is what a removal from the middle rests on;
* `States`, what state the running thread has where, and `TypeOK`.

`WalkIsList` says that following the links of `r` gives `r`, so `r` and `q` are the
chains (`ChainsAreQueues`). `LongerList`, `ShorterList`, `RestOfList` and `BuryFacts`
say what a store to `next` makes of a list; with them there is one lemma per
statement (`FirstStep`, `AppendLinkStep`, ...), `InvStep` puts them together, and
`StepFifo` maps the two sequences to a step of `FifoQueues`. TLC has checked
`Inv(ReadyChain, TerminatedChain)` on the instance of the run.

`PageTableProofs` proves for every `Thread`, `Entries`, `Pool`, `Data`, `MapInput`,
`UnmapInput` and `MaxSpaces`, from `PageTablesAssumption` (frames are distinct, pages
have two indices) and under `CarefulUse`, which says where the code is right: no
switch in `vmm_create_page_table`, the pool within the identity-mapped frames, and
nobody unmaps a low page. Section 6 says what happens without the first two.

| Theorem | Statement, under `CarefulUse` |
| --- | --- |
| `LookupsAlwaysAgree` | `Spec => []LookupsAgree` |
| `NoTranslationOutlives` | `Spec => []NoStaleTranslation` |
| `TablesImplementMappings` | `Spec => ImplementsMappings`: Init is `Mappings`' Init, every step a step of it or none |

The argument: a store changes the walk of one page of one address space only if
its table is in no other directory and is no directory itself, and a new table or
directory is what nobody else walks through. So the invariant says what every
frame is used for:

* `CopiesAgree`: CR3, `current_address_space` and the running thread's process, and
  the directories' entries and `page_tables`;
* `LowPagesShared`: entry 0 of every directory is the identity table, so that the
  kernel's stores go where they are meant to (`ReachedSelf`, `NoFault`);
* `FramesOwned`: a frame is free, a directory, or one table of one address space;
* `CallsCurrent`: the table that a preempted `vmm_map_page` has looked up is still
  the one in the directory;
* `KernelPagesUnmapped`, `TlbCurrent` and `TypeOK`.

`Walks` says what the processor finds in such a state; `StoredWalks`,
`CreatedWalks` and `SpaceCreatedWalks` say what the three kinds of store make of it,
and both the preservation of `IInv` (`NextHolds`) and the refinement
(`StepImplements`) rest on them. TLC has checked `IInv` on the instance of the run.

`AtaProofs` proves `DriverImplementsSectors`, `Spec => ImplementsSectors`, from
`AtaAssumption` (an address fits into its digits, a text is as long as a sector)
and under `CarefulUse`: one caller, and drives that fail a write only before they
have taken its words. Section 6 says what happens without either. The invariant
`IInv` follows a call through the hardware:

* `QuietUnlessUsed`: only the selected drive moves data, for detection or for the
  call in progress; so nothing is left over from a call that ended;
* `Detects`: no call while detection goes on; a present drive has its own size;
* `CallAgrees`: what a call has achieved. The registers name its sector when the
  command is given; what was read and what the drive still holds make up the
  sector; what was written is what the drive has taken; once flushed, the sector
  is being stored or holds the text;
* `TypeOK`.

That the registers name the sector is `DigitsName`, which puts the four digits
together again; `MovedWord` and `SentWord` are about one word of a sector. There
is one lemma per action, for the invariant and the step of `Sectors` at once
(`NextHolds`). TLC has checked `IInv` on the instance of the run.

`ConsoleProofs` proves for every size of the buffer, the line and the screen, every
table of keys, prompt and set of replies, from `ConsoleAssumption`, `ScreenAssumption`
(the screen has two rows at least), `ScreenHoldsLine` (prompt and line leave a row
free), `TextAssumption` (prompt and replies are texts, the prompt on one line) and
`CommandLineAssumption`:

| Theorem | Statement |
| --- | --- |
| `RingIsFifo` | `Spec => BufferIsFifo` |
| `LineIsShown` | `Spec => []ScreenShowsLine` |
| `KeysAreKept` | a key that is pressed while there is room is put behind those that wait |
| `EchoSplitsLine` | `Spec => []EchoLosesNothing`, for lines of any length |
| `WordsAreKept` | `Spec => []WordsBecomeNames`, for lines of any length |

* *The ring.* The invariant is `RingOK`: head and tail are positions of the array, and
  what it holds are characters or the initial zero. `Wraps` and `Positions` compute with
  positions modulo `Size`; with them `PutStep` shows that a put appends to the sequence
  between tail and head, or drops the key when that is full, and `GetStep` that a get
  takes its first element.
* *The screen.* `Shows(s, text)`: the cursor of `s` is on the screen, the text ends in
  front of it and blanks follow. `CharShows`, `NewLineShows` and `EraseShows` say what
  `vga_putc` and `vga_backspace` make of it. A scroll moves text and cursor by the same
  row (`ScrolledUp`, `RowBelow`), and a text that leaves a row free loses nothing by it,
  which is where `ScreenHoldsLine` is needed. `WrittenStep` unfolds the loop of
  `terminal_write`, so a command may write what it likes (`WrittenReady`) and the prompt
  behind it is shown (`WrittenShows`). The invariant `LineOK` is `Shows` of the prompt
  and the typed characters; without the blanks behind the cursor, and without what is on
  the rest of the screen being left open, it would not be inductive.
* *The line.* `Echoed` is made of positions that loops stop at (`BeforeMark`,
  `TrimmedFacts`, `TextFacts`). `EchoedSplits` puts text, blanks, mark, blanks and name
  together again, piece by piece (`JoinedAgrees`), and finds the arguments it began with.
* *The names.* `WordsBecomeNames` counts the words of a line by where they begin, which
  no loop of the code does. A place in the line is `Outside` when no word goes on
  there; from such a place the loop finds the next word that begins (`NextStart`) and
  comes to another such place, one word further (`WordEnds`, `NextWord`). The
  arguments are a function defined by recursion (`ArgumentsIs`), and `Taken` is what
  holds of it after every round: the names are the words up to a place, and what is
  left is what is left of the line from there. `NameReadsBack` takes the name through
  its eleven characters and back. `CommandLineAssumption` says for this that only a
  blank has a blank as its upper case.

`HeapProofs` proves for every heap, header and alignment, every set of requests and
every `Live`, from `HeapAssumption` and under `CarefulUse`, which says that no switch
comes inside `kmalloc`:

| Theorem | Statement, under `CarefulUse` |
| --- | --- |
| `BlocksExclusive` | `Spec => []Exclusive` |
| `NoBlockLost` | `Spec => []BlocksFill` |
| `ChurnIsBounded` | `Spec => []ChurnBounded` |

The blocks are what the loop of `kmalloc` visits, which starts at 0 and goes from
block to block, so the first thing to know is what one store does to that walk.
`Visits` and `VisitsOnly` say that `Visited` is the least set with the first block
that is closed under `After`; `SameChain` that marking a block changes no step of
the walk, `LongerChain` that a new block at `heap_offset` is visited after the
others. The invariant `IInv` is

* `Chained`: the blocks follow each other and the last one ends at `heap_offset`;
* `HeldAgree`: a taken block is large enough and has exactly one holder;
* `CallsAgree`: one call at a time, and what its search has found is still so;
* `TypeOK`.

`ChurnBounded` needs `PeakAgrees` beside it: a size gets a new block only when
every block of that size is held, so there are as many holders.

`MemoryProofs` proves for every `Caller`, memory map, kernel, page size, number of
frames to a byte and `Index`, from `MemoryAssumption` and under `CarefulUse`: no
switch inside the allocator, a process to each thread, usable regions that are not
empty. Section 6 says what happens without the first two.

| Theorem | Statement, under `CarefulUse` |
| --- | --- |
| `FramesStayExclusive` | `Spec => []FramesExclusive` |
| `NoFrameLeaks` | `Spec => []FramesAccounted` |

The argument is about `Uses`, who has which frame and as what: every step of a
thread exchanges some of its uses for others (`UsesStep`), and as long as the new
ones have the frames of the old ones or a frame that nobody has, all frames stay
distinct (`Exchange`). That an allocated frame is one that nobody has needs the
bitmap; that a destroyed address space gives back exactly what it had is
`GivesBack`. `IInv` is

* `FramesUnique`, and `BitmapAgrees`: the bits set since boot are the frames in use,
  and a frame in use was free at boot, from which `FreeIsSpare` gets that no byte of
  the kernel is in it;
* `CallsAgree`: what a call has to free and what it allocates for go with where it
  is; one call at a time is inside, and what it has read of the bitmap is still so;
* `OwnSpaces`: a thread runs in an address space that exists, which nobody else is
  in, and the table it is about to create is still missing;
* `TypeOK`.

TLC has checked `IInv` of both modules, and `PeakAgrees`, on the instances of the runs.

`FilesProofs` proves for every volume, cluster size, set of names and set of texts,
from `VolumeAssumption`, `FilesAssumption` and `TextAssumption` (texts are sequences
of bytes, and the marks for "no file" and "nothing promised" are neither texts nor
entries), under `CarefulUse`: no fault hits a deletion. Section 6 says what one does.

| Theorem | Besides `CarefulUse` | Statement |
| --- | --- | --- |
| `ClustersAreOwned`, `BootIsUntouched` | | `Spec => []ChainsOwned`, `[]BootUntouched`, for any number of faults |
| `FilesReadBack` | `Accountable = FALSE` | `Spec => []ReadsBack`, for any number of faults |
| `ClustersAreKept` | `MaxFaults <= 1` | `Spec => NothingLost`, an action property |

`NothingLost` needs its hypothesis: with `MaxFaults` 2, TLC finds a call that is told of
a wrong end twice, once by `file_write_internal` and once by
`fat32_append_cluster`, which then writes its link over the middle of the chain; the
rest of the chain is lost and the call succeeds.

The argument has three layers.

* *Chains.* `Chain` follows a table for as many steps as the volume has clusters.
  In a table where no cluster leads to a free one and no two lead to the same one
  (`Sound`), a walk from a cluster that nothing leads to (`Starts`) meets no
  cluster twice (`Meet`), so it has ended by then (`Pigeons`, `ChainFromStart`), and
  two such walks have nothing in common (`ChainsApart`). `MarkedTable`,
  `LinkedTable` and `FreedTable` say what the three kinds of table write make of
  such a table, `ChainKept` and `ChainLinked` what they make of a chain.
* *The volume.* `VolumeInv` is not about what the files hold: `FilesSound`, every
  file's first cluster starts a chain, and no two files have the same; `CallSound`,
  the `file_t` and the directory entry agree, the current cluster is one of the
  file's, and the cluster that is being prepared belongs to nobody; `DeletionSound`,
  what is left of a chain that is being freed; `ToldTheTruth`, a call goes for a new
  cluster at the end of its chain or a fault has told it so; `TypeOK` and
  `BootUntouched`. It holds after every step, that is, whatever sector write fails
  and wherever the machine stops (`VolumeHolds`).
* *The contents.* `ContentsInv` relates the bytes on the disk to the history
  variable. A file that no call works on holds its text (`ContentsHeld`): a call
  writes to no cluster of another file, which is `LeavesAlone`. The call that works
  on it has put the first `pos` bytes of its text into the chain, and knows where
  the next one goes (`WritesGoal`, `GoalSound`); one fill adds the bytes that fit
  into the current cluster and disturbs none before them (`FillHolds`), which is
  division with remainder (`Place`, `PlaceIs`, `PlaceWithin`). `SeekSound` and
  `CopySound` say the same of an append that looks for the end and of a copy between
  two clusters. An excused call is left out of it, and a call that gives up promises
  nothing about its own file.

TLC has checked both invariants on the instance of the run, with two faults as well.

Most of these modules begin with lemmas about numbers. The library's induction theorems
cannot be used here, as they take a predicate; its theorem that the order of numbers is
well-founded can, and from it `Least` gets that a set of numbers has a least
element, `UpTo` the induction over numbers, and `Iterated` that a function may be
defined by recursion, which is how `Reached` in `Heap` is known to be what it says.

Only model-checked:

* the liveness properties: `EnqueuedRuns` and the like of `Scheduler`, `ReadyRuns` of
  `ThreadQueues`, `KeysAreRead` of `Console`, `CallReturns` of `Ata`. Liveness under
  fairness is out of TLAPS' reach;
* `KeyIsKept` of `Console`, as a statement with ENABLED. A key that is dropped changes
  nothing, so that no property of behaviours tells a dropped key from none;
  `KeysAreKept` proves what it says of the interrupt when it is served;
* everything in `Directories` and `DirectoryWrites`. `CwdAgrees` and `DotsAgree` rest on
  what folds over paths of any length find in a tree of any depth, and on which paths
  `Input` has; `EntriesOwn` needs the layers of `FilesProofs` over again, for chains that
  hold entries, and which entry owns which chain.

## 6. Where the code disagrees with its documents

Two runs end in a counterexample, each against a line of the repository:

* `FilesCopy`: `file_read` moves to the next cluster only when more bytes are
  wanted in the same call. `file_copy` reads cluster by cluster, so it reads the
  first cluster again and again; and `file_append` to a file that ends with a
  full cluster writes over its last cluster. Copies of files longer than a
  cluster are wrong, and so are appends at that boundary. The same walk to the
  end makes an append wrong when the file was longer before: `file_write` leaves
  it its clusters, and the append goes to the last of them
  (`Accountable = TRUE` in `Files`).
* `DirectoriesMove`: `file_resolve_destination` returns the cluster that the
  destination *directory's entry* is in. `mv B A/C` renames `B` to `C` where it
  is. With an absolute destination the parent path gets two slashes and the move
  fails.

Two more disagreements have no run of their own:

* `thread_yield` takes the next thread off the queue before it masks interrupts.
  If a tick comes there and another thread exits the yielding thread's process,
  the dequeued thread is on no queue and never runs (`Preempt <- InYield`:
  `EnqueuedRuns` fails).
* `directory_set_name` stores names in upper case, and
  `directory_find_in_cluster` compares them as they are typed. `touch a` enters
  `A` (`WordsBecomeNames` says so), and nothing finds `a`; a second `touch a`
  enters `A` again. For the same reason `echo x > a` creates a file and then
  cannot write to it.

More that the models show when a constant is changed, without a document to set
it against: the windows of section 2; `pmm_alloc_frame` interrupted between test
and mark gives a frame out twice (`Memory` with `AfterTest`), `kmalloc` likewise
(`Heap`, `"take"` and `"grow"`); two threads of one process that map the first
page of a region leak a page table (`Memory`, `Shared = TRUE`); a deletion that
fails half way leaves an entry with free clusters, and later calls can write to
the boot sector (`Files` with `AllFaults`); `rmdir` accepts the current
directory by its path, and `mv` moves directories without touching their `..`.

Of page tables (`MCPageTables`): `InCreate` lets another thread of the process in
before the new table is known; one of two tables is lost with what it maps, and a
stale translation stays. `HighPool` has frames above the identity-mapped first
4 MiB: the first call that clears a table there stops the machine.

Of the disk (`MCAta`): with `LateErrors` a drive fails when it has taken the
words; the flush command clears the error, and the write is reported as done.
With `TwoCallers` registers of two calls mix. On a channel whose lines `Float`
detection never ends.

Of directories (`MCDirectoryWrites`), the points of failure that the passing run
leaves out, each with what it breaks:

| Faults | Where | What happens | Breaks |
| --- | --- | --- | --- |
| `FreedFirst` | `rm`, `rmdir` while freeing, or at the deletion | the entry leads to free clusters, and then to those of others | all three |
| `FreedLinked` | a directory grows; the new cluster is linked and its mark or its zeros fail, or the link is reported as failed | `directory.c:252` frees the cluster, and it stays linked | all three |
| `EnteredLate` | `mkdir`, `mv`: the entry is written and reported as failed | `mkdir` frees the cluster of a directory that is entered; `mv` leaves two entries | all three |
| `MovedLate` | `mv`: the deletion is done and reported as failed | the new entry is deleted as well, and the file has no name | `NothingVanishes` |
| `MovedHalf` | `mv` is cut between its two entries | two entries own one chain | `EntriesOwn`, `OneNodeAtATime` |

## 7. What is left out, and what is assumed

* **Callers.** A thread is unblocked by one waker at a time, as the code's tests
  do it (`Unclaimed`); a thread is destroyed by its creator before it is
  enqueued. Pages are mapped in process address spaces only.
* **One console writer.** `Screen` has a single writer; in the kernel as shipped
  that is `kernel_main`.
* **Names.** `Directories` types names in the form they are stored (upper case);
  section 6 says what happens to others.
* **Careful use.** In `Directories`, directories are removed and renamed by plain
  names, and only files are moved between directories; section 6 says what
  happens otherwise. Long names and volume labels do not occur.
* **Files and faults.** The passing run has no fault in a deletion. `cat` shows the
  first 512 bytes only; it is not modelled. In `DirectoryWrites` only writes fail: a read that fails looks like a
  missing name or the end of a chain, which `Files` has.
* **Pages.** Nobody unmaps a low page (`vmm_unmap_page` would do it, in all address
  spaces at once). `paging_init` marks the pages of the
  kernel's code read-only, but never sets the processor's write protection, so
  that flags decide nothing the kernel does, and nothing in the model.
* **Disk.** Only `kernel_main` reads and writes, one call at a time, which is the
  first half of `Ata`'s `CarefulUse`; the second half is about the drives. The other
  channel has registers and drives of its own and is the same again.
* **Not modelled**: registers and stacks of a context switch, `fat32_detect` (it
  copies the geometry), boot and descriptor tables, exceptions and panics (they
  print and halt), the string library, sizes near 2^32, memory above 4 GiB, the
  second copy of the allocation table (it is never written or read), and what
  only prints: `ls`, `cat`, `about`, `uptime`. `fat32_allocate_cluster_chain`,
  `directory_remove` and `directory_rename` have no caller.
* The in-kernel tests are clients: they tell what is expected.

## 8. Plan

Done, in the order of importance: Scheduler with its proofs, ThreadQueues,
Files, Console, Heap, Memory, Directories; then PageTables, Ata, DirectoryWrites
and CommandLine. What would come next:

1. One module for directories and files, so that `rm` of a file with clusters, a
   directory that grows and an append compete for the last cluster.
2. Reads that fail in DirectoryWrites.
3. Two writers on the screen; the `hlt` loops and the tick counter.
4. Proofs: `EntriesOwn` of `DirectoryWrites`, with the chains of `FilesProofs`.
