# UMKa in TLA+

UMKa runs the KolibriOS kernel as an ordinary user process: the kernel's assembly
code is wrapped by `umka.asm`, and C programs around it (a shell, a whole system
with a display, a FUSE driver) call it, feed it disks and network frames, and
drive it from scripts. This directory specifies the parts of that C code whose
correctness depends on interleavings, on long sequences of commands or on state
that is kept across calls, checks them with TLC and proves the central results
with TLAPS.

## The system and its parts

| part | code | specified in |
|---|---|---|
| command slot between host threads and the kernel | `shell.c` (`shell_run_cmd`, `shell_run_cmd_sync`, `thread_cmd_runner`), `umka_os.c` (`umka_display`, `umka_monitor`, `main`) | `ShellCmd`, `CommandService` |
| asynchronous disk reads | `umkaio.c` | `UmkaIo`, `CommandService`; writes in `VDisk` |
| qcow2 images | `vdisk/qcow2.c` | `Qcow2` (lookup and cache), `VDisk` (initialisation, geometry, release) |
| shell variables | `shell.c` (`shell_var_*`, `shell_parse_*`, `cmd_var`) | `ShellVars`, `ShellDict` |
| shell session: lines, words, handlers, prompt, help | `shell.c` (`run_test`, `split_args`, `prompt`, `cmd_*`) | `ShellSession`, `ShellCommands` |
| raw disks, choice of the disk driver, `disk_add`, `disk_del` | `vdisk.c`, `vdisk/raw.c`, `shell.c` | `VDisk` |
| virtual network cards | `vnet.c`, `vnet/`, `linux/vnet/tap.c`, `umka_os.c` (`hw_int`) | `Vnet` |
| kernel threads, timer interrupt, system calls as signals, waiting commands | `umka.asm`, `umka_os.c`, `linux/thread.c`, `shell.c` | `Scheduler` |
| coverage tracing and its report | `trace_lbr.c`, `trace.h`, `umka.asm`, `tools/covpreproc.c` | `Coverage` |
| test runner | `runtests.c` | `RunTests` (POSIX variant) |
| everything else | | see *Not modelled* |

Kernel threads all run on one host thread and are preempted by the timer signal.
Beside it run the host threads: the monitor (reads commands from a terminal), the
display (turns SDL events into commands) and `thread_io` (performs reads). A
kernel thread waits by giving the scheduler a test function, which the scheduler
calls until it returns nonzero (`kos_wait_events`). `umka->running` is `NEVER` in
`umka_shell`, and goes from `NOT_YET` to `YES` once in `umka_os`.

## Modules

**`ShellCmd`.** State: the slot `umka_cmd_buf[0]` (`status`, `cmd`), `running`, the
mutex and the wait set of `cmd_done`, a control state per caller and one for
`cmd_runner`. A command's type and arguments are a ticket, the n-th command of a
caller. Every atomic access, the wait, the signal and the execution are steps of
their own. `Fill` is the writing of type and arguments by a command handler or the
display; `StoreReady`, `LoadRunning`, `CondWait`, `Relock` are `shell_run_cmd`;
`SpuriousReturn` is a `pthread_cond_wait` that returns without a signal;
`SyncExecute`, `SyncDone`, `SyncSignal` are `shell_run_cmd_sync` in the caller,
`RunnerExecute`, `RunnerDone`, `RunnerSignal` the same code in `cmd_runner`;
`ClearCmd` is `shell_clear_cmd`; `Enter` is the lock `run_test` takes; `SwitchOn` is
the store of `UMKA_RUNNING_YES`. The history variables count READY stores, passes
and wakeups, remember callers that were signalled between READY and their wait
(`missed`), whether the switch caught a caller executing its command itself
(`raced`) and whether a wait returned without a signal (`spurious`).

**`CommandService`** is what the slot, and the request buffer of `UmkaIo`, promise
a thread: between call and return its command is executed exactly once. Its variable
`execs` counts the executions of every command ever issued; the refinements map it to
the counts `runs` and `reads` of the detailed modules, so that a second execution, in the
call or long after it, is no step of the service.

**`UmkaIo`.** State: the buffer `iot_cmd_buf[0]`, its mutex, a control state per
reader and one for `thread_io`. The result of a read shares memory with the
descriptor of the request (a C union), so one variable, `word0`, holds either.
`ReadNow` is `io_read` before the system runs; the other actions of a reader are
the statements of `io_async_read` and the two test functions the scheduler calls;
`IoInitStatus`, `IoInitMutex`, `IoWait`, `IoRead`, `IoStoreRet`, `IoDone` are `thread_io`,
and `IoSpurious` a return of its wait without a signal, after which it reads whatever the
buffer holds: its wait, too, has no loop around it.

**`Qcow2`.** State: `prev_cluster_index`, the contents of the cluster buffer and, per
reader, where it is in `qcow2_read_guest_sector`. A sector stands for its cluster;
contents are compared, not computed. `Hit`, `Miss`, `ReadL2`, `Load` and `Copy` are the
paths of the function, `ReadL2Fails` and `LoadFails` what it does when `io_read`
returns 0 or -1. The image is the constant `Kind`.

**`ShellVars`** keeps the list `ctx->var` as a sequence, oldest first; `ShellDict` is
the dictionary a script's author has in mind.

**`ShellCommands`** gives, for each of the 136 commands of `cmd_cmds`, the numbers of
words its guard accepts, the numbers its usage text documents and the paths through its
body, as rows of a table (`Table`), which a line's first word selects from (`Handlers`). A
path is the words it uses and the steps it takes: `fopen` with or without success, use and
`fclose` of the file, `malloc`, `free` or memory left to the kernel, a kernel call inside or
outside `COVERAGE_ON` and `COVERAGE_OFF`, an assignment to a kernel variable, `shell_run_cmd` and
the store of EMPTY after it, in the order of the code. Most handlers check the number of
words, convert them, call the kernel once and print (`Each`); the others share some twenty
sets of paths (`Lends`, `Images`, `Disks`, ...). What decides between paths (values of words,
options, answers of host and kernel) is a choice; conversions of words and what is
printed are left out, a loop of calls is one step, and `malloc` does not fail.
**`ShellSession`** is the loop of `run_test` on a script: the array `argv`,
allocated once, the prompt, `help`, the effect of the commands that change the
current directory, and what the paths of the handlers leave behind: files that stay open,
up to `MaxFiles`, from which on `fopen` fails, and the status of the slot.

**`RunTests`** is `runtests`: worker threads that share one directory stream, the child
process and the helper thread of each. `Lock`, `Readdir`, `Unlock`, `Valid`, `Check` are
`thread_run_test`, `Fork` to `Join` are `run_test`, `Reap` and `Signal` are `thread_wait`.
`slot[w]` is the pointer `dent`, and `Name(w)` reads through it each time the code does,
so a refill of the buffer changes the name. `Exit` is a child that ends by itself;
`Stray` is one whose `exec` failed and that returned into the loop of its parent's code,
sharing the file offset.

**`Scheduler`** is the main host thread of `umka_os`. `cur` is `current_slot`; each
thread has a place, the test it waits for and the frame it left when it was
switched out, in which an interrupted thread keeps the signal mask it returns to.
`Tick`, `ResetProcmask`, `IrqCli`, `IrqSchedule` and `Iret` are `irq0`, `NestedTick` a tick
inside it, which finds the flag off; `int40` and `SigReturn` are `handle_i40`; `IdleSti` and
`IdleMark` are the idle thread; `EarlyCommand` to `JmpOsloop` are `main`, in its order. The
kernel's choice of the next thread (`find_next_task`) is external: by priority, among
the threads whose test is true.

**`Coverage`** executes a small program (`Kind`, `Target`) that stands for the kernel,
under a shell that sets TF around its calls and drivers that switch it as theirs do.
`CallBare` is a call without the pair, as `umka_boot`, `get_key`, `new_sys_thread`, `stat70` and
`acpi_get_node_cnt` make one (`shell.c:461`, 927, 1181, 2786, 2955): it is not traced.
`handle_sigtrap` counts both ends of each branch taken with TF set; `Sum`, `cur`, `taken`
and `not_taken` are the report of `covpreproc`. `visits`, `jumps` and `traced` record
what really happened: in calls between `COVERAGE_ON` and `COVERAGE_OFF`, and with TF set.

**`Vnet`** has `main` adding cards, and a monitor thread per card that reads a frame,
raises the interrupt and then executes, in its own thread, the handler the kernel calls
first. The n-th frame of card d is `<<d, n>>`; a frame read in part is `Torn`. `own`
records what became of the interrupts a card raised and handled itself. `InitFails` is
an initialisation that returns NULL, and `AddNull` what follows: `net_add_device` gives the
address of a member of that card to the kernel, which is free to fault. The descriptors of
the cards are left out.

**`VDisk`** has descriptors, memory and images as they are seen by `disk_add` and
`disk_del`, the three ways a file name selects a driver, each place where
`vdisk_init_qcow2` gives up, and calls of the raw driver in two steps, `lseek` and
`io_read`, between which another thread may come in the running system. Sizes, masks
and indices of qcow2 are computed as in the code. `open` returns the lowest descriptor that is
free (`NewFd`). An `io_read` of the header that returns -1 is taken for success, as in the
code, and any header is found on the stack (`ReadHeader`). A disk is deleted only when no call
is under way: the kernel counts references.

`MC*` modules give constants their values, `*_proofs` modules hold the proofs. `Qcow2` and
`ShellVars`, which share a proof module with `VDisk` and `ShellSession`, name their
specifications `CacheSpec` and `VarsSpec`.
Definitions marked "Faulty" are variants of the definition that follows them, each
with one mistake; every checked property is violated when some variant takes the
place of the original.

## Runs

| run | configuration | result |
|---|---|---|
| `command_slot` | `ShellCmd.cfg`: the monitor alone (3 commands), and monitor and display together (2+1, 1+2), from each run state, waits that return without a signal, with fairness | all properties hold |
| `async_read` | `UmkaIo.cfg`: one reader (3 reads), two readers (2+1), up to two returns of `thread_io`'s wait without a signal, with fairness | all properties hold |
| `async_read_shared_buffer` | `UmkaIoEmptyAtFill.cfg`: no such returns | violated: two readers share the buffer |
| `qcow2_cache` | `Qcow2Mixed.cfg`: a cluster of every kind, all I/O failures | all properties hold |
| `qcow2_unallocated` | `Qcow2Guest.cfg`: no I/O failures | violated: clusters without data |
| `shell_variables` | `ShellVars.cfg` | all properties hold |
| `session` | `Session.cfg`: all commands, lines of 1 to 6 and of 8 words, three directories, two files | all properties hold |
| `test_runner` | `RunTests.cfg`: two threads, two tests and another entry, buffers of two and three entries, with fairness | all properties hold |
| `scheduler` | `Scheduler.cfg`: main, idle, `cmd_runner`, two applications, the board thread, two commands, with fairness | all properties hold |
| `coverage` | `Coverage.cfg`: two sessions of two commands, three entries, one of them also called untraced | all properties hold |
| `network` | `Vnet.cfg`: two cards of any type, two reads each, one failed allocation, with fairness | all properties hold |
| `disks` | `VDisk.cfg`: seven files, two `disk_add`, two calls by two threads | all properties hold |

What the passing runs show:

* *Command slot.* However many callers overwrite each other, and whatever waits return
  without a signal, `cmd_runner` makes at most one pass per READY store and, unless the
  switch caught a command, ends at most one wait per pass (`PassesMatchCommands`). Until a wait of it
  returns without a signal or the switch catches a command, a single caller is served
  exactly once between call and return (`ImplementsService`); it resumes unless its signal
  came between its READY store and its wait (`WaiterResumes`). Neither the switch of the run
  state nor returns without a signal make a command of it be executed more than twice (`AtMostTwice`).
* *Asynchronous reads.* As long as `thread_io`'s wait returns for signals only, a single
  reader gets the result of its own request, read exactly once, into a buffer that is
  touched only while it waits (`OwnResult`, `BufferOwned`, `ImplementsService`), whether
  `thread_io` is initialised in time or late; in time, `thread_io` finds the status its
  comment demands (`ReadyAtWake`). One return without a signal is enough to break each of
  these, which is why they name that condition; that a read returns unless its signal is
  lost holds without it (`ReadReturns`). With two readers only the count of
  `ReadsMatchReturns` is left, which is proved.
* *qcow2.* Stored clusters are delivered as stored, also around failing reads of other
  clusters, and the first lookup of any cluster that is not a hole is right.
* *Variables.* The list is a dictionary plus one value waiting for a name; no
  command changes or loses a named value.
* *Session.* `argv` always has a NULL between the words of a line and what older lines
  left behind, handlers use only words of their own line and `help` only
  prints usages (`UsesOwnWords`), and lines a usage text documents are accepted
  (`DocumentedAccepted`), but for the commands the properties name: seven that `help`
  executes, although its text says "help on this command usage"; `i40`, whose omitted
  registers are read from slots beyond the NULL; `exec` and `set_keyboard_layout`, whose
  guards let lines through that have too few words; and some usage texts that say less or
  more than the guard. The prompt shows the kernel's directory unless the script
  switched threads since its last `cd` (`PromptShowsCwd`). Handlers give back what they take
  (`GivesBack`): after every line the command slot is empty, no freed memory reaches the
  kernel, memory is left only by `bg_put_img` and by a `disk_add` the kernel refuses, and a file
  only by `ramdisk_init` when it refuses an image. When the files have run out that way, or
  there is no such file, `put_image`, `put_image_palette` and `bg_put_img` use what `fopen`
  returned, and they alone.
* *Test runner.* A verdict is earned however end, deadline, kill and signal race
  (`OkIsEarned`; the output is right if the child could be executed and the directory fits
  the buffer of the stream), each test is run once, under its own name, and none is left out,
  as long as the directory fits the buffer (`RunOnce`, `AllReported`). When the output
  of a test is compared, nobody writes it any more, however the wait for it ended
  (`OutputSettled`). The runner ends although tests may not, unless
  a wait returns without cause (`Ends`). `is_valid_test` is modelled as it is: it tests one
  digit three times, where its comment says "t\d\d\d".
* *Kernel threads.* The timer stays alive and no system call dies, whichever thread's
  frame a switch returns to (`TimerNotLost`, `SyscallsTaken`; the second needs
  `SA_NODEFER`). `wait_for_idle` and `wait_for_os_idle` return only after a moment in which no
  other thread could run (`IdleIsQuiet`). They and `csleep` do return in the running system
  (`WaitsReturn`), `wait_for_os_idle` if there is something for `osloop` to do. Without a waiting command in the startup script the system
  never stands still (`StandsStillOnlyEarly`).
* *Coverage.* The branch table accounts for the flow of control (`FlowConserved`), so the
  report computed from branches alone is right between commands about what was called
  between `COVERAGE_ON` and `COVERAGE_OFF` (`CountsRight`), and leaves out the calls made without
  them. The former is traced and the latter not until a network driver is reset or unloaded, whose functions switch
  tracing in the reverse order (`KernelTraced`).
* *Network.* With two cards the threads copy each other's buffers, also while they are
  being read. What survives: the frames the first card announces itself arrive whole,
  once and in order (`OwnDeliveries`). With a single card `input_processed` is a faithful
  mark (`ProcessedIsHandedOver`), so the wait on it that is commented out would hang only
  after a failed allocation. The process faults only on a length that is no length, which
  takes a failed read or a second card, or on a card that could not be initialised
  (`FaultsExplained`); otherwise every interrupt ends (`InterruptsEnd`).
* *Disks.* Reads of a thread that is alone in the driver of a disk deliver the sectors
  asked for (`RightSectors`), no write ever reaches an image (`ImageIntact`), every
  descriptor and every block belongs to a disk, through refusals, deletions and failed
  initialisations, except the raw driver's without memory (`Accounted`), and in accepted qcow2 images the bytes of a sector
  are found in its cluster, and its cluster in the L1 table if that is as long as the size
  demands (`GeometryRight`), except when a file name asks for sectors larger than its
  clusters.

The violated properties are what a comment and a script of the repository state:
"status must be empty" (`umkaio.c`), and the images of `img/gen.sh` reading as the disks
they were converted from.

### Bounds

Commands and reads per thread are bounded by `Quotas`: three for a lone thread, so
that a stale value of the first can meet the third; two and one for a pair, which
is enough for a thread to overtake another and come back. Two returns of `thread_io`'s wait
without a signal (`MaxSpurious`) let one precede and one follow a request. Variables: lists of
`MaxVars` entries, two names, so that a name is hidden and found again. `argv` has eight
slots instead of 43 in the `session` run, and lines as long as, and longer than, the
array occur; the handlers may have two files open (`MaxFiles`), so that one is left and then
none. Seven handlers need more words than that (`put_image_palette`, `button`,
`set_window_colors`, `write_text`, `draw_window`, `display_number`, `blit_bitmap`), and so do the
codes of `set_keyboard_layout`: in the run the former only answer with their usage. The proofs
have no such bound. The test runner has a directory that fits the buffer and one that needs a
refill. `Scheduler`: two applications that call by signal, so that one handler is
unfinished when the other calls, a thread that calls the kernel directly, two commands,
one tick of sleep. `Coverage`: a program with a loop, a call, two driver calls, a function that is also called untraced, code on
both sides of `set_eflags_tf`, and two commands in each of two sessions, so that what one
leaves behind meets the next. `Vnet`: a second card, with which interference starts, and
two reads, so that a stale length meets a new frame; `OwnDeliveries` is proved for any
number. `VDisk`: files of every driver, sound and unsound; two additions, so that a
descriptor is reused, and two calls, so that they interleave. The symmetry of threads is
not used.

### Fairness

`cmd_runner` and the readers are scheduled again and again: the timer interrupts
whatever runs, and the scheduler calls the test of every waiting thread. Host
threads are scheduled by the host. So every step of these threads is weakly fair,
except starting a new command or read, which nobody is forced to do, and returns of
waits without a signal, which nobody can count on. Nothing
stronger is assumed there. In `Scheduler` the steps of the processor are strongly fair:
the timer interrupts them every 10 ms, but the interrupted thread executes between
ticks; ticks and the steps of `irq0` are weakly fair. In `Vnet` the monitors are fair, main
is not obliged to add cards. In `RunTests` the threads are fair and deadlines pass; the children
are not, a test may run for ever. Deadlock is not checked: a session ends, and callers stop.

## Proofs

| module | theorems |
|---|---|
| `ShellCmd_proofs` | `TypeCorrect`, `PassesCorrect`, `ResumedCorrect`, `SlotStableCorrect`, `HangsCorrect`, `TwiceCorrect`, `ServiceCorrect` |
| `UmkaIo_proofs` | `TypeCorrect`, `ReadsCorrect`, `OwnResultCorrect`, `BufferCorrect`, `HangsCorrect`, `EmptyCorrect`, `ReadyCorrect`, `ServiceCorrect` |
| `Disk_proofs` (`VDisk`) | `DiskTypesCorrect`, `SectorsCorrect`, `ImageCorrect`, `AccountCorrect`, `GeometryCorrect` |
| `Disk_proofs` (`Qcow2`) | `CacheTypesCorrect`, `CacheCorrect`, `BackedCorrect`, `LookupsCorrect` |
| `Shell_proofs` (`ShellVars`) | `VarsTypesCorrect`, `UnnamedCorrect`, `NamedStayCorrect`, `DictCorrect` |
| `Shell_proofs` (`ShellSession`) | `SessionTypesCorrect`, `OwnWordsCorrect`, `DocumentedCorrect`, `GivesBackCorrect`, `PromptCorrect` |
| `Scheduler_proofs` | `TypeCorrect`, `TimerCorrect`, `SyscallsCorrect`, `IdleCorrect`, `StandsStillCorrect` |
| `Coverage_proofs` | `TypeCorrect`, `FlowCorrect`, `CountsCorrect`, `TracedCorrect` |
| `RunTests_proofs` | `TypeCorrect`, `OkCorrect`, `RunOnceCorrect`, `AllReportedCorrect`, `SettledCorrect` |
| `Vnet_proofs` | `TypeCorrect`, `OwnDeliveriesCorrect`, `ProcessedCorrect`, `FaultsCorrect` |

Every safety property of the passing runs is proved. The theorems hold for any set of threads, any quotas and any starting run states, from the
assumptions named in the modules (the bounds are natural numbers, quotas respect
them); for any image and any failures; for any names, values and lengths of the
list of variables (`Unnamed` is not a name, `None` not a value); for any set of
applications; for any program whose control does not fall into `set_eflags_tf` or off the
end of the code (`ProgramAssumption`); for any threads, any directory that is not empty and
any size of its buffer; for any number of cards, reads and failed allocations; for any
files, sizes and image headers whose fields are natural numbers (`HeaderAssumption`), sectors
of 512, 2048 or 4096 bytes and any number of disks and callers; and for any script of the
commands of `cmd_cmds`, any directories that include the root, an `argv` of three slots or
more and any limit on open files.

`PassesMatchCommands` is not inductive: it needs that a READY slot which `cmd_runner`
has not tested yet is a store without a pass, and a runner past its test a pass
without a wakeup (`Counting`), and that nobody waits before the system runs and
nobody executes commands itself afterwards unless the switch caught it (`Phases`).
The single-caller theorems rest on `View`, which lists for every control state of the
caller what the slot, the runner and the execution count can be; `View` of the other
callers is empty because they issue no commands (`Places`). It holds up to the first return
without a signal and the first command the switch catches (`Alone`); `HangsOnlyIfMissed` survives both
(`Heard`). The refinement theorems follow: only `StoreReady`, the executions and `ClearCmd`
change a caller's phase, and `View` says that an execution finds the command unexecuted and
in its call, so that it is the step of the service that executes it.
`UmkaIo_proofs` has the same shape. `AtMostTwice` needs a budget: what a command has been
executed, and what the caller, the runner and a READY slot still owe it, is at most two
(`Budget`). The budget counts executions still to come from the pass under way, from a READY
slot and from the caller (`Owed`), so that it also holds after returns without a signal. `ReadyAtWake` needs that a `thread_io` initialised in time is woken only by the
signal of a request it has not served (`InTime`).

`CacheCoherent` speaks of the moments between two calls. Inside a call the index is
ahead of the buffer, so `Lookup` says for each point of the function what its locals and
the buffer are known to hold. `DictCorrect` needs that the walk of `shell_var_get` has a
first match: that a finite set of numbers has a maximum cannot be proved here by
induction, so `Found` carries it through the commands as part of the invariant.

`TimerNotLost` and `SyscallsTaken` follow from `Unblocked`: every frame left on a stack
returns to an empty mask. The other two theorems about kernel threads need to know who
can run before the timer does (`Begun`) and how far the waiting command is, with what has
happened since (`Running`). `FlowConserved` is inductive together with where TF is set
(`Tracing`) and where return addresses are (`Places`). `CountsRight` adds what the branches
from a conditional jump stand for (`Jumped`) and that nothing falls through a negative number
of times (`Falls`); the column `cur`, a recursive function of the address, is then shown to be
the number of executions by looking at the first address at which it would not be.

In `RunTests_proofs`, `Control` ties the states of a worker, its child and its helper;
`Handout` says that the stream hands out each entry once, which is where the refill is
excluded (`Fits`); `Verdicts` that an output is written by its own child only, from which
`OutputSettled` follows, since that child is gone when its worker has joined its helper; and
`Complete` that an entry handed out is worked on or reported. In `Vnet_proofs`, `Setup`
fixes the order of initialisation, by which a monitor runs only after its handler is
attached; `Held` what a monitor has of its last read; `First` what the interrupts of the
first card carry from `bufin` to the kernel, step by step; and `Alone` how
`input_processed` follows; `FaultsExplained` needs that a read which returned -1 is
remembered (`Remembered`). The first handler never changes (`FirstHandler`), which is why
the first card is spared.

Of the disks, `Accounted` is close to inductive: it needs that no two disks have the same
number and that each is what `vdisk_init` makes of its file (`Numbered`). With it, a position
moves only under calls on its own disk, and `Calling` says that a call which is still alone
finds its descriptor where its `lseek` left it; `RightSectors` and `ImageIntact` follow.
`GeometryRight` is arithmetic: masks and divisions are compared for each of the 13 cluster
sizes that `vdisk_init_qcow2` accepts and each sector size (`FitsEach`), for any size of the
image and any sector. That the L1 table has entries enough for the size is not checked by the
code, so the theorem and the run suppose it (`Covers`) where they say that a lookup stays
inside the table.

Of a session, `UsesOwnWords` and `DocumentedAccepted` rest on the table of the handlers: `Good`
says how the word counts a guard lets through, the words used and the documented counts fit
together, with the exceptions the properties name, and `TableSane` shows it of every row of
`cmd_cmds`. What `split_args` leaves in `argv` (`SplitIs`) turns this into what a handler meets
(`CalledIs`). `GivesBack` is shown path by path: all but a few leave no file open and no memory
allocated, use no file that is not open and clear the slot they used (`Clean`, in `ShortClean` and
`LongClean`). The others leave a file open only if it was refused, or use one that is not there
(`OtherPaths`), and `TidyFor`, part of `Good`, says which handlers have them. `PromptShowsCwd` needs that between prompts the copy of the directory follows the
kernel's, and that both are the root before the kernel is booted (`Following`).

Left to TLC: the liveness properties `WaiterResumes`, `ReadReturns`, `Ends`, `WaitsReturn` and
`InterruptsEnd`, since liveness under fairness is out of the prover's reach. Properties that are proved
and not run (`ResumedServed`, `SlotStable`, `HangsOnlyIfMissed`, `EmptyAtFillAlone`,
`ReadsMatchReturns`, `OnlyHeadUnnamed` and some type invariants) are steps towards those that
are.

## Not modelled

* The KolibriOS kernel, which is not part of the repository. Where the code calls it, the
  models have what the code relies on, as external definitions.
* The display's use of `cmd_mutex` without locking it
  is in the two-caller instance of `ShellCmd`, and there only the counts hold. That a
  key event leaves the scancode of an older command in the slot is not expressed,
  since a command's arguments are a ticket.
* Two threads inside the qcow2 driver of one disk: nothing about contents holds then.
* In the test runner: a `fork` that fails, the directory streams that
  `check_test_artefacts` leaves open, and the Windows variant.
* What the L1 table of a qcow2 image holds when its `io_read` returns -1, which
  `vdisk_init_qcow2` takes for success: `Qcow2` starts from the table of the image.
* In the shell's handlers: a `malloc` that fails, the values words are converted to, except
  where they go to a variable (`ShellVars`), and everything printed.
* `vdisk_adjust_cache_size`, except for its tracing; the transmit functions of the network
  drivers and the descriptors of the cards; a file that is opened as descriptor 0.
* Of directory listing (`ls_range`, `ls_all`) all but the calls it makes and the memory it
  uses: local loops and formatting. `umka_fuse.c`: one call of the kernel per callback, without state.
* `umkart.c` but for the file `write_devices_dat` writes, PCI, the generators under `tools/` and the device table: sequential I/O. The
  stubs of system calls in `umka.h` and `umka.asm` move registers.
