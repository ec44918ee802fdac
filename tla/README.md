# TLA+ models of the Unity-on-Switch runtime

The program (`src/`) is a C runtime that loads an Android Unity game's shared
objects on a Nintendo Switch and gives them the Android and Linux services they
call: memory mapping, pipes, threads, locks, futexes, files, audio, input, a
looper, an installer for the game's files. The game ("the guest") is a
multi-threaded program we do not have; every service must be right for whatever
its threads call, in whatever order. This directory holds TLA+ models of those
services, what TLC checks of them, and what TLAPS proves.

## 1. Inventory

Each part, the state it keeps, its operations, its neighbours, what is hard about
it and what makes it correct.

| Part (source) | State | Operations | Hard behaviour | Correct when |
|---|---|---|---|---|
| mmap arena (`bionic.c` 119-431) | mask of 64 MiB slots, 256 mapping records, byte count, heap blocks | `bionic_mmap`, `bionic_munmap` | three critical sections per mmap; partial unmaps; windows larger than their backing; full tables | no slot leaks or is shared; the record an unmap changes is the one of the mapping named; the byte count is exact |
| emulated pipes (`fakefd.c`) | 48 descriptors, reference-counted ring buffers, one lock, one condition variable | pipe, read, write, close, dup, dup2, fcntl, readiness | sleeping calls whose descriptor or pipe goes away; dup2 in three sections; wrap-around | FIFO bytes, exact counts, no lost wake-up, no use of a freed pipe |
| poll/select (`imports.c` 392-490) | none | `nx_poll`, `nx_select` sample `fakefd_ready` | sampling may miss a level | a lasting readiness is reported |
| sync slots (`bionic.c` 18-116, 672-907, 1518-1599) | 2048 slots keyed by guest address: mutex, condvar, owner, depth, count | mutex, rwlock, cond, sem, once | recursion bridge in cond wait; cooperative 16 ms timeouts; destroy and re-creation | mutual exclusion; the mutex is held with its old depth after a wait; no lost signal |
| futex (`bionic.c` 449-609) | 4096 per-address slots with waiter counts | wait, wake | timed-out waiter still counted; slots never released | no wake lost for ever; counts exact |
| guest threads (`bionic.c` 916-1236, 1350) | list of thread objects | create, join, detach, exit, reap, TLS keys | join/detach/reap races; use after free | each object is closed and freed once, after its thread ended |
| stop-the-world (`bionic.c` 1353-1510) | 64 pause records | suspend, restart | a paused thread may hold a slot lock the suspender needs | the collector makes progress |
| file bridge (`file_bridge.c`) | positioned-I/O table by descriptor, UnityCache tables | open, close, dup, pread, pwrite | host close and table update are not atomic; handles used after the unlock | the table describes the open file |
| installer (`installer.c`, `credits_patch.c`) | files on the SD card, marker files | prepare, extract, mark, patch | power loss between remove and rename | after any crash the next start repairs or proceeds with complete files |
| audio (`aaudio_bridge.c`) | streams, owner of audout, output thread | open, start, stop, close, wait | unsynchronised state fields shared with the output thread | legal state order; audout has at most one owner; no use after close |
| input (`input.c`) | touch, cursor, docking state | `input_feed` once per frame | mode changes while something is pressed | downs and ups alternate for the guest |
| looper, choreographer (`android_ndk.c`) | 16 loopers with 16 registrations, 32 callbacks | poll, wake, add, remove, acquire, release | callbacks outside the lock; lifetime of the loop | no event or wake is lost |
| boot, heap partition, loader, patches (`main.c`, `runtime.c`, `so_util.c`, `unity_patches.c`) | heap bounds, module states, patched words | start | every step can fail; groups of patches belong together | partition in order, disjoint; nothing runs before what it needs is complete |
| session clock (`unity_patches.c` 13-120, `main.c`) | last tick, pause flag, stop flag | time hook of the main thread, helper thread | two threads move one clock | game time never goes back; each callback runs once |
| GL wrappers of the developer build (`imports.c` 735-1600) | one out-of-memory mark, reclaim fence and counters | every GL call | state shared by all threads without order; retries | no failed call looks like a good one |
| JNI stand-ins, guest stacks, logging | see `PROJECT.json` | | sequential, assembly or I/O | |

Interactions: every guest call enters through `imports.c`. `bionic_mmap` reads
files through the file bridge. The looper, poll and select read pipe readiness. Audio's
output thread is a guest thread (`bionic_pthread_create`/`join`). Stop-the-world
uses the semaphores. Everything shares threads, so all calls interleave.

Every hazard this list leads to is in `PROJECT.json` ("hazards"), at its line,
with the properties that would catch it.

## 2. Plan

Order: the memory arena and the pipes first, which have the most intricate state;
then the parts every guest thread uses (threads, mutexes) and the two that keep
state across failures (installer, audio); then stop-the-world, futexes, the
descriptor table, the waits, the session with its clock, input, the boot.

| Module | Models | Composes / abstract specification | Checked by | Proved about in |
|---|---|---|---|---|
| `MmapArena` | mmap arena | implements `AddressSpace` | mmap_* | `MmapArenaProofs` |
| `FakeFd`, `MCFakeFd` | emulated pipes | implements `PipeChannels` | pipes, pipe_hangup | `FakeFdProofs` |
| `AAudioStream` | audio streams, output thread, audout | | aaudio | `AAudioProofs` |
| `Installer` | install, caches, data patch, marker, with crashes | | install* | `LauncherProofs` |
| `SyncSlots`, `SyncMutex` | slot table; mutexes, rwlocks, condition variables on it | `SyncMutex` extends `SyncSlots` | guest_sync | `SyncMutexProofs` |
| `Futex` | futex slots, wait, wake | | guest_sync | `GuestSyncProofs` |
| `GuestThreads` | create, join, detach, exit, reap | | guest_sync | `GuestSyncProofs` |
| `StopWorld` | semaphores; suspend and restart over them | the collector uses the semaphores | stop_world | `StopWorldProofs` |
| `FdTable`, `MCFdTable` | file bridge's tables against the host's | | descriptors | `FdTableProofs` |
| `Waiting` | looper, poll, select | | frame | `LauncherProofs` |
| `FrameClock` | frame loop, helper thread, choreographer | all three on one clock | frame | `LauncherProofs` |
| `PointerInput` | `input_feed` | | frame | `LauncherProofs` |
| `GfxReclaim` | GL wrappers of the developer build | | frame | `LauncherProofs` |
| `Boot` | heap partition, loader, patches, `main` | | frame | `LauncherProofs` |

`MCGuestSync` and `MCFrame` check parts that share no state side by side: the
variable `subject` chooses one when the behaviour begins, the others rest in an
initial state. A property of a part then speaks of the behaviours of that part, and
the states add up rather than multiply. To make that possible the parts that are
extended together have disjoint names (`ThreadsInit`, `WaitInit`, `BootInit`, ...).
The proofs are arranged in the same way: `GuestSyncProofs` and `LauncherProofs` each
hold the theorems of several parts that share no state.

Left of the plan: TLS keys.

## 3. The mmap arena

`MmapArena.tla`. Addresses are integers counted in *units* (4 KiB pages in the
code); a *region* (64 MiB slot) is `R` units. The newlib heap lies below the
arena with a gap, as `runtime.c` partitions it.

| Variable | Code |
|---|---|
| `used` | `g_unity_arena_used` (as the set of its bits) |
| `mmaps` | `g_mmaps` |
| `backing` | `g_mmap_backing_bytes` |
| `heap` | blocks handed out by `memalign` |
| `pc`, `req` | position of each thread in `bionic_mmap`/`bionic_munmap`, with its locals |
| `held` | what the guest holds (its own view, not a C variable) |

One action per critical section: `MmapTake` / `MmapNoRun` (first section),
`MmapAlloc` / `MmapNoMemory` (memalign), `MmapFileError`, `MmapRecord` /
`MmapNoRecord` (second section), `MmapUndo` (third), `Munmap` (the one section of
`bionic_munmap`), `MunmapFree` (`free` after its unlock). The request kinds are
the sizes the code tells apart: `window` (0x07fff000), `direct` (64 MiB),
`aligned256` (0x13fff000), `small` and `file`.

The guest is an environment: it unmaps ranges of what it holds, by heads and
tails. `Guest` says which: `any` head or tail cut, only whole mappings and the
tail after the kept regions (`tails`), or that tail in its very next call
(`prompt`).

Runs:

- **mmap_windows** (2 threads, 3 slots, 3 records, R = 3, all Unity sizes):
  `ArenaExact`, every set bit is explained by exactly one record or one
  mmap in flight; `BackingExact`, the byte count is the sum over the records;
  `UnmapKeepsMatch`, a step from a state whose records mirror the guest and do
  not overlap keeps them so.
- **mmap_covered** (2 threads, 3 slots, 2 records, R = 3, no `window` requests,
  any cuts): `RecordsMatchGuest`, no record outlives its mapping and no mapping
  loses its record; `ImplementsAddressSpace`, the arena implements
  `AddressSpace`.
- **mmap_stolen** (violation expected): the comment at `bionic.c` 382-385 says
  that matching the live interval keeps a record from stealing another mapping's
  unmap. A dynamic window's live interval covers almost two slots while one slot
  backs it. The counterexample is a single thread that trims every window at
  once: the trim of the window in slot 0 starts at the base of the mapping in slot
  1, whose record has the lower index, and takes a unit range off that record
  instead. That mapping's later unmap hits nothing and its slot is never released.

Bounds: two threads interleave every pair of sections; three slots let a run of
three (`aligned256` with `Keep256` = 2) exactly fit, fragment or fail; R = 3 is
the smallest region of which a tail cut can leave a part; the record table is
smaller than the number of mappings that fit, so the error path is taken; the
heap of one region makes `memalign` both succeed and fail.

Left out: the diagnostic counters, `from_high` (never 1), the misalignment error
path (unreachable, the arena and `memalign` align), middle cuts (see hazards),
the contents of memory.

## 4. The emulated pipes

`FakeFd.tla`. Descriptors are slot numbers; `PipeState`s live at addresses that
`calloc` may hand out again after `free`; the ring is an array with head and
length; all bytes of a write are distinguishable.

| Variable | Code |
|---|---|
| `fds` | `g_fds` |
| `pipes` | the `PipeState`s, by address, with whether they are allocated |
| `pc`, `call` | which threads are in `condvarWait` (`wait`), woken and not running yet (`woken`), or between two sections of dup2; their locals |
| `last` | the call that ended in this step, with its arguments, and what it returned: success or the errno, bytes, descriptors, readiness |

Every action is one critical section of `g_lock`: `Pipe`, `PipeFails`, `Begin`
(read or write up to its return or first wait), `Resume` (after a wake-up, with
the re-check of the descriptor), `Close`, `Dup`, `Dup2Look`/`Dup2Close`/
`Dup2Clone`, `SetFl`, `Ready`. `condvarWakeAll` is `WakeAll`.

Runs (module `MCFakeFd`; its `View` forgets `last` and the bytes outside the
ring, which no step reads; action properties are still evaluated on every step,
with the result of the step in `last'`; the threads of pipes are interchangeable, so
its states are taken up to `Permutations(Threads)`, all its properties being safety):

- **pipes** (2 threads, 3 descriptors, dup, dup2, F_SETFL, readiness):
  `RefcountsExact` (the counts are the numbers of open ends; allocated exactly
  while there is one), `NoUseAfterFree`, and `ImplementsChannels`: ring, counts and
  wake-ups implement `PipeChannels`, bounded FIFOs with no counts, ring or condition
  variable. Every call there is exact in what it changes and returns: given its
  arguments and the open ends, end of file, EPIPE, EAGAIN, EBADF, EMFILE and the
  descriptors it opens (the lowest free ones) are decided; only ENOMEM may come at any
  time. A dup2 is three visible steps, `Dup2` (does newfd have to be closed?), `Replace`
  and `Copy`, since others may open, close or take newfd and oldfd in between: then the
  `Copy` is decided by the ends as they are, with EBUSY or EBADF.
- **pipe_hangup** (3 threads on one pipe, fairness): `NoLostWakeup`, a sleeping
  call that nobody woke still has its descriptor and would have to sleep again;
  `HangupEndsCall`, a call whose other end closed comes back.

Bounds: a capacity of 2 with requests of up to 2 bytes wraps and fills the ring, and
one of 1 (in pipe_hangup) splits a request of 2; 3 descriptors allow one pipe and a
copy of either end; one address makes every new pipe reuse the freed one, the worst
case for stale pointers. `Uses` leaves operations out of the run with 3 threads;
every operation is in some run.
`CHECK_DEADLOCK FALSE`: a guest may block all its threads for ever, that is not a
fault of the pipes.

Left out: `ensure_initialized` (`fakefd.c` 48-53) is neither locked nor atomic, so two
first calls at once may both initialise the mutex, one of them while the other holds
it. The model begins when a first call has ended.

Fairness: only `WF(Resume(t))`: a thread that `condvarWakeAll` woke is scheduled
and gets the lock in the end, as the kernel's condition variable and fair mutex
hand-over provide. No guest is obliged to make another call.

Left out as well: FD_CLOEXEC, descriptors outside the table, NULL buffers and zero
counts, commands of fcntl that only read. `F_SETFL` does not wake sleepers in the code, and does not in the model.

## 5. Audio streams

`AAudioStream.tla`. A stream is driven by one guest thread (`ctl`: where it is in
open, requestStart, requestStop or close) and, while started, by an output thread
(`out`, with its locals `i`, `drained` and why it primes). `st` holds the fields both
use without a lock: `state`, `stop_requested`, `thread_started`, `thread_exited`,
`audout_started` (as `playing`). `owner` is `g_audout_owner`. `dev` is the audout service.

Every step reads or writes the shared fields once. `Open*`, `Start*`, `Stop*` and
`Close*` are the pieces of the four calls; `Boot` to `PrimeStart` is the output
thread up to its first start of the device; `LoopTest`, `WaitPlay`, `Fill`,
`NextReleased` its loop; `Recover` is inside the steps that recover; `End*` is its
way out.

Assumed of audout, which is external: a session count opened by
`audoutInitialize`; a flush forgets all buffers but only of a stopped device; stop
succeeds. Appends, starts, waits and state queries may fail, a wait may succeed without
a buffer, and the system may stop the device at any time (`DeviceStops`). The data callback may ask to stop, and
does not call the stream's own operations.

Run **aaudio** (2 streams, 3 buffers, as in the code): `OneOwner`,
`ThreadConfined` (`StoppedIsQuiet` and `ThreadInsideStart`), `BuffersInFlight`, and under fairness
`StopReturns` and `DeviceRestarts`. A late store of STARTED may overwrite STOPPING;
`StoppedIsQuiet` shows the state is right again when requestStop returns.

Fairness: `WF(Finish(s))`, a thread inside a call goes on; `WF(Output(s))`, the
output thread is scheduled. All waits of that thread have a timeout in the code, so the
device need not play. `SF(Regain(s))` says one thing of it: a stopped device, which plays
no buffer and has none to report, does not make wait after wait succeed without one.
The code goes on after such a wait whatever the state of the device
(`aaudio_bridge.c` 421-424), so only a wait that fails leads to the state query, or past
`NX_AUDOUT_RECOVERY_US`, and to the recovery. Two streams are enough for one to be opened in
every window another leaves.

Left out: `waitForStateChange` (polls `state`), builder parameters, sample
conversion, statistics, failing service initialisation (open changes nothing then).
`audout_owner_lock_init` (`aaudio_bridge.c` 156-160) tests and sets its flag without a
lock, so two first opens at once may both initialise the mutex, one of them while the
other holds it, and both claim the device. The model begins with the mutex made.

## 6. Guest threads

`GuestThreads.tla`. `obj` are the `GuestThread` objects by handle, `list` is
`g_guest_threads`, `kern` what the kernel knows of a handle, `at`/`mem` where each
thread is in a call and its locals there. An action is one critical section of `g_thread_lock` or one
kernel call between two: `ReapTake`/`ReapFree`/`ReapDone`
(`guest_thread_reap_detached`, which every create, join and detach runs first),
`Create` to `CreateLog`, `JoinLookup` to `CloseFree`, `Detach`, and of the thread
itself `Finish` or `Exit`. `threadCreate`, `threadStart` and the wait may fail.

Run **guest_sync** (main thread, 3 handles): `OneReclaimer`, `JoinerKeeps`,
`FreedAfterEnd`. Three handles let two threads join or detach a third while each of
them is itself joined, detached or reaped. Threads may join each
other; a kernel wait may fail (`JoinWaitFails`), so that is no deadlock of the model.

Assumed: the guest uses a thread's id only after the thread has started (the
`pthread_create` that stores it may still fail, and frees the object then), and the
kernel does not hand out a handle again while a call names it. `CreateLog` is the
read of the new object for the log line after the start, which for a detached
thread may come after the free; nothing depends on the value (hazard
`bionic.c:1157`). TLS keys, names, affinity and stack attributes are left out.

## 7. Mutexes and condition variables

`SyncSlots.tla` is the table `g_slots`: `GetSlot` and `ReleaseSlot` are the two
critical sections of `g_slots_lock`. A slot has the holder of its host mutex `m`, the
threads asleep on its `cv`, and the fields `type`, `known`, `owner`, `depth`.
`SyncMutex.tla` is the code on top of it. A call first gets its slot (`Lock`,
`Unlock`, `Wait`, `Awaken`, `MutexInit`), keeps the pointer (`loc[t].s`, and
`loc[t].c` for the condition variable) and uses it without the table's lock.

The steps of lock are `Detect`, `OwnerIsMe`/`OwnerIsNotMe`, `Take`/`TakeBusy`,
`Own`; of unlock `UnlockNormal`, `UnlockFails`, `UnlockInner`, `UnlockOuter`,
`Release`; of a wait `WaitOwned` and `Sleep` (held once), `WaitNested` to `Deepen`
(held more often: the mutex is kept and the condition variable's own mutex is
waited with), `Retake`, `Reown`, `TimesOut`. libnx's `condvarWaitTimeout`
releases the mutex and sleeps in one step.

The guest is a monitor program. It waits and changes conditions under the mutex
(`SetCond`, `ClearCond`; `cond`), owes a broadcast after setting one (`owes`), uses
one mutex at a time, and lets the last user of a mutex (`users`, `last`, `Drop`)
destroy or re-create it as soon as it has unlocked. That is the discipline under
which POSIX promises anything; while it holds, another thread may still be *inside*
its unlock, which is the interesting case. Unlocking or waiting with a recursive or error-checking mutex that is not held
is included (the code returns an error); unlock only once the mutex has been used, for
before that it does not know the static type.

Run **guest_sync** (for the mutexes: 2 threads, 2 mutexes, 1 condition variable, 2 slots, all three
types, depth 2; threads symmetric): `HoldersOwnSlot`, `NoStaleSlot`,
`NoMissedSignal`, and no deadlock. Two slots for three objects make the table full,
make every release reuse a slot at once, and let a waiter lack the slot of its
condition variable. Depth 2 is the smallest that takes the nested path.

Not modelled: weak memory ordering (`mutex_type` and `mutex_type_known` are stored
without synchronisation), EAGAIN at `UINT32_MAX`, `pthread_once`. Semaphores are in `StopWorld`.

## 8. The installer

`Installer.tla`. `files`, `cache`, `unityVer`, `marker`, `apk`, `bak` are what is on
the card: the version each file's content is of, or `Missing`. `pc`, `todo`, `cur`,
`fast` are the running program's and vanish in a crash. `damaged` and `calm` are
history: an installed data file was lost in the patch; nothing fails from now on.

One action per change on the card: every replacement is a remove and a rename
(`ExtractRemove`/`ExtractRename`, `CopyRemove`/`CopyRename`, `VerRemove`/`VerRename`,
`MarkerRemove`/`MarkerRename`), the patch renames twice (`PatchBackup`,
`PatchRename` or `PatchRestore`). `Launch` decides between the fast path and
extraction; `Manifest`, `CacheCheck`, `English`, `RemoveMedia` are the remaining
steps of `installer_prepare_game_files`. `Crash` may come at any of them, a fault
action stands for every error return. `PlaceApk` is the user.

Worst cases chosen: any two versions of a file have the same size, so the size
comparisons of the caches never help; the order of extraction is arbitrary.
Assumed: a rename that returned survives a power loss; the user does not go back to
an older version. A temporary file is always written anew and so has no state.

Runs:

- **install** (2 versions, one with the data file the patch expects; 3 checked
  files, one managed file that is checked and one that is not):
  `MarkerMeansComplete`, `StartedComplete`, `MediaKept`, and
  `StartsUnlessDamaged`: when nothing fails any more the game starts.
  The second version arrives while the first is half installed. Once an
  installation is complete the code does not install another APK, it deletes
  it; so does the model.
- **install_damaged** (violation expected): `README.md` 83 says that the installer
  prepares the files when the app is launched with the APK in place. The data patch
  is best effort; when both of its renames fail, or power is lost between them, an
  installation can be left with its marker and without `data.unity3d`. A reinstall
  does not remove the marker first, and the fast path checks seven files. If the
  reinstall breaks off when those are back and another file is removed and not yet
  renamed, every later launch takes the fast path and fails.

Fairness: `WF(Program)`, the program runs and the user starts it again after it
ended. `calm` bounds failures: liveness is claimed only from when they stop.

Left out: inflation, CRC and ZIP structure, the manifest's parsing, the space check
and the writability probe (each only decides whether a step fails), the progress
screen.

## 9. Futexes

`Futex.tla`. `word` is guest memory, written without any lock; `futexes` is
`g_futex_slots`, with the holder `m` of each slot's mutex, the threads `cv` asleep on
its condition variable and the count `waiters`. `GetFutex` is `futex_slot_get` with
its probing: `Finds` says in one line where the loop ends, at the first slot from the
hash on, round the end, that is the word's or unused. A wait is `FutexWait` (the lookup),
`FutexLock`, the comparison (`WaitDiffers` or `WaitSame`, which counts the thread), `FutexSleep`
and `Awake`; a thread may time out at any moment, and leaves
the count only when it has the mutex again. A guest that changes a word wakes it
afterwards (`owesWake`), which is what futexes promise something for.

Run **guest_sync** (3 threads, 3 words, 2 slots, wakes of one and of all):
`NoMissedWake`, `WaitersExact`. Two words hash to the last slot, so one is
found by wrapping round, and the third word meets a full table (ENOMEM).
Not modelled: `FUTEX_WAIT_BITSET`'s absolute deadline, which the code uses as a
relative timeout (hazard `bionic.c:532`): there are no durations here.

## 10. Semaphores and the stopped world

`StopWorld.tla`. Because a thread may be paused anywhere, each lock a semaphore call
takes is here with its holder: `slotsLock` for the lookup, `m` of the semaphore's slot.
`sem_post`, `sem_wait`, `sem_trywait` and `sem_timedwait` are the steps from `Enter`
to `Return`. The bridge is the collector's call for one thread: `Pause` (the search for
the record included), `Mark` or `MarkFails`, then the acknowledgement is posted; or
`Restart`, which posts only for a thread it had paused.
The collector's loop around it is the guest's (external): signal all, wait for as
many acknowledgements, collect, signal all again; it may acknowledge restarts too.

Run **stop_world** (2 mutators, 2 semaphores): `NoLostPost`; `WorldStopped`, while
it collects all threads are paused and none of the acknowledgements counted
was left over; `PausedRunsAgain`. The last one excepts `HolderPaused`: a thread paused
inside the few instructions of `g_slots_lock` stops the collector for ever in its own
`sem_post`. That is a deadlock of the code, which nothing in the repository denies.
Fairness: strong for the next step of each thread, because a host mutex that is free
again and again is handed over in the end; the collector, once it has begun, goes on.
No mutator has to call anything.

## 11. The descriptor table

`FdTable.tla`. `desc` is the host's table, `path` and `native` are `g_positioned_fd`,
`lockSlots` and `dataSlots` the tables of UnityCache's `__lock` and `__data` files. The
host gives out the lowest free number, at once; every note in a table is a later
step. The calls are open, fopen, close, dup, dup2, fcntl(F_DUPFD), pread and pwrite
(lookup, transfer), stat and truncate by path. The copy of the path that each record
keeps may fail, after the old entry is gone; a descriptor beyond the 1024 of
`g_positioned_fd` has no record in the same way. The guest uses a descriptor only from
the thread that got it.

Run **descriptors** (2 threads, 3 numbers, 2 slots, 4 descriptors given out):
`RecordsTrue`, `RecordsKept`, `HandleOfOwnFile`. What really goes wrong in the code is
recorded as history and excepted by name: a close whose note comes late wipes the
records of the thread that got the number meanwhile, or closes the native handle
under its pread (`lost`, as is a record with no slot or no memory for it); a lock shared, or a copy made, from a number with such a note
gets the records of the wrong file (`stray`). The properties say that nothing
else ever does. fcntl's flag tables, path rewriting and stdio forwarding are not
modelled.

## 12. Waiting for descriptors

`Waiting.tla`: `ALooper_pollOnce`, acquire, release, wake, addFd and removeFd with the
table `looper` and each looper's mutex; `nx_poll` and `nx_select` as looks at one
descriptor after the other with rests between. Pipes become ready and unready on
their own.

Run **frame**, subject `waiting` (2 threads, 2 descriptors, 2 loopers of 1
registration, timeouts -1 to 1 ms): `NothingMissed`, of which `WakeKept` says that a
wake not yet returned is still signalled on the thread's looper, and `LooksLast` that
poll and select report nothing only if every descriptor was unready some time after
the timeout had run out. pollOnce promises less: its last rest ends the call without
another look. As in the code, a thread's handle, and its looper with a stale signal, go to the
next thread, and a callback that returns 0 removes the registration by
number, even one it has just made anew (hazard `android_ndk.c:68`). `loop_get` makes the
table's mutex at its first call, without a lock (`android_ndk.c:28`); the model begins
with it made. A looper more
than the table holds makes `pollOnce` dereference NULL (`android_ndk.c:54`); the
model has a looper for each thread.

## 13. The frame loop, its helper and the choreographer

`FrameClock.tla` composes `main.c`'s session, the helper thread of
`unity_patches.c` and `android_ndk.c`'s choreographer. The clock is a number that
grows; `stamp` and `seen` are readings the main thread and the helper have taken and
not used yet. The helper moves the game's clock only if the main thread has not for
`Stall`; its difference is unsigned and wraps when the main thread ticked
after the reading. It does not look at the pause flag, the hook does.

Run **frame**, subject `clock` (2 callbacks in 2 slots, clock up to 4): `ClockForward`,
`PostedRunsOnce`. Stall and Frame are 1, so every order of reading, stall and tick
occurs within four readings. A full table drops a post silently; such a post is
not counted in `owed`. `choreographer_driver_start` is never called. `choreo_init`
is unsynchronised: a first post racing with the first tick may initialise the lock
twice; the model starts after it.

## 14. Input

`PointerInput.tla`. A step is one `input_feed`: the operators from `NoticeMode` to
`UpdateController` are its parts, each a function on the state, in the code's order.
`down` and `broken` are what the game makes of the events.

Run **frame**, subject `pointer` (2 fingers): `OnePointer`. Docking the console under
a finger leaves the touch open and no longer reads it; A may then begin a second
gesture, and its release can be missed on undocking. From there until both are
released is excepted (`cut`).

## 15. The GL wrappers

`GfxReclaim.tla`, of the code under `ENABLE_GFX_DIAGNOSTICS`, which `config.h` 183 sets
to 0 for players. A host call works, breaks a rule (`bad`) or finds no memory; the
debug callback marks `oomSeq` with the caller's number. A texture call that ran
out of memory reclaims behind a fence and tries once more, clearing its error flag
by the drain.

Run **frame**, subject `gfx` (2 threads, 3 numbered calls): `FailureIsSeen`. The drain
takes an *earlier* error of the thread with it, although `imports.c` 737 says that
normal GL errors remain visible to the host; the property is about the last call only.

## 16. The boot

`Boot.tla`: `InitHeap` is `__libnx_initheap`'s partition; then `main` up to the session,
loading, relocating, resolving and finalising the three libraries, and
`unity_patches_install`, whose groups of words are compared first and written
then. What a file holds is chosen when it is first looked at. Every step can fail
and every failure ends the process.

Addresses and sizes are unsigned: they wrap around at `AddrSpan`, and the order of the two
tests of the partition loop (`Fits`) is what keeps a heap that is too small from passing
for one of nearly all addresses. Assumed is only that the heap and what is looked for in
it do not reach the end of the address space.

Run **frame**, subject `boot` (every heap start alignment, sizes around the limits and far
below them; units of 32 MiB, 256 of them): `ArenasFit`, `WholeOrNothing`: no guest code runs before
all libraries are executable, the expected ones and bound, and the session begins only
with every group of patches complete. `main`'s check for 900 MB (`main.c` 299) can
never fail, because the partition has aborted below 928 MB;
`HOST_PROCESS_HEADROOM_BYTES` is 0, so releasing it does nothing.
`CHECK_DEADLOCK FALSE` in this run: the boot and the session end.

## 17. What is proved

For every value of the constants: any number of threads, slots, records, descriptors,
streams, libraries. What is assumed of them only says that sizes are numbers or
positive, that sets that are counted are finite, that markers (NULL, no thread, no
object) differ from what they stand beside, and what the code's own constants obey (the
arena's limit is made of whole slots, the heap is far from the end of the addresses, the
data file is among those checked).
`MmapArena`, `FakeFd`, `AAudioStream`, `Installer`, `SyncSlots`, `SyncMutex`,
`StopWorld`, `FdTable`, `Waiting` and `Boot` state it as ASSUME; the theorems about
`Futex`, `GuestThreads`, `FrameClock` and `GfxReclaim` have it as a hypothesis (theirs
would clash in the modules that extend them together), and `MCGuestSync` assumes the
first two of its instance.

Every theorem about a state goes the same way: an inductive invariant, one lemma per
action (or group of actions that write the same things), and the conclusion by PTL.
What the invariants add to the properties, and why it is needed:

`MmapArenaProofs`: `TypeCorrect`, `ArenaAccounting` (`ArenaExact`), `UnmapExact`
(`UnmapKeepsMatch`), `BackingCounted` (`BackingExact`), `RecordsMirror` (`RecordsMatchGuest`) and `ArenaImplements`
(`ImplementsAddressSpace`, a refinement).

- For the accounting, `IInv` adds `HeapRequestsHoldNoRun`: a request on its way through
  `memalign` or its file read holds no run, or `MmapFileError` could drop a run
  without releasing it. A run just taken is disjoint from all others because all its bits
  were clear and every set bit is explained; a released run was explained by
  exactly one owner.
- `UnmapExact` is an action property and needs only `SInv`, which adds `Shaped`: a live
  interval is never empty and ends within the logical range, so that clipping never changes
  what the guest named. It holds with windows too: what it says is what the code's own
  step does, from a state in which the live intervals do not overlap.
- `BackingCounted` is about a sum over any number of records (`Total`, a recursive
  function). That a step which changes one record changes the sum by the difference
  (`SumChanges`), and that such a sum exists (`SumExists`), is an induction; it is done by
  contradiction, with the least n for which the first n records fail (`Least`). The
  invariant `BInv` adds `FreeIsEmpty`: a free record is charged with nothing, so taking
  one into use loses nothing.
- `RecordsMirror` and `ArenaImplements` have the hypothesis `"window" \notin Kinds`. It is
  not a convenience: with windows both are false, which is what the run
  mmap_stolen shows. Without them every live interval lies in memory of its
  record's own (`Backed`), and the invariant `CInv` says that runs and heap blocks are
  apart and held (`BlocksApart`, `BlocksHeld`), also those of calls between their
  critical sections (`Flying`). Disjoint memory gives disjoint intervals, and those
  give the premise of `UnmapExact`. For the refinement every step is mapped: the
  section that makes the mapping visible to `Map`, the unmap's only section to `Unmap`, all
  others to stutters.

`FakeFdProofs`: `TypeCorrect`, `RefcountsCorrect`, `NoWakeupLost`, `WokenCallsSafe`,
`ChannelsImplemented` (`ImplementsChannels`). The
inductive invariant is `TypeOK /\ RefcountsExact /\ NoLostWakeup`: counts need to
be exact for "the last end frees" to be right, and a sleeper's descriptor being
open needs every action that could close it to wake everybody. `NoUseAfterFree`
follows because a descriptor that names a pipe keeps it allocated.
The refinement needs besides that a call inside condvarWait has bytes left to go and
a call between two sections of dup2 is one (`Pending`). It rests on what the two copies of a section do to the ring read as a
sequence: `TakenIsPrefix`, `ReadLeaves` and `WriteAppends`, for every capacity, head and
length, the wrap included. Exact counts then turn "no readers left" into "no open read end",
and a dropped last end into a channel emptied. Each section is mapped: a read to
`Recv`, a write to `Send`, one that finds its descriptor wrong to `BadTransfer`, the three
sections of dup2 to `Dup2`, `Replace` and `Copy`; `FreeIs` and `LowestIs` turn the slots
the code searches into the free descriptors the errors are about.

`AAudioProofs`: `TypeCorrect`, `DeviceOwned` (`OneOwner`), `ThreadConfinement`
(`ThreadConfined`), `BuffersKept` (`BuffersInFlight`). `Phases` says where the
output thread may be while the controlling thread is at each point of start, stop and
close, with what the unlocked fields then are; in particular that an output thread that has
left has stored `stopped` last, over the late STARTED. `Serving` says what is queued
or played at each place of the output thread, and that the device is quiet before it
begins and after it ended; without that the next owner would inherit buffers.
`Counted` counts the sessions by the streams that hold one.

`StopWorldProofs`: `TypeCorrect`, `PostsReachWaiters` (`NoLostPost`), `CollectsAlone`
(`WorldStopped`). `Collecting` is the collector's cycle, phase by phase: who is down
already, who is still to be signalled, and how many acknowledgements have been posted
that no wait to come accounts for (`Unacked`). A pause that fails, or a restart that loses its
race, leaves the count right. `MutatorsApart` keeps the mutators' own posts
out of that count.

`FdTableProofs`: `TypeCorrect`, `RecordsAreTrue`, `RecordsAreKept`, `OwnHandle`.
`Records(fd)` is what can be relied on for one number while a close of it is on its way,
a copy is being made into it, or neither; `Opening`, `Copying` and `Others` say
what a call has established so far. A late note counts as a loss from the moment the number
has a new owner, so an owner may rely on what is not lost whoever else is still to
note a close.

`GuestSyncProofs`, about `Futex`: `TypeCorrect`, `WaitersCounted` (`WaitersExact`),
`WakeMissesNone` (`NoMissedWake`). The part that needs thought is `Probing`: no unused
slot lies between a word's hash and its slot, so a search with create never gives a word a
second slot, whatever the hash and however full the table. `Warned` extends
`NoMissedWake` to threads about to sleep. About `GuestThreads`: `FreedOnce`
(`OneReclaimer`), `JoinKeeps` (`JoinerKeeps`), `FreedLate` (`FreedAfterEnd`), which are
inductive together with `Shape`: open handles have objects, who runs is what the kernel
says, a thread being created is in one call's hands, and calls name no such thread.

`SyncMutexProofs`: `TypeCorrect`, `HoldersOwn` (`HoldersOwnSlot`), `SlotsNeverStale`
(`NoStaleSlot`), `SignalsReach` (`NoMissedSignal`), from `MInv`. Calls read owner,
depth and type of a slot without its mutex and go on with a pointer into a table
whose slots are released and reused; so `MInv` says for each thread where in which call it
is and what it may rely on there (`Locking`, `Unlocking`, `Waits`, `Waking`, `Making`),
that every object has one slot at most (`OneSlotEach`), that the host mutex and
owner fields of a slot are those of the thread that has it, with the depth lowered by
one inside a nested wait (`Hosts`, `OwnerOwns`), that a slot's type is its mutex's once it
is known (`Detecting`), and that the last user of a mutex is alone with it (`Left`),
without which a destroy could pull the slot from under a call. The lemma `OthersSound`
says once what one thread may store without disturbing what another believes; each
action then only has to be shown to store no more.

`LauncherProofs` has the parts that run before and beside the guest's own calls, which
share no state:

- `Installer`: `TypeCorrect`, `MarkerCorrect` (`MarkerMeansComplete`), `MediaCorrect`
  (`MediaKept`), `StartCorrect` (`StartedComplete`). The inductive invariant is `TypeInv`
  together with, unless `damaged`, two parts. `Undamaged`: an extraction runs without a
  marker and what it has done is of the APK's version (`Extracting`), the steps after
  it have all files, the marker is there before the program writes it only on the fast
  path (`MarkerFound`), and an installation in progress has its APK (`Supplied`). Without
  `Extracting` an extraction could end with files of two versions; without `Supplied` the
  marker could be lost together with the APK. `CacheInv`: the program takes caches as
  ready when unity.ver is that of the files and the sizes agree. That is right because
  nothing on the card is newer than the APK or the installation (`Ordered`) and no
  cache is older than unity.ver (`UnityVerOldest`, since copies are made before it is
  replaced): a cache that is neither older than unity.ver nor newer than the files is
  of their version.
- `Boot`: `BootWholeOrNothing` (`WholeOrNothing`) and `HeapPartitioned` (`ArenasFit`), for
  any libraries, groups of words and heaps. `Loading` says for every stage what all
  libraries have been through and, in the stages that go from library to library, what those
  before the current one have; `Patched` does that for the groups. `ArenasFit` is
  inductive by itself, with lemmas on what rounding to whole slots gives and on why no
  sum or difference of the partition wraps around (`NoWrap`).
- `Waiting`: `WakesAndLooksKept` (`NothingMissed`). `LooperInv` says that a looper in use
  has one reference for its thread and one for each that acquired it (`InUse`), so the
  release that frees it is never early, and that a poll is about the thread's own looper
  (`PollsOwn`). `Looks` says that what has been ready since the time ran out is still to be
  looked at.
- `FrameClock`: `ClockNeverBack` (`ClockForward`; the time last told is never ahead of the
  clock, and who tells it reads the clock in the same step) and `CallbacksRunOnce`
  (`PostedRunsOnce`; what is owed is the number of places a callback stands in, and the
  helper's batch is empty outside its calls).
- `PointerInput`: `OnePointerTold`, by a lemma for each part of `input_feed` about a
  state that is `Tidy`. A press needs the cursor on the screen besides, or a touch and
  the press could be open at once.
- `GfxReclaim`: `FailureAlwaysSeen`. A thread that has lost its error flag after a failed
  call is on its way to the host again (`Retrying`).

Only model-checked: all liveness under fairness (`HangupEndsCall`, `StopReturns`,
`DeviceRestarts`, `StartsUnlessDamaged`, `PausedRunsAgain`), which is out of the prover's
reach. Every invariant, action property and refinement of a passing run has a theorem.

## 18. Not modelled

See `PROJECT.json` for each part and the reason.

- Data only: ELF relocation arithmetic, the import table's content, zip inflation,
  texture conversion, audio resampling, the credits patch's bytes, path rewriting,
  stdio forwarding and the `/proc` and `/sys` stand-ins.
- Assembly and setjmp: guest stacks (whether one may be had is in `Boot`).
- Constants: JNI stand-ins, windows, sensors, CPU count, stubs.
- No state others use: logging, the watchdog, crash screens, thread names, affinity.
- TLS keys and values.
- Calls outside what the guest is assumed to do: an unmap strictly inside a live
  interval (`bionic.c` 420, which changes nothing); an error callback that closes its
  own stream (`aaudio_bridge.c` 388); a thread id used before the thread's start
  (`bionic.c` 1145). dup2 with a bad oldfd closes newfd before EBADF: that is in
  `FakeFd`, and no text promises otherwise.
