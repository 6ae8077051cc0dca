# A verification project for coreavc-for-linux

coreavc-for-linux lets a Linux player use CoreAVC, a 32-bit Windows DirectShow
filter, as its H.264 decoder.  The filter is loaded by a small emulation of
Windows (`loader/`) inside a process of its own, `dshowserver`.  The player
(mplayer, MythTV or xine, patched) starts that process, shares a memory segment
with it and wakes it once per frame.

Source paths below are relative to `src/`.

## 1. Inventory

| part | state | operations | talks to |
|---|---|---|---|
| server loop, `dshowserver/server.c` | the mapped `struct vd_struct`, the decoder, the semaphore | start-up, `VD_DECODE`, `VD_SEEK`, `VD_END`, (`VD_RELOAD_BIH`) | player: shared memory and semaphore; decoder: calls |
| timed semaphore, `dshowserver/timeout_sem.c` (copied into each player) | a socket, or two named POSIX semaphores; `initialized`; `errno` | `timed_seminit`, `timed_semwait`, `timed_sempost`, `timed_semclean`, `timed_semdelete` | its copy in the other process |
| mplayer client, `mplayer/dshowserver.patch` | segment, semaphore, bit-map header | `init`, `uninit`, `control`, `decode` | server |
| MythTV client, xine client (`mythtv/`, `xine/`) | the same; xine adds a NAL unit parser with buffers | the same, and `flush`, `reset`, `dispose` | server |
| video decoder, `loader/dshow/DS_VideoDecoder.c` | formats, the filter, the global ring `sampleProcData` | `Open`, `SetDestFmt`, `StartInternal`, `SetPTS`, `DecodeInternal`, `FreeFrame`, `SeekInternal`, `Destroy` | filter, pins, sample allocator |
| filter and pins, `DS_Filter.c`, `inputpin.c`, `outputpin.c`, `mediatype.c` | reference counts, connections, media types | `Create`, `Start`, `Stop`, `Destroy`, `QueryInterface`, `Receive` | the codec, both ways (callbacks) |
| samples, `allocator.c`, `cmediasample.c` | `free_list`, `used_list`, reference counts; the page pool `memstruct` | `Commit`, `GetBuffer`, `Release`, `MALLOC`, `FREE`, `memstruct_setlock` | the codec's threads and the server's |
| win32 emulation, `loader/win32.c`, `ext.c` | lists of events, mutexes, critical sections, TLS slots, heap blocks, file mappings, COM classes | the Windows calls the codec makes | the codec |
| modules, `module.c`, `pe_image.c`, `elfdll.c` | list of modules with reference counts | `LoadLibrary`, `FreeLibrary`, `GetProcAddress` | codec's `DllMain` |
| registry, `registry.c`, `modify_reg.c` | values, open handles, the file they are saved in | `RegCreateKeyEx`, `RegSetValueEx`, ... | the codec, `registercodec` |
| drivers, `driver.c` | one DLL each, the count `acounter` of those that are open | `DRV_Open`, `DRV_Free`, `CodecAlloc`, `CodecRelease` | modules, heap and registry, which it collects |
| ACM and VFW, `afl.c`, `vfl.c` | driver and stream lists | `acmDriverOpen`, `ICOpen`, ... | other codecs than CoreAVC |

What is hard here:

* **Two processes, one cell.**  The command of the player and the result of the
  server are a `union` (`server.c:46-49`).  Nothing but the alternation of two
  semaphores keeps the processes apart, every wait has a limit of ten seconds,
  and a player that gave a wait up goes on as if nothing had happened.
* **Either process may die.**  The player is killed, the foreign codec faults.
  The survivor has to notice, from `errno`, an end of stream, `kill(ppid, 0)` or
  the names it finds unlinked.
* **A codec that calls back.**  Pictures arrive through `DS_Filter_CopySample`,
  in bursts, possibly from another thread, in samples whose memory is a page of
  the segment that the player is still looking at.
* **Three records of one fact.**  A sample is in a list, has a reference count
  and a block in the pool; a picture is in the ring, in a page and in the answer.
  They are updated at different places and must agree.  The same is true of the
  references between our filters and pins and the codec's, some counted and some not,
  of the mapped pages and the two lists of them, and of the list of modules.
* **Locks made at run time.**  The mutex of the heap list is initialized by the
  first block and destroyed with the last; a critical section is initialized by
  whoever enters it; a section looks at its owner without the mutex.
* **Calls that fail half-way.**  Creating the filter is a dozen calls into foreign
  code of which each may fail, loading a DLL maps, relocates, resolves imports and
  calls `DllMain`, which loads and frees DLLs itself, and a save of the registry
  writes over the only copy and may fail without anybody looking.
* **Lists that are made by hand.**  The samples', the blocks', the regions' and the
  modules' lists each have code of their own; one never closes its circle, one keeps
  its links where an overrun reaches them, one has no lock.
* **Limits.**  Four slots in the ring, at most 32 pages, a fixed number of
  samples, and code that continues when they are exhausted.

Correctness, part by part: the session is a synchronous decoder (a call is
answered by the decoding of that call's frame), every call returns and no server
outlives its player; the ring is a queue of pictures; a page is one block's at a
time and is kept while the player looks at it; the allocator is a pool that
does not lose the sample its users ask for.  A thread that waits for something that is there gets it; the
heap list holds every block; what a call wrote to the registry is what is read,
after a restart too; the list of modules names what is loaded; the lists of regions
and views are what the system has mapped; no pointer between our objects and the
codec's leads to a freed one.  `PROJECT.json` lists the hazards, each at its line, with the
properties that cover it.

## 2. Modules

| module | models | state and actions |
|---|---|---|
| `SyncDecoder` | the promise of the session (abstract) | `Open`, `Ask`, `Answer`, `GiveUp`, `Quit` |
| `DshowSession` | `server.c`, `timeout_sem.c` and the mplayer client, composed | one action per step between two accesses to shared memory or the channel; names are those of the functions |
| `MythSession` | the MythTV client with the server of `DshowSession` | `InitDirectShow`, `DecodeDirectShowVideo`, `ResetDirectShow`, `DestroyDirectShow` |
| `PictureQueue` | the promise of the ring (abstract) | `Deliver`, `HandOut`, `Flush` |
| `FrameStore` | page pool, picture ring, the commands of the decoder | `create`/`destroy` (a sample's block is allocated or freed), `SetActualDataLength` (the input sample outgrows its page), `CopySample` in two halves (inside and outside of `page_mutex`), `FreeFrame` in two, `Receive`, `NoSample`, `DecodeInternal`, `GetPTS`, `SeekInternal` |
| `SamplePool` | the promise of an allocator (abstract): a pool of one sample | `Fill`, `Get`, `Refuse`, `Put`, `Drain` |
| `MemAllocator` | `allocator.c` with its lists of nodes, and the reference counts of `cmediasample.c` | one action per method; `Commit` and `Decommit` one per sample |
| `DshowFilter` | `DS_Filter.c`, the pins and their reference counts, and what `DS_VideoDecoder.c` and the server do with them | the constructor and destructor one pointer at a time, connection and disconnection, `SetDestFmt` with its reconnection, `Start`, `Stop`, `Decode`, `Reload`; the codec walks along pointers, counts, keeps samples, proposes types |
| `CriticalSection` | the critical sections of `win32.c` | one action per access to `locked`, `id` or the mutex: both fields are read outside of it |
| `WinSync` | events, semaphores and mutexes of `win32.c` | one action per call, since each runs under the object's own mutex, and one for the return of a sleeper |
| `WinHeap` | the tracked heap of `win32.c` and its collection | `mreq_private` in seven steps, `my_release` in four, `GlobalSize`, `CreateThread`, `my_garbagecollection`; `Overrun` and `Underrun` are the codec's |
| `Registry` | `registry.c`, `modify_reg.c` | one action per call, with `Save` and its failures inside; `CrashInSave` for a process that dies in one |
| `ModuleList` | `module.c`, the module part of `pe_image.c`, `driver.c`, `LookupExternal` | calls under way are on `stack`, since `DllMain` and `DriverProc` call back |
| `AddressSpace` | `ext.c`, its callers in `win32.c`, `PE_LoadImage` | one action per call of `ext.c`, and what two of them that overlap do to the lists; `PE_LoadImage` between them |
| `MC*` | the instances TLC checks | symmetry sets and constants that are functions |
| `*Proofs` | theorems and proofs about the module of that name | |
| `EmulationProofs` | theorems about `CriticalSection`, `ModuleList` and `Registry`, which share no state | |

`SyncDecoder`, `PictureQueue` and `SamplePool` are what `DshowSession`, `FrameStore` and
`MemAllocator` are shown to implement.  Definitions whose comment begins with "Mutant" are
faulty variants of the definition below them; no specification uses them.

**`DshowSession`.**  `word` is the union.  Payloads are represented by the number
of the call they belong to, so that "the answer to this call" can be said.
`toSrv` and `toCli` count wake-ups on their way (bytes in the socket, or the
value of a semaphore).  The three facts about the channel that decide who
notices what are kept: whether a connection is still in the backlog, whether the
socket has been reset (a process that closes it with an unread byte resets it),
and whether `errno` still is `ETIMEDOUT` from an earlier wait.  The variable
`build`, which never changes, is one of `Builds`: `Transport` and `Mingw` are read
off it, and one run goes through all three.  Every wait may expire; `missed` counts
those in which the player gave up a server that was running.  To `SyncDecoder`
the first of them is `GiveUp`, and the end.

**`MythSession`.**  The variables and the server are those of `DshowSession`.  The client
always waits on its socket; `build` is what the command line asks the server for,
and that follows from `PrintedPort`.

**`FrameStore`.**  An address is a page number or `HEAP`; only the start of a
page is ever the address of a block, so comparing addresses with `used[i]` (the
END of a used page, `NULL` otherwise) becomes a comparison of page numbers, and
the loops of `get_memstruct_pagenum`, `FREE` and `memstruct_setlock` keep their
effect on freed pages: the next used page is found instead, and `setlock`, which
has no `break`, sets all of them.  Constants describe the foreign codec:
`Bursts`, of which each behaviour has one, `burst`, the pictures per `Receive`;
`Threads` (it delivers from another thread), `Realloc` (it frees and reallocates its
samples whenever it runs, `CodecRuns`, also while pictures wait in the ring).  `stale` are the
slots whose picture's block was freed so.

**`MemAllocator`.**  The lists are the nodes on the heap with their `next` and `prev`, as
`avm_list_add_head`, `avm_list_del_head` and `avm_list_find` make and walk them.
`avm_list_add_head` (`allocator.c:59-75`) never makes the old last node point at the new one, so
a list of two or more is the list of its first node to every walk: `GetBuffer` empties
`free_list`, and the other samples of `Commit` are out of reach for ever.  The lists do work as
lists of one, and every caller in the repository asks for one buffer (`DS_Filter.c:362`,
`DS_VideoDecoder.c:777`); so `SamplePool` is a pool of one sample, and the run and the proof
show that this is what clients have, whatever `cBuffers` they ask for.

**`DshowFilter`.**  `at` is the place of the server, `After` and `Order` give the
order of the constructor's and the destructor's steps, `Gains` what each obtains.
`ref` counts what the code counts; `codec` is the share of it that the codec will
release, so that `CountsExact` can be said; `Points` are the pointers from one of our objects
to the next that the codec can follow, counted or not.  Pins have no format but the
output type; allocators are told apart because the one the codec was notified of
must be the one that `m_pAll` is.  `short` is set when `Commit` did not find the memory for the
samples, which `StartInternal` does not look at (`DS_VideoDecoder.c:373`): `GetBuffer` fails at the
first frame, and the server crashes (`crashed`).

**`CriticalSection`.**  The codec's threads are foreign code; the constants say
what they do: `Recursive` (a thread enters a section it is in), `Lazy` (a zeroed
section is entered without being initialized), `Dirty` (memory is recycled with
old values in it).  A struct that is replaced by another keeps its state, so that
threads that still look at it find what the code would find.

**`WinSync`.**  The `pthread` mutex of an object is never visible between two
calls, except around a sleep: a thread is `asleep` on the condition, `woken`
(or `late`, when its time is up) and on its way to the mutex.
`pthread_cond_signal` wakes any non-empty set of sleepers.  A mutex made by
`CreateMutexA` is a semaphore; `holders` records whose wait for it has returned.

**`WinHeap`.**  Each header has `prev` and `next`; `memmut` is initialized by the
allocation that finds the list empty and destroyed by the release that leaves it
empty, and `releaseFree` lets a destroyed mutex keep or lose its owner.
A link that the codec has overwritten is in `wild`: `prev` and `next` come before `deadbeef` in
the header (`win32.c:340-351`), so an overrun of the block before destroys `prev`, then both
links, and the guard word last.  `prev` and `next` stay what this code has stored.  Whoever follows a
wild link is lost (`lose`, `collectLost`), and the model ends there: `ListIntact` says that the
list is whole up to that moment.

**`Registry`.**  A name is a path of texts; `Longer` are the texts that begin with one, since
`modify_reg` removes by the beginning of the text (`modify_reg.c:39`).  `Size` is the length of a value: a save that is torn
leaves a file whose entries begin elsewhere if lengths have changed.  Each save may fail to open the file or to
write to it, and no caller looks (`registry.c:136-151`).  Of a file that a save has not completed (`torn`) only the
entries that were written are known, and of an array read from it (`frayed`) the same; a walk
that comes to its NULL names (`registry.c:107-121`) kills the process, which is `Restart`.  `acked` is
a history variable: what the last call that returned wrote to each name, as far as it can be relied upon;
`unsaved` are the names whose last value did not get into the file.  Assumed: the
count, which a save writes first, is written; the codec and `modify_reg` do not run at one time.

**`ModuleList`.**  Everything runs in one thread, and a call that calls foreign
code stays on `stack` while that code makes calls of its own.  A handle is the
number of the module.  A name finds the newest module whose file name contains it
(`strstr`, `module.c:71`): `Within`.  `PatchedDlls` are those that `LoadLibraryA` patches after the load, and
answers 0 for, leaving them loaded, if it does not know their version (`module.c:458-562`).  `over` notes modules that one holder freed while another
had them (`FreeLibrary` does not count), `stale` those the collection took too early.

**`AddressSpace`.**  Addresses are small numbers, `PAGE` and `GRAN` the roundings of
`VirtualAlloc`, `mapped` the pages that the system has given out: the properties
compare it with the two lists.  Each user remembers what he was given in `holds`.  The lists
have no lock, and the codec's threads call while DLLs are loaded.  Of two
`VirtualAlloc` at one time (`ext.c:516-533`) one region is linked past the other: `adrift` are the regions that are mapped and
no longer in the list, `loose` those whose `next` still is one of these.  A free beside
another call, or two mappings at one time, may leave a freed or half-made node (`wild`); what
follows is undefined, and the model ends.  `MEM_RESERVE|MEM_TOP_DOWN` has state 1
(`ext.c:522`): nothing can be committed in such a reservation, so `CommitSucceeds` is about the others.

## 3. Runs

State counts are of distinct states.

| run | instance | what it shows |
|---|---|---|
| `session` | 3 calls, one page, all three builds (508 117 states) | wake-ups are conserved (`Lag`); before a wait is given up no answer is mismatched and no result read as a command (`InStep`), and the two processes never write the shared struct at once (`Exclusive`); every call returns; no server outlives its player (`NoOrphan`: after the player's death, its `uninit`, an `init` that gave up; in the mingw build not the first, and after `uninit` only if no wait was given up); `ImplementsSync`, with the liveness of answers |
| `myth` | 2 calls | finding: a server that MythTV forks exits while the player waits for it |
| `frames` | 2 pages, 3 blocks, 3 slots, bursts of 1 and 3, 4 pictures, reallocation whenever the codec runs (401 220) | the ring is a queue that loses only the newest picture of a full ring, also across seeks (`ImplementsQueue`); pool and blocks agree (`PoolSound`); the page reported is the picture's (`PageReported`), unless the codec has freed its block before, and, with one picture per `Receive`, stays its own until the next command (`PageKept`) |
| `alloc` | up to 3 buffers, 4 nodes, 2 references each (926) | lists, counts and samples agree (`ListsAgree`); clients have a pool of one sample, which is never lost (`ImplementsPool`) |
| `filter` | 2 formats, 2 allocators, one reference of the codec's to each object (52 710) | counts are exact whatever call fails and wherever the codec walks; no pointer that is followed dangles, and the DLL is unloaded quiet; a started decoder can decode, if its samples found memory; the negotiated format is kept |
| `crit` | 2 threads, 2 structs, 3 visits each; recursion, no initialization, dirty memory (131 850) | nobody looks into a struct that is not there; a section everybody has left is free; a waiting thread gets in |
| `crit_stale` | 2 threads, 2 visits, initialized section | finding: no mutual exclusion |
| `sync` | 3 threads, one event, semaphore or mutex, 2 waits each (178 397) | no count below zero, mutexes exclude and are granted, no sleeper and no signal is left (`NoneForgotten`) |
| `heap` | 2 threads, 3 blocks, one header at a time overwritten from either side (485 842) | the list holds every block and its links agree (`ListIntact`), one thread at a time is at it, until an overwritten link is followed; the collection releases everything and ends, if it meets no overwritten header |
| `registry` | one root, 2 keys of which one begins with the other's text, depth 2, three values of two lengths, 2 handles, 4 entries (133 386) | what a call wrote is what is read, through any handle, as long as the array is in memory, whatever became of its save; what a save has put into the file is read by the next process, also if this one died in a later save that did not move it; handles name one key |
| `modules` | 2 drivers on a DLL that imports another, 3 loads, one name within the other, one DLL patched (100 127) | the list names what is loaded though `DllMain` and `DriverProc` change it under the loader; who runs or is open is there, unless another holder freed it, and the collection takes nobody early but a module whose imports are being loaded; with the last driver all is gone |
| `memory` | 3 pages of 2 units, reservations of 4 units, 2 images of which one cannot be relocated, the codec's sizes 1 to 3, 3 regions held (129 408) | the lists and the regions lost from them are what is mapped, none over another, and a load that has ended leaves no view (`Tracked`); who was given a region has it; every page of a reservation in the list can be committed |

*Bounds.*  Three calls let a wait be given up, its answer be taken by the second
call and the result of that be read as the third command.  More calls than pages
or slots are needed for nothing else: the state the server keeps between
calls is one of the words, a flag and the two counters.  With 3 slots a ring is
full, wraps, and is searched from each position; a burst of 3 overflows it when a
picture is left, and a fourth picture makes it wrap (the code has `PD_MAX_FRAMES` slots; the proofs are
for any number).  Two pages and three blocks make the pool run out, and leave a
freed page below and above a used one.  In `alloc` three buffers leave two nodes behind the first, and the fourth node is the one that is made
before the old one is freed; the instance is small because all but one sample are out of reach at once.  In `filter` one reference to each object is
enough to keep it alive, and two allocators let the codec be told of one while
the decoder fills another.  For events, semaphores and mutexes three threads are
an owner, one that waits, and one that comes in between; objects do not interact,
so one is enough.  Two threads and two structs let a critical section be
initialized twice, and a second visit finds an old `id`; the third leaves room
for a recursive one.  Three blocks make a list
with a middle, of which one is the second thread's `pthread_t`.  One overwritten header is enough to reach
every wild link from a release, a walk and the collection.  In `registry` a
path of two texts has a parent that can be removed, the longer text is a sibling that goes with it, and
two lengths let an entry move either way under a save that is torn or stay.  In
`modules` three loads load the imported DLL, free it and load it again while two
drivers share the first; `MaxDepth` lets `DllMain` load inside a load.  In
`memory` three pages hold three regions, so that the one lost by two calls has a neighbour on either side in the
list, or an image beside a view or a mapping, or two images in a reservation and at another address; the sizes and
addresses that are no multiple of a page exercise the rounding.

*Fairness.*  `WF(PlayerStep)` and `WF(ServerStep)`: both are processes
that the kernel schedules, every blocking call inside a step has a time limit or
is ended by the other process, and a limit that is reached ends the wait.
Nothing is assumed of the player's next call, of its death, or of the codec
(`codecCrash` is never forced).  The codec is assumed to return from a call in
the end: that is part of `WF(ServerStep)`; a codec that hangs is seen by the
player as a wait given up, and by nobody else.

In `crit` and `sync` threads run (`WF(Inside)`, `WF(Resume)`) and
leave what they have entered (`WF(Leave)`, `WF(ReleaseMutex)`): the codec is
correct in this.  Visits are bounded because a `pthread` mutex promises no turn
among threads that come back for ever.  In `heap` the collecting thread runs.

`CHECK_DEADLOCK FALSE` is set where a program may end: sessions, threads, the decoder, the
server that is out of samples, the process of the modules and mappings, of a heap that is lost.  Symmetry is used in runs without liveness only.

*Findings.*  `crit_stale` and `myth` are in `PROJECT.json` with the lines they are
about.  Other places where the code does not do what is said of it are in the
models, but no run is spent on them; each is seen by checking the property named:

* `NoIllegalCommand` (`session` with `Builds = {"socket"}`): after a wait the player gave
  up, the server reads its own result as the next command (`dshowserver/server.c:353`).
* `DeadParentStopsServer` (`Builds = {"mingw"}`): the manual says that the server exits with
  the parent (`man/dshowserver.1:56`); the mingw build has no such test, and takes the
  end of the stream for a timeout.
* Samples are lost (`alloc`; a `SamplePool` with room for `cBuffers` samples is not implemented): of two
  buffers or more, which `SetProperties` grants, the first `GetBuffer` leaves an empty `free_list`
  (`loader/dshow/allocator.c:70-72`, `83-98`), and the next one fails.  And `ReleaseBuffer` deletes the head
  of `used_list`, whichever sample came back (`allocator.c:277`); the two faults
  hide each other, since the list never has a second.
* A started decoder whose `Commit` failed crashes (`Working` of `filter` without `short`), and so does
  one whose codec keeps the sample; a failed `Run` is only reported.
* A registry file that does not open for reading is taken for missing and written over
  (`loader/registry.c:92-97`; the `Forget` of `init_registry`), a call whose save failed answers success (`registry.c:135-151`; `Answers`
  without `unsaved`), and `modify_reg --del` of a key removes its siblings with longer names (`modify_reg.c:39`).
* Two `VirtualAlloc` at one time lose a region (`loader/ext.c:525`; `Tracked` of `memory` with `adrift = {}`).
* `DetachOrder` (a `PROPERTY` of `modules`): modules are not always detached in the reverse order of their
  attachment (`loader/module.c:211-213`).
* `MythSession` with `PrintedPort == 1`, the command line printed after the port is known:
  the session works, but `InStep` fails, since a server that connects late is taken
  for the answer of the call that was waiting.

## 4. Proofs

All for every value of the constants that the `ASSUME` of the module admits: `PAGE` and `GRAN` are positive and
`PAGE` divides `GRAN` and `Top`, there are finitely many root keys, a driver is not a
module, a ring has at least two slots.  The code's values are among them.

*`DshowSessionProofs`.*  `TypeCorrect` from `TypeOK` alone.  `SessionInvariant`
proves `IInv`, the conjunction of `TypeOK`; `Startup` and `Boot` (no wake-up and
no command before the connection is there); `Lag`; and `Undisturbed`, which says
who owns the cell as long as no wait was given up.  `Lag` is what makes this
inductive: with `missed = 0` there is at most one wake-up under way, so the cell
has one owner, and the owner's position says what it holds.  `InStep`
and `Exclusive` follow.  `SessionIsSynchronous` is the step simulation: every step of the
session is a step of `SyncDecoder` or stutters, the first wait given up being
`GiveUp`; since `missed` never falls, all later ones stutter.

*`FrameStoreProofs`.*  `FrameInvariant` (types, `PoolSound`, the block being
delivered is alive) holds for every codec, and so does `PageReported`, for any burst and from any thread,
although blocks are freed while their pictures wait: a slot that is not `stale` points at the address of a block
that is allocated, which no other block has.
`RingIsQueue` is the refinement of `PictureQueue`, for a ring and bursts of any
size, if the codec delivers inside `Receive` (`~Threads`).  Its invariant, `Window`, is the one of a circular
buffer that the code never states: the filled slots are `n` consecutive ones, which begin at `lastFrame` during
a `Receive` and behind it between two commands, when that slot is the one shown, and the slot a delivery takes is the first behind them, or the last
of a full ring.  The refinement mapping is the sequence of pictures in the window;
`CopySample` appends to it or replaces its end, `FreeFrame` and `DecodeInternal` move its start.
`PageKept` is proved
for a codec that delivers at most one picture per `Receive` and in the same
thread (`OneAtATime`: `~Threads /\ burst <= 1`); `Delivery` is the inductive invariant: the ring is empty
from `FreeFrame` to the delivery, holds one picture after it, and a picture
reported lies in a page that is locked.  With two pictures and reallocation
`PageKept` is false (see the hazard at `cmediasample.c:113`), so the run states it for `burst <= 1` too.

*`MemAllocatorProofs`.*  The invariant says what the faulty `avm_list_add_head` comes to: the head
of either list points at itself, so a walk, the least set of nodes closed under `next`, is the head
alone.  With this `ListsAgree` is inductive for any numbers of buffers, samples and nodes, and it gives the
refinement of `SamplePool` (`AllocatorIsPool`).

*`DshowFilterProofs`.*  `FilterInvariant`: `Fields` says which pointers `DS_Filter` has at
each step of its creation and destruction, `Links` what is connected then, and
`Grip` that the codec holds something across a connection only while that
connection exists.  `Counted` (the formula of `CountsExact`, with the owner
of a pin counted once) is inductive with these, for any number of references;
`Feeding` and `Formatted` carry the allocator, committed unless memory was `short`, and the format through
reconnections that fail.  The five properties of the run follow.  What is assumed of the codec
is written in the actions: it releases what it took, and holds nothing of ours
after a disconnection.

*`EmulationProofs`, critical sections.*  `SectionNeverStuck`: if `locked` is set, somebody
who will clear it is inside (`LockedByOne`); if the mutex is held without it,
somebody is about to set `locked` or to unlock (`HeldIfLocked`).  `SectionTypesCorrect` says
too that no thread works on a struct that is not there.

*`EmulationProofs`, modules.*  `ModuleInv` is about the stack of calls under way.
`Framed`: the bottom is a driver's call or the collection, a module is being loaded by at most one call, and a module
that two calls work on was freed by one holder under another.
`Listed`: the list is the set of live modules less those whose imports are being loaded, each once;
`Counted`: `acounter` is the number of open drivers and of a driver's call at the bottom; `Result`: what
`LoadLibrary` has just answered is there, and held by its caller.  `ListExact`,
`UsersAlive` and `AllGone` follow, for any import relation and any depth of calls.  That
`remove_from_list` takes out one element is a lemma about the sequence (`WithoutOnce`), with a map between the
places before and after instead of an induction.

*`EmulationProofs`, registry.*  `RegistryInv` adds to the types and to `ValuesKept` that handles are numbered
up to `zz`, that nothing is acknowledged for the empty path, and that nothing is before there is a file.  Most of the work is
in what a search finds after the array was changed: an entry appended or overwritten, the entries
of a key and of longer names taken out (the ones that stay keep their order), and the first entries of an array whose
save did not end: a name found among them is found at the same place, one found behind them is `unsaved`.

*`AddressSpaceProofs`.*  `MemoryInv`: the regions and the views are whole
pages, no two have one in common, and together they are `mapped` (`Layout`), those adrift included, since only
`mapped` keeps a new region off them; only the newest view can be the target of
`UnmapViewOfFile`, each other one is under another mapping (`Viewed`); who was given a region finds it in the list
with that start and length (`Held`), with the exceptions that `HoldsExact` names.  `CommitFound` shows why the search
of `VirtualAlloc` cannot miss a reservation: since no two regions meet and all are whole pages, only one in the list meets the page to commit.
`Tracked`, `HoldsExact` and `CommitSucceeds` follow for any page size, granularity, images and sizes.

*`WinSyncProofs`.*  The four invariants are inductive together.  `SemaphoreWait`
and `EventWait` are what a first wait and the return of a sleeper have in common.

*`WinHeapProofs`.*  `OrderBy` says that the linked blocks are ordered by the time
of their allocation, and that `prev` and `next` are the neighbours in that order;
so `last` is null only if nothing is linked.  `Pinned` says that a second thread
means a linked block that nobody can release, the one of its `pthread_t`.
Together they show that a thread finds the list empty only when it is alone,
which is why initializing `memmut` late and destroying it early does no harm
(`Locked`).  `ListIntact` needs two more facts: the links from `last_alloc` reach every
linked block (a block that is not reached has a younger neighbour that is not,
and there is a youngest), and `alccnt` is the cardinality of the list.  Reached
is stated as the least set closed under `prev`, so no recursion is needed.  Overruns do
not disturb it: they change `wild` and the guard word, and whoever would follow a wild link is lost.

Only model-checked: everything with fairness (`CallReturns`, `NoOrphan`, the liveness
half of `ImplementsSync`, `EnterReturns`, `MutexGranted`, `GCEnds`),
which is beyond the prover; `MythSession`; and the counterexamples.  Not proved because it does not hold:
`ImplementsQueue` and `PageKept` with a codec that delivers from a thread of its own
(`Threads`), a pool of more than one sample, mutual exclusion of critical sections.

## 5. Not modelled, and why

* *Wine's headers* (half of the lines of the repository) are declarations; `compat/`, `osdep/`,
  `ldt_keeper.c`, `resource.c`: one-line replacements, one system call, a reader
  without state.
* *ACM, VFW and the audio decoder* have no caller in the repository.  (`acmDriverClose` closes
  a driver only if the list of its id is empty afterwards.)
* *The xine client* is out of date, as `README:34` says: it tests `timed_semwait` for 0 where
  success is 1 now, and so takes each answer for a failure.
* *Relocation, exports, the ELF and QuickTime branches*: arithmetic on a binary format, or
  compiled out.
* *The rest of `win32.c`*: tables that are filled at start-up and looked up (COM classes, TLS
  slots), files, and calls that convert, format or report.
* *Option parsing, tables and CRC, the frame dump, `ShowProperties`*: no steps.
* In modelled parts: `SetPointer` and `new_pointer` (nothing calls them), media types but for the
  format, named objects and waits for threads in `WinSync`, images above 2 GB.

Seen while reading, too small for a property or out of the models:
`PARAM_OUTFMT` stores `codec->fourcc` (`dshowserver/defaults.c:61`); milliseconds are added to microseconds
(`loader/win32.c:868`); a timed wait that is given up resets the event all the same
(`win32.c:874`); `CreateSemaphoreA` returns the newest object (`win32.c:1871`);
`SetDestFmt`'s result is ignored (`server.c:262`); circular imports recurse (`pe_image.c:244`); `ConnectedTo` gives a pin out without
a reference (`dshow/outputpin.c:357`); an enumerator is never released (`dshow/DS_Filter.c:307`).

## 6. What could come next

1. `FrameStore` and `MemAllocator` composed: which page a released output sample is
   reused for, with the codec's two threads.
2. Named objects and their list in `WinSync`, created from two threads.
