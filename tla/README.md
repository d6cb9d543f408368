# TLA+ models and proofs of the training programs

The repository holds teaching material on Linux: kernel modules (`driver/`), user programs around I/O models, threads, processes, memory and tools. This project models in TLA+ the parts that have state shared by several processes or threads and logic of their own: the **globalfifo** and **globalmem** drivers, the loading and unloading of all character drivers, the **vmem_disk** block driver, the **thread pool** library, the **socket servers**, and the programs that use globalfifo. The models are checked with TLC on small instances; their safety properties and refinements are proved with TLAPS for every instance, and section 4 says under which assumptions.

## 1. Inventory

| part | source | state | operations | what is hard |
|---|---|---|---|---|
| globalfifo | `driver/globalfifo/ch12/globalfifo.c`, `ch9`, `ch8` (read, write, ioctl and poll are the same; `ch8` has no SIGIO) | `mem`, `current_len`, `mutex`, `r_wait`, `w_wait`, `async_queue` | open, release, fasync, read, write, `FIFO_CLEAR`, poll | blocking and wake-ups, three ways out of read and write, wait entries on the stack, faults in the middle of a copy, SIGIO, a list unlinked under the wrong lock |
| globalmem with mutex | `driver/globalmem/ch7/globalmem.c` | `mem`, `mutex`, `f_pos` of each open file | read, write, `MEM_CLEAR`, llseek | an unlock without a lock, races on `f_pos`, unsigned arithmetic |
| globalmem | `driver/globalmem/ch6/globalmem.c`, `multi_globalmem.c` | `mem` of one or ten devices | the same, without a lock | torn reads and writes |
| thread pool | `multi-thread/libthreadpool/src/thread-pool.[ch]` | `thread_info[]` (`is_busy`, `th_work`, `th_job`, lock and condition of each slot), `cur_th_num`, `tp_lock` | creat_thread_pool, init, process_job, add_thread, delete_thread, close; a worker per slot; a manager | signals without a lock, waits without a predicate, check-then-act on `is_busy` and `cur_th_num`, threads that `kill` does not end |
| driver loading | `*_init`, `*_exit`, `globalfifo_probe`, `globalfifo_remove`, `globalfifo-dev.c` | registrations, the device structure | load, unload, bind, unbind | failure half-way; use before initialisation; removal under open files |
| vmem_disk | `driver/vmem_disk/vmem_disk.c` | data, queue and gendisk of four disks | request loop, make_request, bio transfer, set-up, exit | segment lengths, cleanup after a failed set-up |
| user programs of globalfifo | `ch8/globalfifo_{poll,epoll}.c`, `ch9/globalfifo_test.c`, `ch9/aior.c`, `io/io-models/{epoll,sigio,event-exam}.c` | descriptors, event sets | select, epoll (level and edge), SIGIO, libevent, AIO | what an event or a timeout allows to conclude |
| socket servers | `io/io-models/select-model.c`, `multi-process-model.c` | client table, descriptor sets; a process per client | accept, read, write, close | table and descriptor limits, error returns |
| proc file | `driver/proc/proc.c` | one variable | open, show, write | load failure half-way |
| tracer | `tools/ptrace/*.c` | stop state of one child | single-step, wait | the protocol with the child |
| demonstrations | `multi-thread/helgrind`, `threadsanitizer`, `proc/`, `mem/`, `perf/`, `tools/`, `virt/`, `embedded/` | none or a variable | - | written to show one fault or to load a tool |

**How the parts interact.** A system call enters a driver through its `file_operations`; the kernel gives it the mutex, the wait queues, `f_pos` and `copy_*_user`. The user programs drive globalfifo through read, write, ioctl, select, epoll and SIGIO; `globalfifo-dev.c` creates the platform device that `globalfifo_probe` binds to. The thread pool is called by the threads of one process, and its workers and manager run beside them. Drivers, pool and servers do not depend on each other.

**What makes each part correct.**

- globalfifo: the bytes come out in the order they went in, each once, and a failed call changes nothing; `current_len` stays within the buffer; the mutex is held exactly between lock and unlock, on every path, and is always given back; nobody sleeps on beside data (or room); no wait entry outlives its call and no released file gets SIGIO; a poll timeout means there was no data.
- globalmem: copies stay inside `mem`; the position stays within the memory; writers exclude each other; every path gives the mutex back.
- thread pool: a slot serves one job at a time; a job is run once, whole, or turned away; `cur_th_num` stays between `min_th_num` and `max_th_num`; a slot in use is not destroyed; calls return; a job that was accepted is run.
- driver loading: nothing is reachable before it is initialised; a failure undoes what was done; nothing is freed while it is used.
- vmem_disk: a transfer moves exactly the bio's bytes; every request is completed once; no memory is freed twice.
- servers and clients: every ready client is served; the table matches the descriptor set; an event is not forgotten.

`PROJECT.json` lists the hazards of these parts at their lines, with the properties that cover them.

## 2. Modules

| module | models |
|---|---|
| `ByteQueue` | abstract: a bounded FIFO queue of bytes whose calls take effect once, or fail without effect |
| `Globalfifo` | the device and its callers, in steps |
| `GlobalfifoProofs` | theorems about it |
| `Globalmem` | the memory device with or without its mutex, its callers, and the kernel's counting mutex |
| `GlobalmemProofs` | theorems about it |
| `DriverLifecycle` | load, unload, bind and unbind of the seven character drivers (ch6, multi, ch7, ch8, ch9, ch12, proc), and the tasks that use them meanwhile |
| `DriverLifecycleProofs` | theorems about it |
| `SectorDisk` | abstract: a bio is carried out at once and reported once |
| `VmemDisk` | the block driver: set-up, exit, request loop, transfer |
| `VmemDiskProofs` | theorems about it |
| `JobPool` | abstract: jobs are offered, taken or turned away, and run once |
| `ThreadPool` | the pool with callers, workers, manager and the thread that opens and closes it |
| `ThreadPoolProofs` | theorems about its types and `cur_th_num` |
| `ThreadPoolSlots` | theorems about its slots and jobs |
| `TcpClients` | external: connections and the clients at their other end |
| `SocketServers` | extends it by the two echo servers |
| `SocketServersProofs` | theorems about them |
| `FifoPoll` | globalfifo of ch8, a step a call, with the kernel's epoll |
| `FifoAsync` | extends it by the SIGIO of ch9 |
| `FifoPrograms` | extends it by the programs that select, epoll, or wait for SIGIO or libevent |
| `FifoProgramsProofs` | theorems about them |
| `MC*` | constants, and symmetry where it is sound, for TLC |

`pc[p]` says where process `p` is. A step goes from one label to the next, and labels are placed wherever another process can see a difference: at lock and unlock, at every access to shared memory made without a lock, and at every point where the code can sleep. Operators with a suffix such as `R_Wake_One` or `Cut_Dropped`, each under a comment that begins "Mutation of", are wrong versions of the definition that follows; no specification uses them. They are there to show that the properties notice such a mistake.

### Globalfifo

`R_*`, `W_*`, `C_*` and `P_*` are the steps of read, write, ioctl and poll, in the order of the code; `R_Again`, `R_Fault` and their like are the early returns. Each comment names what the step does, and `map` in `PROJECT.json` its lines. Two labels inside a critical section can look superfluous, since the mutex protects them: they are where `copy_to_user` may sleep or where `kill_fasync` and `wake_up` act, which other tasks do see.

External, modelled from how the driver uses it (Linux 4.0, the kernel the `.ko` files beside the source were built against): the mutex; wait queues (`r_wait` is a sequence because `list_add` and `list_del` on neighbours matter); select and level-triggered epoll around `globalfifo_poll`; signals and SIGIO.

`globalfifo_read` links its wait entry on `r_wait` and removes it, on line 147, with `remove_wait_queue(&dev->w_wait, ...)`: `list_del` works whatever the head, but the lock taken is that of `w_wait`, and `mutex_unlock` came before. With `Smp = TRUE` the unlink can overlap an operation on `r_wait` on another CPU, and the model chooses among the outcomes of the interleaved pointer writes: both done, an entry cut off from the head (`lost`), or an inconsistent list (`damaged`). After damage the model stops: the properties that speak of the lists say nothing of it. With `Smp = FALSE` the race is absent (the sections run with interrupts or preemption off).

`QueueSpec` maps it to `ByteQueue`. There a call begins with its count and buffer, comes to one outcome, and returns it; only the step to the outcome `ok` changes the queue, by as many bytes as the count that is returned. `Op` and `Outcome` give each task's call and outcome: a read's is settled when `copy_to_user` has succeeded, a write's when `current_len` counts its bytes, a failed call's when its error code is stored. So a call cannot take effect twice, nor take effect and then fail, nor return another number than it moved, and `-EAGAIN`, `-EFAULT` and `-ERESTARTSYS` come only where the abstract call may fail so.

### Globalmem

A task inside a handler is at `lock`, `slow`, `asleep` (in `mutex_lock`), `use` (copying or clearing), `unlock`, `wake` (in `mutex_unlock`), `pos` (about to store the position) or `add` (between the test and the addition in llseek). The bytes are left out: what matters is the range `pos .. pos+count-1` a call uses. `pos` is the whole of `*ppos`, to which a call adds its count; what it compares and uses is `pos % Uint`. `unsigned long` and `unsigned int` have 32 bits (the module was built for i386): `% Uint`.

`with_mutex` is the driver of the behaviour: TRUE for `ch7`, FALSE for `ch6/globalmem.c` and for each device of `multi_globalmem.c`, whose handlers are those of `ch7` without the mutex: `Enter` is where a writing handler begins, `CopyPlain` ends a copy without an unlock. What holds there does not come from the mutex, and the properties of copies and positions hold with and without it.

External: the mutex of Linux 4.0 without `CONFIG_DEBUG_MUTEXES`, which the module was built with. It has to be a counter and not an owner, because `globalmem_read` unlocks it (line 84) without having locked it, and what that does is decided by the counter. `vfs_read` and `vfs_write` load `f_pos` before the handler and store it after; `f_pos_lock` is not taken for a character device.

### ThreadPool

`T_*` is the thread that calls init and close, `J_*` process_job with add_thread inlined, `W_*` the worker, `M_*` the manager with get_tp_status and delete_thread inlined. `cur_th_num++` and `--` are a load into `reg` and a store. pthreads and `kill` are external; where POSIX leaves the outcome open the model does what glibc 2.23 on i386, the library of the build, does; the header of the module lists it. In particular `kill(thread_id)` is given a `pthread_t`, names no process and ends no thread, so that a deleted slot's worker lives on. A signal behind the array (line 158 with a full pool) takes a lock word that is other heap data: `J_SignalAstray` lets the call hang for ever (`stuck`) or damage what it hits, after which nothing is said. A mutex that is initialised again while threads wait for it forgets them; the model lets them go on, and what must happen in the end is claimed only of pools that no thread is deleted from.

### DriverLifecycle

An init, probe, exit or remove function is a sequence of kernel calls that acquire or give back something, with a list for each call that can fail of what is given back then. `Script` holds these three parts, and `Ch6`, `MultiMem`, `Ch7`, `Ch8`, `Ch9`, `Ch12`, `Ch12Probe`, `Ch12Dev` and `Proc` are the scripts of the sources: this is where they differ, and where the models differ. Three threads of control run scripts, a call a step: `module` (insmod or rmmod of the driver), `devmodule` (the same of `globalfifo-dev.ko`) and `device` (the bus, which probes and removes). Tasks open the device, call a handler, return from it (it may have slept), and close. `Touch` says what a handler needs of the device: memory, a mutex and wait queues that are initialised. If they are not there, `crashed` is set and the behaviour ends.

External: when a module can be got and unloaded, the platform bus, devres, `/proc`; the header says how they are taken.

### VmemDisk

`Register`, `Kmalloc` and `S_*` are init and setup_device, with every failure; `X_*` is exit; `Q_*` is vmem_disk_request under the queue's lock; `N_*` vmem_disk_make_request; `Transfer` is one round of vmem_disk_xfer_bio with vmem_disk_transfer. `step` and `i` are the place in set-up and exit. A bio is its disk, first sector, direction and segments, given by the offsets at which they end (`Ends`, `ends`); a datum is the bio and the offset it was written from. `harm` collects what went wrong: a copy outside the disk (`bounds`) or its segment's buffer (`buffer`), a use of freed data (`data`), a second vfree (`free`), a call into an unloaded module, or a look at its `vmem_disk_ops` (`code`). After `data` and `code` the behaviour ends.

`SectorSpec` maps it to `SectorDisk`: a bio counts as carried out from its first segment on, and `StoreOf` and `BufferOf` fill in what a transfer under way has still to move. It is stated for request mode, in which the queue's lock makes it true; two make_requests on one sector may mix.

### SocketServers

`S_*` is `select-model.c`; `F_*` the parent and `C_*` the children of `multi-process-model.c`; one of the servers runs. `client`, `maxi`, `maxfd`, `allset`, `rset`, `nready` and `i` are the variables of the code, `fd` is the process's table of descriptors. Data is counted in reads of `MAXLINE` bytes, its contents (toupper) left out. External: TCP as a server sees it that reads and writes. A client may close with data unread, which resets the connection, and may go away before it has its answers; `TcpClients` says which read and which write then fail, and which raises SIGPIPE.

### FifoPoll, FifoAsync, FifoPrograms

The driver's calls are single steps here, which the theorem `Refinement` of the detailed model justifies; only the number of bytes matters to the programs. `prog` is a cast: the programs that run together on one fifo, from `epoll.c` (edge-triggered, with a pipe beside the fifo), `event-exam.c` (libevent, with stdin), `sigio.c` and `globalfifo_test.c` (one text), `globalfifo_epoll.c` (one epoll_wait of 15 seconds) and `globalfifo_poll.c` (select; its loop changes nothing), beside a writer and a reader. epoll is modelled by its ready list, to which every wake-up of a queue that `globalfifo_poll` names adds the fifo, and which epoll_wait checks against `Mask`.

## 3. Runs

| run | instance | shows |
|---|---|---|
| `fifo_calls` | 2 tasks that both read and write, one with O_NONBLOCK and one that gets signals, 1 clearer, 2 byte values, 2 bytes, one CPU | every successful call acts as one atomic call of `ByteQueue`, with the count it returns, and a failed one as none (`QueueSpec`); `current_len` and every count stay within the buffer; a writer beside room was stranded by FIFO_CLEAR or will be woken |
| `fifo_wake` | a reader with FASYNC, a writer, epoll for data, select for room, SMP | sleepers and pollers for data are missed only for the listed reasons; a read wakes all who wait for room; entries and registrations end with their call or file |
| `fifo_onecpu` | an epoll client that also reads with O_NONBLOCK, a reader, a writer, a clearer, signals, one CPU, fair | a timeout means no data; the mutex is given back; data wakes a reader |
| `gmem_bounds` | 3 tasks, 2 of them on one open file, with and without the mutex, one read | copies stay inside `mem` though `f_pos` is raced out of it; one read admits one writer more and no other; an idle device can be locked |
| `driver_lifecycle` | 7 drivers, 2 tasks, every failure, bind, unbind and rmmod at any time | a load that failed and an unload leave nothing behind (but proc.c's directory); a handler meets bad memory only in two named cases |
| `vmem_disk` | 2 disks, 5 bios (even and uneven segments, a non-fs request), both modes, every failure, rmmod, fair | `SectorSpec`; memory and code are misused only in the named cases; everything is given back; every request and exit ends |
| `pool_fixed` | 2 slots, 2 callers, 3 jobs, `is_busy` not initialised, the pool is closed, fair | a slot has one user; jobs are whole, and taken or turned away (`PoolSpec`); every call returns but one stuck in the signal behind the array |
| `pool_grow` | 1 caller, 1 to 3 slots, pthread_create may fail, fair | a new thread finds its slot; `PoolSpec`; a job whose signal found a waiter is run |
| `pool_shrink` | 1 caller, 1 to 3 slots, the manager wakes once and deletes while the caller adds | `cur_th_num` stays within bounds, and what was tested of it still holds at the store, without a lock |
| `servers` | 3 clients, descriptor limits below and above the set's size, failing accept and fork, fair | the client table matches the descriptor set; a server ends only for the named reasons; an accepted client is served, and released when it has gone |
| `fifo_programs` | 3 casts of 3 programs and a writer, a fifo of 3, fair | no data is forgotten, edge-triggered or not; a blocking read sleeps only if others took the data; every write signals; data is announced |
| `pool_lost_wakeup` | violation | a signal before the wait is lost, and with it the job |

The violation is a disagreement with a comment of the repository, which `findings` quotes.

**Bounds, and why they are enough.** A fifo of one or two bytes makes full, empty, partly full and every cut of a count occur; two byte values show an exchange of bytes. A writer and a select for room are the least for one wake-up to be taken by the wrong task, a reader with two pollers the least for the list races (an entry and a neighbour on either side). A memory of two bytes with counts up to three, offsets -1, 1, one past the end and `Uint + 1`, and `Uint = 4` let positions be in, at, behind and before the memory and wrap, in the unsigned comparison and in the 32 bits of llseek. Two tasks that race in llseek can drift without end; `Far = 4`, a whole `Uint`, bounds the positions at which a read or write begins; `MaxReads = 1` makes the admission of exactly one more writer visible with three tasks. In the pool, `Rounds` and `NumWorkers` bound how often the manager wakes and how many threads are made, which is only as many as the hazard in question takes: each run names its own. A delete and an add can overlap between load and store only if `Max >= Min + 2`, so `pool_shrink` has `Min = 1` and `Max = 3`. `pool_fixed` has a third job for a full pool of two; what it says of slots and jobs it says until `tp_close`, which destroys the conditions of threads that go on (`Open`).

Two tasks are enough for a handler and an open or close in every step of a load, and two minors for a cdev that is there beside one that is not; neither the loads nor the opens are counted, so that every sequence of them occurs. Two disks are the least for a second vfree to hit another disk's data; five sectors hold a write of two even segments and, behind it, one of uneven segments whose second is taken to end beyond the disk, and the two can be merged into one request. With `FD_SETSIZE = 6` two clients fit the set: the third is the one too many for a limit of 7, and is refused by accept for a limit of 6; one client sends two reads' worth ahead, one sends one, one never sends; `Window = 1` lets a write block; `Wild = 4` makes the bit that `FD_SET(-1)` sets coincide with a client's; `ProcLimit = 2` makes fork fail for the third. A fifo of three bytes, writes of one or two and `Chunk = 1` leave data behind every read of `epoll.c`; each cast has the writer, and a reader or a program that clears, which take what another program was told of.

`CHECK_DEADLOCK FALSE` appears where the system may stop: in the pool (its jobs are used up or the process died), in `driver_lifecycle` and `vmem_disk` (after a crash nothing more is said), in `servers` (the process ended), in `fifo_programs` (everyone asleep in the driver), and in `gmem_bounds`, where the code really can stop: after a stray unlock the counter can reach 2, the waiter that is woken finds it different from 1, sleeps again, and nobody owns the mutex or will wake it.

**Fairness.** Weak fairness of each task's (thread's, process's) own steps: the kernel schedules everything that can run. Nothing is assumed of programs (when they call, signal, open, load or unload) or of clocks (timeouts). A contended mutex can be missed forever under weak fairness, so no liveness property depends on winning it against an endless stream of callers. In `VmemDisk` the block layer calls the request function while there are requests; in `SocketServers` clients read what they are sent, for one that does not stops its server in `write`, which is how the code is written. Globalmem has no liveness property because of the stop just described, and `DriverLifecycle` none because what could delay an unload is the kernel's part of it.

## 4. Proofs

A theorem is for all values of the constants that satisfy the module's named assumption. Each proof has the same plan: an inductive invariant, one lemma per group of actions that it is kept, and from it the properties, by temporal logic. The invariants were checked with TLC before they were proved.

| assumption | says, apart from types | why |
|---|---|---|
| `ConstantsAssumption` | the buffer has room for a byte | `GLOBALFIFO_SIZE` is 4096 |
| `MemAssumption` | finitely many tasks; the memory is smaller than `Uint` | there is a permit to count for each task; 4096 against 2^32 |
| `PoolAssumption` | `1 <= Min <= Max`, threads are different from each other | `creat_thread_pool` is called with such numbers; `Min <= NumWorkers` lets `tp_init` finish |
| `LifecycleAssumption` | the minors are a list, and none has the name of another resource | they are the loop variable of `multi_globalmem.c` |
| `ServerAssumption` | finitely many clients; one limit is the largest; `FD_SETSIZE` and the limits are above `listenfd`, and `Wild` is a bit of the set above it | the listening socket is open; `FD_SETSIZE` is 1024 |
| `ProgramsAssumption` | the fifo, a write and a read have at least a byte | the sizes in the programs |
| `DiskAssumption` | a bio lies within its disk; one that carries data has segments, none of them empty | `set_capacity` was told `NSECTORS`, and the block layer turns away anything else (`bio_check_eod`) before the driver sees it |

Nothing is assumed of the number of tasks, pollers, callers, processes or disks but what the table says.

**GlobalfifoProofs.** `Inv` is `TypeOK`, `MutexHeldInside`, `Registered` (who is linked on which queue is a function of `pc`), `EachOnce` (an entry is on `r_wait` once, or cut off) and `Amounts` (`count` against `current_len` inside read and write, and the bytes of a write behind `current_len`). Beside it, for the refinement, `Outcomes`: a call's return value is set once and kept. `TypeOK` alone is not inductive: `current_len - count` and `current_len + count` stay in range only because of `Amounts`, which holds only because nobody else is inside the mutex. From `Inv`: `TypeCorrect`, `MutualExclusion`, `NoEntryOutlivesItsCall`; by two further invariants, each inductive beside `Inv`, `ReadersAreWoken` and `PollersAreWoken` (who waits for data waits because there is none, because the wake-up is on its way, or because the list race cut the entry off) and `WritersAreWoken`; `NoSignalToClosedFile`; and `Refinement`, that the device implements `ByteQueue`: the queue is `mem[0 .. current_len-1]`, except between `copy_to_user` and the update of `current_len`, when the bytes delivered are already gone from it; the calls are those of the tasks, with the outcome settled at that step; every step maps to a `ByteQueue` step or a stutter. `TimeoutIsHonest` is for one CPU (`~Smp`): there no entry is ever cut off (`NothingLost`), so that a poller beside data has its wake-up and does not time out. With `Smp` it is false, which is the first of the known deviations.

**ThreadPoolProofs.** `PoolInv` is `TypeOK` and `Counted`: the value that add_thread (under `tp_lock`) or the manager (alone on its side) holds in a register is the tested value of `cur_th_num` or has moved only away from the bound it was tested against. `PoolTypeCorrect` and `PoolCounted` follow; the interesting part is `cur_th_num` in `Min .. Max`.

**ThreadPoolSlots.** No lock protects `th_work` and `th_job`. What does is a token: who sets `is_busy`, under the slot's lock or in add_thread, uses the slot alone until the signal of line 138 or 158 passes it on to the worker, who alone clears `is_busy`. `SlotsInv` counts the token (`Bounds`: the scan stays within the slots in use; `Owned`: who is between lock and unlock owns the lock; `Token`: a slot has one user, and is busy meanwhile), and `JobsInv` says what the slot contains, depending on who has it (`Jobs`, `Contents`). Both rest on `Homes`: each worker has a slot below `cur_th_num` of its own, and the slot that a caller is adding has none yet.

Two things break the token in the code, and the theorems are about the behaviours in which they do not happen. One is a manager that deletes a thread (`Steady` says that it is not about to): the thread lives on, and serves the slot beside the next one. The other is a caller that is overtaken: it finds no idle slot among `cur_th_num`, waits for `tp_lock` while others fill the pool, and then sends the signal of line 158 to a slot that is theirs; `NotOvertaken` says that a caller that finds the pool full has looked at all `Max` slots. `Tame` is both. `PoolServes` needs `[]Steady`; `PoolExclusive`, `PoolWholeJobs` and `PoolImplements` need `[]Tame`. The properties speak of the time until `tp_close` (`Open`), which frees the slots under their threads. They hold for any callers and sizes, also where the pool grows with many callers. `PoolTame` says which pools are always tame: those that do not shrink (`Rounds = 0 \/ Min = Max`) and have one caller or do not grow; for them `PoolImplementsJobPool` has no hypothesis on the behaviour. `pool_fixed` and `pool_grow` are two of them.

**GlobalmemProofs.** `MemInv` is `TypeOK`, `Handling` (which handlers can be at a lock label, and that only ch7 gets there), `Ranges` and `Permits`. `Permits` counts: each unit of a positive mutex counter, each task in the critical section and each task about to set the counter to 1 is a permit, and there are at most `1 + reads`. Lock turns a unit into an owner, unlock an owner into a unit or into a waker, the waker into a unit; only a read makes one from nothing. It gives `ReadsAdmitWriters`; with no reads it is mutual exclusion. `Ranges` gives `CopiesStayInside` and, for a file that only one task uses, `PositionsStayInside`, for the drivers with and without the mutex. `Usable`, inductive beside `MemInv` (`IdleInv`), is the other direction: while the counter is not positive some task is about to set it to 1, to give the mutex back, or to try for it; when no task is inside a handler there is none, so the counter is positive: `IdleMutexIsFree`.

**DriverLifecycleProofs.** `Progress` ties what a control holds to its place in its script: while it loads, exactly the part of the load list that it has passed; while it fails or unloads, at most what the rest of its list gives back (`Covered`). It is proved once for `Acquire`, `GiveBack` and their like, over lists, from a lemma that the failure lists of the scripts cover what was passed (`Fits`); the scripts enter only there. `Partition` keeps the three controls of ch12 apart. `LifecycleLeavesNothing` follows at the end of a script. `Served`, that the device of an open file is complete, needs `Kept` (an open file pins its module, except in /proc and ch12) and `MiscLast` (in ch12 the misc device comes last and goes first); `LifecycleSafeOnceLoaded` is what a handler can then meet.

**VmemDiskProofs.** `DiskInv`: the place in set-up and exit says what each device has (`Stages`), so that devices whose set-up was not undone half-way own their data (`Owned`), only a queue that is not cleaned up has requests, a bio is in one of them at one place (`Requests`), and its disk is open (`Carried`). `DiskGivesBack` and `DiskHarms` follow. `DiskImplements` is the refinement of `SectorDisk` by the driver with a queue. It needs `AtHand`: of the bios of a disk at most one is moved in part, and it is the head of the request at hand; so the abstract store is the memory with the rest of that bio written, a merge or a reordering of requests is a stutter, and the first segment of a bio is the step that carries it out. For a bio with segments of different lengths the abstract result is left open, since line 75 is wrong for these.

**SocketServersProofs.** `Table` ties `client`, `maxi`, `maxfd`, `allset` and the open descriptors together, at every step of the loop; `Round` says that `nready` is the number of entries still to be served; `Queue` and `Hands` that a client is in one place. `ServersTableMatchesSet` follows. `ServersEndOnlyBy` has two parts. That "too many clients" is never printed is a pigeonhole argument: the entries of a full table would be `FD_SETSIZE` different descriptors below `FD_SETSIZE`, and `listenfd` is not among them. That only a client that goes with more than a read's worth unanswered raises SIGPIPE is `Answers`, about which error comes first on a reset connection.

**FifoProgramsProofs.** `Announced`: data in the fifo is on the ready list, or among the events at hand, of each program that watches it; `ProgramsNothingForgotten` follows, for edge-triggered programs because a read wakes `w_wait`, which poll names. `Truthful`: an event at hand is true, or others took the data (`robbed`); it gives `ProgramsSleepsOnlyIfRobbed`. `Armed`: owner and FASYNC are set in an order in which no SIGIO kills the program; it gives `ProgramsEveryWriteSignals`.

**Only model-checked.** The liveness properties `MutexReleased`, `DataWakesReader`, `SignalledJobRuns`, `CallsReturn`, `EverythingEnds`, `EveryClientServed`, `EveryClientReleased` and `DataIsAnnounced`: the prover has no fairness or ENABLED. `pool_lost_wakeup`, being a violation. All other properties of the runs are stated by theorems. Where a theorem has a hypothesis that the run's property has not (`~Smp`, `Tame`), the constants of the run satisfy it.

## 5. Known deviations

What the code does that its comments, or a reader's expectations, do not say. The models do it too; the properties name these cases as exceptions, so that they still say everything else.

| where | what | in the models |
|---|---|---|
| `globalfifo.c` (ch12) 147 | read unlinks its entry from `r_wait` under the lock of `w_wait`: on SMP an entry can be cut off, and an epoll times out beside data | `lost`, `damaged`; exceptions of `NoMissedReader`, `NoMissedPoller`; `TimeoutMeansNoData` is stated for one CPU |
| `ch7/globalmem.c` 84 | read unlocks a mutex it has not locked: writers no longer exclude each other | `OwnersBounded` counts the reads |
| `ch7/globalmem.c` 142 and the same lines of ch6 | llseek tests and adds in two steps: tasks that share a file can seek out of the memory | `PosInRange` is for a file one task uses; `InBounds` holds all the same |
| `thread-pool.c` 138 | a signal before the worker waits is lost, and with it the job | run `pool_lost_wakeup` |
| `thread-pool.c` 158 | with a full pool the signal goes to the slot number where the scan ended: behind the array, in memory that others use, or, when other callers have added slots since, to a slot whose worker may be waiting with its old job and runs it again | `J_SignalAstray`, exception of `CallsReturn`; `J_Signal`; `NotOvertaken`, the hypothesis of the theorems about slots |
| `thread-pool.c` 234 | the manager destroys a slot that a caller has just claimed | `M_KillLock`, `mutex_destroy` |
| `ch7` 193, `ch8` 233, `ch9` 247 | cdev_add before mutex_init and init_waitqueue_head | first exception of `SafeOnceLoaded` |
| `ch12/globalfifo.c` 251 | remove frees the device under open files | second exception of `SafeOnceLoaded` (`stale`) |
| `proc.c` 76 | the directory stays when the entry cannot be made | exception of `NothingLeftBehind` |
| `vmem_disk.c` 200 | register_blkdev returns 0 for a major it was given: init fails and keeps the major | `Register` |
| `vmem_disk.c` 214 | unregister_blkdev with another name: the major stays | `Kmalloc` |
| `vmem_disk.c` 75 | every segment gets the length of the first | `Even`; exceptions of `HarmOnlyFrom` and `SectorDisk` |
| `vmem_disk.c` 191 | the pointer stays after vfree, and exit frees it again | `HalfMade` in `HarmOnlyFrom` |
| `vmem_disk.c` 137, 232 | no `.owner`, and make_request is not waited for; a disk that is still open finds its operations gone at the next call and at its close | `code` and `data` in `HarmOnlyFrom` |
| `vmem_disk.c` 125 | getgeo multiplies a size in bytes as if it were sectors | not modelled |
| `select-model.c` 60 to 65 | a descriptor outgrows the set before the table is full: FD_SET writes behind it, and "too many clients" is never printed | `overflow`, `ended # "full"` in `EndsOnlyBy` |
| `select-model.c` 49 to 65 | a failed accept is entered as -1 | `failed`, `Wild` |
| `select-model.c` 88 | SIGPIPE of one client ends the server | `EndsOnlyBy` |
| `multi-process-model.c` 34 | the parent keeps the descriptor when fork fails; children stay as zombies; the child of a failed accept reads from -1 for ever | `F_ForkFails`, `Processes`, `lost`; the liveness properties are for clients that are served |
| `epoll.c` 42 | what a read leaves in the *pipe* is not announced again (in the fifo it is, since read wakes `w_wait`, which poll names) | `SideWrite`, `Kept`; `NothingForgotten` is for the fifo |
| `epoll.c` 42, `event-exam.c` 16 | the fifo is read without O_NONBLOCK after an event | exception of `SleepsOnlyIfRobbed` |

## 6. Not modelled

The parts with status `not_modelled` in `PROJECT.json`, with the reasons there: straight-line programs around one call (`aio.c` and `aior.c`, which are the same text, `eintr.c`, `mytun.c`), modules that only print, programs written to show one fault to a tool, and build recipes. None of them keeps state that a step of another process or a failure could put wrong. Within the modelled parts: printk, the values of errno that no property tells apart, ioctl commands other than the one defined (they return -EINVAL and do nothing), the numbers of getgeo and of the proc file, the start of the programs (a failed socket, bind or open ends them or leaves them idle), priorities and real time.

## 7. Plan

- Pools that shrink: after a deleted thread's slot is added again it has two workers; what is still true then of the jobs (no job is run that was not handed over, `JobPool` without "at most once") is neither checked nor proved.
- The `Smp` case of `TimeoutIsHonest`: a timeout beside data only after an entry was cut off, as a property of its own.
- A refinement from `Globalfifo` to `FifoPoll`, which now rests on `Refinement` and the reader.
