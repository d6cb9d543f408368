------------------------------ MODULE ThreadPool ------------------------------
(***************************************************************************)
(* multi-thread/libthreadpool/src/thread-pool.c: an array of Max slots, of *)
(* which the first cur_th_num are in use; each has a thread that waits on  *)
(* the slot's condition variable, a lock and a flag is_busy.  process_job  *)
(* gives a job to the first slot that is not busy, or to a new slot; a     *)
(* manager thread removes the last slots while more than half are idle.    *)
(*                                                                         *)
(* Every thread is a process: the callers of process_job, the workers, the *)
(* manager, and Main, which calls init and close.  pc[p] is where p is; a  *)
(* step is one access to memory that other threads use.                    *)
(*                                                                         *)
(* pthreads and kill() are external.  Where the code leaves what POSIX     *)
(* defines, the outcomes are those of the library this code was built for  *)
(* (libthreadpool.a, beside the source, is i386 code for glibc 2.23):      *)
(*   - kill(thread_id) names no process: it fails and nothing dies;        *)
(*   - destroying a mutex in use, or a condition with waiters, fails with  *)
(*     EBUSY; a destroyed mutex (dead) makes lock, unlock and cond_wait    *)
(*     return EINVAL at once; waiters of a destroyed condition (gone) are  *)
(*     never signalled;                                                    *)
(*   - re-initialising a condition under its waiters cuts them off: they   *)
(*     are still asleep on its futex, but no longer counted (pc "cut");    *)
(*   - a mutex that is re-initialised is free.  A thread that waits for it *)
(*     then may never be woken; here it can go on, so that what must       *)
(*     happen in the end is claimed only where no slot is deleted;         *)
(*   - a signal takes the lock word of the condition.  Behind the array    *)
(*     that is a word of the heap that others use (J_SignalAstray);        *)
(*   - there are no spurious wakeups;                                      *)
(*   - the counter cur_th_num is incremented and decremented by a load and *)
(*     a store.                                                            *)
(***************************************************************************)
EXTENDS Integers, FiniteSets

CONSTANTS
  Callers,      \* the threads that call process_job
  Min, Max,     \* min_th_num, max_th_num
  NumJobs,      \* bound: jobs handed over
  NumWorkers,   \* bound: worker threads ever created
  Rounds,       \* bound: times the manager wakes from sleep
  CanFail,      \* can pthread_create fail?
  DirtyHeap,    \* can malloc return memory that is not zero?
  Closes,       \* is the pool closed at the end?
  Main, Manager, NoOne

Worker == 1..NumWorkers     \* in the order of their creation
Job    == 1..NumJobs        \* in the order of the calls
Slot   == 0..Max-1          \* the elements of thread_info
Proc   == Callers \union Worker \union {Main, Manager}

Garbage == 0                \* a th_work or th_job no caller has written

ASSUME PoolAssumption ==
  /\ Min \in Nat \ {0} /\ Max \in Nat /\ Min <= Max
  /\ NumJobs \in Nat /\ Rounds \in Nat
  /\ NumWorkers \in Nat /\ Min <= NumWorkers
  /\ CanFail \in BOOLEAN /\ DirtyHeap \in BOOLEAN /\ Closes \in BOOLEAN
  /\ Callers \intersect (Worker \union {Main, Manager}) = {}
  /\ Main \notin Worker /\ Manager \notin Worker /\ Main # Manager
  /\ NoOne \notin Proc

VARIABLES
  cur,          \* cur_th_num
  tp_lock,      \* the owner of tp_lock
  id,           \* thread_id of each slot
  busy,         \* is_busy of each slot
  work, desc,   \* th_work and th_job of each slot: the job they belong to
  lock,         \* thread_lock of each slot: its owner
  users,        \* thread_lock: pthread's count of its users
  dead,         \* thread_lock was destroyed
  gone,         \* thread_cond was destroyed
  pc,           \* where each thread is
  idx,          \* the slot number a thread holds in a local variable
  reg,          \* a register: cur_th_num between a load and its store,
                \*   the manager's busy_num
  job,          \* what a caller hands over, and a worker has read: its
                \*   work and its job
  calls,        \* the number of jobs handed over
  born,         \* the number of workers created
  rounds,       \* the number of times the manager woke
  ran,          \* how often each job was run (2: twice or more)
  aborted,      \* the process died, or its heap was overwritten
  freed         \* thread_info was freed

slots  == <<id, busy, work, desc>>
sync   == <<lock, users, dead, gone>>
thlock == <<lock, users>>
local  == <<idx, reg, job>>
memory == <<cur, tp_lock, slots, sync>>
world  == <<calls, born, rounds, ran, aborted, freed>>
vars   == <<memory, pc, local, world>>

None == [work |-> Garbage, desc |-> Garbage]

CallerPcs == {"idle", "scan", "lock", "test", "claim", "work", "desc",
              "addlock", "check", "fresh", "inc", "incstore", "create",
              "index", "addunlock", "signal", "stuck"}
WorkerPcs == {"unborn", "start", "lock", "wait", "waiting", "cut", "woken",
              "unlock", "readwork", "readdesc", "run", "relock", "clear",
              "reunlock", "exited"}
ManagerPcs == {"unborn", "sleep", "count", "min", "last", "killlock",
               "killcond", "dec", "decstore"}
MainPcs == {"init", "ready", "failed", "close", "closed"}
Labels == CallerPcs \union WorkerPcs \union ManagerPcs \union MainPcs

Written == Job \union {Garbage}
Task    == [work : Written, desc : Written]

\* Types and ranges: add_thread and delete_thread keep cur_th_num between
\* min_th_num and max_th_num.
TypeOK ==
  /\ cur \in Min..Max
  /\ tp_lock \in Callers \union {NoOne}
  /\ id \in [Slot -> Worker \union {NoOne}]
  /\ busy \in [Slot -> BOOLEAN]
  /\ work \in [Slot -> Written] /\ desc \in [Slot -> Written]
  /\ lock \in [Slot -> Callers \union Worker \union {NoOne}]
  /\ users \in [Slot -> Int]
  /\ dead \in [Slot -> BOOLEAN] /\ gone \in [Slot -> BOOLEAN]
  /\ pc \in [Proc -> Labels]
  /\ idx \in [Proc -> 0..Max]
  /\ reg \in [Callers \union {Manager} -> 0..Max]
  /\ job \in [Callers \union Worker -> Task]
  /\ calls \in 0..NumJobs /\ born \in 0..NumWorkers /\ rounds \in 0..Rounds
  /\ ran \in [Job -> 0..2]
  /\ aborted \in BOOLEAN /\ freed \in BOOLEAN

\* creat_thread_pool.  The slots are not initialised: is_busy is whatever
\* malloc left there.
Init ==
  /\ cur = Min /\ tp_lock = NoOne
  /\ id = [i \in Slot |-> NoOne]
  /\ busy \in [Slot -> IF DirtyHeap THEN BOOLEAN ELSE {FALSE}]
  /\ work = [i \in Slot |-> Garbage] /\ desc = [i \in Slot |-> Garbage]
  /\ lock = [i \in Slot |-> NoOne] /\ users = [i \in Slot |-> 0]
  /\ dead = [i \in Slot |-> FALSE] /\ gone = [i \in Slot |-> FALSE]
  /\ pc = [p \in Proc |-> IF p = Main THEN "init"
                          ELSE IF p \in Callers THEN "idle" ELSE "unborn"]
  /\ idx = [p \in Proc |-> 0]
  /\ reg = [p \in Callers \union {Manager} |-> 0]
  /\ job = [p \in Callers \union Worker |-> None]
  /\ calls = 0 /\ born = 0 /\ rounds = 0 /\ ran = [j \in Job |-> 0]
  /\ aborted = FALSE /\ freed = FALSE

Goto(p, l) == pc' = [pc EXCEPT ![p] = l]
Move(p, k, l) == pc[p] = k /\ Goto(p, l)

-----------------------------------------------------------------------------
(* External: pthreads *)

mutex_lock(p, i) ==
  \/ dead[i] /\ UNCHANGED <<lock, users>>
  \/ /\ ~dead[i] /\ lock[i] = NoOne
     /\ lock' = [lock EXCEPT ![i] = p]
     /\ users' = [users EXCEPT ![i] = @ + 1]

\* A normal mutex is released whoever owns it.
mutex_unlock(i) ==
  IF dead[i] THEN UNCHANGED <<lock, users>>
  ELSE /\ lock' = [lock EXCEPT ![i] = NoOne]
       /\ users' = [users EXCEPT ![i] = @ - 1]

\* A waiter on a condition still counts as a user of its mutex.
mutex_destroy(i) ==
  dead' = [dead EXCEPT ![i] = @ \/ users[i] = 0]

Asleep(i, l) == {w \in Worker : pc[w] = l /\ idx[w] = i}

cond_destroy(i) ==
  gone' = [gone EXCEPT ![i] = @ \/ Asleep(i, "waiting") = {}]

\* What a signal of slot i's condition makes of pc.  If it counts a waiter, it
\* wakes that one, or the futex wakes one that was cut off instead, or one
\* that was cut off and goes back to sleep; the signal is used up each time.
Signalled(i) ==
  IF Asleep(i, "waiting") = {} THEN {pc}
  ELSE UNION {{[pc EXCEPT ![w] = "woken"]} \union
              {[pc EXCEPT ![w] = "cut", ![c] = l] :
                 c \in Asleep(i, "cut"), l \in {"cut", "woken"}} :
              w \in Asleep(i, "waiting")}

-----------------------------------------------------------------------------
(* tp_init and tp_close, called by Main *)

\* Slot idx[Main] is initialised and gets its thread.
T_Init ==
  /\ pc[Main] = "init" /\ idx[Main] < Min
  /\ LET i == idx[Main] IN
     /\ id' = [id EXCEPT ![i] = born + 1]
     /\ idx' = [idx EXCEPT ![Main] = i + 1]
  /\ born' = born + 1
  /\ Goto(born + 1, "start")
  /\ UNCHANGED <<cur, tp_lock, busy, work, desc, sync, reg, job, calls,
                 rounds, ran, aborted, freed>>

T_Manager ==
  /\ pc[Main] = "init" /\ idx[Main] = Min
  /\ pc' = [pc EXCEPT ![Main] = "ready", ![Manager] = "sleep"]
  /\ idx' = [idx EXCEPT ![Main] = 0]
  /\ UNCHANGED <<memory, reg, job, world>>

\* pthread_create fails: init returns FALSE and leaves the threads it made.
T_Fail ==
  /\ CanFail /\ pc[Main] = "init"
  /\ Goto(Main, "failed")
  /\ UNCHANGED <<memory, local, world>>

\* Main closes the pool when no call of process_job is under way.
T_Close ==
  /\ Closes /\ pc[Main] = "ready"
  /\ \A c \in Callers : pc[c] = "idle"
  /\ Goto(Main, "close")
  /\ UNCHANGED <<memory, local, world>>

T_Destroy ==
  /\ pc[Main] = "close" /\ idx[Main] < cur
  /\ mutex_destroy(idx[Main]) /\ cond_destroy(idx[Main])
  /\ idx' = [idx EXCEPT ![Main] = @ + 1]
  /\ UNCHANGED <<cur, tp_lock, slots, lock, users, pc, reg, job, world>>

T_Free ==
  /\ pc[Main] = "close" /\ idx[Main] >= cur
  /\ freed' = TRUE
  /\ Goto(Main, "closed")
  /\ UNCHANGED <<memory, local, calls, born, rounds, ran, aborted>>

-----------------------------------------------------------------------------
(* tp_process_job *)

ProcessJob(c) ==
  /\ pc[c] = "idle" /\ pc[Main] = "ready" /\ calls < NumJobs
  /\ calls' = calls + 1
  /\ job' = [job EXCEPT ![c] = [work |-> calls + 1, desc |-> calls + 1]]
  /\ Goto(c, "scan")
  /\ UNCHANGED <<memory, idx, reg, born, rounds, ran, aborted, freed>>

\* The next slot of the scan, or none is left.
J_Scan(c) ==
  /\ Move(c, "scan", IF idx[c] < cur THEN "lock" ELSE "addlock")
  /\ UNCHANGED <<memory, local, world>>

\* Mutation of J_Lock: the lock is not taken.
J_Lock_Skipped(c) ==
  /\ Move(c, "lock", "test")
  /\ UNCHANGED <<memory, local, world>>

J_Lock(c) ==
  /\ Move(c, "lock", "test")
  /\ mutex_lock(c, idx[c])
  /\ UNCHANGED <<cur, tp_lock, slots, dead, gone, local, world>>

\* Mutation of J_Test: the unlock of line 143 is missing.
J_Test_KeepsLock(c) ==
  /\ pc[c] = "test"
  /\ IF busy[idx[c]] THEN /\ Goto(c, "scan")
                          /\ idx' = [idx EXCEPT ![c] = idx[c] + 1]
                     ELSE Goto(c, "claim") /\ UNCHANGED idx
  /\ UNCHANGED <<memory, reg, job, world>>

\* A busy slot's lock is released and the scan goes on.
J_Test(c) == LET i == idx[c] IN
  /\ pc[c] = "test"
  /\ IF busy[i] THEN /\ mutex_unlock(i)
                     /\ Goto(c, "scan")
                     /\ idx' = [idx EXCEPT ![c] = i + 1]
                ELSE Goto(c, "claim") /\ UNCHANGED <<lock, users, idx>>
  /\ UNCHANGED <<cur, tp_lock, slots, dead, gone, reg, job, world>>

\* The idle slot is claimed and its lock released.
J_Claim(c) ==
  /\ Move(c, "claim", "work")
  /\ busy' = [busy EXCEPT ![idx[c]] = TRUE]
  /\ mutex_unlock(idx[c])
  /\ UNCHANGED <<cur, tp_lock, id, work, desc, dead, gone, local, world>>

\* Mutation of J_Work: th_job is not set.
J_Work_NoJob(c) ==
  /\ Move(c, "work", IF tp_lock = c THEN "addunlock" ELSE "signal")
  /\ work' = [work EXCEPT ![idx[c]] = job[c].work]
  /\ UNCHANGED <<cur, tp_lock, id, busy, desc, sync, local, world>>

J_Work(c) ==
  /\ Move(c, "work", "desc")
  /\ work' = [work EXCEPT ![idx[c]] = job[c].work]
  /\ UNCHANGED <<cur, tp_lock, id, busy, desc, sync, local, world>>

\* tp_lock is held here only on the way through add_thread.
J_Desc(c) ==
  /\ Move(c, "desc", IF tp_lock = c THEN "addunlock" ELSE "signal")
  /\ desc' = [desc EXCEPT ![idx[c]] = job[c].desc]
  /\ UNCHANGED <<cur, tp_lock, id, busy, work, sync, local, world>>

J_AddLock(c) ==
  /\ pc[c] = "addlock" /\ tp_lock = NoOne
  /\ tp_lock' = c
  /\ Goto(c, "check")
  /\ UNCHANGED <<cur, slots, sync, local, world>>

\* Mutation of J_AddUnlock: tp_lock is not released.
J_AddUnlock_Dropped(c) ==
  /\ Move(c, "addunlock", "signal")
  /\ UNCHANGED <<memory, local, world>>

J_AddUnlock(c) ==
  /\ Move(c, "addunlock", "signal")
  /\ tp_lock' = NoOne
  /\ UNCHANGED <<cur, slots, sync, local, world>>

\* The signal is sent without the lock, to slot idx[c], even if no slot was
\* added: then idx[c] is where the scan ended.  Slot number Max is memory
\* behind the array; if its words are zero nobody waits there, and the call
\* returns ...
J_Signal(c) ==
  /\ pc[c] = "signal"
  /\ \E s \in Signalled(idx[c]) : pc' = [s EXCEPT ![c] = "idle"]
  /\ idx' = [idx EXCEPT ![c] = 0] /\ reg' = [reg EXCEPT ![c] = 0]
  /\ job' = [job EXCEPT ![c] = None]
  /\ UNCHANGED <<memory, world>>

\* ... if not, the call waits for ever for a lock that nobody holds, or counts a
\* wake-up in memory that is not its own.
J_SignalAstray(c) ==
  /\ pc[c] = "signal" /\ idx[c] = Max
  /\ \/ Goto(c, "stuck") /\ UNCHANGED aborted
     \/ aborted' = TRUE /\ UNCHANGED pc
  /\ UNCHANGED <<memory, local, calls, born, rounds, ran, freed>>

-----------------------------------------------------------------------------
(* tp_add_thread, called with tp_lock held; index is its caller's line 149 *)

J_Check(c) ==
  /\ Move(c, "check", IF Max <= cur THEN "addunlock" ELSE "fresh")
  /\ UNCHANGED <<memory, local, world>>

\* The new slot's condition and mutex are initialised, whoever uses them.
Fresh(c, isBusy) ==
  /\ pc[c] = "fresh"
  /\ idx' = [idx EXCEPT ![c] = cur]
  /\ busy' = [busy EXCEPT ![cur] = isBusy]
  /\ lock' = [lock EXCEPT ![cur] = NoOne]
  /\ users' = [users EXCEPT ![cur] = 0]
  /\ dead' = [dead EXCEPT ![cur] = FALSE]
  /\ gone' = [gone EXCEPT ![cur] = FALSE]
  /\ pc' = [p \in Proc |-> IF p \in Asleep(cur, "waiting") THEN "cut"
                           ELSE IF p = c THEN "inc" ELSE pc[p]]
  /\ UNCHANGED <<cur, tp_lock, id, work, desc, reg, job, world>>

\* Mutation of J_Fresh: line 203 is missing.
J_Fresh_Idle(c) == Fresh(c, FALSE)

J_Fresh(c) == Fresh(c, TRUE)

J_Inc(c) ==
  /\ Move(c, "inc", "incstore")
  /\ reg' = [reg EXCEPT ![c] = cur]
  /\ UNCHANGED <<memory, idx, job, world>>

J_IncStore(c) ==
  /\ Move(c, "incstore", "create")
  /\ cur' = reg[c] + 1
  /\ UNCHANGED <<tp_lock, slots, sync, local, world>>

J_Create(c) ==
  /\ pc[c] = "create" /\ born < NumWorkers
  /\ id' = [id EXCEPT ![idx[c]] = born + 1]
  /\ born' = born + 1
  /\ pc' = [pc EXCEPT ![c] = "index", ![born + 1] = "start"]
  /\ UNCHANGED <<cur, tp_lock, busy, work, desc, sync, local, calls, rounds,
                 ran, aborted, freed>>

\* pthread_create fails: free is called on the middle of an array and the
\* library aborts the process (slot 0, the array's start, is always in use).
J_CreateFails(c) ==
  /\ CanFail /\ pc[c] = "create"
  /\ aborted' = TRUE
  /\ UNCHANGED <<memory, pc, local, calls, born, rounds, ran, freed>>

J_Index(c) ==
  /\ Move(c, "index", "work")
  /\ idx' = [idx EXCEPT ![c] = cur - 1]
  /\ UNCHANGED <<memory, reg, job, world>>

-----------------------------------------------------------------------------
(* tp_work_thread *)

\* tp_get_thread_by_id: the first of n slots with the thread's own id.  Its
\* parameter is an int, as wide as the pthread_t of the i386 build: the
\* comparison is exact there (where pthread_t is wider it is not).
Search(w, n) ==
  \/ \E i \in Slot :
       /\ i < n /\ id[i] = w /\ \A k \in 0..i-1 : id[k] # w
       /\ idx' = [idx EXCEPT ![w] = i] /\ Goto(w, "lock")
  \/ /\ \A i \in Slot : i < n => id[i] # w
     /\ Goto(w, "exited") /\ UNCHANGED idx

\* Mutation of W_Start: the search stops one slot early.
W_Start_OffByOne(w) ==
  /\ pc[w] = "start" /\ Search(w, cur - 1)
  /\ UNCHANGED <<memory, reg, job, world>>

W_Start(w) ==
  /\ pc[w] = "start" /\ Search(w, cur)
  /\ UNCHANGED <<memory, reg, job, world>>

W_Lock(w) ==
  /\ \/ pc[w] = "lock" /\ Goto(w, "wait")
     \/ pc[w] = "relock" /\ Goto(w, "clear")
  /\ mutex_lock(w, idx[w])
  /\ UNCHANGED <<cur, tp_lock, slots, dead, gone, local, world>>

\* pthread_cond_wait: releases the lock and sleeps, with no condition to test.
W_Wait(w) == LET i == idx[w] IN
  /\ pc[w] = "wait"
  /\ IF dead[i] THEN Goto(w, "unlock") /\ UNCHANGED lock
     ELSE /\ Goto(w, IF gone[i] THEN "cut" ELSE "waiting")
          /\ lock' = [lock EXCEPT ![i] = NoOne]
  /\ UNCHANGED <<cur, tp_lock, slots, users, dead, gone, local, world>>

\* It was signalled: it takes the lock again.
W_Wake(w) == LET i == idx[w] IN
  /\ Move(w, "woken", "unlock")
  /\ \/ dead[i] /\ UNCHANGED lock
     \/ ~dead[i] /\ lock[i] = NoOne /\ lock' = [lock EXCEPT ![i] = w]
  /\ UNCHANGED <<cur, tp_lock, slots, users, dead, gone, local, world>>

\* Mutation of W_Unlock: the slot is given back before the job is read.
W_Unlock_Early(w) ==
  /\ \/ /\ pc[w] = "unlock" /\ Goto(w, "readwork")
        /\ busy' = [busy EXCEPT ![idx[w]] = FALSE]
     \/ pc[w] = "reunlock" /\ Goto(w, "lock") /\ UNCHANGED busy
  /\ mutex_unlock(idx[w])
  /\ UNCHANGED <<cur, tp_lock, id, work, desc, dead, gone, local, world>>

W_Unlock(w) ==
  /\ \/ pc[w] = "unlock" /\ Goto(w, "readwork")
     \/ pc[w] = "reunlock" /\ Goto(w, "lock")
  /\ mutex_unlock(idx[w])
  /\ UNCHANGED <<cur, tp_lock, slots, dead, gone, local, world>>

W_ReadWork(w) ==
  /\ Move(w, "readwork", "readdesc")
  /\ job' = [job EXCEPT ![w].work = work[idx[w]]]
  /\ UNCHANGED <<memory, idx, reg, world>>

W_ReadDesc(w) ==
  /\ Move(w, "readdesc", "run")
  /\ job' = [job EXCEPT ![w].desc = desc[idx[w]]]
  /\ UNCHANGED <<memory, idx, reg, world>>

\* The job is run; a call through a pointer nobody wrote kills the process.
W_Run(w) == LET j == job[w].work IN
  /\ pc[w] = "run"
  /\ IF j = Garbage THEN aborted' = TRUE /\ UNCHANGED <<ran, pc, job>>
     ELSE /\ ran' = [ran EXCEPT ![j] = IF @ = 0 THEN 1 ELSE 2]
          /\ Goto(w, "relock")
          /\ job' = [job EXCEPT ![w] = None]
          /\ UNCHANGED aborted
  /\ UNCHANGED <<memory, idx, reg, calls, born, rounds, freed>>

W_Clear(w) ==
  /\ Move(w, "clear", "reunlock")
  /\ busy' = [busy EXCEPT ![idx[w]] = FALSE]
  /\ UNCHANGED <<cur, tp_lock, id, work, desc, sync, local, world>>

-----------------------------------------------------------------------------
(* tp_manage_thread, tp_get_tp_status and tp_delete_thread: no lock is taken *)

M_Wake ==
  /\ pc[Manager] = "sleep" /\ rounds < Rounds
  /\ rounds' = rounds + 1
  /\ Goto(Manager, "count")
  /\ UNCHANGED <<memory, local, calls, born, ran, aborted, freed>>

\* One slot is looked at.
M_Count == LET i == idx[Manager] IN
  /\ pc[Manager] = "count" /\ i < cur
  /\ idx' = [idx EXCEPT ![Manager] = i + 1]
  /\ reg' = [reg EXCEPT ![Manager] = IF busy[i] THEN @ + 1 ELSE @]
  /\ UNCHANGED <<memory, pc, job, world>>

\* All were: the pool is idle if busy_num / cur_th_num < 0.5.
M_Status ==
  /\ pc[Manager] = "count" /\ idx[Manager] >= cur
  /\ Goto(Manager, IF 2 * reg[Manager] < cur THEN "min" ELSE "sleep")
  /\ idx' = [idx EXCEPT ![Manager] = 0] /\ reg' = [reg EXCEPT ![Manager] = 0]
  /\ UNCHANGED <<memory, job, world>>

\* Mutation of M_Min: one thread too few.
M_Min_OffByOne ==
  /\ Move(Manager, "min", IF cur < Min THEN "sleep" ELSE "last")
  /\ UNCHANGED <<memory, local, world>>

M_Min ==
  /\ Move(Manager, "min", IF cur <= Min THEN "sleep" ELSE "last")
  /\ UNCHANGED <<memory, local, world>>

M_Last ==
  /\ Move(Manager, "last", IF busy[cur - 1] THEN "sleep" ELSE "killlock")
  /\ UNCHANGED <<memory, local, world>>

\* kill does nothing; the mutex is destroyed.
M_KillLock ==
  /\ Move(Manager, "killlock", "killcond")
  /\ mutex_destroy(cur - 1)
  /\ UNCHANGED <<cur, tp_lock, slots, lock, users, gone, local, world>>

M_KillCond ==
  /\ Move(Manager, "killcond", "dec")
  /\ cond_destroy(cur - 1)
  /\ UNCHANGED <<cur, tp_lock, slots, lock, users, dead, local, world>>

M_Dec ==
  /\ Move(Manager, "dec", "decstore")
  /\ reg' = [reg EXCEPT ![Manager] = cur]
  /\ UNCHANGED <<memory, idx, job, world>>

\* Mutation of M_DecStore: min_th_num is tested once, before the first delete.
M_DecStore_NoTest ==
  /\ Move(Manager, "decstore", "last")
  /\ cur' = reg[Manager] - 1
  /\ reg' = [reg EXCEPT ![Manager] = 0]
  /\ UNCHANGED <<tp_lock, slots, sync, idx, job, world>>

M_DecStore ==
  /\ Move(Manager, "decstore", "min")
  /\ cur' = reg[Manager] - 1
  /\ reg' = [reg EXCEPT ![Manager] = 0]
  /\ UNCHANGED <<tp_lock, slots, sync, idx, job, world>>

-----------------------------------------------------------------------------

CallerStep(c) ==
  \/ J_Scan(c) \/ J_Lock(c) \/ J_Test(c) \/ J_Claim(c) \/ J_Work(c)
  \/ J_Desc(c) \/ J_AddLock(c) \/ J_Check(c) \/ J_Fresh(c) \/ J_Inc(c)
  \/ J_IncStore(c) \/ J_Create(c) \/ J_CreateFails(c) \/ J_Index(c)
  \/ J_AddUnlock(c) \/ J_Signal(c) \/ J_SignalAstray(c)

WorkerStep(w) ==
  \/ W_Start(w) \/ W_Lock(w) \/ W_Wait(w) \/ W_Wake(w) \/ W_Unlock(w)
  \/ W_ReadWork(w) \/ W_ReadDesc(w) \/ W_Run(w) \/ W_Clear(w)

ManagerStep ==
  \/ M_Wake \/ M_Count \/ M_Status \/ M_Min \/ M_Last \/ M_KillLock
  \/ M_KillCond \/ M_Dec \/ M_DecStore

MainStep == T_Init \/ T_Manager \/ T_Fail \/ T_Close \/ T_Destroy \/ T_Free

\* Nothing is said of what happens after the process died, or in memory that
\* was freed.
Next ==
  /\ ~aborted /\ ~freed
  /\ \/ MainStep \/ ManagerStep
     \/ \E c \in Callers : ProcessJob(c) \/ CallerStep(c)
     \/ \E w \in Worker : WorkerStep(w)

Spec == Init /\ [][Next]_vars

\* The scheduler runs every thread that can run; that a lock is free only now
\* and then is not relied upon.
FairSpec ==
  /\ Spec
  /\ \A c \in Callers : WF_vars(~aborted /\ ~freed /\ CallerStep(c))
  /\ \A w \in Worker : WF_vars(~aborted /\ ~freed /\ WorkerStep(w))
  /\ WF_vars(~aborted /\ ~freed /\ (ManagerStep \/ T_Init \/ T_Manager))

-----------------------------------------------------------------------------
(* Properties *)

Adding == {"check", "fresh", "inc", "incstore", "create", "index",
           "addunlock"}

\* Why cur_th_num stays between min_th_num and max_th_num (TypeOK) although the
\* manager changes it without a lock, and either change can overwrite the
\* other: threads are added under tp_lock, only the manager subtracts, and each
\* side's test still holds of the value it stores.
Counted ==
  /\ \A c \in Callers :
       /\ pc[c] \in Adding => tp_lock = c
       /\ pc[c] \in {"fresh", "inc"} => cur < Max
       /\ pc[c] = "incstore" => reg[c] \in Min..Max-1
       /\ pc[c] \in {"lock", "test", "claim"} => idx[c] < Max
  /\ \A w \in Worker : idx[w] < Max
  /\ pc[Manager] \in {"last", "killlock", "killcond", "dec"} => cur > Min
  /\ pc[Manager] = "decstore" => reg[Manager] > Min
  /\ pc[Manager] = "count" => reg[Manager] <= idx[Manager]
  /\ pc[Manager] \notin {"count", "decstore"} => reg[Manager] = 0
  /\ pc[Main] = "init" =>
       /\ pc[Manager] = "unborn" /\ born = idx[Main] /\ idx[Main] <= Min
       /\ \A c \in Callers : pc[c] = "idle"

Filling(p, i) == pc[p] \in {"work", "desc"} /\ idx[p] = i
Serving(p, i) == /\ pc[p] \in {"woken", "unlock", "readwork", "readdesc",
                               "run", "relock", "clear"}
                 /\ idx[p] = i

\* The pool is not being closed.  tp_close destroys locks and conditions of
\* threads that go on, and a destroyed condition does not wait.
Open == pc[Main] \notin {"close", "closed"}

\* Until tp_close a slot is used by one thread at a time, a caller that writes
\* th_work and th_job or a worker that reads and runs them, though neither
\* holds its lock then; and it is marked busy all the while, so that no caller
\* takes it.
SlotExclusive == Open => \A i \in Slot :
  /\ \A p, q \in Proc : (Filling(p, i) \/ Serving(p, i))
                         /\ (Filling(q, i) \/ Serving(q, i)) => p = q
  /\ (\E p \in Proc : Filling(p, i) \/ Serving(p, i)) => busy[i]

\* Until tp_close a worker never runs the function of one job with the argument
\* of another.
WholeJobs == Open => \A w \in Worker : pc[w] = "run" => job[w].work = job[w].desc

\* A job is offered until it is stored in a slot, or until add_thread finds
\* the pool full; it is held until a worker runs it.
Offering == {"scan", "lock", "test", "claim", "work", "desc", "addlock",
             "check", "fresh", "inc", "incstore", "create", "index"}

Offered == {job[c].work : c \in {d \in Callers : pc[d] \in Offering}}
Held    == {j \in Job : ran[j] = 0 /\ \E i \in Slot : work[i] = j /\ desc[i] = j}

Pool == INSTANCE JobPool WITH
  Capacity <- Max, offered <- Offered, held <- Held

\* Until tp_close the pool keeps what JobPool promises: every job is taken or
\* turned away, a job that was taken is never overwritten by another, and is
\* run at most once.
PoolSpec == Pool!Init /\ [][Open => Pool!Next]_(Pool!vars)

\* While the pool only grows, every worker finds its own slot although
\* add_thread and the search of the new thread run side by side.
EverySlotServed == \A w \in Worker :
  /\ pc[w] # "exited"
  /\ pc[w] \notin {"unborn", "start"} => idx[w] < cur /\ id[idx[w]] = w

\* A worker that the signal found asleep goes on to run its job.
SignalledJobRuns == \A w \in Worker :
  pc[w] = "woken" ~> pc[w] = "relock" \/ aborted \/ freed

\* In a pool that no thread is deleted from, process_job returns: no slot lock
\* and no tp_lock is kept by anyone, not by a caller that is stuck in the signal
\* behind the array either, which is the only way not to return.
CallsReturn == \A c \in Callers :
  pc[c] # "idle" ~> pc[c] \in {"idle", "stuck"} \/ aborted \/ freed

\* The comment above process_job (line 113): a caller "may use the function to
\* process the task".  The code signals a condition without a predicate, and
\* if the worker is not yet waiting the job is never run.
EveryJobRuns == \A j \in Job : calls >= j ~> ran[j] > 0
=============================================================================
