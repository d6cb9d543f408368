----------------------------- MODULE Globalfifo -----------------------------
(***************************************************************************)
(* The globalfifo character device (driver/globalfifo/ch12/globalfifo.c;   *)
(* read, write, ioctl and poll are the same code in ch8 and ch9): a buffer *)
(* of GLOBALFIFO_SIZE bytes behind one mutex, with a wait queue for        *)
(* readers, one for writers, poll on both, and SIGIO for FASYNC files.     *)
(*                                                                         *)
(* Every task is a process with one open file.  pc[t] is where t is:       *)
(* "closed" (no open file), "idle" (in user space), or a label inside the  *)
(* handler it called: r_ read, w_ write, c_ ioctl(FIFO_CLEAR), p_ select   *)
(* or epoll around globalfifo_poll.  A step runs from one label to the     *)
(* next; the steps are cut where another task can see a difference.        *)
(*                                                                         *)
(* The kernel (mutex, wait queues, select, epoll, signals) is external and *)
(* modelled from how the driver uses it (Linux 4.0, the kernel the .ko     *)
(* files were built against).                                              *)
(*                                                                         *)
(* globalfifo_read links its wait entry on r_wait but unlinks it (line     *)
(* 147) under the lock of w_wait.  With more than one CPU (Smp) this       *)
(* unlink, label r_del, overlaps operations done under the lock of r_wait, *)
(* and list_del/list_add then race.  The outcomes are a nondeterministic   *)
(* choice: see Link, W_Wake and P_Free.  A list that became inconsistent   *)
(* (damaged) stops the model: nothing is claimed after that.               *)
(***************************************************************************)
EXTENDS Integers, SequencesExt

CONSTANTS
  Readers, Writers, Clearers, Pollers,  \* the tasks that make each call
  Epollers,     \* pollers that use epoll (globalfifo_epoll.c), not select
  OutPollers,   \* pollers that wait for room, not for data
  Nonblock,     \* tasks whose file was opened with O_NONBLOCK
  Asyncers,     \* tasks that may set FASYNC on their file
  Signalled,    \* tasks that other processes may send a signal
  Byte, Zero,   \* byte values, and the one memset stores
  Size,         \* GLOBALFIFO_SIZE
  MaxCount,     \* bound: the largest count passed to read or write
  Smp,          \* can two CPUs run driver code at the same time?
  NoTask        \* the mutex has no owner

Task == Readers \union Writers \union Clearers \union Pollers

ASSUME ConstantsAssumption ==
  /\ Epollers \subseteq Pollers /\ OutPollers \subseteq Pollers
  /\ Nonblock \subseteq Task /\ Asyncers \subseteq Task
  /\ Zero \in Byte
  /\ Size \in Nat \ {0} /\ MaxCount \in Nat
  /\ Smp \in BOOLEAN
  /\ NoTask \notin Task

VARIABLES
  mutex,        \* dev->mutex: its owner
  current_len,  \* dev->current_len
  mem,          \* dev->mem
  r_wait,       \* dev->r_wait: the linked tasks, newest first
  w_wait,       \* dev->w_wait: the linked tasks
  async_queue,  \* dev->async_queue: the tasks whose file has FASYNC
  lost,         \* tasks whose r_wait entry a racing list_del cut off
  damaged,      \* an inconsistent list was, or will be, followed
  pc,           \* where each task is
  count,        \* count, the local of read and write
  buf,          \* the user buffer: bytes to write, or bytes delivered
  ret,          \* what the call returns
  woken,        \* reader, writer: not (or no longer) TASK_INTERRUPTIBLE;
                \*   select: pwq->triggered; epoll: the ready list is not empty
  sig,          \* signal_pending
  stranded      \* history: waited for room when FIFO_CLEAR made it

dev   == <<mutex, current_len, mem>>
lists == <<r_wait, w_wait, lost, damaged>>
local == <<count, buf, ret, woken, sig, stranded>>  \* a task's, but for pc
vars  == <<dev, lists, async_queue, pc, local>>

Bytes == UNION {[1..n -> Byte] : n \in 0..MaxCount}

Least(m, n) == IF m <= n THEN m ELSE n

ReadPcs  == {"r_lock", "r_test", "r_sleep", "r_relock", "r_shift", "r_len",
             "r_wake", "r_unlock", "r_unlink", "r_del"}
WritePcs == {"w_lock", "w_test", "w_sleep", "w_relock", "w_len", "w_wake",
             "w_kill", "w_unlock", "w_unlink"}
ClearPcs == {"c_lock", "c_zero", "c_unlock"}
PollPcs  == {"p_lock", "p_mask", "p_wait", "p_relock", "p_remask", "p_free",
             "p_free2"}

\* The labels between a mutex_lock and its mutex_unlock.
Holding  == {"r_test", "r_shift", "r_len", "r_wake", "r_unlock",
             "w_test", "w_len", "w_wake", "w_kill", "w_unlock",
             "c_zero", "c_unlock", "p_mask", "p_remask"}

Returns == {"none", "ok", "EAGAIN", "EFAULT", "ERESTARTSYS", "EINTR",
            "ready", "timeout"}

\* Types and ranges: current_len, an unsigned int that read decreases and write
\* increases by count, stays within the buffer.
TypeOK ==
  /\ mutex \in Task \union {NoTask}
  /\ current_len \in 0..Size
  /\ mem \in [0..Size-1 -> Byte]
  /\ r_wait \in Seq(Task)
  /\ w_wait \subseteq Task /\ lost \subseteq Task /\ stranded \subseteq Task
  /\ async_queue \subseteq Asyncers
  /\ damaged \in BOOLEAN
  /\ pc \in [Task -> {"closed", "idle"} \union ReadPcs \union WritePcs
                        \union ClearPcs \union PollPcs]
  /\ count \in [Task -> 0..MaxCount]
  /\ buf \in [Task -> Seq(Byte)]
  /\ ret \in [Task -> Returns]
  /\ woken \in [Task -> BOOLEAN]
  /\ sig \in [Task -> BOOLEAN]

Init ==
  /\ mutex = NoTask /\ current_len = 0 /\ mem = [i \in 0..Size-1 |-> Zero]
  /\ r_wait = <<>> /\ w_wait = {} /\ lost = {} /\ damaged = FALSE
  /\ async_queue = {} /\ stranded = {}
  /\ pc = [t \in Task |-> "closed"]
  /\ count = [t \in Task |-> 0]
  /\ buf = [t \in Task |-> <<>>]
  /\ ret = [t \in Task |-> "none"]
  /\ woken = [t \in Task |-> TRUE]
  /\ sig = [t \in Task |-> FALSE]

-----------------------------------------------------------------------------
(* The kernel's parts. *)

Goto(t, label) == pc' = [pc EXCEPT ![t] = label]

mutex_lock(t)   == mutex = NoTask /\ mutex' = t
mutex_unlock(t) == mutex' = NoTask

\* The lock of w_wait is taken for whole steps, except by a reader's list_del
\* on another CPU: no one else enters that lock before it is done.
WWaitLockFree == \A u \in Task : pc[u] # "r_del"

\* Task u is in the middle of a list_del on r_wait without the lock of r_wait.
Unlinking(u) == u \in ToSet(r_wait) /\ pc[u] = "r_del"

Position(t) == CHOOSE i \in 1..Len(r_wait) : r_wait[i] = t

\* add_wait_queue(&dev->r_wait): list_add at the head, under the lock of
\* r_wait. list_add writes the head and the old first entry.  When that first
\* entry is being unlinked at the same time the new entry can end up linked, or
\* cut off from the head (lost), or linked in front of an entry that is gone.
Link(t) ==
  \/ r_wait' = <<t>> \o r_wait /\ UNCHANGED <<lost, damaged>>
  \/ /\ r_wait # <<>> /\ Unlinking(Head(r_wait))
     /\ \/ lost' = lost \union {t} /\ UNCHANGED <<r_wait, damaged>>
        \/ damaged' = TRUE /\ UNCHANGED <<r_wait, lost>>

\* list_del of t's entry on r_wait.  The pointers of an entry that was cut off
\* lead to an entry that no longer exists.
Unlink(t) ==
  IF t \in lost
  THEN damaged' = TRUE /\ UNCHANGED <<r_wait, lost>>
  ELSE r_wait' = RemoveAt(r_wait, Position(t)) /\ UNCHANGED <<lost, damaged>>

\* A call returns to user space: what is pending there is handled.
Return(t) ==
  /\ Goto(t, "idle")
  /\ count' = [count EXCEPT ![t] = 0]
  /\ buf' = [buf EXCEPT ![t] = <<>>]
  /\ ret' = [ret EXCEPT ![t] = "none"]
  /\ woken' = [woken EXCEPT ![t] = TRUE]
  /\ sig' = [sig EXCEPT ![t] = FALSE]
  /\ stranded' = stranded \ {t}

-----------------------------------------------------------------------------
(* open, release, FASYNC and signals. *)

Open(t) ==
  /\ pc[t] = "closed"
  /\ Goto(t, "idle")
  /\ UNCHANGED <<dev, lists, async_queue, local>>

\* Mutation of Release: no call of globalfifo_fasync, as in ch8.
Release_KeepsAsync(t) ==
  /\ pc[t] = "idle"
  /\ Goto(t, "closed")
  /\ UNCHANGED <<dev, lists, async_queue, local>>

\* globalfifo_release calls globalfifo_fasync(-1, filp, 0).
Release(t) ==
  /\ pc[t] = "idle"
  /\ Goto(t, "closed")
  /\ async_queue' = async_queue \ {t}
  /\ UNCHANGED <<dev, lists, local>>

\* fcntl(F_SETFL) with or without FASYNC.
Fasync(t) ==
  /\ t \in Asyncers /\ pc[t] = "idle"
  /\ async_queue' = IF t \in async_queue THEN async_queue \ {t}
                                         ELSE async_queue \union {t}
  /\ UNCHANGED <<dev, lists, pc, local>>

\* A signal sent to a task that is inside a call (elsewhere it has no effect on
\* the driver).
Signal(t) ==
  /\ t \in Signalled /\ pc[t] \notin {"closed", "idle"}
  /\ sig' = [sig EXCEPT ![t] = TRUE]
  /\ UNCHANGED <<dev, lists, async_queue, pc, count, buf, ret, woken,
                 stranded>>

-----------------------------------------------------------------------------
(* globalfifo_read. *)

Read(t) == \E n \in 0..MaxCount :
  /\ t \in Readers /\ pc[t] = "idle"
  /\ count' = [count EXCEPT ![t] = n]
  /\ Goto(t, "r_lock")
  /\ UNCHANGED <<dev, lists, async_queue, buf, ret, woken, sig, stranded>>

R_Lock(t) ==
  /\ pc[t] = "r_lock"
  /\ mutex_lock(t)
  /\ Link(t)
  /\ Goto(t, "r_test")
  /\ UNCHANGED <<current_len, mem, w_wait, async_queue, local>>

\* The fifo is empty and the file is O_NONBLOCK.
R_Again(t) ==
  /\ pc[t] = "r_test" /\ current_len = 0 /\ t \in Nonblock
  /\ ret' = [ret EXCEPT ![t] = "EAGAIN"]
  /\ Goto(t, "r_unlock")
  /\ UNCHANGED <<dev, lists, async_queue, count, buf, woken, sig, stranded>>

\* The fifo is empty: become TASK_INTERRUPTIBLE, then drop the mutex.
R_Block(t) ==
  /\ pc[t] = "r_test" /\ current_len = 0 /\ t \notin Nonblock
  /\ woken' = [woken EXCEPT ![t] = FALSE]
  /\ mutex_unlock(t)
  /\ Goto(t, "r_sleep")
  /\ UNCHANGED <<current_len, mem, lists, async_queue, count, buf, ret, sig,
                 stranded>>

\* Mutation of R_Sleep: a signal leads to out, not to out2.
R_Sleep_GotoOut(t) ==
  /\ pc[t] = "r_sleep" /\ (woken[t] \/ sig[t])
  /\ woken' = [woken EXCEPT ![t] = TRUE]
  /\ IF sig[t]
     THEN ret' = [ret EXCEPT ![t] = "ERESTARTSYS"] /\ Goto(t, "r_unlock")
     ELSE Goto(t, "r_relock") /\ UNCHANGED ret
  /\ UNCHANGED <<dev, lists, async_queue, count, buf, sig, stranded>>

\* schedule() returns: the task was woken or has a signal.
R_Sleep(t) ==
  /\ pc[t] = "r_sleep" /\ (woken[t] \/ sig[t])
  /\ woken' = [woken EXCEPT ![t] = TRUE]
  /\ IF sig[t]
     THEN ret' = [ret EXCEPT ![t] = "ERESTARTSYS"] /\ Goto(t, "r_unlink")
     ELSE Goto(t, "r_relock") /\ UNCHANGED ret
  /\ UNCHANGED <<dev, lists, async_queue, count, buf, sig, stranded>>

R_Relock(t) ==
  /\ pc[t] = "r_relock"
  /\ mutex_lock(t)
  /\ Goto(t, "r_test")
  /\ UNCHANGED <<current_len, mem, lists, async_queue, local>>

\* Mutation of R_Copy: count is not cut to current_len.
R_Copy_Uncut(t) == LET n == count[t] IN
  /\ pc[t] = "r_test" /\ current_len # 0
  /\ count' = [count EXCEPT ![t] = n]
  /\ buf' = [buf EXCEPT ![t] = [i \in 1..n |-> mem[i-1]]]
  /\ Goto(t, "r_shift")
  /\ UNCHANGED <<dev, lists, async_queue, ret, woken, sig, stranded>>

\* count is cut to what there is and copy_to_user succeeds ...
R_Copy(t) == LET n == Least(count[t], current_len) IN
  /\ pc[t] = "r_test" /\ current_len # 0
  /\ count' = [count EXCEPT ![t] = n]
  /\ buf' = [buf EXCEPT ![t] = [i \in 1..n |-> mem[i-1]]]
  /\ Goto(t, "r_shift")
  /\ UNCHANGED <<dev, lists, async_queue, ret, woken, sig, stranded>>

\* ... or fails: the buffer's contents are then unspecified.
R_Fault(t) ==
  /\ pc[t] = "r_test" /\ current_len # 0 /\ count[t] # 0
  /\ ret' = [ret EXCEPT ![t] = "EFAULT"]
  /\ Goto(t, "r_unlock")
  /\ UNCHANGED <<dev, lists, async_queue, count, buf, woken, sig, stranded>>

\* memcpy of the rest to the front; the tail keeps its stale bytes.
R_Shift(t) ==
  /\ pc[t] = "r_shift"
  /\ mem' = [i \in 0..Size-1 |->
               IF i + count[t] < current_len THEN mem[i + count[t]]
                                             ELSE mem[i]]
  /\ Goto(t, "r_len")
  /\ UNCHANGED <<mutex, current_len, lists, async_queue, local>>

R_Len(t) ==
  /\ pc[t] = "r_len"
  /\ current_len' = current_len - count[t]
  /\ Goto(t, "r_wake")
  /\ UNCHANGED <<mutex, mem, lists, async_queue, local>>

\* Mutation of R_Wake: wakes one waiter only.
R_Wake_One(t) ==
  /\ pc[t] = "r_wake" /\ WWaitLockFree
  /\ \E u \in w_wait \union {t} :
       /\ woken' = [woken EXCEPT ![u] = TRUE]
       /\ stranded' = stranded \ {u}
       /\ w_wait # {} => u \in w_wait
  /\ ret' = [ret EXCEPT ![t] = "ok"]
  /\ Goto(t, "r_unlock")
  /\ UNCHANGED <<dev, lists, async_queue, count, buf, sig>>

\* Mutation of R_Wake: wakes the queue that read itself was on.
R_Wake_Readers(t) ==
  /\ pc[t] = "r_wake" /\ WWaitLockFree
  /\ woken' = [u \in Task |-> woken[u] \/ u \in ToSet(r_wait)]
  /\ stranded' = stranded
  /\ ret' = [ret EXCEPT ![t] = "ok"]
  /\ Goto(t, "r_unlock")
  /\ UNCHANGED <<dev, lists, async_queue, count, buf, sig>>

\* wake_up_interruptible(&dev->w_wait); ret = count.
R_Wake(t) ==
  /\ pc[t] = "r_wake" /\ WWaitLockFree
  /\ woken' = [u \in Task |-> woken[u] \/ u \in w_wait]
  /\ stranded' = stranded \ w_wait
  /\ ret' = [ret EXCEPT ![t] = "ok"]
  /\ Goto(t, "r_unlock")
  /\ UNCHANGED <<dev, lists, async_queue, count, buf, sig>>

R_Unlock(t) ==
  /\ pc[t] = "r_unlock"
  /\ mutex_unlock(t)
  /\ Goto(t, "r_unlink")
  /\ UNCHANGED <<current_len, mem, lists, async_queue, local>>

\* remove_wait_queue(&dev->w_wait, &wait): the entry is on r_wait.  On one CPU
\* spin_lock_irqsave makes it atomic.
R_Unlink(t) ==
  /\ pc[t] = "r_unlink" /\ WWaitLockFree
  /\ IF Smp
     THEN Goto(t, "r_del") /\ UNCHANGED <<lists, local>>
     ELSE Unlink(t) /\ Return(t) /\ UNCHANGED w_wait
  /\ UNCHANGED <<dev, async_queue>>

\* Mutation of R_Del: the entry is looked up on w_wait, where it is not.
R_Del_ByHead(t) ==
  /\ pc[t] = "r_del"
  /\ w_wait' = w_wait \ {t}
  /\ Return(t)
  /\ UNCHANGED <<dev, r_wait, lost, damaged, async_queue>>

R_Del(t) ==
  /\ pc[t] = "r_del"
  /\ Unlink(t) /\ Return(t)
  /\ UNCHANGED <<dev, w_wait, async_queue>>

-----------------------------------------------------------------------------
(* globalfifo_write. *)

Write(t) == \E s \in Bytes :
  /\ t \in Writers /\ pc[t] = "idle"
  /\ count' = [count EXCEPT ![t] = Len(s)]
  /\ buf' = [buf EXCEPT ![t] = s]
  /\ Goto(t, "w_lock")
  /\ UNCHANGED <<dev, lists, async_queue, ret, woken, sig, stranded>>

W_Lock(t) ==
  /\ pc[t] = "w_lock" /\ WWaitLockFree
  /\ mutex_lock(t)
  /\ w_wait' = w_wait \union {t}
  /\ Goto(t, "w_test")
  /\ UNCHANGED <<current_len, mem, r_wait, lost, damaged, async_queue, local>>

\* Mutation of W_Again: leaves by out2, without mutex_unlock.
W_Again_GotoOut2(t) ==
  /\ pc[t] = "w_test" /\ current_len = Size /\ t \in Nonblock
  /\ ret' = [ret EXCEPT ![t] = "EAGAIN"]
  /\ Goto(t, "w_unlink")
  /\ UNCHANGED <<dev, lists, async_queue, count, buf, woken, sig, stranded>>

\* The fifo is full and the file is O_NONBLOCK.
W_Again(t) ==
  /\ pc[t] = "w_test" /\ current_len = Size /\ t \in Nonblock
  /\ ret' = [ret EXCEPT ![t] = "EAGAIN"]
  /\ Goto(t, "w_unlock")
  /\ UNCHANGED <<dev, lists, async_queue, count, buf, woken, sig, stranded>>

\* The fifo is full: become TASK_INTERRUPTIBLE, then drop the mutex.
W_Block(t) ==
  /\ pc[t] = "w_test" /\ current_len = Size /\ t \notin Nonblock
  /\ woken' = [woken EXCEPT ![t] = FALSE]
  /\ mutex_unlock(t)
  /\ Goto(t, "w_sleep")
  /\ UNCHANGED <<current_len, mem, lists, async_queue, count, buf, ret, sig,
                 stranded>>

\* schedule() returns: the task was woken or has a signal.
W_Sleep(t) ==
  /\ pc[t] = "w_sleep" /\ (woken[t] \/ sig[t])
  /\ woken' = [woken EXCEPT ![t] = TRUE]
  /\ stranded' = stranded \ {t}
  /\ IF sig[t]
     THEN ret' = [ret EXCEPT ![t] = "ERESTARTSYS"] /\ Goto(t, "w_unlink")
     ELSE Goto(t, "w_relock") /\ UNCHANGED ret
  /\ UNCHANGED <<dev, lists, async_queue, count, buf, sig>>

W_Relock(t) ==
  /\ pc[t] = "w_relock"
  /\ mutex_lock(t)
  /\ Goto(t, "w_test")
  /\ UNCHANGED <<current_len, mem, lists, async_queue, local>>

\* dev->mem with the first k of n bytes of s copied behind current_len, and the
\* others set to zero, as copy_from_user does when it fails after k bytes.
CopiedIn(s, k, n) == [i \in 0..Size-1 |->
  LET j == i - current_len IN
  IF j \in 0..k-1 THEN s[j+1] ELSE IF j \in k..n-1 THEN Zero ELSE mem[i]]

\* count is cut to the room there is and copy_from_user succeeds ...
W_Copy(t) == LET n == Least(count[t], Size - current_len) IN
  /\ pc[t] = "w_test" /\ current_len # Size
  /\ count' = [count EXCEPT ![t] = n]
  /\ mem' = CopiedIn(buf[t], n, n)
  /\ Goto(t, "w_len")
  /\ UNCHANGED <<mutex, current_len, lists, async_queue, buf, ret, woken, sig,
                 stranded>>

\* Mutation of W_Fault: the bytes of the failed copy are counted.
W_Fault_Counted(t) == LET n == Least(count[t], Size - current_len) IN
  /\ pc[t] = "w_test" /\ current_len # Size
  /\ \E k \in 0..n-1 : mem' = CopiedIn(buf[t], k, n)
  /\ current_len' = current_len + n
  /\ ret' = [ret EXCEPT ![t] = "EFAULT"]
  /\ Goto(t, "w_unlock")
  /\ UNCHANGED <<mutex, lists, async_queue, count, buf, woken, sig, stranded>>

\* ... or fails after k bytes.
W_Fault(t) == LET n == Least(count[t], Size - current_len) IN
  /\ pc[t] = "w_test" /\ current_len # Size
  /\ \E k \in 0..n-1 : mem' = CopiedIn(buf[t], k, n)
  /\ ret' = [ret EXCEPT ![t] = "EFAULT"]
  /\ Goto(t, "w_unlock")
  /\ UNCHANGED <<mutex, current_len, lists, async_queue, count, buf, woken,
                 sig, stranded>>

W_Len(t) ==
  /\ pc[t] = "w_len"
  /\ current_len' = current_len + count[t]
  /\ Goto(t, "w_wake")
  /\ UNCHANGED <<mutex, mem, lists, async_queue, local>>

\* Mutation of W_Wake: wakes w_wait, the queue remove_wait_queue names in read.
W_Wake_Writers(t) ==
  /\ pc[t] = "w_wake" /\ WWaitLockFree
  /\ woken' = [u \in Task |-> woken[u] \/ u \in w_wait]
  /\ Goto(t, "w_kill")
  /\ UNCHANGED <<dev, lists, async_queue, count, buf, ret, sig, stranded>>

\* Mutation of W_Wake: wakes one waiter only.
W_Wake_One(t) ==
  /\ pc[t] = "w_wake"
  /\ \/ r_wait = <<>> /\ UNCHANGED woken
     \/ \E u \in ToSet(r_wait) : woken' = [woken EXCEPT ![u] = TRUE]
  /\ Goto(t, "w_kill")
  /\ UNCHANGED <<dev, lists, async_queue, count, buf, ret, sig, stranded>>

\* wake_up_interruptible(&dev->r_wait): walks the list under the lock of
\* r_wait. It follows the pointers of an entry that is being unlinked, or
\* misses it.
W_Wake(t) ==
  /\ pc[t] = "w_wake"
  /\ \/ /\ woken' = [u \in Task |-> woken[u] \/ u \in ToSet(r_wait)]
        /\ Goto(t, "w_kill")
        /\ UNCHANGED damaged
     \/ /\ \E u \in Task : Unlinking(u)
        /\ damaged' = TRUE
        /\ UNCHANGED <<pc, woken>>
  /\ UNCHANGED <<dev, r_wait, w_wait, lost, async_queue, count, buf, ret, sig,
                 stranded>>

\* kill_fasync(&dev->async_queue, SIGIO, POLL_IN); ret = count.
W_Kill(t) ==
  /\ pc[t] = "w_kill"
  /\ sig' = [u \in Task |->
               \/ sig[u]
               \/ u \in async_queue /\ pc[u] \notin {"closed", "idle"}]
  /\ ret' = [ret EXCEPT ![t] = "ok"]
  /\ Goto(t, "w_unlock")
  /\ UNCHANGED <<dev, lists, async_queue, count, buf, woken, stranded>>

W_Unlock(t) ==
  /\ pc[t] = "w_unlock"
  /\ mutex_unlock(t)
  /\ Goto(t, "w_unlink")
  /\ UNCHANGED <<current_len, mem, lists, async_queue, local>>

W_Unlink(t) ==
  /\ pc[t] = "w_unlink" /\ WWaitLockFree
  /\ w_wait' = w_wait \ {t}
  /\ Return(t)
  /\ UNCHANGED <<dev, r_wait, lost, damaged, async_queue>>

-----------------------------------------------------------------------------
(* globalfifo_ioctl(FIFO_CLEAR). *)

Ioctl(t) ==
  /\ t \in Clearers /\ pc[t] = "idle"
  /\ Goto(t, "c_lock")
  /\ UNCHANGED <<dev, lists, async_queue, local>>

C_Lock(t) ==
  /\ pc[t] = "c_lock"
  /\ mutex_lock(t)
  /\ Goto(t, "c_zero")
  /\ UNCHANGED <<current_len, mem, lists, async_queue, local>>

\* Asleep until there is room: a writer, or a poller that asked for POLLOUT.
AwaitsRoom(t) ==
  /\ ~woken[t]
  /\ pc[t] = "w_sleep" \/ (pc[t] = "p_wait" /\ t \in OutPollers)

\* The handler makes room and wakes nobody.
C_Zero(t) ==
  /\ pc[t] = "c_zero"
  /\ current_len' = 0
  /\ mem' = [i \in 0..Size-1 |-> Zero]
  /\ stranded' = stranded \union {u \in Task : AwaitsRoom(u)}
  /\ ret' = [ret EXCEPT ![t] = "ok"]
  /\ Goto(t, "c_unlock")
  /\ UNCHANGED <<mutex, lists, async_queue, count, buf, woken, sig>>

C_Unlock(t) ==
  /\ pc[t] = "c_unlock"
  /\ mutex_unlock(t)
  /\ Return(t)
  /\ UNCHANGED <<current_len, mem, lists, async_queue>>

-----------------------------------------------------------------------------
(* select or epoll_ctl + epoll_wait around globalfifo_poll. *)

Poll(t) ==
  /\ t \in Pollers /\ pc[t] = "idle"
  /\ woken' = [woken EXCEPT ![t] = FALSE]
  /\ Goto(t, "p_lock")
  /\ UNCHANGED <<dev, lists, async_queue, count, buf, ret, sig, stranded>>

\* The first call of globalfifo_poll: poll_wait on r_wait ...
P_Lock(t) ==
  /\ pc[t] = "p_lock"
  /\ mutex_lock(t)
  /\ Link(t)
  /\ Goto(t, "p_mask")
  /\ UNCHANGED <<current_len, mem, w_wait, async_queue, local>>

\* The mask globalfifo_poll returns has the bit the poller asked for.
Ready(t) == IF t \in OutPollers THEN current_len # Size ELSE current_len # 0

\* ... then on w_wait, and the mask.  select is done when the mask has the bit;
\* epoll puts the file on its ready list, and epoll_wait asks again.
P_Mask(t) ==
  /\ pc[t] = "p_mask" /\ WWaitLockFree
  /\ w_wait' = w_wait \union {t}
  /\ mutex_unlock(t)
  /\ IF Ready(t) /\ t \notin Epollers
     THEN /\ ret' = [ret EXCEPT ![t] = "ready"]
          /\ Goto(t, "p_free")
          /\ UNCHANGED woken
     ELSE /\ woken' = [woken EXCEPT ![t] = Ready(t)]
          /\ Goto(t, "p_wait")
          /\ UNCHANGED ret
  /\ UNCHANGED <<current_len, mem, r_wait, lost, damaged, async_queue, count,
                 buf, sig, stranded>>

\* A wait queue was woken: ask again.
P_Wait(t) ==
  /\ pc[t] = "p_wait" /\ woken[t]
  /\ woken' = [woken EXCEPT ![t] = FALSE]
  /\ stranded' = stranded \ {t}
  /\ Goto(t, "p_relock")
  /\ UNCHANGED <<dev, lists, async_queue, count, buf, ret, sig>>

\* The timeout expires.  select asks once more; epoll_wait does so only when
\* the file is on its ready list.
P_Timeout(t) ==
  /\ pc[t] = "p_wait"
  /\ ret' = [ret EXCEPT ![t] = "timeout"]
  /\ woken' = [woken EXCEPT ![t] = FALSE]
  /\ stranded' = stranded \ {t}
  /\ Goto(t, IF t \in Epollers /\ ~woken[t] THEN "p_free" ELSE "p_relock")
  /\ UNCHANGED <<dev, lists, async_queue, count, buf, sig>>

\* A signal ends the wait.  select asks once more.
P_Intr(t) ==
  /\ pc[t] = "p_wait" /\ ~woken[t] /\ sig[t]
  /\ ret' = [ret EXCEPT ![t] = "EINTR"]
  /\ stranded' = stranded \ {t}
  /\ Goto(t, IF t \in Epollers THEN "p_free" ELSE "p_relock")
  /\ UNCHANGED <<dev, lists, async_queue, count, buf, woken, sig>>

P_Relock(t) ==
  /\ pc[t] = "p_relock"
  /\ mutex_lock(t)
  /\ Goto(t, "p_remask")
  /\ UNCHANGED <<current_len, mem, lists, async_queue, local>>

\* globalfifo_poll again, now without registering.
P_Remask(t) ==
  /\ pc[t] = "p_remask"
  /\ mutex_unlock(t)
  /\ ret' = [ret EXCEPT ![t] = IF Ready(t) THEN "ready" ELSE @]
  /\ Goto(t, IF Ready(t) \/ ret[t] # "none" THEN "p_free" ELSE "p_wait")
  /\ UNCHANGED <<current_len, mem, lists, async_queue, count, buf, woken, sig,
                 stranded>>

\* poll_freewait or EPOLL_CTL_DEL: unlinks from r_wait, under the lock of
\* r_wait. When a neighbour is being unlinked the two list_del race: both are
\* done, or an entry stays linked that is gone.
P_Free(t) ==
  /\ pc[t] = "p_free"
  /\ \/ Unlink(t)
     \/ /\ \E i \in 1..Len(r_wait)-1 :
             \/ r_wait[i] = t /\ Unlinking(r_wait[i+1])
             \/ r_wait[i+1] = t /\ Unlinking(r_wait[i])
        /\ damaged' = TRUE
        /\ UNCHANGED <<r_wait, lost>>
  /\ Goto(t, "p_free2")
  /\ UNCHANGED <<dev, w_wait, async_queue, local>>

\* Then from w_wait.
P_Free2(t) ==
  /\ pc[t] = "p_free2" /\ WWaitLockFree
  /\ w_wait' = w_wait \ {t}
  /\ Return(t)
  /\ UNCHANGED <<dev, r_wait, lost, damaged, async_queue>>

-----------------------------------------------------------------------------
(* The device with all its callers. *)

\* What the kernel does for a task inside a call.
Step(t) ==
  \/ R_Lock(t) \/ R_Again(t) \/ R_Block(t) \/ R_Sleep(t) \/ R_Relock(t)
  \/ R_Copy(t) \/ R_Fault(t) \/ R_Shift(t) \/ R_Len(t) \/ R_Wake(t)
  \/ R_Unlock(t) \/ R_Unlink(t) \/ R_Del(t)
  \/ W_Lock(t) \/ W_Again(t) \/ W_Block(t) \/ W_Sleep(t) \/ W_Relock(t)
  \/ W_Copy(t) \/ W_Fault(t) \/ W_Len(t) \/ W_Wake(t) \/ W_Kill(t)
  \/ W_Unlock(t) \/ W_Unlink(t)
  \/ C_Lock(t) \/ C_Zero(t) \/ C_Unlock(t)
  \/ P_Lock(t) \/ P_Mask(t) \/ P_Wait(t) \/ P_Intr(t) \/ P_Relock(t)
  \/ P_Remask(t) \/ P_Free(t) \/ P_Free2(t)

\* What programs and the clock decide.
Environment(t) ==
  \/ Open(t) \/ Release(t) \/ Fasync(t) \/ Signal(t)
  \/ Read(t) \/ Write(t) \/ Ioctl(t) \/ Poll(t)
  \/ P_Timeout(t)

\* After damage nothing is claimed: the model stops.
Damaged == damaged /\ UNCHANGED vars

Next ==
  \/ /\ ~damaged
     /\ \E t \in Task : Step(t) \/ Environment(t)
  \/ Damaged

Spec == Init /\ [][Next]_vars

\* The scheduler runs every task that can run; nothing is assumed of programs,
\* and a mutex that is contended forever may be missed forever.
FairSpec == Spec /\ \A t \in Task : WF_vars(~damaged /\ Step(t))

-----------------------------------------------------------------------------
(* Properties. *)

\* Only a task between its mutex_lock and mutex_unlock owns dev->mutex: every
\* path of every handler, the goto out and goto out2 of read and write
\* included, unlocks exactly what it locked.
MutexHeldInside ==
  \A t \in Task : mutex = t <=> pc[t] \in Holding

\* The wait entries that are linked are those of the calls under way: read
\* links its entry on r_wait and write on w_wait from the first test of
\* current_len to the return, a poller both.  An entry is on r_wait once, or
\* cut off from it.
RLinked == {"r_test", "r_sleep", "r_relock", "r_shift", "r_len", "r_wake",
            "r_unlock", "r_unlink", "r_del",
            "p_mask", "p_wait", "p_relock", "p_remask", "p_free"}
WLinked == {"w_test", "w_sleep", "w_relock", "w_len", "w_wake", "w_kill",
            "w_unlock", "w_unlink",
            "p_wait", "p_relock", "p_remask", "p_free", "p_free2"}

Linked == ToSet(r_wait) \union lost

Registered ==
  /\ \A t \in Task : t \in w_wait <=> pc[t] \in WLinked
  /\ ~damaged => \A t \in Task : t \in Linked <=> pc[t] \in RLinked

EachOnce ==
  ~damaged =>
    /\ ToSet(r_wait) \intersect lost = {}
    /\ \A i, j \in 1..Len(r_wait) : r_wait[i] = r_wait[j] => i = j

\* A read takes no more than there is; a write leaves its bytes behind
\* current_len and no more of them than fit; nothing is in a reader's buffer
\* before copy_to_user.
Amounts == \A t \in Task :
  /\ pc[t] \in {"r_shift", "r_len"} => count[t] <= current_len
  /\ pc[t] = "w_len" =>
       /\ current_len < Size
       /\ count[t] = Least(Len(buf[t]), Size - current_len)
       /\ \A i \in 1..count[t] : mem[current_len + i - 1] = buf[t][i]
  /\ pc[t] \in {"w_lock", "w_test", "w_sleep", "w_relock"} =>
       count[t] = Len(buf[t])
  /\ pc[t] \in {"closed", "idle", "r_lock", "r_test", "r_sleep", "r_relock"} =>
       buf[t] = <<>>

\* The owner is about to wake the queue of writers, or that of readers.
WakingWriters == \E t \in Task : pc[t] = "r_wake"
WakingReaders == \E t \in Task : pc[t] = "w_wake"

\* The test of current_len, __set_current_state, mutex_unlock and schedule() of
\* read against the current_len update and wake-up of write: a reader sleeps on
\* only while there is nothing to read, or the wake-up is on its way, or its
\* wait entry was cut off.
NoMissedReader ==
  \A t \in Task : pc[t] = "r_sleep" /\ ~woken[t] =>
    current_len = 0 \/ WakingReaders \/ t \in lost

\* The same for writers (and pollers for room): they wait on only while the
\* fifo is full, or a reader is about to wake them, or FIFO_CLEAR, which wakes
\* nobody, made the room.
NoMissedWriter ==
  \A t \in Task : AwaitsRoom(t) =>
    current_len = Size \/ WakingWriters \/ t \in stranded

\* A poller for data that waits has been told of all data there is.
NoMissedPoller ==
  \A t \in Task \ OutPollers : pc[t] = "p_wait" /\ ~woken[t] =>
    current_len = 0 \/ WakingReaders \/ t \in lost

\* A wait entry is a local variable of read and write, and the poll table one
\* of select: none may stay linked once its call has returned, whichever way.
NoStaleEntry ==
  ~damaged =>
    \A t \in Task : pc[t] \in {"closed", "idle"} =>
      t \notin Linked /\ t \notin w_wait

\* release takes the file off async_queue: kill_fasync meets no closed file.
NoAsyncClosedFile ==
  \A t \in async_queue : pc[t] # "closed"

\* The inductive invariant of GlobalfifoProofs.
Inv == TypeOK /\ MutexHeldInside /\ Registered /\ EachOnce /\ Amounts

\* epoll_wait returns 0 ("No data input in FIFO within 15 seconds." in
\* ch8/globalfifo_epoll.c, line 42) only when there is no data, or the write
\* that brought it is still under way.
TimeoutMeansNoData ==
  [][\A t \in Epollers \ OutPollers :
       pc[t] = "p_wait" /\ pc'[t] = "p_free" /\ ret'[t] = "timeout" =>
         current_len = 0 \/ WakingReaders]_vars

\* The mutex is always given back.
MutexReleased == mutex # NoTask ~> (mutex = NoTask \/ damaged)

\* A reader asleep beside data is woken (on one CPU, where no entry is lost),
\* and schedule() returns.
DataWakesReader ==
  \A t \in Readers :
    pc[t] = "r_sleep" /\ current_len # 0 ~> pc[t] # "r_sleep"

-----------------------------------------------------------------------------
(* The device implements a queue of bytes.  A read takes effect when       *)
(* copy_to_user has succeeded, a write when current_len counts its bytes:  *)
(* while the owner is at r_shift or r_len the bytes it took are still      *)
(* counted.                                                                *)

\* Bytes delivered and still in front of mem, and still counted in current_len.
InFront == IF mutex \in Task /\ pc[mutex] = "r_shift" THEN count[mutex] ELSE 0

Counted == IF mutex \in Task /\ pc[mutex] \in {"r_shift", "r_len"}
           THEN count[mutex] ELSE 0

Contents == [i \in 1..current_len - Counted |-> mem[i - 1 + InFront]]

\* The call of ByteQueue that each task is in.  select and epoll are none.
Op[t \in Task] ==
  IF pc[t] \in ReadPcs THEN "read"
  ELSE IF pc[t] \in WritePcs THEN "write"
  ELSE IF pc[t] \in ClearPcs THEN "clear" ELSE "none"

\* Its outcome is settled where the bytes have moved, or where the error code
\* was stored.
Settled == {"r_shift", "r_len", "r_wake", "w_wake", "w_kill"}

Outcome[t \in Task] ==
  IF Op[t] = "none" THEN "none"
  ELSE IF pc[t] \in Settled THEN "ok" ELSE ret[t]

\* A write that has cut its count and has no outcome yet still asks for all.
Amount[t \in Task] ==
  IF pc[t] = "w_len" THEN Len(buf[t])
  ELSE IF Op[t] \in {"read", "write"} THEN count[t] ELSE 0

Buffer[t \in Task] == IF Op[t] \in {"read", "write"} THEN buf[t] ELSE <<>>

Queue == INSTANCE ByteQueue WITH
           queue <- Contents, op <- Op, count <- Amount, buf <- Buffer,
           ret <- Outcome

\* Every read, write and FIFO_CLEAR that succeeds is one atomic operation on
\* a bounded first-in first-out queue, between its begin and its return, with
\* the count it returns; one that fails is none, and fails only for the reason
\* its error code names.
QueueSpec == Queue!Spec

\* What the refinement needs of the outcomes: ret is set once in a call and
\* kept until the return, and only a task that may block sleeps.
Outcomes == \A t \in Task :
  /\ pc[t] \in {"closed", "idle", "r_lock", "r_test", "r_sleep", "r_relock",
               "r_shift", "r_len", "r_wake", "w_lock", "w_test", "w_sleep",
               "w_relock", "w_len", "w_wake", "w_kill", "c_lock", "c_zero"} =>
       ret[t] = "none"
  /\ pc[t] \in {"r_unlock", "r_unlink", "r_del", "w_unlock", "w_unlink",
               "c_unlock"} =>
       ret[t] # "none"
  /\ pc[t] \in {"r_sleep", "r_relock", "w_sleep", "w_relock"} =>
       t \notin Nonblock
==============================================================================
