-------------------------- MODULE ThreadPoolProofs --------------------------
(***************************************************************************)
(* What is proved of the thread pool, for all numbers of callers, workers, *)
(* slots and jobs: PoolInv, the type invariant together with Counted.      *)
(* TypeOK alone is not inductive: that cur' = reg + 1 or reg - 1 stays     *)
(* within Min..Max needs what the thread tested when it loaded reg.        *)
(***************************************************************************)
EXTENDS ThreadPool, TLAPS

\* The inductive invariant.
PoolInv == TypeOK /\ Counted

\* The labels, for the prover.
LEMMA KnownLabels ==
  /\ "idle" \in Labels /\ "scan" \in Labels /\ "lock" \in Labels
  /\ "test" \in Labels /\ "claim" \in Labels /\ "work" \in Labels
  /\ "desc" \in Labels /\ "addlock" \in Labels /\ "check" \in Labels
  /\ "fresh" \in Labels /\ "inc" \in Labels /\ "incstore" \in Labels
  /\ "create" \in Labels /\ "index" \in Labels /\ "addunlock" \in Labels
  /\ "signal" \in Labels /\ "unborn" \in Labels /\ "start" \in Labels
  /\ "wait" \in Labels /\ "waiting" \in Labels /\ "cut" \in Labels
  /\ "woken" \in Labels /\ "unlock" \in Labels /\ "readwork" \in Labels
  /\ "readdesc" \in Labels /\ "run" \in Labels /\ "relock" \in Labels
  /\ "clear" \in Labels /\ "reunlock" \in Labels /\ "exited" \in Labels
  /\ "sleep" \in Labels /\ "count" \in Labels /\ "min" \in Labels
  /\ "last" \in Labels /\ "killlock" \in Labels /\ "killcond" \in Labels
  /\ "dec" \in Labels /\ "decstore" \in Labels /\ "init" \in Labels
  /\ "ready" \in Labels /\ "failed" \in Labels /\ "close" \in Labels
  /\ "closed" \in Labels /\ "stuck" \in Labels
  BY DEF Labels, CallerPcs, WorkerPcs, ManagerPcs, MainPcs

\* The records a caller hands over and a worker reads, one field at a time.
LEMMA TaskType ==
  /\ None \in Task
  /\ \A t \in Task : t.work \in Written /\ t.desc \in Written
  /\ \A t \in Task, v \in Written :
       [t EXCEPT !.work = v] \in Task /\ [t EXCEPT !.desc = v] \in Task
  /\ \A v \in Written : [work |-> v, desc |-> v] \in Task
  BY DEF Task, None, Written

\* The invariant holds of a pool creat_thread_pool returns.
LEMMA InitInv == Init => PoolInv
<1> SUFFICES ASSUME Init PROVE PoolInv
  OBVIOUS
<1> USE PoolAssumption DEF Init
<1>1. TypeOK
  <2>1. /\ pc \in [Proc -> Labels] /\ Garbage \in Written
        /\ None \in Task /\ Main \in Proc
    BY KnownLabels, TaskType DEF Proc, Written
  <2>2. /\ cur \in Min..Max /\ calls \in 0..NumJobs /\ born \in 0..NumWorkers
        /\ rounds \in 0..Rounds /\ ran \in [Job -> 0..2]
    OBVIOUS
  <2>3. busy \in [Slot -> BOOLEAN]
    OBVIOUS
  <2>4. /\ idx \in [Proc -> 0..Max]
        /\ reg \in [Callers \union {Manager} -> 0..Max]
    OBVIOUS
  <2>5. users \in [Slot -> Int]
    OBVIOUS
  <2> QED
    BY <2>1, <2>2, <2>3, <2>4, <2>5 DEF TypeOK
<1>2. Counted
  BY DEF Counted, Adding, Proc, Worker, Slot
<1> QED
  BY <1>1, <1>2 DEF PoolInv

\* A signal changes nothing but the pc of workers asleep.
LEMMA SignalledProps ==
  ASSUME TypeOK, NEW i, NEW s \in Signalled(i)
  PROVE  /\ s \in [Proc -> Labels]
         /\ \A p \in Proc : p \notin Worker => s[p] = pc[p]
  BY KnownLabels DEF Signalled, Asleep, TypeOK, Proc

\* Every step keeps the types; cur_th_num stays within its bounds because the
\* value that is stored was tested by its only writer of that side (Counted).
LEMMA TypeStep ==
  ASSUME PoolInv, [Next]_vars
  PROVE  TypeOK'
<1> USE PoolAssumption DEF PoolInv, TypeOK
<1>1. CASE T_Init
  <2>1. (id \in [Slot -> Worker \union {NoOne}])'
    <3>1. born + 1 \in Worker
      BY <1>1 DEF T_Init, Counted, Worker
    <3> QED
      BY <1>1, <3>1 DEF T_Init
  <2>2. (idx \in [Proc -> 0..Max])'
    BY <1>1 DEF T_Init, Proc
  <2>3. (born \in 0..NumWorkers)'
    BY <1>1 DEF T_Init, Counted, Worker
  <2>4. (pc \in [Proc -> Labels])'
    BY <1>1, KnownLabels DEF T_Init, Goto, Proc, Counted, Worker
  <2> QED
    BY <1>1, <2>1, <2>2, <2>3, <2>4 DEF T_Init, memory, slots, sync, local,
       world
<1>2. CASE T_Manager
  <2>1. (pc \in [Proc -> Labels])'
    BY <1>2, KnownLabels DEF T_Manager, Goto, Proc
  <2>2. (idx \in [Proc -> 0..Max])'
    BY <1>2 DEF T_Manager, Proc
  <2> QED
    BY <1>2, <2>1, <2>2 DEF T_Manager, memory, slots, sync, local, world
<1>3. CASE T_Fail
  <2>1. (pc \in [Proc -> Labels])'
    BY <1>3, KnownLabels DEF T_Fail, Goto, Proc
  <2> QED
    BY <1>3, <2>1 DEF T_Fail, memory, slots, sync, local, world
<1>4. CASE T_Close
  <2>1. (pc \in [Proc -> Labels])'
    BY <1>4, KnownLabels DEF T_Close, Goto, Proc
  <2> QED
    BY <1>4, <2>1 DEF T_Close, memory, slots, sync, local, world
<1>5. CASE T_Destroy
  <2>1. (dead \in [Slot -> BOOLEAN])'
    BY <1>5 DEF T_Destroy, mutex_destroy, cond_destroy
  <2>2. (gone \in [Slot -> BOOLEAN])'
    BY <1>5 DEF T_Destroy, mutex_destroy, cond_destroy
  <2>3. (idx \in [Proc -> 0..Max])'
    BY <1>5 DEF T_Destroy, mutex_destroy, cond_destroy, Proc
  <2> QED
    BY <1>5, <2>1, <2>2, <2>3 DEF T_Destroy, memory, slots, sync, local, world
<1>6. CASE T_Free
  <2>1. (freed \in BOOLEAN)'
    BY <1>6 DEF T_Free
  <2>2. (pc \in [Proc -> Labels])'
    BY <1>6, KnownLabels DEF T_Free, Goto, Proc
  <2> QED
    BY <1>6, <2>1, <2>2 DEF T_Free, memory, slots, sync, local, world
<1>7. CASE M_Wake
  <2>1. (rounds \in 0..Rounds)'
    BY <1>7 DEF M_Wake
  <2>2. (pc \in [Proc -> Labels])'
    BY <1>7, KnownLabels DEF M_Wake, Goto, Proc
  <2> QED
    BY <1>7, <2>1, <2>2 DEF M_Wake, memory, slots, sync, local, world
<1>8. CASE M_Count
  <2>1. (idx \in [Proc -> 0..Max])'
    BY <1>8 DEF M_Count, Proc
  <2>2. (reg \in [Callers \union {Manager} -> 0..Max])'
    BY <1>8 DEF M_Count, Counted, Proc
  <2> QED
    BY <1>8, <2>1, <2>2 DEF M_Count, memory, slots, sync, local, world
<1>9. CASE M_Status
  <2>1. (pc \in [Proc -> Labels])'
    BY <1>9, KnownLabels DEF M_Status, Goto, Proc
  <2>2. (idx \in [Proc -> 0..Max])'
    BY <1>9 DEF M_Status, Proc
  <2>3. (reg \in [Callers \union {Manager} -> 0..Max])'
    BY <1>9 DEF M_Status
  <2> QED
    BY <1>9, <2>1, <2>2, <2>3 DEF M_Status, memory, slots, sync, local, world
<1>10. CASE M_Min
  <2>1. (pc \in [Proc -> Labels])'
    BY <1>10, KnownLabels DEF M_Min, Goto, Move, Proc
  <2> QED
    BY <1>10, <2>1 DEF M_Min, memory, slots, sync, local, world
<1>11. CASE M_Last
  <2>1. (pc \in [Proc -> Labels])'
    BY <1>11, KnownLabels DEF M_Last, Goto, Move, Proc
  <2> QED
    BY <1>11, <2>1 DEF M_Last, memory, slots, sync, local, world
<1>12. CASE M_KillLock
  <2>1. (pc \in [Proc -> Labels])'
    BY <1>12, KnownLabels DEF M_KillLock, mutex_destroy, Goto, Move, Proc
  <2>2. (dead \in [Slot -> BOOLEAN])'
    BY <1>12 DEF M_KillLock, mutex_destroy
  <2> QED
    BY <1>12, <2>1, <2>2 DEF M_KillLock, memory, slots, sync, local, world
<1>13. CASE M_KillCond
  <2>1. (pc \in [Proc -> Labels])'
    BY <1>13, KnownLabels DEF M_KillCond, cond_destroy, Goto, Move, Proc
  <2>2. (gone \in [Slot -> BOOLEAN])'
    BY <1>13 DEF M_KillCond, cond_destroy
  <2> QED
    BY <1>13, <2>1, <2>2 DEF M_KillCond, memory, slots, sync, local, world
<1>14. CASE M_Dec
  <2>1. (pc \in [Proc -> Labels])'
    BY <1>14, KnownLabels DEF M_Dec, Goto, Move, Proc
  <2>2. (reg \in [Callers \union {Manager} -> 0..Max])'
    BY <1>14 DEF M_Dec
  <2> QED
    BY <1>14, <2>1, <2>2 DEF M_Dec, memory, slots, sync, local, world
<1>15. CASE M_DecStore
  <2>1. (pc \in [Proc -> Labels])'
    BY <1>15, KnownLabels DEF M_DecStore, Goto, Move, Proc
  <2>2. (cur \in Min..Max)'
    BY <1>15 DEF M_DecStore, Counted, Move
  <2>3. (reg \in [Callers \union {Manager} -> 0..Max])'
    BY <1>15 DEF M_DecStore
  <2> QED
    BY <1>15, <2>1, <2>2, <2>3 DEF M_DecStore, memory, slots, sync, local,
       world
<1>16. ASSUME NEW c \in Callers, ProcessJob(c) PROVE TypeOK'
  <2>1. (calls \in 0..NumJobs)'
    BY <1>16 DEF ProcessJob
  <2>2. (job \in [Callers \union Worker -> Task])'
    BY SMTT(30), <1>16, TaskType DEF ProcessJob, Written, Job
  <2>3. (pc \in [Proc -> Labels])'
    BY <1>16, KnownLabels DEF ProcessJob, Goto, Proc
  <2> QED
    BY <1>16, <2>1, <2>2, <2>3 DEF ProcessJob, memory, slots, sync, local,
       world
<1>17. ASSUME NEW c \in Callers, J_Scan(c) PROVE TypeOK'
  <2>1. (pc \in [Proc -> Labels])'
    BY <1>17, KnownLabels DEF J_Scan, Goto, Move, Proc
  <2> QED
    BY <1>17, <2>1 DEF J_Scan, memory, slots, sync, local, world
<1>18. ASSUME NEW c \in Callers, J_Lock(c) PROVE TypeOK'
  <2>1. (pc \in [Proc -> Labels])'
    BY <1>18, KnownLabels DEF J_Lock, mutex_lock, Goto, Move, Proc
  <2>2. (lock \in [Slot -> Callers \union Worker \union {NoOne}])'
    BY <1>18 DEF J_Lock, mutex_lock
  <2>3. (users \in [Slot -> Int])'
    BY <1>18 DEF J_Lock, mutex_lock
  <2> QED
    BY <1>18, <2>1, <2>2, <2>3 DEF J_Lock, memory, slots, sync, local, world
<1>19. ASSUME NEW c \in Callers, J_Test(c) PROVE TypeOK'
  <2>1. (lock \in [Slot -> Callers \union Worker \union {NoOne}])'
    BY <1>19 DEF J_Test, mutex_unlock
  <2>2. (users \in [Slot -> Int])'
    BY <1>19 DEF J_Test, mutex_unlock
  <2>3. (pc \in [Proc -> Labels])'
    BY <1>19, KnownLabels DEF J_Test, mutex_unlock, Goto, Proc
  <2>4. (idx \in [Proc -> 0..Max])'
    BY <1>19 DEF J_Test, mutex_unlock, Proc, Counted
  <2> QED
    BY <1>19, <2>1, <2>2, <2>3, <2>4 DEF J_Test, memory, slots, sync, local,
       world
<1>20. ASSUME NEW c \in Callers, J_Claim(c) PROVE TypeOK'
  <2>1. (pc \in [Proc -> Labels])'
    BY <1>20, KnownLabels DEF J_Claim, mutex_unlock, Goto, Move, Proc
  <2>2. (busy \in [Slot -> BOOLEAN])'
    BY <1>20 DEF J_Claim, mutex_unlock
  <2>3. (lock \in [Slot -> Callers \union Worker \union {NoOne}])'
    BY <1>20 DEF J_Claim, mutex_unlock
  <2>4. (users \in [Slot -> Int])'
    BY <1>20 DEF J_Claim, mutex_unlock
  <2> QED
    BY <1>20, <2>1, <2>2, <2>3, <2>4 DEF J_Claim, memory, slots, sync, local,
       world
<1>21. ASSUME NEW c \in Callers, J_Work(c) PROVE TypeOK'
  <2>1. (pc \in [Proc -> Labels])'
    BY <1>21, KnownLabels DEF J_Work, Goto, Move, Proc
  <2>2. (work \in [Slot -> Written])'
    BY <1>21, TaskType DEF J_Work
  <2> QED
    BY <1>21, <2>1, <2>2 DEF J_Work, memory, slots, sync, local, world
<1>22. ASSUME NEW c \in Callers, J_Desc(c) PROVE TypeOK'
  <2>1. (pc \in [Proc -> Labels])'
    BY <1>22, KnownLabels DEF J_Desc, Goto, Move, Proc
  <2>2. (desc \in [Slot -> Written])'
    BY <1>22, TaskType DEF J_Desc
  <2> QED
    BY <1>22, <2>1, <2>2 DEF J_Desc, memory, slots, sync, local, world
<1>23. ASSUME NEW c \in Callers, J_AddLock(c) PROVE TypeOK'
  <2>1. (tp_lock \in Callers \union {NoOne})'
    BY <1>23 DEF J_AddLock
  <2>2. (pc \in [Proc -> Labels])'
    BY <1>23, KnownLabels DEF J_AddLock, Goto, Proc
  <2> QED
    BY <1>23, <2>1, <2>2 DEF J_AddLock, memory, slots, sync, local, world
<1>24. ASSUME NEW c \in Callers, J_Check(c) PROVE TypeOK'
  <2>1. (pc \in [Proc -> Labels])'
    BY <1>24, KnownLabels DEF J_Check, Goto, Move, Proc
  <2> QED
    BY <1>24, <2>1 DEF J_Check, memory, slots, sync, local, world
<1>25. ASSUME NEW c \in Callers, J_Fresh(c) PROVE TypeOK'
  <2>1. (idx \in [Proc -> 0..Max])'
    BY <1>25 DEF J_Fresh, Fresh, Proc
  <2>2. (busy \in [Slot -> BOOLEAN])'
    BY <1>25 DEF J_Fresh, Fresh
  <2>3. (lock \in [Slot -> Callers \union Worker \union {NoOne}])'
    BY <1>25 DEF J_Fresh, Fresh
  <2>4. (users \in [Slot -> Int])'
    <3>1. users' = [users EXCEPT ![cur] = 0]
      BY <1>25 DEF J_Fresh, Fresh
    <3>2. users \in [Slot -> Int] /\ 0 \in Int
      OBVIOUS
    <3> HIDE DEF PoolInv, TypeOK
    <3> QED
      BY <3>1, <3>2
  <2>5. (dead \in [Slot -> BOOLEAN])'
    BY <1>25 DEF J_Fresh, Fresh
  <2>6. (gone \in [Slot -> BOOLEAN])'
    BY <1>25 DEF J_Fresh, Fresh
  <2>7. (pc \in [Proc -> Labels])'
    BY <1>25, KnownLabels DEF J_Fresh, Fresh, Goto, Proc
  <2> QED
    BY <1>25, <2>1, <2>2, <2>3, <2>4, <2>5, <2>6, <2>7 DEF J_Fresh, Fresh,
       memory, slots, sync, local, world
<1>26. ASSUME NEW c \in Callers, J_Inc(c) PROVE TypeOK'
  <2>1. (pc \in [Proc -> Labels])'
    BY <1>26, KnownLabels DEF J_Inc, Goto, Move, Proc
  <2>2. (reg \in [Callers \union {Manager} -> 0..Max])'
    BY <1>26 DEF J_Inc
  <2> QED
    BY <1>26, <2>1, <2>2 DEF J_Inc, memory, slots, sync, local, world
<1>27. ASSUME NEW c \in Callers, J_IncStore(c) PROVE TypeOK'
  <2>1. (pc \in [Proc -> Labels])'
    BY <1>27, KnownLabels DEF J_IncStore, Goto, Move, Proc
  <2>2. (cur \in Min..Max)'
    BY <1>27 DEF J_IncStore, Counted, Move
  <2> QED
    BY <1>27, <2>1, <2>2 DEF J_IncStore, memory, slots, sync, local, world
<1>28. ASSUME NEW c \in Callers, J_Create(c) PROVE TypeOK'
  <2>1. (id \in [Slot -> Worker \union {NoOne}])'
    <3>1. born + 1 \in Worker
      BY <1>28 DEF J_Create, Worker
    <3> QED
      BY <1>28, <3>1 DEF J_Create
  <2>2. (born \in 0..NumWorkers)'
    BY <1>28 DEF J_Create, Counted, Worker
  <2>3. (pc \in [Proc -> Labels])'
    BY <1>28, KnownLabels DEF J_Create, Goto, Proc, Worker
  <2> QED
    BY <1>28, <2>1, <2>2, <2>3 DEF J_Create, memory, slots, sync, local, world
<1>29. ASSUME NEW c \in Callers, J_CreateFails(c) PROVE TypeOK'
  <2>1. (aborted \in BOOLEAN)'
    BY <1>29 DEF J_CreateFails
  <2> QED
    BY <1>29, <2>1 DEF J_CreateFails, memory, slots, sync, local, world
<1>30. ASSUME NEW c \in Callers, J_Index(c) PROVE TypeOK'
  <2>1. (pc \in [Proc -> Labels])'
    BY <1>30, KnownLabels DEF J_Index, Goto, Move, Proc
  <2>2. (idx \in [Proc -> 0..Max])'
    BY <1>30 DEF J_Index, Proc
  <2> QED
    BY <1>30, <2>1, <2>2 DEF J_Index, memory, slots, sync, local, world
<1>31. ASSUME NEW c \in Callers, J_AddUnlock(c) PROVE TypeOK'
  <2>1. (pc \in [Proc -> Labels])'
    BY <1>31, KnownLabels DEF J_AddUnlock, Goto, Move, Proc
  <2>2. (tp_lock \in Callers \union {NoOne})'
    BY <1>31 DEF J_AddUnlock
  <2> QED
    BY <1>31, <2>1, <2>2 DEF J_AddUnlock, memory, slots, sync, local, world
<1>32. ASSUME NEW c \in Callers, J_Signal(c) PROVE TypeOK'
  <2>1. (pc \in [Proc -> Labels])'
    BY <1>32, KnownLabels, SignalledProps DEF J_Signal, Goto, Proc
  <2>2. (idx \in [Proc -> 0..Max])'
    BY <1>32 DEF J_Signal, Proc
  <2>3. (reg \in [Callers \union {Manager} -> 0..Max])'
    BY <1>32 DEF J_Signal
  <2>4. (job \in [Callers \union Worker -> Task])'
    BY <1>32, TaskType DEF J_Signal
  <2> QED
    BY <1>32, <2>1, <2>2, <2>3, <2>4 DEF J_Signal, memory, slots, sync, local,
       world
<1>33. ASSUME NEW w \in Worker, W_Start(w) PROVE TypeOK'
  <2>1. (idx \in [Proc -> 0..Max])'
    <3>1. idx' = idx \/ \E i \in 0..Max : idx' = [idx EXCEPT ![w] = i]
      BY <1>33 DEF W_Start, Search, Slot
    <3> QED
      BY <3>1
  <2>2. (pc \in [Proc -> Labels])'
    BY <1>33, KnownLabels DEF W_Start, Search, Goto, Proc
  <2> QED
    BY <1>33, <2>1, <2>2 DEF W_Start, memory, slots, sync, local, world
<1>34. ASSUME NEW w \in Worker, W_Lock(w) PROVE TypeOK'
  <2>1. (pc \in [Proc -> Labels])'
    BY <1>34, KnownLabels DEF W_Lock, mutex_lock, Goto, Proc
  <2>2. (lock \in [Slot -> Callers \union Worker \union {NoOne}])'
    BY <1>34 DEF W_Lock, mutex_lock
  <2>3. (users \in [Slot -> Int])'
    BY <1>34 DEF W_Lock, mutex_lock
  <2> QED
    BY <1>34, <2>1, <2>2, <2>3 DEF W_Lock, memory, slots, sync, local, world
<1>35. ASSUME NEW w \in Worker, W_Wait(w) PROVE TypeOK'
  <2>1. (pc \in [Proc -> Labels])'
    BY <1>35, KnownLabels DEF W_Wait, Goto, Proc
  <2>2. (lock \in [Slot -> Callers \union Worker \union {NoOne}])'
    BY <1>35 DEF W_Wait
  <2> QED
    BY <1>35, <2>1, <2>2 DEF W_Wait, memory, slots, sync, local, world
<1>36. ASSUME NEW w \in Worker, W_Wake(w) PROVE TypeOK'
  <2>1. (pc \in [Proc -> Labels])'
    BY <1>36, KnownLabels DEF W_Wake, Goto, Move, Proc
  <2>2. (lock \in [Slot -> Callers \union Worker \union {NoOne}])'
    BY <1>36 DEF W_Wake
  <2> QED
    BY <1>36, <2>1, <2>2 DEF W_Wake, memory, slots, sync, local, world
<1>37. ASSUME NEW w \in Worker, W_Unlock(w) PROVE TypeOK'
  <2>1. (pc \in [Proc -> Labels])'
    BY <1>37, KnownLabels DEF W_Unlock, mutex_unlock, Goto, Proc
  <2>2. (lock \in [Slot -> Callers \union Worker \union {NoOne}])'
    BY <1>37 DEF W_Unlock, mutex_unlock
  <2>3. (users \in [Slot -> Int])'
    BY <1>37 DEF W_Unlock, mutex_unlock
  <2> QED
    BY <1>37, <2>1, <2>2, <2>3 DEF W_Unlock, memory, slots, sync, local, world
<1>38. ASSUME NEW w \in Worker, W_ReadWork(w) PROVE TypeOK'
  <2>1. (pc \in [Proc -> Labels])'
    BY <1>38, KnownLabels DEF W_ReadWork, Goto, Move, Proc
  <2>2. (job \in [Callers \union Worker -> Task])'
    <3>1. work[idx[w]] \in Written /\ job[w] \in Task
      BY DEF Counted, Slot, Proc
    <3>2. [job[w] EXCEPT !.work = work[idx[w]]] \in Task
      BY <3>1, TaskType
    <3> QED
      BY <1>38, <3>2 DEF W_ReadWork
  <2> QED
    BY <1>38, <2>1, <2>2 DEF W_ReadWork, memory, slots, sync, local, world
<1>39. ASSUME NEW w \in Worker, W_ReadDesc(w) PROVE TypeOK'
  <2>1. (pc \in [Proc -> Labels])'
    BY <1>39, KnownLabels DEF W_ReadDesc, Goto, Move, Proc
  <2>2. (job \in [Callers \union Worker -> Task])'
    <3>1. desc[idx[w]] \in Written /\ job[w] \in Task
      BY DEF Counted, Slot, Proc
    <3>2. [job[w] EXCEPT !.desc = desc[idx[w]]] \in Task
      BY <3>1, TaskType
    <3> QED
      BY <1>39, <3>2 DEF W_ReadDesc
  <2> QED
    BY <1>39, <2>1, <2>2 DEF W_ReadDesc, memory, slots, sync, local, world
<1>40. ASSUME NEW w \in Worker, W_Run(w) PROVE TypeOK'
  <2>1. (aborted \in BOOLEAN)'
    BY <1>40 DEF W_Run
  <2>2. (ran \in [Job -> 0..2])'
    BY <1>40 DEF W_Run, Written
  <2>3. (pc \in [Proc -> Labels])'
    BY <1>40, KnownLabels DEF W_Run, Goto, Proc
  <2>4. (job \in [Callers \union Worker -> Task])'
    BY <1>40, TaskType DEF W_Run
  <2> QED
    BY <1>40, <2>1, <2>2, <2>3, <2>4 DEF W_Run, memory, slots, sync, local,
       world
<1>41. ASSUME NEW w \in Worker, W_Clear(w) PROVE TypeOK'
  <2>1. (pc \in [Proc -> Labels])'
    BY <1>41, KnownLabels DEF W_Clear, Goto, Move, Proc
  <2>2. (busy \in [Slot -> BOOLEAN])'
    BY <1>41 DEF W_Clear
  <2> QED
    BY <1>41, <2>1, <2>2 DEF W_Clear, memory, slots, sync, local, world
<1>42. CASE UNCHANGED vars
  BY <1>42 DEF vars, memory, slots, sync, local, world
<1>43. ASSUME NEW c \in Callers, J_SignalAstray(c) PROVE TypeOK'
  <2>1. (pc \in [Proc -> Labels])'
    BY <1>43, KnownLabels DEF J_SignalAstray, Goto, Proc
  <2> QED
    BY <1>43, <2>1 DEF J_SignalAstray, memory, slots, sync, local, world
<1> QED
  BY <1>43, <1>1, <1>2, <1>3, <1>4, <1>5, <1>6, <1>7, <1>8, <1>9, <1>10, <1>11,
     <1>12, <1>13, <1>14, <1>15, <1>16, <1>17, <1>18, <1>19, <1>20, <1>21,
     <1>22, <1>23, <1>24, <1>25, <1>26, <1>27, <1>28, <1>29, <1>30, <1>31,
     <1>32, <1>33, <1>34, <1>35, <1>36, <1>37, <1>38, <1>39, <1>40, <1>41,
     <1>42 DEF Next, MainStep, ManagerStep, CallerStep, WorkerStep

\* The two sides that change cur_th_num, add_thread under tp_lock (lines 192 to
\* 206) and the manager without a lock (lines 228 to 239): each side's test of
\* it holds until the value computed from it is stored, whatever the other
\* does.
LEMMA CountedStep ==
  ASSUME PoolInv, [Next]_vars
  PROVE  Counted'
<1> USE PoolAssumption DEF PoolInv, TypeOK, Counted, Adding, Goto, Slot, Proc,
      Worker, memory, slots, sync, local, world
<1>1. CASE T_Init
  BY SMTT(30), <1>1 DEF T_Init
<1>2. CASE T_Manager
  BY <1>2 DEF T_Manager
<1>3. CASE T_Fail
  BY <1>3 DEF T_Fail
<1>4. CASE T_Close
  BY <1>4 DEF T_Close
<1>5. CASE T_Destroy
  BY <1>5 DEF T_Destroy, mutex_destroy, cond_destroy
<1>6. CASE T_Free
  BY <1>6 DEF T_Free
<1>7. CASE M_Wake
  BY <1>7 DEF M_Wake
<1>8. CASE M_Count
  BY SMTT(30), <1>8 DEF M_Count
<1>9. CASE M_Status
  BY <1>9 DEF M_Status
<1>10. CASE M_Min
  BY <1>10 DEF M_Min, Move
<1>11. CASE M_Last
  BY <1>11 DEF M_Last, Move
<1>12. CASE M_KillLock
  BY <1>12 DEF M_KillLock, Move, mutex_destroy
<1>13. CASE M_KillCond
  BY <1>13 DEF M_KillCond, Move, cond_destroy
<1>14. CASE M_Dec
  BY <1>14 DEF M_Dec, Move
<1>15. CASE M_DecStore
  BY <1>15 DEF M_DecStore, Move
<1>16. ASSUME NEW c \in Callers, ProcessJob(c) PROVE Counted'
  BY <1>16 DEF ProcessJob
<1>17. ASSUME NEW c \in Callers, J_Scan(c) PROVE Counted'
  BY SMTT(30), <1>17 DEF J_Scan, Move
<1>18. ASSUME NEW c \in Callers, J_Lock(c) PROVE Counted'
  BY <1>18 DEF J_Lock, Move, mutex_lock
<1>19. ASSUME NEW c \in Callers, J_Test(c) PROVE Counted'
  <2>1. /\ UNCHANGED <<cur, tp_lock, reg, world>>
        /\ \/ /\ pc' = [pc EXCEPT ![c] = "scan"]
              /\ idx' = [idx EXCEPT ![c] = idx[c] + 1]
           \/ pc' = [pc EXCEPT ![c] = "claim"] /\ idx' = idx
        /\ pc[c] = "test"
    BY <1>19 DEF J_Test
  <2>2. CASE /\ pc' = [pc EXCEPT ![c] = "scan"]
             /\ idx' = [idx EXCEPT ![c] = idx[c] + 1]
    BY <2>1, <2>2
  <2>3. CASE pc' = [pc EXCEPT ![c] = "claim"] /\ idx' = idx
    BY <2>1, <2>3
  <2> QED
    BY <2>1, <2>2, <2>3
<1>20. ASSUME NEW c \in Callers, J_Claim(c) PROVE Counted'
  BY <1>20 DEF J_Claim, Move, mutex_unlock
<1>21. ASSUME NEW c \in Callers, J_Work(c) PROVE Counted'
  BY <1>21 DEF J_Work, Move
<1>22. ASSUME NEW c \in Callers, J_Desc(c) PROVE Counted'
  BY <1>22 DEF J_Desc, Move
<1>23. ASSUME NEW c \in Callers, J_AddLock(c) PROVE Counted'
  BY <1>23 DEF J_AddLock
<1>24. ASSUME NEW c \in Callers, J_Check(c) PROVE Counted'
  BY <1>24 DEF J_Check, Move
<1>25. ASSUME NEW c \in Callers, J_Fresh(c) PROVE Counted'
  BY <1>25 DEF J_Fresh, Fresh, Asleep
<1>26. ASSUME NEW c \in Callers, J_Inc(c) PROVE Counted'
  BY <1>26 DEF J_Inc, Move
<1>27. ASSUME NEW c \in Callers, J_IncStore(c) PROVE Counted'
  <2>1. /\ pc[c] = "incstore" /\ pc' = [pc EXCEPT ![c] = "create"]
        /\ cur' = reg[c] + 1
        /\ UNCHANGED <<tp_lock, slots, sync, local, world>>
    BY <1>27 DEF J_IncStore, Move
  <2>2. /\ pc'[c] = "create"
        /\ \A p \in Proc : p # c => pc'[p] = pc[p]
    BY <2>1
  <2>3. /\ tp_lock = c /\ reg[c] \in Min..Max-1
        /\ cur' > Min
    BY <2>1
  <2>4. \A d \in Callers : d # c => pc[d] \notin Adding
    BY <2>3
  <2> QED
    BY <2>1, <2>2, <2>3, <2>4
<1>28. ASSUME NEW c \in Callers, J_Create(c) PROVE Counted'
  BY SMTT(30), <1>28 DEF J_Create
<1>29. ASSUME NEW c \in Callers, J_CreateFails(c) PROVE Counted'
  BY <1>29 DEF J_CreateFails
<1>30. ASSUME NEW c \in Callers, J_Index(c) PROVE Counted'
  BY <1>30 DEF J_Index, Move
<1>31. ASSUME NEW c \in Callers, J_AddUnlock(c) PROVE Counted'
  BY <1>31 DEF J_AddUnlock, Move
<1>32. ASSUME NEW c \in Callers, J_Signal(c) PROVE Counted'
  <2>1. /\ pc'[c] = "idle" /\ pc' \in [Proc -> Labels]
        /\ \A p \in Proc : p \notin Worker /\ p # c => pc'[p] = pc[p]
    <3>1. PICK s \in Signalled(idx[c]) : pc' = [s EXCEPT ![c] = "idle"]
      BY <1>32 DEF J_Signal
    <3>2. /\ s \in [Proc -> Labels]
          /\ \A p \in Proc : p \notin Worker => s[p] = pc[p]
      BY ZenonT(40), <3>1, SignalledProps
    <3> QED
      BY <3>1, <3>2, KnownLabels
  <2>2. /\ idx' = [idx EXCEPT ![c] = 0] /\ reg' = [reg EXCEPT ![c] = 0]
        /\ UNCHANGED <<memory, world>>
    BY <1>32 DEF J_Signal
  <2> QED
    BY <2>1, <2>2
<1>33. ASSUME NEW w \in Worker, W_Start(w) PROVE Counted'
  <2>1. /\ pc' = [pc EXCEPT ![w] = "lock"] \/ pc' = [pc EXCEPT ![w] = "exited"]
        /\ idx' = idx \/ \E i \in 0..Max-1 : idx' = [idx EXCEPT ![w] = i]
        /\ UNCHANGED <<memory, reg, job, world>>
    BY <1>33 DEF W_Start, Search
  <2>2. PICK l \in {"lock", "exited"} : pc' = [pc EXCEPT ![w] = l]
    BY <2>1
  <2>3. CASE idx' = idx
    BY <2>1, <2>2, <2>3
  <2>4. ASSUME NEW i \in 0..Max-1, idx' = [idx EXCEPT ![w] = i] PROVE Counted'
    <3>1. \A p \in Proc : p \notin Worker => idx'[p] = idx[p] /\ pc'[p] = pc[p]
      BY <2>2, <2>4
    <3>2. \A v \in Worker : idx'[v] < Max
      BY <2>4
    <3> QED
      BY <2>1, <3>1, <3>2
  <2> QED
    BY <2>1, <2>3, <2>4
<1>34. ASSUME NEW w \in Worker, W_Lock(w) PROVE Counted'
  BY SMTT(30), <1>34 DEF W_Lock, mutex_lock
<1>35. ASSUME NEW w \in Worker, W_Wait(w) PROVE Counted'
  BY SMTT(30), <1>35 DEF W_Wait
<1>36. ASSUME NEW w \in Worker, W_Wake(w) PROVE Counted'
  BY <1>36 DEF W_Wake, Move
<1>37. ASSUME NEW w \in Worker, W_Unlock(w) PROVE Counted'
  BY SMTT(30), <1>37 DEF W_Unlock
<1>38. ASSUME NEW w \in Worker, W_ReadWork(w) PROVE Counted'
  BY <1>38 DEF W_ReadWork, Move
<1>39. ASSUME NEW w \in Worker, W_ReadDesc(w) PROVE Counted'
  BY <1>39 DEF W_ReadDesc, Move
<1>40. ASSUME NEW w \in Worker, W_Run(w) PROVE Counted'
  BY <1>40 DEF W_Run
<1>41. ASSUME NEW w \in Worker, W_Clear(w) PROVE Counted'
  BY <1>41 DEF W_Clear, Move
<1>42. CASE UNCHANGED vars
  BY <1>42 DEF vars
<1>43. ASSUME NEW c \in Callers, J_SignalAstray(c) PROVE Counted'
  BY <1>43 DEF J_SignalAstray
<1> QED
  BY <1>1, <1>2, <1>3, <1>4, <1>5, <1>6, <1>7, <1>8, <1>9, <1>10, <1>11,
     <1>12, <1>13, <1>14, <1>15, <1>16, <1>17, <1>18, <1>19, <1>20, <1>21,
     <1>22, <1>23, <1>24, <1>25, <1>26, <1>27, <1>28, <1>29, <1>30, <1>31,
     <1>32, <1>33, <1>34, <1>35, <1>36, <1>37, <1>38, <1>39, <1>40, <1>41,
     <1>42, <1>43
  DEF Next, MainStep, ManagerStep, CallerStep, WorkerStep

\* PoolInv holds of every state the pool reaches.
THEOREM PoolInvariance == Spec => []PoolInv
<1>1. PoolInv /\ [Next]_vars => PoolInv'
  BY TypeStep, CountedStep DEF PoolInv
<1> QED
  BY InitInv, <1>1, PTL DEF Spec

\* What add_thread and delete_thread tested of cur_th_num still holds when they
\* store it (lines 192 and 228 against 206 and 239).
THEOREM PoolCounted == Spec => []Counted
  BY PoolInvariance, PTL DEF PoolInv

\* cur_th_num stays between min_th_num and max_th_num, so that thread_info is
\* never indexed by add_thread or delete_thread outside the array, although the
\* manager changes it without the lock.
THEOREM PoolTypeCorrect == Spec => []TypeOK
  BY PoolInvariance, PTL DEF PoolInv
=============================================================================
