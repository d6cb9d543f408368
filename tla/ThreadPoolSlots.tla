--------------------------- MODULE ThreadPoolSlots ---------------------------
(***************************************************************************)
(* What is proved of the slots of the thread pool, for any sizes and any   *)
(* callers: a worker finds its slot, a slot has one user at a time, jobs   *)
(* stay whole, and the pool implements JobPool.  The code does not do this *)
(* whatever happens: the theorems are about behaviors in which the two     *)
(* things that break it do not occur, a manager that deletes a thread      *)
(* (Steady) and a caller that is overtaken (NotOvertaken).                 *)
(*                                                                         *)
(* The locks protect only is_busy.  What protects th_work and th_job is    *)
(* that whoever sets is_busy uses the slot alone until a signal passes it  *)
(* on to the worker, who alone clears is_busy: SlotsInv counts this token. *)
(***************************************************************************)
EXTENDS ThreadPoolProofs, FiniteSetTheorems

\* The manager is not about to delete a thread.
Steady == pc[Manager] \in {"unborn", "sleep", "count", "min", "last"}

\* No caller that finds the pool full was overtaken: the slots that others added
\* since its scan are not among those it has not looked at.  One that was goes
\* on to line 158 with the number of another one's slot (line 149).
NotOvertaken ==
  \A c \in Callers : pc[c] = "check" /\ Max <= cur => idx[c] = Max

Tame == Steady /\ NotOvertaken

\* Each thread is in its own code.
Places ==
  /\ \A c \in Callers : pc[c] \in CallerPcs
  /\ \A w \in Worker : pc[w] \in WorkerPcs
  /\ Steady
  /\ pc[Main] \in MainPcs
  /\ pc[Main] # "ready" => \A c \in Callers : pc[c] = "idle"

\* How many slots have been given a thread.
Made == IF pc[Main] = "init" THEN idx[Main] ELSE cur

\* Every worker has a slot of its own below cur_th_num, and the slot that a
\* caller adds has none yet.
Homes ==
  /\ \A i \in Slot : id[i] # NoOne => id[i] <= born /\ i < Made
  /\ \A i, k \in Slot : id[i] = id[k] /\ id[i] # NoOne => i = k
  /\ \A c \in Callers :
       /\ pc[c] \in {"inc", "incstore"} => idx[c] = cur
       /\ pc[c] = "incstore" => reg[c] = cur
       /\ pc[c] \in {"create", "index"} => idx[c] = cur - 1
       /\ pc[c] = "create" => id[idx[c]] = NoOne
  /\ \A w \in Worker : pc[w] = "unborn" <=> w > born
  /\ \A w \in Worker : w <= born => \E i \in Slot : i < cur /\ id[i] = w
  /\ EverySlotServed

\* The scan is within the slots in use until it has passed them all, and no
\* lock or condition is destroyed.
Bounds ==
  /\ \A i \in Slot : ~dead[i] /\ ~gone[i]
  /\ \A w \in Worker : pc[w] # "cut"
  /\ \A c \in Callers :
       /\ pc[c] \in {"lock", "test", "claim", "work", "desc"} => idx[c] < cur
       /\ pc[c] \in {"addunlock", "signal"} => idx[c] < cur \/ idx[c] = Max

\* The labels between lock and unlock of a slot, and what process_job knows by
\* its lock.
Inside == {"test", "claim", "wait", "unlock", "clear", "reunlock"}

Owned == \A p \in Proc :
  /\ pc[p] \in Inside => lock[idx[p]] = p
  /\ pc[p] = "claim" => ~busy[idx[p]]

\* The labels at which a caller has a slot, from is_busy to the signal, and at
\* which a worker has it, from the signal on.
Claimed == {"inc", "incstore", "create", "index", "work", "desc", "addunlock",
            "signal"}
Served  == {"woken", "unlock", "readwork", "readdesc", "run", "relock",
            "clear"}

Using(p, i) == pc[p] \in Claimed \union Served /\ idx[p] = i

\* The token: one user at most, and the slot is busy meanwhile.
Token == \A i \in Slot :
  /\ \A p, q \in Proc : Using(p, i) /\ Using(q, i) => p = q
  /\ \A p \in Proc : Using(p, i) => busy[i]

SlotsInv == Open => Bounds /\ Owned /\ Token

\* The job of slot i was run, or it never had one.
Settled(i) == work[i] # Garbage => ran[work[i]] > 0

\* Jobs are different as long as they are about.
Jobs ==
  /\ \A j \in Job : j > calls => ran[j] = 0
  /\ \A i \in Slot : work[i] <= calls /\ desc[i] <= calls
  /\ \A i, k \in Slot : work[i] = work[k] /\ work[i] # Garbage => i = k
  /\ \A c \in Callers : pc[c] = "idle" => job[c] = None
  /\ \A c \in Callers : pc[c] # "idle" =>
       job[c].work \in 1..calls /\ job[c].desc = job[c].work
  /\ \A c, d \in Callers : pc[c] # "idle" /\ job[c].work = job[d].work => c = d
  /\ \A c \in Callers : pc[c] \in Offering =>
       /\ ran[job[c].work] = 0
       /\ \A i \in Slot : /\ desc[i] # job[c].work
                          /\ work[i] = job[c].work => pc[c] = "desc" /\ i = idx[c]

\* What is in a slot, depending on who has the token.
Contents ==
  /\ \A i \in Slot : work[i] = desc[i] \/ \E c \in Callers : pc[c] = "desc" /\ idx[c] = i
  /\ \A i \in Slot : ~busy[i] \/ i >= cur => Settled(i)
  /\ \A p \in Proc :
       pc[p] \in {"inc", "incstore", "create", "index", "work", "relock", "clear"}
         => Settled(idx[p])
  /\ \A c \in Callers : pc[c] = "desc" => work[idx[c]] = job[c].work
  /\ \A c \in Callers : pc[c] \in {"addunlock", "signal"} /\ idx[c] < Max =>
       work[idx[c]] # Garbage /\ ran[work[idx[c]]] = 0
  /\ \A w \in Worker : pc[w] \in {"woken", "unlock", "readwork", "readdesc", "run"} =>
       /\ work[idx[w]] # Garbage /\ ran[work[idx[w]]] = 0
       /\ pc[w] \in {"readdesc", "run"} => job[w].work = work[idx[w]]
       /\ pc[w] = "run" => job[w].desc = desc[idx[w]]

JobsInv == Open => Jobs /\ Contents

\* What line 138 or 158 does to the others: a signal wakes workers that wait
\* for that slot's condition, and only those.
LEMMA SignalStep ==
  ASSUME TypeOK, NEW c \in Callers, J_Signal(c)
  PROVE  /\ pc[c] = "signal" /\ pc'[c] = "idle"
         /\ \A p \in Proc : p \notin Worker /\ p # c => pc'[p] = pc[p]
         /\ \A w \in Worker : pc'[w] # pc[w] =>
              /\ pc[w] \in {"waiting", "cut"} /\ idx[w] = idx[c]
              /\ pc'[w] \in {"woken", "cut"}
              /\ pc'[w] = "cut" => \E v \in Worker : pc[v] = "cut"
         /\ idx' = [idx EXCEPT ![c] = 0] /\ reg' = [reg EXCEPT ![c] = 0]
         /\ job' = [job EXCEPT ![c] = None]
         /\ UNCHANGED <<memory, world>>
<1> USE PoolAssumption DEF Proc
<1>1. PICK s \in Signalled(idx[c]) : pc' = [s EXCEPT ![c] = "idle"]
  BY DEF J_Signal
<1>2. \/ s = pc
      \/ \E w \in Asleep(idx[c], "waiting") :
           \/ s = [pc EXCEPT ![w] = "woken"]
           \/ \E v \in Asleep(idx[c], "cut"), l \in {"cut", "woken"} :
                s = [pc EXCEPT ![w] = "cut", ![v] = l]
  BY <1>1 DEF Signalled
<1>3. c \in Proc /\ c \notin Worker /\ Worker \subseteq Proc
      /\ pc \in [Proc -> Labels] /\ s \in [Proc -> Labels]
  BY <1>1, SignalledProps DEF TypeOK
<1> DEFINE Wakes == \A w \in Worker : s[w] # pc[w] =>
                       /\ pc[w] \in {"waiting", "cut"} /\ idx[w] = idx[c]
                       /\ s[w] \in {"woken", "cut"}
                       /\ s[w] = "cut" => \E v \in Worker : pc[v] = "cut"
           Keeps == \A p \in Proc : p \notin Worker => s[p] = pc[p]
<1>4. Wakes /\ Keeps
  <2>1. CASE s = pc
    BY <2>1
  <2>2. ASSUME NEW w \in Asleep(idx[c], "waiting"),
               s = [pc EXCEPT ![w] = "woken"]
        PROVE  Wakes /\ Keeps
    BY <2>2, <1>3 DEF Asleep
  <2>3. ASSUME NEW w \in Asleep(idx[c], "waiting"),
               NEW v \in Asleep(idx[c], "cut"), NEW l \in {"cut", "woken"},
               s = [pc EXCEPT ![w] = "cut", ![v] = l]
        PROVE  Wakes /\ Keeps
    BY <2>3, <1>3 DEF Asleep
  <2> QED
    BY <1>2, <2>1, <2>2, <2>3
<1> QED
  BY <1>1, <1>3, <1>4 DEF J_Signal

\* Every thread stays in its own code.
LEMMA PlacesStep ==
  ASSUME PoolInv, Places, Steady', [Next]_vars
  PROVE  Places'
<1> USE PoolAssumption DEF PoolInv, TypeOK, Counted, Adding, Places, Steady,
   Goto,
      CallerPcs, WorkerPcs, MainPcs, Proc, Worker, memory, slots, sync, local, world
<1>1. CASE T_Init
  BY <1>1 DEF T_Init
<1>2. CASE T_Manager
  BY <1>2 DEF T_Manager
<1>3. CASE T_Fail
  BY <1>3 DEF T_Fail
<1>4. CASE T_Close
  BY <1>4 DEF T_Close
<1>5. CASE T_Destroy
  BY <1>5 DEF T_Destroy, mutex_destroy, cond_destroy
<1>6. CASE T_Free
  BY <1>6 DEF T_Free
<1>7. CASE M_Wake
  BY <1>7 DEF M_Wake
<1>8. CASE M_Count
  BY <1>8 DEF M_Count
<1>9. CASE M_Status
  BY <1>9 DEF M_Status
<1>10. CASE M_Min
  BY <1>10 DEF M_Min, Move
<1>11. CASE M_Last
  BY <1>11 DEF M_Last, Move
<1>12. CASE M_KillLock
  BY <1>12 DEF M_KillLock, Move, mutex_destroy
<1>13. CASE M_KillCond
  BY <1>13 DEF M_KillCond, Move, cond_destroy
<1>14. CASE M_Dec
  BY <1>14 DEF M_Dec, Move
<1>15. CASE M_DecStore
  BY <1>15 DEF M_DecStore, Move
<1>16. ASSUME NEW c \in Callers, ProcessJob(c) PROVE Places'
  BY <1>16 DEF ProcessJob
<1>17. ASSUME NEW c \in Callers, J_Scan(c) PROVE Places'
  BY <1>17 DEF J_Scan, Move
<1>18. ASSUME NEW c \in Callers, J_Lock(c) PROVE Places'
  BY <1>18 DEF J_Lock, Move, mutex_lock
<1>19. ASSUME NEW c \in Callers, J_Test(c) PROVE Places'
  BY <1>19 DEF J_Test, mutex_unlock
<1>20. ASSUME NEW c \in Callers, J_Claim(c) PROVE Places'
  BY <1>20 DEF J_Claim, Move, mutex_unlock
<1>21. ASSUME NEW c \in Callers, J_Work(c) PROVE Places'
  BY <1>21 DEF J_Work, Move
<1>22. ASSUME NEW c \in Callers, J_Desc(c) PROVE Places'
  BY <1>22 DEF J_Desc, Move
<1>23. ASSUME NEW c \in Callers, J_AddLock(c) PROVE Places'
  BY <1>23 DEF J_AddLock
<1>24. ASSUME NEW c \in Callers, J_Check(c) PROVE Places'
  BY <1>24 DEF J_Check, Move
<1>25. ASSUME NEW c \in Callers, J_Fresh(c) PROVE Places'
  BY <1>25 DEF J_Fresh, Fresh, Asleep
<1>26. ASSUME NEW c \in Callers, J_Inc(c) PROVE Places'
  BY <1>26 DEF J_Inc, Move
<1>27. ASSUME NEW c \in Callers, J_IncStore(c) PROVE Places'
  BY <1>27 DEF J_IncStore, Move
<1>28. ASSUME NEW c \in Callers, J_Create(c) PROVE Places'
  BY <1>28 DEF J_Create
<1>29. ASSUME NEW c \in Callers, J_CreateFails(c) PROVE Places'
  BY <1>29 DEF J_CreateFails
<1>30. ASSUME NEW c \in Callers, J_Index(c) PROVE Places'
  BY <1>30 DEF J_Index, Move
<1>31. ASSUME NEW c \in Callers, J_AddUnlock(c) PROVE Places'
  BY <1>31 DEF J_AddUnlock, Move
<1>32. ASSUME NEW c \in Callers, J_Signal(c) PROVE Places'
  <2>1. /\ pc'[c] = "idle"
        /\ \A p \in Proc : p \notin Worker /\ p # c => pc'[p] = pc[p]
        /\ \A w \in Worker : pc'[w] # pc[w] => pc'[w] \in {"woken", "cut"}
        /\ UNCHANGED world
    BY <1>32, SignalStep
  <2> QED
    BY <2>1
<1>33. ASSUME NEW w \in Worker, W_Start(w) PROVE Places'
  BY <1>33 DEF W_Start, Search
<1>34. ASSUME NEW w \in Worker, W_Lock(w) PROVE Places'
  BY <1>34 DEF W_Lock, mutex_lock
<1>35. ASSUME NEW w \in Worker, W_Wait(w) PROVE Places'
  BY <1>35 DEF W_Wait
<1>36. ASSUME NEW w \in Worker, W_Wake(w) PROVE Places'
  BY <1>36 DEF W_Wake, Move
<1>37. ASSUME NEW w \in Worker, W_Unlock(w) PROVE Places'
  BY <1>37 DEF W_Unlock, mutex_unlock
<1>38. ASSUME NEW w \in Worker, W_ReadWork(w) PROVE Places'
  BY <1>38 DEF W_ReadWork, Move
<1>39. ASSUME NEW w \in Worker, W_ReadDesc(w) PROVE Places'
  BY <1>39 DEF W_ReadDesc, Move
<1>40. ASSUME NEW w \in Worker, W_Run(w) PROVE Places'
  <2>1. /\ pc' = pc \/ pc' = [pc EXCEPT ![w] = "relock"]
        /\ UNCHANGED <<memory, idx, reg, calls, born, rounds, freed>>
    BY <1>40 DEF W_Run
  <2> QED
    BY <2>1
<1>41. ASSUME NEW w \in Worker, W_Clear(w) PROVE Places'
  BY <1>41 DEF W_Clear, Move
<1>42. CASE UNCHANGED vars
  BY <1>42 DEF vars, Owned
<1>43. ASSUME NEW c \in Callers, J_SignalAstray(c) PROVE Places'
  BY <1>43 DEF J_SignalAstray
<1> QED
  BY <1>1, <1>2, <1>3, <1>4, <1>5, <1>6, <1>7, <1>8, <1>9, <1>10, <1>11,
     <1>12, <1>13, <1>14, <1>15, <1>16, <1>17, <1>18, <1>19, <1>20,
     <1>21, <1>22, <1>23, <1>24, <1>25, <1>26, <1>27, <1>28, <1>29,
     <1>30, <1>31, <1>32, <1>33, <1>34, <1>35, <1>36, <1>37, <1>38,
     <1>39, <1>40, <1>41, <1>42, <1>43
  DEF Next, MainStep, ManagerStep, CallerStep, WorkerStep

\* What a step that neither makes a thread nor adds a slot does not disturb.
Quiet ==
  /\ UNCHANGED <<cur, id, born>> /\ Made <= Made'
  /\ \A w \in Worker : /\ idx'[w] = idx[w]
                       /\ pc'[w] # pc[w] =>
                            /\ pc[w] \notin {"unborn", "start", "exited"}
                            /\ pc'[w] \notin {"unborn", "start", "exited"}
  /\ \A c \in Callers : pc'[c] \in {"inc", "incstore", "create", "index"} =>
       pc'[c] = pc[c] /\ idx'[c] = idx[c] /\ reg'[c] = reg[c]

\* The number of slots that have a thread is a number of slots.
LEMMA MadeType ==
  /\ TypeOK => Made \in 0..Max
  /\ TypeOK' => Made' \in 0..Max
  BY PoolAssumption DEF Made, TypeOK, Proc

\* A quiet step keeps the workers' slots.
LEMMA QuietHomes ==
  ASSUME TypeOK, TypeOK', Homes, Quiet
  PROVE  Homes'
<1> Made \in Int /\ Made' \in Int /\ id \in [Slot -> Worker \union {NoOne}]
  BY MadeType, PoolAssumption DEF TypeOK
<1> USE DEF Quiet
<1>1. \A i \in Slot : id'[i] # NoOne => id'[i] <= born' /\ i < Made'
  BY PoolAssumption DEF Homes, Slot
<1>2. \A i, k \in Slot : id'[i] = id'[k] /\ id'[i] # NoOne => i = k
  BY DEF Homes
<1>3. \A c \in Callers :
        /\ pc'[c] \in {"inc", "incstore"} => idx'[c] = cur'
        /\ pc'[c] = "incstore" => reg'[c] = cur'
        /\ pc'[c] \in {"create", "index"} => idx'[c] = cur' - 1
        /\ pc'[c] = "create" => id'[idx'[c]] = NoOne
  BY DEF Homes
<1>4. \A w \in Worker : pc'[w] = "unborn" <=> w > born'
  BY DEF Homes
<1>5. \A w \in Worker : w <= born' => \E i \in Slot : i < cur' /\ id'[i] = w
  BY DEF Homes
<1>6. EverySlotServed'
  BY DEF Homes, EverySlotServed
<1> QED
  BY <1>1, <1>2, <1>3, <1>4, <1>5, <1>6 DEF Homes

\* The steps that are not quiet.
Making == \/ T_Init
          \/ \E c \in Callers : J_Fresh(c) \/ J_Inc(c) \/ J_IncStore(c)
                                 \/ J_Create(c)
          \/ \E w \in Worker : W_Start(w)

\* The steps that are not quiet keep them too: the id is stored in a slot that
\* has none, before the thread that looks for it exists.
LEMMA MakingStep ==
  ASSUME PoolInv, TypeOK', Places, Homes, ~aborted, ~freed, Making
  PROVE  Homes'
<1>0. /\ pc \in [Proc -> Labels] /\ idx \in [Proc -> 0..Max]
      /\ id \in [Slot -> Worker \union {NoOne}]
      /\ cur \in Min..Max /\ born \in 0..NumWorkers
      /\ reg \in [Callers \union {Manager} -> 0..Max]
      /\ Made \in 0..Max
  BY MadeType DEF PoolInv, TypeOK
<1>a. /\ \A d \in Callers : d \in Proc /\ d \notin Worker /\ d # Main
      /\ \A v \in Worker : v \in Proc
  BY PoolAssumption DEF Proc
<1> USE PoolAssumption DEF Slot, Goto, Proc, Worker
<1>1. CASE T_Init
  <2>1. /\ pc[Main] = "init" /\ idx[Main] < Min /\ born' = born + 1
        /\ id' = [id EXCEPT ![idx[Main]] = born + 1]
        /\ idx' = [idx EXCEPT ![Main] = idx[Main] + 1]
        /\ pc' = [pc EXCEPT ![born + 1] = "start"]
        /\ UNCHANGED <<cur, reg>>
    BY <1>1 DEF T_Init
  <2>2. /\ idx[Main] \in Slot /\ idx[Main] < cur /\ id[idx[Main]] = NoOne
        /\ born = idx[Main] /\ born + 1 \in Worker
        /\ \A d \in Callers : pc[d] = "idle"
    BY <1>0, <2>1 DEF PoolInv, Counted, Homes, Made
  <2>3. /\ \A p \in Proc : pc'[p] = IF p = born + 1 THEN "start" ELSE pc[p]
        /\ \A p \in Proc : idx'[p] = IF p = Main THEN idx[p] + 1 ELSE idx[p]
        /\ \A i \in Slot : id'[i] = IF i = idx[Main] THEN born + 1 ELSE id[i]
    BY <1>0, <2>1, <2>2
  <2>4. \A i \in Slot : id[i] # NoOne => id[i] <= born /\ i < idx[Main]
    BY <2>1 DEF Homes, Made
  <2>5. Made' = idx[Main] + 1
    BY <1>0, <2>1, <2>2, <2>3 DEF Made
  <2>6. \A i \in Slot : id'[i] # NoOne => id'[i] <= born' /\ i < Made'
    BY <1>0, <2>1, <2>2, <2>3, <2>4, <2>5
  <2>7. \A i, k \in Slot : id'[i] = id'[k] /\ id'[i] # NoOne => i = k
    BY <1>0, <2>2, <2>3, <2>4, SMTT(30) DEF Homes
  <2>8. \A d \in Callers : pc'[d] = "idle"
    BY <2>2, <2>3
  <2>9. \A w \in Worker : pc'[w] = "unborn" <=> w > born'
    BY <1>0, <2>1, <2>2, <2>3 DEF Homes
  <2>10. \A w \in Worker : w <= born' => \E i \in Slot : i < cur' /\ id'[i] = w
    <3>1. \A i \in Slot : id[i] # NoOne => i # idx[Main]
      BY <2>2
    <3>2. ASSUME NEW w \in Worker, w <= born
          PROVE  \E i \in Slot : i < cur' /\ id'[i] = w
      <4>1. PICK i \in Slot : i < cur /\ id[i] = w
        BY <3>2 DEF Homes
      <4> QED
        BY <4>1, <2>1, <2>2, <2>3
    <3>3. idx[Main] < cur' /\ id'[idx[Main]] = born + 1
      BY <2>1, <2>2, <2>3
    <3> QED
      BY <1>0, <2>1, <2>2, <3>2, <3>3, SMTT(30)
  <2>11. EverySlotServed'
    BY <1>0, <2>1, <2>2, <2>3, <2>4 DEF Homes, EverySlotServed
  <2> QED
    BY <2>6, <2>7, <2>8, <2>9, <2>10, <2>11 DEF Homes
<1>2. ASSUME NEW c \in Callers, J_Fresh(c) PROVE Homes'
  <2>1. /\ pc[c] = "fresh" /\ idx' = [idx EXCEPT ![c] = cur]
        /\ \A p \in Proc : pc'[p] = IF p \in Asleep(cur, "waiting") THEN "cut"
                                    ELSE IF p = c THEN "inc" ELSE pc[p]
        /\ UNCHANGED <<cur, id, born, reg>>
    BY <1>2 DEF J_Fresh, Fresh, world
  <2>2. /\ \A p \in Proc : pc'[p] = IF p = c THEN "inc" ELSE pc[p]
        /\ \A p \in Proc : idx'[p] = IF p = c THEN cur ELSE idx[p]
    BY <1>0, <2>1 DEF Homes, EverySlotServed, Asleep
  <2>3. Made' = Made
    BY <2>1, <2>2 DEF Made
  <2>4. \A d \in Callers :
          /\ pc'[d] \in {"inc", "incstore"} => idx'[d] = cur'
          /\ pc'[d] = "incstore" => reg'[d] = cur'
          /\ pc'[d] \in {"create", "index"} => idx'[d] = cur' - 1
          /\ pc'[d] = "create" => id'[idx'[d]] = NoOne
    BY <2>1, <2>2 DEF Homes
  <2>5. EverySlotServed'
    BY <2>1, <2>2 DEF Homes, EverySlotServed
  <2> QED
    BY <2>1, <2>2, <2>3, <2>4, <2>5 DEF Homes
<1>3. ASSUME NEW c \in Callers, J_Inc(c) PROVE Homes'
  <2>1. /\ pc[c] = "inc" /\ reg' = [reg EXCEPT ![c] = cur]
        /\ \A p \in Proc : pc'[p] = IF p = c THEN "incstore" ELSE pc[p]
        /\ UNCHANGED <<cur, id, born, idx>>
    BY <1>0, <1>3 DEF J_Inc, Move, memory, slots, world
  <2>2. Made' = Made
    BY <2>1 DEF Made
  <2>3. \A d \in Callers :
          /\ pc'[d] \in {"inc", "incstore"} => idx'[d] = cur'
          /\ pc'[d] = "incstore" => reg'[d] = cur'
          /\ pc'[d] \in {"create", "index"} => idx'[d] = cur' - 1
          /\ pc'[d] = "create" => id'[idx'[d]] = NoOne
    BY <1>0, <2>1 DEF Homes
  <2>4. EverySlotServed'
    BY <2>1 DEF Homes, EverySlotServed
  <2> QED
    BY <2>1, <2>2, <2>3, <2>4 DEF Homes
<1>4. ASSUME NEW c \in Callers, J_IncStore(c) PROVE Homes'
  <2>1. /\ pc[c] = "incstore"
        /\ \A p \in Proc : pc'[p] = IF p = c THEN "create" ELSE pc[p]
        /\ cur' = reg[c] + 1 /\ UNCHANGED <<id, born, idx, reg>>
    BY <1>0, <1>4 DEF J_IncStore, Move, slots, local, world
  <2>2. /\ idx[c] = cur /\ cur \in Slot /\ cur' = cur + 1
        /\ pc[Main] # "init" /\ id[cur] = NoOne
        /\ \A d \in Callers : d # c => pc[d] \notin Adding
    BY <1>0, <2>1 DEF Homes, PoolInv, Counted, Adding, Made
  <2>3. Made = cur /\ Made' = cur + 1
    BY <2>1, <2>2 DEF Made
  <2>4. \A i \in Slot : id'[i] # NoOne => id'[i] <= born' /\ i < Made'
    BY <1>0, <2>1, <2>3 DEF Homes
  <2>5. \A d \in Callers :
          /\ pc'[d] \in {"inc", "incstore"} => idx'[d] = cur'
          /\ pc'[d] = "incstore" => reg'[d] = cur'
          /\ pc'[d] \in {"create", "index"} => idx'[d] = cur' - 1
          /\ pc'[d] = "create" => id'[idx'[d]] = NoOne
    BY <1>0, <2>1, <2>2, SMTT(30) DEF Adding
  <2>6. \A w \in Worker : w <= born' => \E i \in Slot : i < cur' /\ id'[i] = w
    BY <1>0, <2>1, <2>2 DEF Homes
  <2>7. EverySlotServed'
    <3>1. \A w \in Worker : pc'[w] = pc[w] /\ idx[w] \in Int
      <4>1. \A w \in Worker : idx[w] \in 0..Max
        BY <1>0, <1>a
      <4>2. \A w \in Worker : pc'[w] = pc[w]
        <5> HIDE DEF Worker, Proc
        <5> QED
          BY <1>a, <2>1
      <4> QED
        BY <4>1, <4>2
    <3> QED
      BY <1>0, <3>1, <2>1, <2>2, SMTT(30) DEF Homes, EverySlotServed
  <2> QED
    BY <2>1, <2>4, <2>5, <2>6, <2>7 DEF Homes
<1>5. ASSUME NEW c \in Callers, J_Create(c) PROVE Homes'
  <2>1. /\ pc[c] = "create" /\ born < NumWorkers /\ born' = born + 1
        /\ id' = [id EXCEPT ![idx[c]] = born + 1]
        /\ pc' = [pc EXCEPT ![c] = "index", ![born + 1] = "start"]
        /\ UNCHANGED <<cur, idx, reg>>
    BY <1>5 DEF J_Create, local
  <2>2. /\ idx[c] = cur - 1 /\ idx[c] \in Slot /\ id[idx[c]] = NoOne
        /\ born + 1 \in Worker /\ pc[Main] # "init"
        /\ \A d \in Callers : d # c => pc[d] \notin Adding
    BY <1>0, <2>1 DEF Homes, PoolInv, Counted, Adding
  <2>3. /\ \A p \in Proc : pc'[p] = IF p = c THEN "index" ELSE
                                    IF p = born + 1 THEN "start" ELSE pc[p]
        /\ \A i \in Slot : id'[i] = IF i = idx[c] THEN born + 1 ELSE id[i]
    BY <1>0, <2>1, <2>2
  <2>a. /\ \A d \in Callers : pc'[d] = IF d = c THEN "index" ELSE pc[d]
        /\ \A w \in Worker : pc'[w] = IF w = born + 1 THEN "start" ELSE pc[w]
    BY <1>a, <2>2, <2>3
  <2>4. Made = cur /\ Made' = cur
    BY <2>1, <2>2, <2>3 DEF Made
  <2>5. \A i \in Slot : id[i] # NoOne => id[i] <= born /\ i < cur
    BY <2>4 DEF Homes
  <2>6. \A i \in Slot : id'[i] # NoOne => id'[i] <= born' /\ i < Made'
    BY <1>0, <2>1, <2>2, <2>3, <2>4, <2>5
  <2>7. \A i, k \in Slot : id'[i] = id'[k] /\ id'[i] # NoOne => i = k
    BY <1>0, <2>2, <2>3, <2>5 DEF Homes
  <2>8. \A d \in Callers :
          /\ pc'[d] \in {"inc", "incstore"} => idx'[d] = cur'
          /\ pc'[d] = "incstore" => reg'[d] = cur'
          /\ pc'[d] \in {"create", "index"} => idx'[d] = cur' - 1
          /\ pc'[d] = "create" => id'[idx'[d]] = NoOne
    BY <1>0, <2>1, <2>2, <2>a DEF Adding
  <2>9. \A w \in Worker : pc'[w] = "unborn" <=> w > born'
    <3>1. \A w \in Worker : pc[w] = "unborn" <=> w > born
      BY DEF Homes
    <3>2. \A w \in Worker : w > born + 1 <=> w > born /\ w # born + 1
      BY <1>0
    <3>3. \A w \in Worker : pc'[w] = "unborn" <=> pc[w] = "unborn" /\ w # born + 1
      BY <2>a
    <3> HIDE DEF Worker
    <3>4. \A w \in Worker : w > born' <=> w > born + 1
      BY <2>1
    <3> QED
      BY <3>1, <3>2, <3>3, <3>4
  <2>10. \A w \in Worker : w <= born' => \E i \in Slot : i < cur' /\ id'[i] = w
    <3>1. ASSUME NEW w \in Worker, w <= born
          PROVE  \E i \in Slot : i < cur' /\ id'[i] = w
      <4>1. PICK i \in Slot : i < cur /\ id[i] = w
        BY <3>1 DEF Homes
      <4> QED
        BY <4>1, <2>1, <2>2, <2>3
    <3>2. idx[c] < cur' /\ id'[idx[c]] = born + 1
      BY <1>0, <2>1, <2>2, <2>3
    <3> QED
      BY <1>0, <2>1, <2>2, <3>1, <3>2
  <2>11. EverySlotServed'
    <3>1. \A w \in Worker : w # born + 1 /\ id[idx[w]] = w => id'[idx[w]] = w
      BY <1>0, <2>1, <2>2
    <3>2. pc[born + 1] = "unborn"
      BY <1>0, <2>2 DEF Homes
    <3> QED
      BY <1>0, <2>1, <2>2, <2>a, <3>1, <3>2 DEF Homes, EverySlotServed
  <2> QED
    BY <2>6, <2>7, <2>8, <2>9, <2>10, <2>11 DEF Homes
<1>6. ASSUME NEW w \in Worker, W_Start(w) PROVE Homes'
  <2>1. pc[w] = "start" /\ UNCHANGED <<cur, id, born, reg>>
    BY <1>6 DEF W_Start, memory, slots, world
  <2>2. \E i \in Slot : i < cur /\ id[i] = w
    BY <1>0, <2>1 DEF Homes
  <2>3. PICK i \in Slot : /\ i < cur /\ id[i] = w
                          /\ idx' = [idx EXCEPT ![w] = i]
                          /\ pc' = [pc EXCEPT ![w] = "lock"]
    BY <1>6, <2>2 DEF W_Start, Search
  <2>4. /\ \A p \in Proc : pc'[p] = IF p = w THEN "lock" ELSE pc[p]
        /\ \A p \in Proc : idx'[p] = IF p = w THEN i ELSE idx[p]
    BY <1>0, <2>3
  <2>5. Made' = Made
    BY <2>1, <2>4 DEF Made
  <2>6. EverySlotServed'
    BY <2>1, <2>3, <2>4 DEF Homes, EverySlotServed
  <2>7. \A v \in Worker : pc'[v] = "unborn" <=> v > born'
    BY <2>1, <2>4 DEF Homes
  <2>8. \A d \in Callers :
          /\ pc'[d] \in {"inc", "incstore"} => idx'[d] = cur'
          /\ pc'[d] = "incstore" => reg'[d] = cur'
          /\ pc'[d] \in {"create", "index"} => idx'[d] = cur' - 1
          /\ pc'[d] = "create" => id'[idx'[d]] = NoOne
    BY <2>1, <2>4 DEF Homes
  <2> QED
    BY <2>1, <2>5, <2>6, <2>7, <2>8 DEF Homes
<1> QED
  BY <1>1, <1>2, <1>3, <1>4, <1>5, <1>6 DEF Making

\* All the other steps are quiet.
LEMMA QuietStep ==
  ASSUME PoolInv, Places, Homes, [Next]_vars, ~Making
  PROVE  Quiet
<1> USE PoolAssumption DEF PoolInv, TypeOK, Counted, Adding, Places, Quiet,
   Made,
      Goto, Proc, Worker, memory, slots, sync, local, world
<1>1. CASE T_Manager
  BY <1>1 DEF T_Manager
<1>2. CASE T_Fail
  BY <1>2 DEF T_Fail
<1>3. CASE T_Close
  BY <1>3 DEF T_Close
<1>4. CASE T_Destroy
  BY <1>4 DEF T_Destroy, mutex_destroy, cond_destroy
<1>5. CASE T_Free
  BY <1>5 DEF T_Free
<1>6. CASE M_Wake
  BY <1>6 DEF M_Wake
<1>7. CASE M_Count
  BY <1>7 DEF M_Count
<1>8. CASE M_Status
  BY <1>8 DEF M_Status
<1>9. CASE M_Min
  BY <1>9 DEF M_Min, Move
<1>10. CASE M_Last
  BY <1>10 DEF M_Last, Move
<1>11. CASE M_KillLock
  BY <1>11 DEF M_KillLock, Move, mutex_destroy
<1>12. CASE M_KillCond
  BY <1>12 DEF M_KillCond, Move, cond_destroy
<1>13. CASE M_Dec
  BY <1>13 DEF M_Dec, Move
<1>14. CASE M_DecStore
  BY <1>14 DEF M_DecStore, Move, Steady
<1>15. ASSUME NEW c \in Callers, ProcessJob(c) PROVE Quiet
  BY <1>15 DEF ProcessJob
<1>16. ASSUME NEW c \in Callers, J_Scan(c) PROVE Quiet
  BY <1>16 DEF J_Scan, Move
<1>17. ASSUME NEW c \in Callers, J_Lock(c) PROVE Quiet
  BY <1>17 DEF J_Lock, Move, mutex_lock
<1>18. ASSUME NEW c \in Callers, J_Test(c) PROVE Quiet
  BY <1>18 DEF J_Test, mutex_unlock
<1>19. ASSUME NEW c \in Callers, J_Claim(c) PROVE Quiet
  BY <1>19 DEF J_Claim, Move, mutex_unlock
<1>20. ASSUME NEW c \in Callers, J_Work(c) PROVE Quiet
  BY <1>20 DEF J_Work, Move
<1>21. ASSUME NEW c \in Callers, J_Desc(c) PROVE Quiet
  BY <1>21 DEF J_Desc, Move
<1>22. ASSUME NEW c \in Callers, J_AddLock(c) PROVE Quiet
  BY <1>22 DEF J_AddLock
<1>23. ASSUME NEW c \in Callers, J_Check(c) PROVE Quiet
  BY <1>23 DEF J_Check, Move
<1>24. ASSUME NEW c \in Callers, J_CreateFails(c) PROVE Quiet
  BY <1>24 DEF J_CreateFails
<1>25. ASSUME NEW c \in Callers, J_Index(c) PROVE Quiet
  BY <1>25 DEF J_Index, Move
<1>26. ASSUME NEW c \in Callers, J_AddUnlock(c) PROVE Quiet
  BY <1>26 DEF J_AddUnlock, Move
<1>27. ASSUME NEW c \in Callers, J_Signal(c) PROVE Quiet
  <2>1. /\ pc'[c] = "idle" /\ c # Main
        /\ \A p \in Proc : p \notin Worker /\ p # c => pc'[p] = pc[p]
        /\ \A w \in Worker : pc'[w] # pc[w] =>
             /\ pc[w] \in {"waiting", "cut"} /\ pc'[w] \in {"woken", "cut"}
        /\ idx' = [idx EXCEPT ![c] = 0] /\ reg' = [reg EXCEPT ![c] = 0]
        /\ UNCHANGED <<memory, world>>
    BY <1>27, SignalStep
  <2> QED
    BY <2>1
<1>28. ASSUME NEW w \in Worker, W_Lock(w) PROVE Quiet
  BY <1>28 DEF W_Lock, mutex_lock
<1>29. ASSUME NEW w \in Worker, W_Wait(w) PROVE Quiet
  BY <1>29 DEF W_Wait
<1>30. ASSUME NEW w \in Worker, W_Wake(w) PROVE Quiet
  BY <1>30 DEF W_Wake, Move
<1>31. ASSUME NEW w \in Worker, W_Unlock(w) PROVE Quiet
  BY <1>31 DEF W_Unlock, mutex_unlock
<1>32. ASSUME NEW w \in Worker, W_ReadWork(w) PROVE Quiet
  BY <1>32 DEF W_ReadWork, Move
<1>33. ASSUME NEW w \in Worker, W_ReadDesc(w) PROVE Quiet
  BY <1>33 DEF W_ReadDesc, Move
<1>34. ASSUME NEW w \in Worker, W_Run(w) PROVE Quiet
  BY <1>34 DEF W_Run
<1>35. ASSUME NEW w \in Worker, W_Clear(w) PROVE Quiet
  BY <1>35 DEF W_Clear, Move
<1>36. CASE UNCHANGED vars
  BY <1>36 DEF vars
<1>37. ASSUME NEW c \in Callers, J_SignalAstray(c) PROVE Quiet
  BY <1>37 DEF J_SignalAstray
<1> QED
  BY <1>1, <1>2, <1>3, <1>4, <1>5, <1>6, <1>7, <1>8, <1>9, <1>10, <1>11,
     <1>12, <1>13, <1>14, <1>15, <1>16, <1>17, <1>18, <1>19, <1>20,
     <1>21, <1>22, <1>23, <1>24, <1>25, <1>26, <1>27, <1>28, <1>29,
     <1>30, <1>31, <1>32, <1>33, <1>34, <1>35, <1>36, <1>37
  DEF Next, MainStep, ManagerStep, CallerStep, WorkerStep, Making

\* Callers, workers and the others are different processes.
LEMMA Processes ==
  /\ \A c \in Callers : /\ c \in Proc /\ c \notin Worker
                        /\ c # Main /\ c # Manager /\ c # NoOne
  /\ \A w \in Worker : w \in Proc /\ w # Main /\ w # Manager /\ w # NoOne
  /\ Main \in Proc /\ Manager \in Proc /\ Main # Manager
  BY PoolAssumption DEF Proc

\* A step of p that takes or gives back the lock of slot i, if nobody else had
\* it.
LEMMA OwnedFrame ==
  ASSUME Owned, NEW p \in Proc, NEW i,
         lock[i] \in {NoOne, p},
         \A q \in Proc : q # p => pc'[q] = pc[q] /\ idx'[q] = idx[q],
         \A q \in Proc : q # p /\ pc[q] \in Inside /\ idx[q] # i =>
           lock'[idx[q]] = lock[idx[q]] /\ busy'[idx[q]] = busy[idx[q]],
         pc'[p] \in Inside => lock'[idx'[p]] = p,
         pc'[p] = "claim" => ~busy'[idx'[p]]
  PROVE  Owned'
<1>1. ASSUME NEW q \in Proc, q # p, pc[q] \in Inside PROVE idx[q] # i
  BY <1>1, PoolAssumption DEF Owned
<1>2. "claim" \in Inside
  BY DEF Inside
<1> QED
  BY <1>1, <1>2 DEF Owned

\* What a step of a worker can change at all.
LEMMA WorkerFrame ==
  ASSUME TypeOK, NEW w \in Worker, WorkerStep(w)
  PROVE  /\ UNCHANGED <<cur, tp_lock, id, work, desc, dead, gone, calls, born>>
         /\ \A q \in Proc : q # w => pc'[q] = pc[q] /\ idx'[q] = idx[q]
         /\ \A q \in Callers \union Worker : q # w => job'[q] = job[q]
         /\ pc'[w] = "cut" => gone[idx[w]]
         /\ pc[w] # "start" => idx'[w] = idx[w]
<1> DEFINE Frame ==
      /\ UNCHANGED <<cur, tp_lock, id, work, desc, dead, gone, calls, born>>
      /\ \A q \in Proc : q # w => pc'[q] = pc[q] /\ idx'[q] = idx[q]
      /\ \A q \in Callers \union Worker : q # w => job'[q] = job[q]
      /\ pc'[w] = "cut" => gone[idx[w]]
      /\ pc[w] # "start" => idx'[w] = idx[w]
<1>1. /\ pc \in [Proc -> Labels] /\ idx \in [Proc -> 0..Max]
      /\ job \in [Callers \union Worker -> Task] /\ w \in Proc
  BY Processes DEF TypeOK
<1> HIDE DEF Worker, Proc
<1> USE <1>1 DEF memory, slots, sync, local, world, Goto, Move
<1>2. CASE W_Start(w)
  BY <1>2 DEF W_Start, Search
<1>3. CASE W_Lock(w)
  BY <1>3 DEF W_Lock
<1>4. CASE W_Wait(w)
  BY <1>4 DEF W_Wait
<1>5. CASE W_Wake(w)
  BY <1>5 DEF W_Wake
<1>6. CASE W_Unlock(w)
  BY <1>6 DEF W_Unlock
<1>7. CASE W_ReadWork(w)
  BY <1>7 DEF W_ReadWork
<1>8. CASE W_ReadDesc(w)
  BY <1>8 DEF W_ReadDesc
<1>9. CASE W_Run(w)
  BY <1>9 DEF W_Run
<1>10. CASE W_Clear(w)
  BY <1>10 DEF W_Clear
<1> QED
  BY <1>2, <1>3, <1>4, <1>5, <1>6, <1>7, <1>8, <1>9, <1>10 DEF WorkerStep

\* Nobody waits for the condition that add_thread initialises, and it takes
\* only its own slot.
LEMMA FreshStep ==
  ASSUME TypeOK, Homes, NEW c \in Callers, J_Fresh(c)
  PROVE  /\ pc[c] = "fresh" /\ pc' = [pc EXCEPT ![c] = "inc"]
         /\ idx' = [idx EXCEPT ![c] = cur]
         /\ busy' = [busy EXCEPT ![cur] = TRUE]
         /\ lock' = [lock EXCEPT ![cur] = NoOne]
         /\ dead' = [dead EXCEPT ![cur] = FALSE]
         /\ gone' = [gone EXCEPT ![cur] = FALSE]
         /\ UNCHANGED <<cur, tp_lock, id, work, desc, reg, job, world>>
<1>1. \A w \in Worker : pc[w] = "waiting" => idx[w] < cur
  BY DEF Homes, EverySlotServed
<1>2. Asleep(cur, "waiting") = {} /\ c \in Proc /\ pc \in [Proc -> Labels]
  BY <1>1, Processes DEF TypeOK, Asleep, Worker
<1>3. pc' = [p \in Proc |-> IF p = c THEN "inc" ELSE pc[p]]
  BY <1>2 DEF J_Fresh, Fresh
<1> QED
  BY <1>2, <1>3 DEF J_Fresh, Fresh

\* The scan stays within the slots in use, and nothing is destroyed.
LEMMA BoundsStep ==
  ASSUME PoolInv, Places, Homes, Tame, Open, Open', SlotsInv, [Next]_vars
  PROVE  Bounds'
<1> USE PoolAssumption DEF PoolInv, TypeOK, Counted, Adding, Places, Steady,
      Bounds, Open, SlotsInv
<1>t. /\ Bounds /\ Owned /\ Token
  OBVIOUS
<1> USE <1>t DEF Goto, Proc, Worker, memory, slots, sync, local, world
<1>1. CASE T_Init
  BY <1>1 DEF T_Init
<1>2. CASE T_Manager
  BY <1>2 DEF T_Manager
<1>3. CASE T_Fail
  BY <1>3 DEF T_Fail
<1>4. CASE T_Close
  BY <1>4 DEF T_Close
<1>5. CASE T_Destroy
  BY <1>5 DEF T_Destroy, mutex_destroy, cond_destroy
<1>6. CASE T_Free
  BY <1>6 DEF T_Free
<1>7. CASE M_Wake
  BY <1>7 DEF M_Wake
<1>8. CASE M_Count
  BY <1>8 DEF M_Count
<1>9. CASE M_Status
  BY <1>9 DEF M_Status
<1>10. CASE M_Min
  BY <1>10 DEF M_Min, Move
<1>11. CASE M_Last
  BY <1>11 DEF M_Last, Move
<1>12. CASE M_KillLock
  BY <1>12 DEF M_KillLock, Move, mutex_destroy
<1>13. CASE M_KillCond
  BY <1>13 DEF M_KillCond, Move, cond_destroy
<1>14. CASE M_Dec
  BY <1>14 DEF M_Dec, Move
<1>15. CASE M_DecStore
  BY <1>15 DEF M_DecStore, Move
<1>16. ASSUME NEW c \in Callers, ProcessJob(c) PROVE Bounds'
  BY <1>16 DEF ProcessJob
<1>17. ASSUME NEW c \in Callers, J_Scan(c) PROVE Bounds'
  BY <1>17 DEF J_Scan, Move
<1>18. ASSUME NEW c \in Callers, J_Lock(c) PROVE Bounds'
  BY <1>18 DEF J_Lock, Move, mutex_lock
<1>19. ASSUME NEW c \in Callers, J_Test(c) PROVE Bounds'
  <2>1. /\ pc[c] = "test" /\ UNCHANGED <<cur, dead, gone>>
        /\ \/ pc' = [pc EXCEPT ![c] = "scan"]
           \/ pc' = [pc EXCEPT ![c] = "claim"] /\ idx' = idx
        /\ \A d \in Callers : d # c => idx'[d] = idx[d]
    BY <1>19 DEF J_Test, mutex_unlock
  <2> QED
    BY <2>1
<1>20. ASSUME NEW c \in Callers, J_Claim(c) PROVE Bounds'
  BY <1>20 DEF J_Claim, Move, mutex_unlock
<1>21. ASSUME NEW c \in Callers, J_Work(c) PROVE Bounds'
  BY <1>21 DEF J_Work, Move
<1>22. ASSUME NEW c \in Callers, J_Desc(c) PROVE Bounds'
  BY <1>22 DEF J_Desc, Move
<1>23. ASSUME NEW c \in Callers, J_AddLock(c) PROVE Bounds'
  BY <1>23 DEF J_AddLock
<1>24. ASSUME NEW c \in Callers, J_Check(c) PROVE Bounds'
  <2>1. pc[c] = "check" /\ (Max <= cur => idx[c] = Max)
    BY <1>24 DEF J_Check, Move, Tame, NotOvertaken
  <2> QED
    BY <1>24, <2>1 DEF J_Check, Move
<1>25. ASSUME NEW c \in Callers, J_Fresh(c) PROVE Bounds'
  <2>1. /\ pc' = [pc EXCEPT ![c] = "inc"] /\ idx' = [idx EXCEPT ![c] = cur]
        /\ dead' = [dead EXCEPT ![cur] = FALSE]
        /\ gone' = [gone EXCEPT ![cur] = FALSE] /\ cur' = cur
    BY <1>25, FreshStep
  <2> QED
    BY <2>1
<1>26. ASSUME NEW c \in Callers, J_Inc(c) PROVE Bounds'
  BY <1>26 DEF J_Inc, Move
<1>27. ASSUME NEW c \in Callers, J_IncStore(c) PROVE Bounds'
  <2>1. /\ pc[c] = "incstore" /\ pc' = [pc EXCEPT ![c] = "create"]
        /\ cur' = cur + 1 /\ UNCHANGED <<idx, dead, gone>>
    BY <1>27 DEF J_IncStore, Move, Homes
  <2> QED
    BY <2>1
<1>28. ASSUME NEW c \in Callers, J_Create(c) PROVE Bounds'
  BY <1>28 DEF J_Create
<1>29. ASSUME NEW c \in Callers, J_CreateFails(c) PROVE Bounds'
  BY <1>29 DEF J_CreateFails
<1>30. ASSUME NEW c \in Callers, J_Index(c) PROVE Bounds'
  BY <1>30 DEF J_Index, Move
<1>31. ASSUME NEW c \in Callers, J_AddUnlock(c) PROVE Bounds'
  BY <1>31 DEF J_AddUnlock, Move
<1>32. ASSUME NEW c \in Callers, J_Signal(c) PROVE Bounds'
  <2>1. /\ pc'[c] = "idle" /\ UNCHANGED <<cur, dead, gone>>
        /\ \A d \in Callers : d # c => pc'[d] = pc[d] /\ idx'[d] = idx[d]
        /\ \A w \in Worker : pc'[w] # "cut"
    BY <1>32, SignalStep
  <2> QED
    BY <2>1
<1>33. ASSUME NEW w \in Worker, W_Start(w) PROVE Bounds'
  BY <1>33 DEF W_Start, Search
<1>34. ASSUME NEW w \in Worker, W_Lock(w) PROVE Bounds'
  BY <1>34 DEF W_Lock, mutex_lock
<1>35. ASSUME NEW w \in Worker, W_Wait(w) PROVE Bounds'
  BY <1>35 DEF W_Wait
<1>36. ASSUME NEW w \in Worker, W_Wake(w) PROVE Bounds'
  BY <1>36 DEF W_Wake, Move
<1>37. ASSUME NEW w \in Worker, W_Unlock(w) PROVE Bounds'
  BY <1>37 DEF W_Unlock, mutex_unlock
<1>38. ASSUME NEW w \in Worker, W_ReadWork(w) PROVE Bounds'
  BY <1>38 DEF W_ReadWork, Move
<1>39. ASSUME NEW w \in Worker, W_ReadDesc(w) PROVE Bounds'
  BY <1>39 DEF W_ReadDesc, Move
<1>40. ASSUME NEW w \in Worker, W_Run(w) PROVE Bounds'
  BY <1>40 DEF W_Run
<1>41. ASSUME NEW w \in Worker, W_Clear(w) PROVE Bounds'
  BY <1>41 DEF W_Clear, Move
<1>42. CASE UNCHANGED vars
  BY <1>42 DEF vars, Owned
<1>43. ASSUME NEW c \in Callers, J_SignalAstray(c) PROVE Bounds'
  BY <1>43 DEF J_SignalAstray
<1> QED
  BY <1>1, <1>2, <1>3, <1>4, <1>5, <1>6, <1>7, <1>8, <1>9, <1>10, <1>11,
     <1>12, <1>13, <1>14, <1>15, <1>16, <1>17, <1>18, <1>19, <1>20,
     <1>21, <1>22, <1>23, <1>24, <1>25, <1>26, <1>27, <1>28, <1>29,
     <1>30, <1>31, <1>32, <1>33, <1>34, <1>35, <1>36, <1>37, <1>38,
     <1>39, <1>40, <1>41, <1>42, <1>43
  DEF Next, MainStep, ManagerStep, CallerStep, WorkerStep

\* A thread that holds a slot's lock is in one of the slots in use.
LEMMA InsideSlot ==
  ASSUME PoolInv, Places, Homes, Bounds
  PROVE  \A p \in Proc : pc[p] \in Inside => idx[p] \in Slot /\ idx[p] < cur
<1>1. \A p \in Proc : idx[p] \in 0..Max /\ cur \in Min..Max
  BY DEF PoolInv, TypeOK
<1>2. \A c \in Callers : pc[c] \in Inside => idx[c] < cur
  BY DEF Places, Inside, Bounds, CallerPcs
<1>3. \A w \in Worker : pc[w] \in Inside => idx[w] < cur
  BY DEF Inside, Homes, EverySlotServed
<1>4. pc[Main] \notin Inside /\ pc[Manager] \notin Inside
  BY DEF Inside, Places, Steady, MainPcs
<1> QED
  BY <1>1, <1>2, <1>3, <1>4, PoolAssumption DEF Proc, Slot

\* A step after which whoever has a lock had it before.
LEMMA OwnedRest ==
  ASSUME Owned,
         \A q \in Proc : pc'[q] \in Inside =>
           /\ pc'[q] = pc[q] /\ idx'[q] = idx[q]
           /\ lock'[idx[q]] = lock[idx[q]] /\ busy'[idx[q]] = busy[idx[q]]
  PROVE  Owned'
  BY DEF Owned, Inside

\* Who is between lock and unlock of a slot owns its lock.
LEMMA OwnedStep ==
  ASSUME PoolInv, Places, Homes, Tame, Open, Open', SlotsInv, [Next]_vars
  PROVE  Owned'
<1>t. /\ Bounds /\ Owned /\ Token
  BY DEF SlotsInv
<1>y. TypeOK
  BY DEF PoolInv
<1>s. /\ pc \in [Proc -> Labels] /\ idx \in [Proc -> 0..Max]
      /\ busy \in [Slot -> BOOLEAN]
      /\ lock \in [Slot -> Callers \union Worker \union {NoOne}]
      /\ \A i \in Slot : ~dead[i]
      /\ cur \in Min..Max /\ Min \in Nat /\ Max \in Nat
  BY <1>t, PoolAssumption DEF PoolInv, TypeOK, Bounds
<1>i. \A p \in Proc : pc[p] \in Inside => lock[idx[p]] = p
  BY <1>t DEF Owned
<1>c. /\ \A c \in Callers : pc[c] = "lock" => idx[c] \in Slot
      /\ \A w \in Worker : idx[w] \in Slot
      /\ \A c \in Callers : pc[c] = "fresh" => cur \in Slot
  BY <1>s, Processes DEF PoolInv, Counted, Slot
<1> HIDE DEF Proc, Worker, Slot
<1> USE <1>y, <1>t, <1>s, <1>i, <1>c DEF Goto, memory, slots, sync, local,
   world
<1>1. CASE T_Init
  BY <1>1, Processes, InsideSlot, OwnedRest DEF T_Init, Inside
<1>2. CASE T_Manager
  BY <1>2, Processes, InsideSlot, OwnedRest DEF T_Manager, Inside
<1>3. CASE T_Fail
  BY <1>3, Processes, InsideSlot, OwnedRest DEF T_Fail, Inside
<1>4. CASE T_Close
  BY <1>4, Processes, InsideSlot, OwnedRest DEF T_Close, Inside
<1>5. CASE T_Destroy
  BY <1>5, Processes, InsideSlot, OwnedRest
  DEF T_Destroy, mutex_destroy, cond_destroy, Inside
<1>6. CASE T_Free
  BY <1>6, Processes, InsideSlot, OwnedRest DEF T_Free, Inside
<1>7. CASE M_Wake
  BY <1>7, Processes, InsideSlot, OwnedRest DEF M_Wake, Inside
<1>8. CASE M_Count
  BY <1>8, Processes, InsideSlot, OwnedRest DEF M_Count, Inside
<1>9. CASE M_Status
  BY <1>9, Processes, InsideSlot, OwnedRest DEF M_Status, Inside
<1>10. CASE M_Min
  BY <1>10, Processes, InsideSlot, OwnedRest DEF M_Min, Move, Inside
<1>11. CASE M_Last
  BY <1>11, Processes, InsideSlot, OwnedRest DEF M_Last, Move, Inside
<1>12. CASE M_KillLock
  BY <1>12, Processes, InsideSlot, OwnedRest
  DEF M_KillLock, Move, mutex_destroy, Inside
<1>13. CASE M_KillCond
  BY <1>13, Processes, InsideSlot, OwnedRest
  DEF M_KillCond, Move, cond_destroy, Inside
<1>14. CASE M_Dec
  BY <1>14, Processes, InsideSlot, OwnedRest DEF M_Dec, Move, Inside
<1>15. CASE M_DecStore
  BY <1>15, Processes, InsideSlot, OwnedRest DEF M_DecStore, Move, Inside
<1>16. ASSUME NEW c \in Callers, ProcessJob(c) PROVE Owned'
  BY <1>16, Processes, InsideSlot, OwnedRest DEF ProcessJob, Inside
<1>17. ASSUME NEW c \in Callers, J_Scan(c) PROVE Owned'
  BY <1>17, Processes, InsideSlot, OwnedRest DEF J_Scan, Move, Inside
<1>18. ASSUME NEW c \in Callers, J_Lock(c) PROVE Owned'
  <2>1. /\ c \in Proc /\ idx[c] \in Slot /\ lock[idx[c]] \in {NoOne, c}
        /\ \A q \in Proc : q # c => pc'[q] = pc[q] /\ idx'[q] = idx[q]
        /\ \A i \in Slot : i # idx[c] => lock'[i] = lock[i] /\ busy'[i] = busy[i]
        /\ pc'[c] \in Inside => lock'[idx'[c]] = c
        /\ pc'[c] = "claim" => ~busy'[idx'[c]]
    BY <1>18, Processes, InsideSlot DEF J_Lock, Move, mutex_lock, Inside
  <2>2. \A q \in Proc : q # c /\ pc[q] \in Inside /\ idx[q] # idx[c] =>
          lock'[idx[q]] = lock[idx[q]] /\ busy'[idx[q]] = busy[idx[q]]
    BY <2>1, InsideSlot
  <2> QED
    BY <2>1, <2>2, OwnedFrame
<1>19. ASSUME NEW c \in Callers, J_Test(c) PROVE Owned'
  <2>1. /\ c \in Proc /\ idx[c] \in Slot /\ lock[idx[c]] \in {NoOne, c}
        /\ \A q \in Proc : q # c => pc'[q] = pc[q] /\ idx'[q] = idx[q]
        /\ \A i \in Slot : i # idx[c] => lock'[i] = lock[i] /\ busy'[i] = busy[i]
        /\ pc'[c] \in Inside => lock'[idx'[c]] = c
        /\ pc'[c] = "claim" => ~busy'[idx'[c]]
    BY <1>19, Processes, InsideSlot DEF J_Test, mutex_unlock, Inside
  <2>2. \A q \in Proc : q # c /\ pc[q] \in Inside /\ idx[q] # idx[c] =>
          lock'[idx[q]] = lock[idx[q]] /\ busy'[idx[q]] = busy[idx[q]]
    BY <2>1, InsideSlot
  <2> QED
    BY <2>1, <2>2, OwnedFrame
<1>20. ASSUME NEW c \in Callers, J_Claim(c) PROVE Owned'
  <2>1. /\ c \in Proc /\ idx[c] \in Slot /\ lock[idx[c]] \in {NoOne, c}
        /\ \A q \in Proc : q # c => pc'[q] = pc[q] /\ idx'[q] = idx[q]
        /\ \A i \in Slot : i # idx[c] => lock'[i] = lock[i] /\ busy'[i] = busy[i]
        /\ pc'[c] \in Inside => lock'[idx'[c]] = c
        /\ pc'[c] = "claim" => ~busy'[idx'[c]]
    BY <1>20, Processes, InsideSlot DEF J_Claim, Move, mutex_unlock, Inside
  <2>2. \A q \in Proc : q # c /\ pc[q] \in Inside /\ idx[q] # idx[c] =>
          lock'[idx[q]] = lock[idx[q]] /\ busy'[idx[q]] = busy[idx[q]]
    BY <2>1, InsideSlot
  <2> QED
    BY <2>1, <2>2, OwnedFrame
<1>21. ASSUME NEW c \in Callers, J_Work(c) PROVE Owned'
  BY <1>21, Processes, InsideSlot, OwnedRest DEF J_Work, Move, Inside
<1>22. ASSUME NEW c \in Callers, J_Desc(c) PROVE Owned'
  BY <1>22, Processes, InsideSlot, OwnedRest DEF J_Desc, Move, Inside
<1>23. ASSUME NEW c \in Callers, J_AddLock(c) PROVE Owned'
  BY <1>23, Processes, InsideSlot, OwnedRest DEF J_AddLock, Inside
<1>24. ASSUME NEW c \in Callers, J_Check(c) PROVE Owned'
  BY <1>24, Processes, InsideSlot, OwnedRest DEF J_Check, Move, Inside
<1>25. ASSUME NEW c \in Callers, J_Fresh(c) PROVE Owned'
  <2>1. \A q \in Proc : pc'[q] \in Inside => pc'[q] = pc[q] /\ q # c
    BY <1>25, FreshStep DEF Inside
  <2>2. \A q \in Proc : pc'[q] \in Inside => idx'[q] = idx[q]
    BY <1>25, <2>1, FreshStep
  <2>3. \A q \in Proc : pc'[q] \in Inside =>
          lock'[idx[q]] = lock[idx[q]] /\ busy'[idx[q]] = busy[idx[q]]
    BY <1>25, <2>1, InsideSlot, FreshStep
  <2> QED
    BY <2>1, <2>2, <2>3, OwnedRest
<1>26. ASSUME NEW c \in Callers, J_Inc(c) PROVE Owned'
  BY <1>26, Processes, InsideSlot, OwnedRest DEF J_Inc, Move, Inside
<1>27. ASSUME NEW c \in Callers, J_IncStore(c) PROVE Owned'
  BY <1>27, Processes, InsideSlot, OwnedRest DEF J_IncStore, Move, Inside
<1>28. ASSUME NEW c \in Callers, J_Create(c) PROVE Owned'
  BY <1>28, Processes, InsideSlot, OwnedRest DEF J_Create, Inside
<1>29. ASSUME NEW c \in Callers, J_CreateFails(c) PROVE Owned'
  BY <1>29, Processes, InsideSlot, OwnedRest DEF J_CreateFails, Inside
<1>30. ASSUME NEW c \in Callers, J_Index(c) PROVE Owned'
  BY <1>30, Processes, InsideSlot, OwnedRest DEF J_Index, Move, Inside
<1>31. ASSUME NEW c \in Callers, J_AddUnlock(c) PROVE Owned'
  BY <1>31, Processes, InsideSlot, OwnedRest DEF J_AddUnlock, Move, Inside
<1>32. ASSUME NEW c \in Callers, J_Signal(c) PROVE Owned'
  <2>1. \A q \in Proc : pc'[q] \in Inside => pc'[q] = pc[q] /\ q # c
    BY <1>32, SignalStep DEF Inside
  <2>2. idx' = [idx EXCEPT ![c] = 0] /\ UNCHANGED <<lock, busy>>
    BY <1>32, SignalStep
  <2> QED
    BY <2>1, <2>2, OwnedRest
<1>33. ASSUME NEW w \in Worker, W_Start(w) PROVE Owned'
  BY <1>33, Processes, InsideSlot, OwnedRest DEF W_Start, Search, Inside
<1>34. ASSUME NEW w \in Worker, W_Lock(w) PROVE Owned'
  <2>1. /\ w \in Proc /\ idx[w] \in Slot /\ lock[idx[w]] \in {NoOne, w}
        /\ \A q \in Proc : q # w => pc'[q] = pc[q] /\ idx'[q] = idx[q]
        /\ \A i \in Slot : i # idx[w] => lock'[i] = lock[i] /\ busy'[i] = busy[i]
        /\ pc'[w] \in Inside => lock'[idx'[w]] = w
        /\ pc'[w] = "claim" => ~busy'[idx'[w]]
    BY <1>34, Processes, InsideSlot DEF W_Lock, mutex_lock, Inside
  <2>2. \A q \in Proc : q # w /\ pc[q] \in Inside /\ idx[q] # idx[w] =>
          lock'[idx[q]] = lock[idx[q]] /\ busy'[idx[q]] = busy[idx[q]]
    BY <2>1, InsideSlot
  <2> QED
    BY <2>1, <2>2, OwnedFrame
<1>35. ASSUME NEW w \in Worker, W_Wait(w) PROVE Owned'
  <2>1. /\ w \in Proc /\ idx[w] \in Slot /\ lock[idx[w]] \in {NoOne, w}
        /\ \A q \in Proc : q # w => pc'[q] = pc[q] /\ idx'[q] = idx[q]
        /\ \A i \in Slot : i # idx[w] => lock'[i] = lock[i] /\ busy'[i] = busy[i]
        /\ pc'[w] \in Inside => lock'[idx'[w]] = w
        /\ pc'[w] = "claim" => ~busy'[idx'[w]]
    BY <1>35, Processes, InsideSlot DEF W_Wait, Inside
  <2>2. \A q \in Proc : q # w /\ pc[q] \in Inside /\ idx[q] # idx[w] =>
          lock'[idx[q]] = lock[idx[q]] /\ busy'[idx[q]] = busy[idx[q]]
    BY <2>1, InsideSlot
  <2> QED
    BY <2>1, <2>2, OwnedFrame
<1>36. ASSUME NEW w \in Worker, W_Wake(w) PROVE Owned'
  <2>1. /\ w \in Proc /\ idx[w] \in Slot /\ lock[idx[w]] \in {NoOne, w}
        /\ \A q \in Proc : q # w => pc'[q] = pc[q] /\ idx'[q] = idx[q]
        /\ \A i \in Slot : i # idx[w] => lock'[i] = lock[i] /\ busy'[i] = busy[i]
        /\ pc'[w] \in Inside => lock'[idx'[w]] = w
        /\ pc'[w] = "claim" => ~busy'[idx'[w]]
    BY <1>36, Processes, InsideSlot DEF W_Wake, Move, Inside
  <2>2. \A q \in Proc : q # w /\ pc[q] \in Inside /\ idx[q] # idx[w] =>
          lock'[idx[q]] = lock[idx[q]] /\ busy'[idx[q]] = busy[idx[q]]
    BY <2>1, InsideSlot
  <2> QED
    BY <2>1, <2>2, OwnedFrame
<1>37. ASSUME NEW w \in Worker, W_Unlock(w) PROVE Owned'
  <2>1. /\ w \in Proc /\ idx[w] \in Slot /\ lock[idx[w]] \in {NoOne, w}
        /\ \A q \in Proc : q # w => pc'[q] = pc[q] /\ idx'[q] = idx[q]
        /\ \A i \in Slot : i # idx[w] => lock'[i] = lock[i] /\ busy'[i] = busy[i]
        /\ pc'[w] \in Inside => lock'[idx'[w]] = w
        /\ pc'[w] = "claim" => ~busy'[idx'[w]]
    BY <1>37, Processes, InsideSlot DEF W_Unlock, mutex_unlock, Inside
  <2>2. \A q \in Proc : q # w /\ pc[q] \in Inside /\ idx[q] # idx[w] =>
          lock'[idx[q]] = lock[idx[q]] /\ busy'[idx[q]] = busy[idx[q]]
    BY <2>1, InsideSlot
  <2> QED
    BY <2>1, <2>2, OwnedFrame
<1>38. ASSUME NEW w \in Worker, W_ReadWork(w) PROVE Owned'
  BY <1>38, Processes, InsideSlot, OwnedRest DEF W_ReadWork, Move, Inside
<1>39. ASSUME NEW w \in Worker, W_ReadDesc(w) PROVE Owned'
  BY <1>39, Processes, InsideSlot, OwnedRest DEF W_ReadDesc, Move, Inside
<1>40. ASSUME NEW w \in Worker, W_Run(w) PROVE Owned'
  BY <1>40, Processes, InsideSlot, OwnedRest DEF W_Run, Inside
<1>41. ASSUME NEW w \in Worker, W_Clear(w) PROVE Owned'
  <2>1. /\ w \in Proc /\ idx[w] \in Slot /\ lock[idx[w]] \in {NoOne, w}
        /\ \A q \in Proc : q # w => pc'[q] = pc[q] /\ idx'[q] = idx[q]
        /\ \A i \in Slot : i # idx[w] => lock'[i] = lock[i] /\ busy'[i] = busy[i]
        /\ pc'[w] \in Inside => lock'[idx'[w]] = w
        /\ pc'[w] = "claim" => ~busy'[idx'[w]]
    BY <1>41, Processes, InsideSlot DEF W_Clear, Move, Inside
  <2>2. \A q \in Proc : q # w /\ pc[q] \in Inside /\ idx[q] # idx[w] =>
          lock'[idx[q]] = lock[idx[q]] /\ busy'[idx[q]] = busy[idx[q]]
    BY <2>1, InsideSlot
  <2> QED
    BY <2>1, <2>2, OwnedFrame
<1>42. CASE UNCHANGED vars
  BY <1>42 DEF vars, Owned
<1>43. ASSUME NEW c \in Callers, J_SignalAstray(c) PROVE Owned'
  <2>1. /\ pc' = pc \/ pc' = [pc EXCEPT ![c] = "stuck"]
        /\ UNCHANGED <<idx, lock, busy>>
    BY <1>43 DEF J_SignalAstray
  <2>2. \A q \in Proc : pc'[q] \in Inside => pc'[q] = pc[q]
    BY <2>1, Processes DEF Inside
  <2> QED
    BY <2>1, <2>2, OwnedRest
<1> QED
  BY <1>1, <1>2, <1>3, <1>4, <1>5, <1>6, <1>7, <1>8, <1>9, <1>10, <1>11,
     <1>12, <1>13, <1>14, <1>15, <1>16, <1>17, <1>18, <1>19, <1>20,
     <1>21, <1>22, <1>23, <1>24, <1>25, <1>26, <1>27, <1>28, <1>29,
     <1>30, <1>31, <1>32, <1>33, <1>34, <1>35, <1>36, <1>37, <1>38,
     <1>39, <1>40, <1>41, <1>42, <1>43
  DEF Next, MainStep, ManagerStep, CallerStep, WorkerStep

\* A step after which whoever uses a slot used it before.
LEMMA TokenRest ==
  ASSUME Token,
         \A q \in Proc : pc'[q] \in Claimed \union Served /\ idx'[q] \in Slot =>
           /\ pc[q] \in Claimed \union Served /\ idx'[q] = idx[q]
           /\ idx[q] \in Slot /\ busy[idx[q]] => busy'[idx[q]]
  PROVE  Token'
<1> SUFFICES ASSUME NEW i \in Slot
             PROVE  /\ \A p, q \in Proc : Using(p, i)' /\ Using(q, i)' => p = q
                    /\ \A p \in Proc : Using(p, i)' => busy'[i]
  BY DEF Token
<1>1. \A p \in Proc : Using(p, i)' => Using(p, i) /\ (busy[i] => busy'[i])
  BY DEF Using
<1> QED
  BY <1>1 DEF Token

\* A step by which p begins to use a slot that nobody else uses then.
LEMMA TokenTaken ==
  ASSUME Token, NEW p \in Proc,
         \A q \in Proc : q # p /\ pc'[q] \in Claimed \union Served =>
           /\ pc[q] \in Claimed \union Served /\ idx'[q] = idx[q]
           /\ idx[q] \in Slot /\ busy[idx[q]] => busy'[idx[q]]
           /\ idx[q] # idx'[p],
         idx'[p] \in Slot => busy'[idx'[p]]
  PROVE  Token'
<1> SUFFICES ASSUME NEW i \in Slot
             PROVE  /\ \A q, r \in Proc : Using(q, i)' /\ Using(r, i)' => q = r
                    /\ \A q \in Proc : Using(q, i)' => busy'[i]
  BY DEF Token
<1>1. \A q \in Proc : q # p /\ Using(q, i)' =>
        Using(q, i) /\ (busy[i] => busy'[i]) /\ i # idx'[p]
  BY DEF Using
<1>2. Using(p, i)' => i = idx'[p]
  BY DEF Using
<1> QED
  BY <1>1, <1>2 DEF Token

\* A slot has one user at a time: it is taken by a caller that saw is_busy
\* unset under the lock, or when it is new, passed on by a signal, and given
\* back by the worker.
LEMMA TokenStep ==
  ASSUME PoolInv, Places, Homes, Tame, Open, Open', SlotsInv, [Next]_vars
  PROVE  Token'
<1>t. /\ Bounds /\ Owned /\ Token
  BY DEF SlotsInv
<1>y. TypeOK
  BY DEF PoolInv
<1>s. /\ pc \in [Proc -> Labels] /\ idx \in [Proc -> 0..Max]
      /\ busy \in [Slot -> BOOLEAN]
      /\ cur \in Min..Max /\ Min \in Nat /\ Max \in Nat
  BY <1>t, PoolAssumption DEF PoolInv, TypeOK
<1>i. /\ \A p \in Proc : pc[p] = "claim" => ~busy[idx[p]]
      /\ \A c \in Callers : pc[c] = "index" => idx[c] = cur - 1
  BY <1>t DEF Owned, Homes
<1>c. \A c \in Callers :
        /\ pc[c] = "claim" => idx[c] \in Slot
        /\ pc[c] = "fresh" => cur \in Slot
  BY <1>s, Processes DEF PoolInv, Counted, Slot
<1>u. \A p \in Proc, q \in Proc :
        pc[p] \in Claimed \union Served /\ pc[q] \in Claimed \union Served
        /\ idx[p] = idx[q] /\ idx[p] \in Slot => p = q /\ busy[idx[p]]
  <2> SUFFICES ASSUME NEW p \in Proc, NEW q \in Proc, idx[p] \in Slot,
                      pc[p] \in Claimed \union Served,
                      pc[q] \in Claimed \union Served, idx[p] = idx[q]
               PROVE  p = q /\ busy[idx[p]]
    OBVIOUS
  <2>1. Using(p, idx[p]) /\ Using(q, idx[p])
    BY DEF Using
  <2> QED
    BY <1>t, <2>1 DEF Token
<1> HIDE DEF Proc, Worker, Slot
<1> USE <1>y, <1>s, <1>i, <1>c DEF Goto, memory, slots, sync, local, world
<1>1. CASE T_Init
  BY <1>t, <1>1, Processes, TokenRest DEF T_Init, Claimed, Served
<1>2. CASE T_Manager
  BY <1>t, <1>2, Processes, TokenRest DEF T_Manager, Claimed, Served
<1>3. CASE T_Fail
  BY <1>t, <1>3, Processes, TokenRest DEF T_Fail, Claimed, Served
<1>4. CASE T_Close
  BY <1>t, <1>4, Processes, TokenRest DEF T_Close, Claimed, Served
<1>5. CASE T_Destroy
  BY <1>t, <1>5, Processes, TokenRest
  DEF T_Destroy, mutex_destroy, cond_destroy, Claimed, Served
<1>6. CASE T_Free
  BY <1>t, <1>6, Processes, TokenRest DEF T_Free, Claimed, Served
<1>7. CASE M_Wake
  BY <1>t, <1>7, Processes, TokenRest DEF M_Wake, Claimed, Served
<1>8. CASE M_Count
  BY <1>t, <1>8, Processes, TokenRest DEF M_Count, Claimed, Served
<1>9. CASE M_Status
  BY <1>t, <1>9, Processes, TokenRest DEF M_Status, Claimed, Served
<1>10. CASE M_Min
  BY <1>t, <1>10, Processes, TokenRest DEF M_Min, Move, Claimed, Served
<1>11. CASE M_Last
  BY <1>t, <1>11, Processes, TokenRest DEF M_Last, Move, Claimed, Served
<1>12. CASE M_KillLock
  BY <1>t, <1>12, Processes, TokenRest
  DEF M_KillLock, Move, mutex_destroy, Claimed, Served
<1>13. CASE M_KillCond
  BY <1>t, <1>13, Processes, TokenRest
  DEF M_KillCond, Move, cond_destroy, Claimed, Served
<1>14. CASE M_Dec
  BY <1>t, <1>14, Processes, TokenRest DEF M_Dec, Move, Claimed, Served
<1>15. CASE M_DecStore
  BY <1>t, <1>15, Processes, TokenRest DEF M_DecStore, Move, Claimed, Served
<1>16. ASSUME NEW c \in Callers, ProcessJob(c) PROVE Token'
  BY <1>t, <1>16, Processes, TokenRest DEF ProcessJob, Claimed, Served
<1>17. ASSUME NEW c \in Callers, J_Scan(c) PROVE Token'
  BY <1>t, <1>17, Processes, TokenRest DEF J_Scan, Move, Claimed, Served
<1>18. ASSUME NEW c \in Callers, J_Lock(c) PROVE Token'
  BY <1>t, <1>18, Processes, TokenRest
  DEF J_Lock, Move, mutex_lock, Claimed, Served
<1>19. ASSUME NEW c \in Callers, J_Test(c) PROVE Token'
  BY <1>t, <1>19, Processes, TokenRest DEF J_Test, mutex_unlock, Claimed,
     Served
<1>20. ASSUME NEW c \in Callers, J_Claim(c) PROVE Token'
  <2>1. c \in Proc /\ pc[c] = "claim" /\ idx' = idx
        /\ pc' = [pc EXCEPT ![c] = "work"]
        /\ busy' = [busy EXCEPT ![idx[c]] = TRUE]
    BY <1>20, Processes DEF J_Claim, Move
  <2>2. \A q \in Proc : pc[q] \in Claimed \union Served => idx[q] # idx[c]
    BY <2>1, <1>u
  <2> QED
    BY <1>t, <2>1, <2>2, TokenTaken
<1>21. ASSUME NEW c \in Callers, J_Work(c) PROVE Token'
  BY <1>t, <1>21, Processes, TokenRest DEF J_Work, Move, Claimed, Served
<1>22. ASSUME NEW c \in Callers, J_Desc(c) PROVE Token'
  BY <1>t, <1>22, Processes, TokenRest DEF J_Desc, Move, Claimed, Served
<1>23. ASSUME NEW c \in Callers, J_AddLock(c) PROVE Token'
  BY <1>t, <1>23, Processes, TokenRest DEF J_AddLock, Claimed, Served
<1>24. ASSUME NEW c \in Callers, J_Check(c) PROVE Token'
  <2>1. /\ \A q \in Proc : q # c => pc'[q] = pc[q]
        /\ pc'[c] = IF Max <= cur THEN "addunlock" ELSE "fresh"
        /\ pc[c] = "check" /\ c \in Proc /\ UNCHANGED <<idx, busy>>
    BY <1>24, Processes DEF J_Check, Move
  <2>2. Max <= cur => idx[c] \notin Slot
    BY <2>1 DEF Tame, NotOvertaken, Slot
  <2>3. "fresh" \notin Claimed \union Served
    BY DEF Claimed, Served
  <2> QED
    BY <1>t, <2>1, <2>2, <2>3, TokenRest
<1>25. ASSUME NEW c \in Callers, J_Fresh(c) PROVE Token'
  <2>1. c \in Proc /\ cur \in Slot /\ pc[c] = "fresh"
        /\ pc' = [pc EXCEPT ![c] = "inc"] /\ idx' = [idx EXCEPT ![c] = cur]
        /\ busy' = [busy EXCEPT ![cur] = TRUE]
    BY <1>25, <1>t, Processes, FreshStep
  <2>2. \A d \in Callers : d # c /\ pc[d] \in Claimed => idx[d] # cur
    <3>1. \A d \in Callers : d # c =>
            pc[d] \notin {"inc", "incstore", "create", "index"}
      BY <2>1 DEF PoolInv, Counted, Adding
    <3>2. cur # Max
      BY <2>1, <1>s DEF Slot
    <3> QED
      BY <3>1, <3>2, <1>t, <1>s, Processes DEF Claimed, Bounds
  <2>3. \A w \in Worker : pc[w] \in Served => idx[w] # cur
    BY <1>s, Processes DEF Homes, EverySlotServed, Served
  <2>4. /\ \A d \in Callers : pc[d] \notin Served
        /\ \A w \in Worker : pc[w] \notin Claimed
        /\ pc[Main] \notin Claimed \union Served
        /\ pc[Manager] \notin Claimed \union Served
    BY DEF Places, Steady, CallerPcs, WorkerPcs, MainPcs, Claimed, Served
  <2>5. \A q \in Proc : q # c /\ pc[q] \in Claimed \union Served => idx[q] # cur
    BY <2>2, <2>3, <2>4 DEF Proc
  <2> QED
    BY <1>t, <2>1, <2>5, TokenTaken
<1>26. ASSUME NEW c \in Callers, J_Inc(c) PROVE Token'
  BY <1>t, <1>26, Processes, TokenRest DEF J_Inc, Move, Claimed, Served
<1>27. ASSUME NEW c \in Callers, J_IncStore(c) PROVE Token'
  BY <1>t, <1>27, Processes, TokenRest DEF J_IncStore, Move, Claimed, Served
<1>28. ASSUME NEW c \in Callers, J_Create(c) PROVE Token'
  BY <1>t, <1>28, Processes, TokenRest DEF J_Create, Claimed, Served
<1>29. ASSUME NEW c \in Callers, J_CreateFails(c) PROVE Token'
  BY <1>t, <1>29, Processes, TokenRest DEF J_CreateFails, Claimed, Served
<1>30. ASSUME NEW c \in Callers, J_Index(c) PROVE Token'
  BY <1>t, <1>30, Processes, TokenRest DEF J_Index, Move, Claimed, Served
<1>31. ASSUME NEW c \in Callers, J_AddUnlock(c) PROVE Token'
  BY <1>t, <1>31, Processes, TokenRest DEF J_AddUnlock, Move, Claimed, Served
<1>32. ASSUME NEW c \in Callers, J_Signal(c) PROVE Token'
  <2>1. pc[c] = "signal" /\ pc'[c] = "idle" /\ c \in Proc /\ idx'[c] = 0
    BY <1>32, SignalStep, Processes
  <2>2. \A q \in Proc : q # c => 
          \/ pc'[q] = pc[q]
          \/ q \in Worker /\ pc[q] = "waiting" /\ idx[q] = idx[c] /\ pc'[q] = "woken"
    <3>1. \A w \in Worker : pc[w] # "cut"
      BY <1>t DEF Bounds
    <3>2. \A p \in Proc : p \notin Worker /\ p # c => pc'[p] = pc[p]
      BY <1>32, SignalStep
    <3>3. \A w \in Worker : pc'[w] # pc[w] =>
            pc[w] = "waiting" /\ idx[w] = idx[c] /\ pc'[w] = "woken"
      BY <1>32, <3>1, SignalStep
    <3> SUFFICES ASSUME NEW q \in Proc, q # c, pc'[q] # pc[q]
                 PROVE  q \in Worker /\ pc[q] = "waiting" /\ idx[q] = idx[c]
                        /\ pc'[q] = "woken"
      OBVIOUS
    <3>4. q \in Worker
      BY <3>2
    <3> QED
      BY <3>3, <3>4
  <2>3. \A q \in Proc : q # c => idx'[q] = idx[q]
    BY <1>32, SignalStep
  <2>4. busy' = busy /\ "signal" \in Claimed /\ "idle" \notin Claimed \union Served
    BY <1>32, SignalStep DEF Claimed, Served
  <2>5. CASE \A q \in Proc : q # c => pc'[q] = pc[q]
    BY <2>1, <2>3, <2>4, <2>5, <1>t, TokenRest
  <2>6. ASSUME NEW w \in Proc, w # c, pc'[w] # pc[w]
        PROVE  Token'
    <3>1. w \in Worker /\ pc[w] = "waiting" /\ idx[w] = idx[c] /\ idx[w] \in Slot
      BY <2>2, <2>6, Processes DEF PoolInv, Counted, Slot
    <3>2. \A v \in Worker : v # w /\ pc[v] # "unborn" /\ pc[v] # "start" => idx[v] # idx[w]
      BY <3>1 DEF Homes, EverySlotServed
    <3>3. \A q \in Proc : q # c /\ q # w => pc'[q] = pc[q]
      BY <2>2, <3>1, <3>2
    <3>4. \A q \in Proc : q # c /\ pc[q] \in Claimed \union Served => idx[q] # idx[c]
      BY <2>1, <2>4, <3>1, <1>u
    <3>5. busy[idx[c]]
      BY <2>1, <2>4, <3>1, <1>u
    <3> QED
      BY <1>t, <2>1, <2>3, <2>4, <2>6, <3>1, <3>3, <3>4, <3>5, TokenTaken
  <2> QED
    BY <2>5, <2>6
<1>33. ASSUME NEW w \in Worker, W_Start(w) PROVE Token'
  BY <1>t, <1>33, Processes, TokenRest DEF W_Start, Search, Claimed, Served
<1>34. ASSUME NEW w \in Worker, W_Lock(w) PROVE Token'
  BY <1>t, <1>34, Processes, TokenRest DEF W_Lock, mutex_lock, Claimed, Served
<1>35. ASSUME NEW w \in Worker, W_Wait(w) PROVE Token'
  <2>1. /\ \A q \in Proc : q # w => pc'[q] = pc[q]
        /\ pc'[w] \in {"waiting", "cut"} /\ w \in Proc
        /\ UNCHANGED <<idx, busy>>
    <3>1. ~dead[idx[w]]
      BY <1>t, <1>s, Processes DEF Bounds, PoolInv, Counted, Slot
    <3> QED
      BY <1>35, <3>1, Processes DEF W_Wait
  <2>2. "waiting" \notin Claimed \union Served /\ "cut" \notin Claimed \union Served
    BY DEF Claimed, Served
  <2> QED
    BY <1>t, <2>1, <2>2, TokenRest
<1>36. ASSUME NEW w \in Worker, W_Wake(w) PROVE Token'
  BY <1>t, <1>36, Processes, TokenRest DEF W_Wake, Move, Claimed, Served
<1>37. ASSUME NEW w \in Worker, W_Unlock(w) PROVE Token'
  BY <1>t, <1>37, Processes, TokenRest
  DEF W_Unlock, mutex_unlock, Claimed, Served
<1>38. ASSUME NEW w \in Worker, W_ReadWork(w) PROVE Token'
  BY <1>t, <1>38, Processes, TokenRest DEF W_ReadWork, Move, Claimed, Served
<1>39. ASSUME NEW w \in Worker, W_ReadDesc(w) PROVE Token'
  BY <1>t, <1>39, Processes, TokenRest DEF W_ReadDesc, Move, Claimed, Served
<1>40. ASSUME NEW w \in Worker, W_Run(w) PROVE Token'
  BY <1>t, <1>40, Processes, TokenRest DEF W_Run, Claimed, Served
<1>41. ASSUME NEW w \in Worker, W_Clear(w) PROVE Token'
  <2>1. w \in Proc /\ pc[w] = "clear" /\ idx' = idx
        /\ pc' = [pc EXCEPT ![w] = "reunlock"]
        /\ busy' = [busy EXCEPT ![idx[w]] = FALSE]
    BY <1>41, Processes DEF W_Clear, Move
  <2>2. "clear" \in Served /\ "reunlock" \notin Claimed \union Served
    BY DEF Claimed, Served
  <2>3. \A q \in Proc : q # w /\ pc[q] \in Claimed \union Served /\ idx[q] \in Slot =>
          idx[q] # idx[w]
    BY <2>1, <2>2, <1>u
  <2> QED
    BY <1>t, <2>1, <2>2, <2>3, TokenRest
<1>42. CASE UNCHANGED vars
  BY <1>t, <1>42 DEF vars, Token, Using
<1>43. ASSUME NEW c \in Callers, J_SignalAstray(c) PROVE Token'
  <2>1. /\ pc' = pc \/ pc' = [pc EXCEPT ![c] = "stuck"]
        /\ UNCHANGED <<idx, busy>>
    BY <1>43 DEF J_SignalAstray
  <2>2. \A q \in Proc : pc'[q] \in Claimed \union Served => pc'[q] = pc[q]
    BY <2>1, Processes DEF Claimed, Served
  <2> QED
    <3>1. \A q \in Proc : pc'[q] \in Claimed \union Served =>
            pc[q] \in Claimed \union Served
      BY <2>2
    <3>2. \A i \in Slot : busy[i] => busy'[i]
      BY <2>1
    <3>3. \A q \in Proc : idx'[q] = idx[q]
      BY <2>1
    <3> QED
      BY <3>1, <3>2, <3>3, <1>t, <1>u, TokenRest
<1> QED
  BY <1>1, <1>2, <1>3, <1>4, <1>5, <1>6, <1>7, <1>8, <1>9, <1>10, <1>11,
     <1>12, <1>13, <1>14, <1>15, <1>16, <1>17, <1>18, <1>19, <1>20,
     <1>21, <1>22, <1>23, <1>24, <1>25, <1>26, <1>27, <1>28, <1>29,
     <1>30, <1>31, <1>32, <1>33, <1>34, <1>35, <1>36, <1>37, <1>38,
     <1>39, <1>40, <1>41, <1>42, <1>43
  DEF Next, MainStep, ManagerStep, CallerStep, WorkerStep

\* Every step keeps the workers' slots.
LEMMA HomesStep ==
  ASSUME PoolInv, Places, Homes, [Next]_vars
  PROVE  Homes'
<1>1. TypeOK /\ TypeOK'
  BY TypeStep DEF PoolInv
<1>2. CASE Making /\ ~aborted /\ ~freed
  BY <1>1, <1>2, MakingStep
<1>3. CASE ~Making
  BY <1>1, <1>3, QuietStep, QuietHomes
<1>4. CASE Making /\ UNCHANGED vars
  <2>1. UNCHANGED <<cur, id, idx, pc, reg, born>>
    BY <1>4 DEF vars, memory, slots, local, world
  <2> QED
    BY <2>1 DEF Homes, Made, EverySlotServed
<1> QED
  BY <1>2, <1>3, <1>4 DEF Next

\* creat_thread_pool starts with no thread at all.
LEMMA HomesInit == Init => Places /\ Homes
<1> SUFFICES ASSUME Init PROVE Places /\ Homes
  OBVIOUS
<1>1. Made = 0 /\ born = 0 /\ id = [i \in Slot |-> NoOne]
  BY PoolAssumption DEF Init, Made, Proc
<1>2. /\ pc[Main] = "init" /\ pc[Manager] = "unborn"
      /\ \A c \in Callers : pc[c] = "idle"
      /\ \A w \in Worker : pc[w] = "unborn"
  BY Processes DEF Init
<1>3. Places
  BY <1>2 DEF Places, Steady, CallerPcs, WorkerPcs, MainPcs
<1>4. EverySlotServed
  BY <1>2 DEF EverySlotServed
<1>5. \A w \in Worker : w > 0 /\ ~(w <= 0)
  BY DEF Worker
<1> QED
  BY <1>1, <1>2, <1>3, <1>4, <1>5 DEF Homes

\* As long as the manager deletes no thread every worker finds its own slot, although
\* add_thread, the creation of the thread and the thread's search run side by
\* side: lines 147 to 154, 188 to 215 and 276 to 287.
THEOREM PoolServes == Spec /\ []Steady => []EverySlotServed
<1> DEFINE I == PoolInv /\ Places /\ Homes
<1>1. Init => I
  BY InitInv, HomesInit
<1>2. I /\ Steady' /\ [Next]_vars => I'
  BY TypeStep, CountedStep, PlacesStep, HomesStep DEF PoolInv
<1>3. I => EverySlotServed
  BY DEF Homes
<1> HIDE DEF I
<1> QED
  BY <1>1, <1>2, <1>3, PTL DEF Spec

\* A pool that is being closed stays so.
LEMMA OpenStep ==
  ASSUME PoolInv, Places, [Next]_vars, Open'
  PROVE  Open
<1>y. pc \in [Proc -> Labels] /\ TypeOK
  BY DEF PoolInv, TypeOK
<1> HIDE DEF Proc, Worker
<1> USE <1>y, Processes DEF Open, Goto, memory, slots, sync, local, world
<1>1. CASE T_Init
  BY <1>1 DEF T_Init
<1>2. CASE T_Manager
  BY <1>2 DEF T_Manager
<1>3. CASE T_Fail
  BY <1>3 DEF T_Fail
<1>4. CASE T_Close
  BY <1>4 DEF T_Close
<1>5. CASE T_Destroy
  BY <1>5 DEF T_Destroy, mutex_destroy, cond_destroy
<1>6. CASE T_Free
  BY <1>6 DEF T_Free
<1>7. CASE M_Wake
  BY <1>7 DEF M_Wake
<1>8. CASE M_Count
  BY <1>8 DEF M_Count
<1>9. CASE M_Status
  BY <1>9 DEF M_Status
<1>10. CASE M_Min
  BY <1>10 DEF M_Min, Move
<1>11. CASE M_Last
  BY <1>11 DEF M_Last, Move
<1>12. CASE M_KillLock
  BY <1>12 DEF M_KillLock, Move, mutex_destroy
<1>13. CASE M_KillCond
  BY <1>13 DEF M_KillCond, Move, cond_destroy
<1>14. CASE M_Dec
  BY <1>14 DEF M_Dec, Move
<1>15. CASE M_DecStore
  BY <1>15 DEF M_DecStore, Move
<1>16. ASSUME NEW c \in Callers, ProcessJob(c) PROVE Open
  BY <1>16 DEF ProcessJob
<1>17. ASSUME NEW c \in Callers, J_Scan(c) PROVE Open
  BY <1>17 DEF J_Scan, Move
<1>18. ASSUME NEW c \in Callers, J_Lock(c) PROVE Open
  BY <1>18 DEF J_Lock, Move, mutex_lock
<1>19. ASSUME NEW c \in Callers, J_Test(c) PROVE Open
  BY <1>19 DEF J_Test, mutex_unlock
<1>20. ASSUME NEW c \in Callers, J_Claim(c) PROVE Open
  BY <1>20 DEF J_Claim, Move, mutex_unlock
<1>21. ASSUME NEW c \in Callers, J_Work(c) PROVE Open
  BY <1>21 DEF J_Work, Move
<1>22. ASSUME NEW c \in Callers, J_Desc(c) PROVE Open
  BY <1>22 DEF J_Desc, Move
<1>23. ASSUME NEW c \in Callers, J_AddLock(c) PROVE Open
  BY <1>23 DEF J_AddLock
<1>24. ASSUME NEW c \in Callers, J_Check(c) PROVE Open
  BY <1>24 DEF J_Check, Move
<1>25. ASSUME NEW c \in Callers, J_Fresh(c) PROVE Open
  BY <1>25 DEF J_Fresh, Fresh, Asleep
<1>26. ASSUME NEW c \in Callers, J_Inc(c) PROVE Open
  BY <1>26 DEF J_Inc, Move
<1>27. ASSUME NEW c \in Callers, J_IncStore(c) PROVE Open
  BY <1>27 DEF J_IncStore, Move
<1>28. ASSUME NEW c \in Callers, J_Create(c) PROVE Open
  <2>1. born + 1 # Main
    BY <1>28, PoolAssumption DEF J_Create, Worker, TypeOK
  <2> QED
    BY <1>28, <2>1 DEF J_Create
<1>29. ASSUME NEW c \in Callers, J_CreateFails(c) PROVE Open
  BY <1>29 DEF J_CreateFails
<1>30. ASSUME NEW c \in Callers, J_Index(c) PROVE Open
  BY <1>30 DEF J_Index, Move
<1>31. ASSUME NEW c \in Callers, J_AddUnlock(c) PROVE Open
  BY <1>31 DEF J_AddUnlock, Move
<1>32. ASSUME NEW c \in Callers, J_Signal(c) PROVE Open
  BY <1>32, SignalStep
<1>33. ASSUME NEW w \in Worker, W_Start(w) PROVE Open
  BY <1>33 DEF W_Start, Search
<1>34. ASSUME NEW w \in Worker, W_Lock(w) PROVE Open
  BY <1>34 DEF W_Lock, mutex_lock
<1>35. ASSUME NEW w \in Worker, W_Wait(w) PROVE Open
  BY <1>35 DEF W_Wait
<1>36. ASSUME NEW w \in Worker, W_Wake(w) PROVE Open
  BY <1>36 DEF W_Wake, Move
<1>37. ASSUME NEW w \in Worker, W_Unlock(w) PROVE Open
  BY <1>37 DEF W_Unlock, mutex_unlock
<1>38. ASSUME NEW w \in Worker, W_ReadWork(w) PROVE Open
  BY <1>38 DEF W_ReadWork, Move
<1>39. ASSUME NEW w \in Worker, W_ReadDesc(w) PROVE Open
  BY <1>39 DEF W_ReadDesc, Move
<1>40. ASSUME NEW w \in Worker, W_Run(w) PROVE Open
  BY <1>40 DEF W_Run
<1>41. ASSUME NEW w \in Worker, W_Clear(w) PROVE Open
  BY <1>41 DEF W_Clear, Move
<1>42. CASE UNCHANGED vars
  BY <1>42 DEF vars
<1>43. ASSUME NEW c \in Callers, J_SignalAstray(c) PROVE Open
  BY <1>43 DEF J_SignalAstray
<1> QED
  BY <1>1, <1>2, <1>3, <1>4, <1>5, <1>6, <1>7, <1>8, <1>9, <1>10, <1>11,
     <1>12, <1>13, <1>14, <1>15, <1>16, <1>17, <1>18, <1>19, <1>20,
     <1>21, <1>22, <1>23, <1>24, <1>25, <1>26, <1>27, <1>28, <1>29,
     <1>30, <1>31, <1>32, <1>33, <1>34, <1>35, <1>36, <1>37, <1>38,
     <1>39, <1>40, <1>41, <1>42, <1>43
  DEF Next, MainStep, ManagerStep, CallerStep, WorkerStep

\* Every step keeps the locks and the token of the slots.
LEMMA SlotsStep ==
  ASSUME PoolInv, Places, Homes, Tame, SlotsInv, [Next]_vars
  PROVE  SlotsInv'
<1> SUFFICES ASSUME Open' PROVE Bounds' /\ Owned' /\ Token'
  BY DEF SlotsInv
<1>1. Open
  BY OpenStep
<1> QED
  BY <1>1, BoundsStep, OwnedStep, TokenStep

\* No slot is in use at first.
LEMMA SlotsInit == Init => SlotsInv
<1> SUFFICES ASSUME Init PROVE Bounds /\ Owned /\ Token
  BY DEF SlotsInv
<1>1. \A p \in Proc : pc[p] \in {"init", "idle", "unborn"}
  BY DEF Init
<1>2. Bounds
  BY <1>1, Processes DEF Init, Bounds
<1>3. Owned
  BY <1>1 DEF Owned, Inside
<1>4. Token
  BY <1>1 DEF Token, Using, Claimed, Served
<1> QED
  BY <1>2, <1>3, <1>4

\* The slots, as they are from creat_thread_pool until tp_close.
THEOREM PoolSlots ==
  Spec /\ []Tame => [](PoolInv /\ Places /\ Homes /\ SlotsInv)
<1> DEFINE I == PoolInv /\ Places /\ Homes /\ SlotsInv
<1>1. Init => I
  BY InitInv, HomesInit, SlotsInit
<1>2. I /\ Tame /\ Tame' /\ [Next]_vars => I'
  BY TypeStep, CountedStep, PlacesStep, HomesStep, SlotsStep DEF PoolInv, Tame
<1> HIDE DEF I
<1>3. Spec /\ []Tame => []I
  BY <1>1, <1>2, PTL DEF Spec
<1> QED
  BY <1>3, PTL DEF I

\* Until the pool is closed, a thread deleted or a caller overtaken, a slot has
\* one user at a time and is busy meanwhile: process_job writes th_work and
\* th_job after it released the slot's lock (lines 132 to 135) and the worker
\* reads them without it (lines 292 to 302), yet they never meet, and no other
\* caller takes the slot.
THEOREM PoolExclusive == Spec /\ []Tame => []SlotExclusive
<1>1. Places /\ SlotsInv => SlotExclusive
  <2> SUFFICES ASSUME Places, Token PROVE SlotExclusive
    BY DEF SlotsInv, SlotExclusive
  <2>1. \A p \in Proc :
          pc[p] \in {"work", "desc", "woken", "unlock", "readwork", "readdesc",
                    "run", "relock", "clear"} => pc[p] \in Claimed \union Served
    BY DEF Claimed, Served
  <2>2. \A i \in Slot, p \in Proc : Filling(p, i) \/ Serving(p, i) => Using(p, i)
    BY <2>1 DEF Filling, Serving, Using
  <2> QED
    BY <2>2 DEF SlotExclusive, Token
<1> QED
  BY <1>1, PoolSlots, PTL

\* What J_Work, J_Desc, W_Run and ProcessJob alone disturb.
JobsQuiet ==
  /\ UNCHANGED <<work, desc, ran, calls>>
  /\ \A c \in Callers :
       /\ \/ job'[c] = job[c] /\ (pc'[c] = "idle" <=> pc[c] = "idle")
          \/ job'[c] = None /\ pc'[c] = "idle"
       /\ pc'[c] \in Offering => pc[c] \in Offering
       /\ pc'[c] = "desc" <=> pc[c] = "desc"
       /\ pc[c] = "desc" => idx'[c] = idx[c]

\* A step that leaves the jobs alone keeps them different.
LEMMA JobsRest ==
  ASSUME Jobs, JobsQuiet
  PROVE  Jobs'
<1>1. \A c \in Callers : pc'[c] # "idle" => pc[c] # "idle" /\ job'[c] = job[c]
  BY DEF JobsQuiet
<1>2. \A c \in Callers : pc'[c] \in Offering => pc[c] \in Offering /\ pc'[c] # "idle"
  BY DEF JobsQuiet, Offering
<1>3. /\ \A j \in Job : j > calls' => ran'[j] = 0
      /\ \A i \in Slot : work'[i] <= calls' /\ desc'[i] <= calls'
      /\ \A i, k \in Slot : work'[i] = work'[k] /\ work'[i] # Garbage => i = k
  BY DEF Jobs, JobsQuiet
<1>4. \A c \in Callers : pc'[c] # "idle" =>
        job'[c].work \in 1..calls' /\ job'[c].desc = job'[c].work
  BY <1>1 DEF Jobs, JobsQuiet
<1>5. \A c, d \in Callers :
        pc'[c] # "idle" /\ job'[c].work = job'[d].work => c = d
  <2> SUFFICES ASSUME NEW c \in Callers, NEW d \in Callers, pc'[c] # "idle",
                      job'[c].work = job'[d].work
               PROVE  c = d
    OBVIOUS
  <2>1. pc[c] # "idle" /\ job'[c] = job[c] /\ job[c].work \in 1..calls
    BY <1>1 DEF Jobs
  <2>2. CASE job'[d] = job[d]
    BY <2>1, <2>2 DEF Jobs
  <2>3. CASE job'[d] = None
    <3>1. calls \in Int => FALSE
      BY <2>1, <2>3 DEF None, Garbage
    <3> QED
      BY <2>1, <2>3 DEF None, Garbage
  <2> QED
    BY <2>2, <2>3 DEF JobsQuiet
<1>6. \A c \in Callers : pc'[c] \in Offering =>
        /\ ran'[job'[c].work] = 0
        /\ \A i \in Slot :
             /\ desc'[i] # job'[c].work
             /\ work'[i] = job'[c].work => pc'[c] = "desc" /\ i = idx'[c]
  BY <1>1, <1>2 DEF Jobs, JobsQuiet
<1>7. \A c \in Callers : pc'[c] = "idle" => job'[c] = None
  BY DEF Jobs, JobsQuiet
<1> QED
  BY <1>3, <1>4, <1>5, <1>6, <1>7 DEF Jobs

\* The labels by what they say of the slot: the job before was run; the next
\* one is in it and was not.
Before == {"inc", "incstore", "create", "index", "work", "relock", "clear"}
Stored == {"addunlock", "signal"}
Taken  == {"woken", "unlock", "readwork", "readdesc", "run"}

\* What a step leaves alone that has nothing to do with jobs.
ContentsQuiet ==
  /\ UNCHANGED <<work, desc, ran>>
  /\ \A i \in Slot : ~busy'[i] \/ i >= cur' => ~busy[i] \/ i >= cur
  /\ \A p \in Proc : pc'[p] \in Before => pc[p] \in Before /\ idx'[p] = idx[p]
  /\ \A c \in Callers :
       /\ pc'[c] = "desc" <=> pc[c] = "desc"
       /\ pc[c] = "desc" => idx'[c] = idx[c] /\ job'[c] = job[c]
       /\ pc'[c] \in Stored /\ idx'[c] < Max => pc[c] \in Stored /\ idx'[c] = idx[c]
  /\ \A w \in Worker : pc'[w] \in Taken =>
       /\ pc[w] \in Taken /\ idx'[w] = idx[w] /\ job'[w] = job[w]
       /\ pc'[w] \in {"readdesc", "run"} => pc[w] = pc'[w]

\* A step that leaves the slots' contents alone keeps what is known of them.
LEMMA ContentsRest ==
  ASSUME Contents, ContentsQuiet
  PROVE  Contents'
<1>1. \A i \in Slot : Settled(i)' = Settled(i)
  BY DEF Settled, ContentsQuiet
<1>2. \A i \in Slot : work'[i] = desc'[i]
        \/ \E c \in Callers : pc'[c] = "desc" /\ idx'[c] = i
  BY DEF Contents, ContentsQuiet
<1>3. \A i \in Slot : ~busy'[i] \/ i >= cur' => Settled(i)'
  BY <1>1 DEF Contents, ContentsQuiet
<1>4. \A p \in Proc : pc'[p] \in Before => Settled(idx[p])'
  BY DEF Contents, ContentsQuiet, Before, Settled
<1>5. \A p \in Proc : pc'[p] \in Before => idx'[p] = idx[p]
  BY DEF ContentsQuiet
<1>6. \A p \in Proc :
       pc'[p] \in {"inc", "incstore", "create", "index", "work", "relock", "clear"}
         => Settled(idx[p])'
  BY <1>4, <1>5 DEF Before, Settled
<1>7. \A c \in Callers : pc'[c] = "desc" => work'[idx'[c]] = job'[c].work
  BY DEF Contents, ContentsQuiet
<1>8. \A c \in Callers : pc'[c] \in {"addunlock", "signal"} /\ idx'[c] < Max =>
        work'[idx'[c]] # Garbage /\ ran'[work'[idx'[c]]] = 0
  BY DEF Contents, ContentsQuiet, Stored
<1>9. \A w \in Worker :
       pc'[w] \in {"woken", "unlock", "readwork", "readdesc", "run"} =>
       /\ work'[idx'[w]] # Garbage /\ ran'[work'[idx'[w]]] = 0
       /\ pc'[w] \in {"readdesc", "run"} => job'[w].work = work'[idx'[w]]
       /\ pc'[w] = "run" => job'[w].desc = desc'[idx'[w]]
  BY DEF Contents, ContentsQuiet, Taken
<1> QED
  BY <1>2, <1>3, <1>6, <1>7, <1>8, <1>9 DEF Contents

\* None of the steps that JobsQuiet leaves out.
NoJobs ==
  /\ ~(\E c \in Callers : ProcessJob(c) \/ J_Work(c) \/ J_Desc(c))
  /\ ~(\E w \in Worker : W_Run(w))

\* All steps but those of NoJobs leave the jobs alone.
LEMMA JobsQuietStep ==
  ASSUME PoolInv, Places, Homes, [Next]_vars, NoJobs
  PROVE  JobsQuiet
<1>y. /\ pc \in [Proc -> Labels] /\ idx \in [Proc -> 0..Max] /\ TypeOK
      /\ job \in [Callers \union Worker -> Task]
      /\ busy \in [Slot -> BOOLEAN]
      /\ cur \in Min..Max /\ Min \in Nat /\ Max \in Nat /\ Slot \subseteq Int
  BY PoolAssumption DEF PoolInv, TypeOK, Slot
<1> HIDE DEF Proc, Worker
<1> USE <1>y, Processes DEF Goto, memory, slots, sync, local, world
<1>1. CASE T_Init
  <2>1. born + 1 \in Worker /\ born + 1 # Main /\ born + 1 \in Proc
        /\ pc[born + 1] = "unborn"
    BY <1>1, Processes, PoolAssumption
    DEF T_Init, PoolInv, TypeOK, Counted, Homes, Worker
  <2> QED
    BY <1>1, <2>1 DEF T_Init, JobsQuiet, Offering
<1>2. CASE T_Manager
  BY <1>2 DEF T_Manager, JobsQuiet, Offering
<1>3. CASE T_Fail
  BY <1>3 DEF T_Fail, JobsQuiet, Offering
<1>4. CASE T_Close
  BY <1>4 DEF T_Close, JobsQuiet, Offering
<1>5. CASE T_Destroy
  BY <1>5 DEF T_Destroy, mutex_destroy, cond_destroy, JobsQuiet, Offering
<1>6. CASE T_Free
  BY <1>6 DEF T_Free, JobsQuiet, Offering
<1>7. CASE M_Wake
  BY <1>7 DEF M_Wake, JobsQuiet, Offering
<1>8. CASE M_Count
  BY <1>8 DEF M_Count, JobsQuiet, Offering
<1>9. CASE M_Status
  BY <1>9 DEF M_Status, JobsQuiet, Offering
<1>10. CASE M_Min
  BY <1>10 DEF M_Min, Move, JobsQuiet, Offering
<1>11. CASE M_Last
  BY <1>11 DEF M_Last, Move, JobsQuiet, Offering
<1>12. CASE M_KillLock
  BY <1>12 DEF M_KillLock, Move, mutex_destroy, JobsQuiet, Offering
<1>13. CASE M_KillCond
  BY <1>13 DEF M_KillCond, Move, cond_destroy, JobsQuiet, Offering
<1>14. CASE M_Dec
  BY <1>14 DEF M_Dec, Move, JobsQuiet, Offering
<1>15. CASE M_DecStore
  BY <1>15 DEF M_DecStore, Move, JobsQuiet, Offering
<1>16. ASSUME NEW c \in Callers, J_Scan(c) PROVE JobsQuiet
  BY <1>16 DEF J_Scan, Move, JobsQuiet, Offering
<1>17. ASSUME NEW c \in Callers, J_Lock(c) PROVE JobsQuiet
  BY <1>17 DEF J_Lock, Move, mutex_lock, JobsQuiet, Offering
<1>18. ASSUME NEW c \in Callers, J_Test(c) PROVE JobsQuiet
  BY <1>18 DEF J_Test, mutex_unlock, JobsQuiet, Offering
<1>19. ASSUME NEW c \in Callers, J_Claim(c) PROVE JobsQuiet
  BY <1>19 DEF J_Claim, Move, mutex_unlock, JobsQuiet, Offering
<1>20. ASSUME NEW c \in Callers, J_AddLock(c) PROVE JobsQuiet
  BY <1>20 DEF J_AddLock, JobsQuiet, Offering
<1>21. ASSUME NEW c \in Callers, J_Check(c) PROVE JobsQuiet
  BY <1>21 DEF J_Check, Move, JobsQuiet, Offering
<1>22. ASSUME NEW c \in Callers, J_Fresh(c) PROVE JobsQuiet
  BY <1>22, FreshStep DEF JobsQuiet, Offering
<1>23. ASSUME NEW c \in Callers, J_Inc(c) PROVE JobsQuiet
  BY <1>23 DEF J_Inc, Move, JobsQuiet, Offering
<1>24. ASSUME NEW c \in Callers, J_IncStore(c) PROVE JobsQuiet
  BY <1>24 DEF J_IncStore, Move, JobsQuiet, Offering
<1>25. ASSUME NEW c \in Callers, J_Create(c) PROVE JobsQuiet
  <2>1. born + 1 \in Worker /\ born + 1 # Main /\ born + 1 \in Proc
        /\ pc[born + 1] = "unborn"
    BY <1>25, Processes, PoolAssumption
    DEF J_Create, PoolInv, TypeOK, Counted, Homes, Worker
  <2> QED
    BY <1>25, <2>1 DEF J_Create, JobsQuiet, Offering
<1>26. ASSUME NEW c \in Callers, J_CreateFails(c) PROVE JobsQuiet
  BY <1>26 DEF J_CreateFails, JobsQuiet, Offering
<1>27. ASSUME NEW c \in Callers, J_Index(c) PROVE JobsQuiet
  BY <1>27 DEF J_Index, Move, JobsQuiet, Offering
<1>28. ASSUME NEW c \in Callers, J_AddUnlock(c) PROVE JobsQuiet
  BY <1>28 DEF J_AddUnlock, Move, JobsQuiet, Offering
<1>29. ASSUME NEW c \in Callers, J_Signal(c) PROVE JobsQuiet
  BY <1>29, SignalStep DEF JobsQuiet, Offering
<1>30. ASSUME NEW w \in Worker, W_Start(w) PROVE JobsQuiet
  BY <1>30 DEF W_Start, Search, JobsQuiet, Offering
<1>31. ASSUME NEW w \in Worker, W_Lock(w) PROVE JobsQuiet
  BY <1>31 DEF W_Lock, mutex_lock, JobsQuiet, Offering
<1>32. ASSUME NEW w \in Worker, W_Wait(w) PROVE JobsQuiet
  BY <1>32 DEF W_Wait, JobsQuiet, Offering
<1>33. ASSUME NEW w \in Worker, W_Wake(w) PROVE JobsQuiet
  BY <1>33 DEF W_Wake, Move, JobsQuiet, Offering
<1>34. ASSUME NEW w \in Worker, W_Unlock(w) PROVE JobsQuiet
  BY <1>34 DEF W_Unlock, mutex_unlock, JobsQuiet, Offering
<1>35. ASSUME NEW w \in Worker, W_ReadWork(w) PROVE JobsQuiet
  BY <1>35 DEF W_ReadWork, Move, JobsQuiet, Offering
<1>36. ASSUME NEW w \in Worker, W_ReadDesc(w) PROVE JobsQuiet
  BY <1>36 DEF W_ReadDesc, Move, JobsQuiet, Offering
<1>37. ASSUME NEW w \in Worker, W_Clear(w) PROVE JobsQuiet
  BY <1>37 DEF W_Clear, Move, JobsQuiet, Offering
<1>38. CASE UNCHANGED vars
  BY <1>38 DEF vars, JobsQuiet
<1>39. ASSUME NEW c \in Callers, J_SignalAstray(c) PROVE JobsQuiet
  BY <1>39 DEF J_SignalAstray, JobsQuiet, Offering
<1> QED
  BY <1>1, <1>2, <1>3, <1>4, <1>5, <1>6, <1>7, <1>8, <1>9, <1>10, <1>11,
     <1>12, <1>13, <1>14, <1>15, <1>16, <1>17, <1>18, <1>19, <1>20,
     <1>21, <1>22, <1>23, <1>24, <1>25, <1>26, <1>27, <1>28, <1>29,
     <1>30, <1>31, <1>32, <1>33, <1>34, <1>35, <1>36, <1>37, <1>38, <1>39
  DEF Next, MainStep, ManagerStep, CallerStep, WorkerStep,
      NoJobs

\* None of the steps that change what is in a slot, or who has it.
NoContents ==
  /\ ~(\E c \in Callers : J_Claim(c) \/ J_Fresh(c) \/ J_Work(c) \/ J_Desc(c) \/ J_Signal(c))
  /\ ~(\E w \in Worker : W_ReadWork(w) \/ W_ReadDesc(w) \/ W_Run(w) \/ W_Clear(w))

\* All steps but those of NoContents leave the slots' contents alone.
LEMMA ContentsQuietStep ==
  ASSUME PoolInv, Places, Homes, Tame, Open, SlotsInv, [Next]_vars, NoContents
  PROVE  ContentsQuiet
<1>y. /\ pc \in [Proc -> Labels] /\ idx \in [Proc -> 0..Max] /\ TypeOK
      /\ job \in [Callers \union Worker -> Task]
      /\ busy \in [Slot -> BOOLEAN]
      /\ cur \in Min..Max /\ Min \in Nat /\ Max \in Nat /\ Slot \subseteq Int
  BY PoolAssumption DEF PoolInv, TypeOK, Slot
<1> HIDE DEF Proc, Worker
<1> USE <1>y, Processes DEF Goto, memory, slots, sync, local, world
<1>1. CASE T_Init
  <2>1. born + 1 \in Worker /\ born + 1 # Main /\ born + 1 \in Proc
        /\ pc[born + 1] = "unborn"
    BY <1>1, Processes, PoolAssumption
    DEF T_Init, PoolInv, TypeOK, Counted, Homes, Worker
  <2> QED
    BY <1>1, <2>1 DEF T_Init, ContentsQuiet, Before, Stored, Taken
<1>2. CASE T_Manager
  BY <1>2 DEF T_Manager, ContentsQuiet, Before, Stored, Taken
<1>3. CASE T_Fail
  BY <1>3 DEF T_Fail, ContentsQuiet, Before, Stored, Taken
<1>4. CASE T_Close
  BY <1>4 DEF T_Close, ContentsQuiet, Before, Stored, Taken
<1>5. CASE T_Destroy
  BY <1>5
  DEF T_Destroy, mutex_destroy, cond_destroy, ContentsQuiet, Before, Stored,
      Taken
<1>6. CASE T_Free
  BY <1>6 DEF T_Free, ContentsQuiet, Before, Stored, Taken
<1>7. CASE M_Wake
  BY <1>7 DEF M_Wake, ContentsQuiet, Before, Stored, Taken
<1>8. CASE M_Count
  BY <1>8 DEF M_Count, ContentsQuiet, Before, Stored, Taken
<1>9. CASE M_Status
  BY <1>9 DEF M_Status, ContentsQuiet, Before, Stored, Taken
<1>10. CASE M_Min
  BY <1>10 DEF M_Min, Move, ContentsQuiet, Before, Stored, Taken
<1>11. CASE M_Last
  BY <1>11 DEF M_Last, Move, ContentsQuiet, Before, Stored, Taken
<1>12. CASE M_KillLock
  BY <1>12
  DEF M_KillLock, Move, mutex_destroy, ContentsQuiet, Before, Stored, Taken
<1>13. CASE M_KillCond
  BY <1>13
  DEF M_KillCond, Move, cond_destroy, ContentsQuiet, Before, Stored, Taken
<1>14. CASE M_Dec
  BY <1>14 DEF M_Dec, Move, ContentsQuiet, Before, Stored, Taken
<1>15. CASE M_DecStore
  BY <1>15 DEF M_DecStore, Move, Places, Steady
<1>16. ASSUME NEW c \in Callers, ProcessJob(c) PROVE ContentsQuiet
  BY <1>16 DEF ProcessJob, ContentsQuiet, Before, Stored, Taken
<1>17. ASSUME NEW c \in Callers, J_Scan(c) PROVE ContentsQuiet
  BY <1>17 DEF J_Scan, Move, ContentsQuiet, Before, Stored, Taken
<1>18. ASSUME NEW c \in Callers, J_Lock(c) PROVE ContentsQuiet
  BY <1>18 DEF J_Lock, Move, mutex_lock, ContentsQuiet, Before, Stored, Taken
<1>19. ASSUME NEW c \in Callers, J_Test(c) PROVE ContentsQuiet
  BY <1>19 DEF J_Test, mutex_unlock, ContentsQuiet, Before, Stored, Taken
<1>20. ASSUME NEW c \in Callers, J_AddLock(c) PROVE ContentsQuiet
  BY <1>20 DEF J_AddLock, ContentsQuiet, Before, Stored, Taken
<1>21. ASSUME NEW c \in Callers, J_Check(c) PROVE ContentsQuiet
  <2>1. pc[c] = "check" /\ (Max <= cur => idx[c] = Max)
    BY <1>21 DEF J_Check, Move, Tame, NotOvertaken
  <2>2. pc'[c] \in Stored => ~(idx[c] < Max)
    BY <1>21, <2>1 DEF J_Check, Move, Stored
  <2> QED
    BY <1>21, <2>2 DEF J_Check, Move, ContentsQuiet, Before, Stored, Taken
<1>22. ASSUME NEW c \in Callers, J_Inc(c) PROVE ContentsQuiet
  BY <1>22 DEF J_Inc, Move, ContentsQuiet, Before, Stored, Taken
<1>23. ASSUME NEW c \in Callers, J_IncStore(c) PROVE ContentsQuiet
  <2>1. cur' = cur + 1
    BY <1>23 DEF J_IncStore, Move, Homes
  <2> QED
    BY <1>23, <2>1 DEF J_IncStore, Move, ContentsQuiet, Before, Stored, Taken
<1>24. ASSUME NEW c \in Callers, J_Create(c) PROVE ContentsQuiet
  <2>1. born + 1 \in Worker /\ born + 1 # Main /\ born + 1 \in Proc
        /\ pc[born + 1] = "unborn"
    BY <1>24, Processes, PoolAssumption
    DEF J_Create, PoolInv, TypeOK, Counted, Homes, Worker
  <2> QED
    BY <1>24, <2>1 DEF J_Create, ContentsQuiet, Before, Stored, Taken
<1>25. ASSUME NEW c \in Callers, J_CreateFails(c) PROVE ContentsQuiet
  BY <1>25 DEF J_CreateFails, ContentsQuiet, Before, Stored, Taken
<1>26. ASSUME NEW c \in Callers, J_Index(c) PROVE ContentsQuiet
  <2>1. idx' = idx
    BY <1>26 DEF J_Index, Move, Homes
  <2> QED
    BY <1>26, <2>1 DEF J_Index, Move, ContentsQuiet, Before, Stored, Taken
<1>27. ASSUME NEW c \in Callers, J_AddUnlock(c) PROVE ContentsQuiet
  BY <1>27 DEF J_AddUnlock, Move, ContentsQuiet, Before, Stored, Taken
<1>28. ASSUME NEW w \in Worker, W_Start(w) PROVE ContentsQuiet
  BY <1>28 DEF W_Start, Search, ContentsQuiet, Before, Stored, Taken
<1>29. ASSUME NEW w \in Worker, W_Lock(w) PROVE ContentsQuiet
  BY <1>29 DEF W_Lock, mutex_lock, ContentsQuiet, Before, Stored, Taken
<1>30. ASSUME NEW w \in Worker, W_Wait(w) PROVE ContentsQuiet
  <2>1. ~dead[idx[w]]
    BY DEF PoolInv, Counted, Slot, SlotsInv, Bounds
  <2> QED
    BY <1>30, <2>1 DEF W_Wait, ContentsQuiet, Before, Stored, Taken
<1>31. ASSUME NEW w \in Worker, W_Wake(w) PROVE ContentsQuiet
  BY <1>31 DEF W_Wake, Move, ContentsQuiet, Before, Stored, Taken
<1>32. ASSUME NEW w \in Worker, W_Unlock(w) PROVE ContentsQuiet
  BY <1>32 DEF W_Unlock, mutex_unlock, ContentsQuiet, Before, Stored, Taken
<1>33. CASE UNCHANGED vars
  BY <1>33 DEF vars, ContentsQuiet
<1>34. ASSUME NEW c \in Callers, J_SignalAstray(c) PROVE ContentsQuiet
  BY <1>34 DEF J_SignalAstray, ContentsQuiet, Before, Stored, Taken
<1> QED
  BY <1>1, <1>2, <1>3, <1>4, <1>5, <1>6, <1>7, <1>8, <1>9, <1>10, <1>11,
     <1>12, <1>13, <1>14, <1>15, <1>16, <1>17, <1>18, <1>19, <1>20,
     <1>21, <1>22, <1>23, <1>24, <1>25, <1>26, <1>27, <1>28, <1>29,
     <1>30, <1>31, <1>32, <1>33, <1>34
  DEF Next, MainStep, ManagerStep, CallerStep, WorkerStep,
      NoContents

\* Two threads that use slots use different ones.
LEMMA Apart ==
  ASSUME Token, NEW p \in Proc, NEW q \in Proc, idx[p] \in Slot,
         pc[p] \in Claimed \union Served, pc[q] \in Claimed \union Served,
         idx[p] = idx[q]
  PROVE  p = q /\ busy[idx[p]]
<1>1. Using(p, idx[p]) /\ Using(q, idx[p])
  BY DEF Using
<1> QED
  BY <1>1 DEF Token

\* The slots that callers and workers have, as numbers of the array.
LEMMA InSlot ==
  ASSUME PoolInv, Bounds
  PROVE  /\ \A c \in Callers : pc[c] \in {"lock", "test", "claim", "work", "desc"} =>
              idx[c] \in Slot
         /\ \A w \in Worker : idx[w] \in Slot
<1>1. \A p \in Proc : idx[p] \in 0..Max /\ cur \in Min..Max
  BY DEF PoolInv, TypeOK
<1>2. \A c \in Callers :
        pc[c] \in {"lock", "test", "claim", "work", "desc"} => idx[c] < cur
  BY DEF Bounds
<1> QED
  BY <1>1, <1>2, Processes, PoolAssumption DEF Slot, PoolInv, Counted

\* Every step keeps the jobs different.
LEMMA JobsStep ==
  ASSUME PoolInv, Places, Homes, Tame, Open, SlotsInv, Jobs, Contents,
         [Next]_vars
  PROVE  Jobs'
<1>t. Bounds /\ Owned /\ Token
  BY DEF SlotsInv
<1>y. /\ pc \in [Proc -> Labels] /\ idx \in [Proc -> 0..Max] /\ TypeOK
      /\ job \in [Callers \union Worker -> Task] /\ calls \in Nat
      /\ work \in [Slot -> Written] /\ desc \in [Slot -> Written]
      /\ ran \in [Job -> 0..2] /\ Written \subseteq Nat
  BY PoolAssumption DEF PoolInv, TypeOK, Written, Job, Garbage
<1>j. /\ \A j \in Job : j > calls => ran[j] = 0
      /\ \A i \in Slot : work[i] <= calls /\ desc[i] <= calls
      /\ \A i, k \in Slot : work[i] = work[k] /\ work[i] # Garbage => i = k
  BY DEF Jobs
<1>k. \A c \in Callers : pc[c] # "idle" =>
        job[c].work \in 1..calls /\ job[c].desc = job[c].work
  BY DEF Jobs
<1>n. \A c \in Callers : pc[c] = "idle" => job[c] = None
  BY DEF Jobs
<1>l. \A c, d \in Callers :
        pc[c] # "idle" /\ job[c].work = job[d].work => c = d
  BY DEF Jobs
<1>m. \A c \in Callers : pc[c] \in Offering =>
        /\ ran[job[c].work] = 0
        /\ \A i \in Slot : /\ desc[i] # job[c].work
                           /\ work[i] = job[c].work => pc[c] = "desc" /\ i = idx[c]
  BY DEF Jobs
<1>1. ASSUME NEW c \in Callers, ProcessJob(c) PROVE Jobs'
  <2>1. /\ pc[c] = "idle" /\ calls' = calls + 1 /\ calls + 1 \in Job
        /\ job' = [job EXCEPT ![c] = [work |-> calls + 1, desc |-> calls + 1]]
        /\ pc' = [pc EXCEPT ![c] = "scan"] /\ c \in Proc
        /\ UNCHANGED <<idx, work, desc, ran>>
    BY <1>1, <1>y, Processes, PoolAssumption
    DEF ProcessJob, Goto, memory, slots, Job
  <2>2. /\ job'[c].work = calls + 1 /\ job'[c].desc = calls + 1 /\ pc'[c] = "scan"
        /\ \A d \in Callers : d # c => job'[d] = job[d] /\ pc'[d] = pc[d]
    BY <2>1, <1>y, Processes
  <2>3. \A j \in Job : j > calls' => ran'[j] = 0
    BY <2>1, <1>j, <1>y DEF Job
  <2>4. \A i \in Slot : work'[i] <= calls' /\ desc'[i] <= calls'
    <3>1. \A n \in Nat : n <= calls => n <= calls + 1
      BY <1>y
    <3>2. \A i \in Slot : work[i] \in Nat /\ desc[i] \in Nat
      BY <1>y
    <3> QED
      BY <3>1, <3>2, <2>1, <1>j
  <2>5. \A d \in Callers : pc'[d] # "idle" =>
          job'[d].work \in 1..calls' /\ job'[d].desc = job'[d].work
    BY <2>1, <2>2, <1>k, <1>y
  <2>6. \A d \in Callers : pc[d] # "idle" => job[d].work # calls + 1
    BY <1>k, <1>y
  <2>7. \A d, e \in Callers :
          pc'[d] # "idle" /\ job'[d].work = job'[e].work => d = e
    <3>1. \A e \in Callers : job[e].work # calls + 1
      BY <2>6, <1>n, <1>y DEF None, Garbage
    <3> QED
      BY <2>1, <2>2, <2>6, <3>1, <1>l
  <2>8. \A d \in Callers : pc'[d] \in Offering =>
          /\ ran'[job'[d].work] = 0
          /\ \A i \in Slot :
               /\ desc'[i] # job'[d].work
               /\ work'[i] = job'[d].work => pc'[d] = "desc" /\ i = idx'[d]
    <3>1. ran[calls + 1] = 0
      BY <2>1, <1>j, <1>y
    <3>2. \A i \in Slot : work[i] # calls + 1 /\ desc[i] # calls + 1
      BY <1>j, <1>y
    <3> QED
      BY <3>1, <3>2, <2>1, <2>2, <1>m DEF Offering
  <2>9. \A d \in Callers : pc'[d] = "idle" => job'[d] = None
    BY <2>2, <1>n
  <2> QED
    BY <2>1, <2>3, <2>4, <2>5, <2>7, <2>8, <2>9, <1>j DEF Jobs
<1>2. ASSUME NEW c \in Callers, J_Work(c) PROVE Jobs'
  <2>1. /\ pc[c] = "work" /\ pc' = [pc EXCEPT ![c] = "desc"] /\ c \in Proc
        /\ work' = [work EXCEPT ![idx[c]] = job[c].work] /\ idx[c] \in Slot
        /\ UNCHANGED <<idx, desc, ran, calls, job>>
    BY <1>2, <1>t, InSlot, Processes DEF J_Work, Move, Goto, local, world
  <2>2. /\ pc'[c] = "desc" /\ \A d \in Callers : d # c => pc'[d] = pc[d]
        /\ work'[idx[c]] = job[c].work
        /\ \A i \in Slot : i # idx[c] => work'[i] = work[i]
    BY <2>1, <1>y, Processes
  <2>3. \A i \in Slot : work[i] # job[c].work
    BY <2>1, <1>m DEF Offering
  <2>4. /\ \A i \in Slot : work'[i] <= calls' /\ desc'[i] <= calls'
        /\ \A i, k \in Slot : work'[i] = work'[k] /\ work'[i] # Garbage => i = k
    BY <2>1, <2>2, <2>3, <1>j, <1>k, <1>y
  <2>5. \A d \in Callers : pc'[d] # "idle" =>
          pc[d] # "idle" /\ (d # c => job[d].work # job[c].work)
    BY <2>1, <2>2, <1>l
  <2>6. \A d \in Callers : pc'[d] \in Offering =>
          /\ ran'[job'[d].work] = 0
          /\ \A i \in Slot :
               /\ desc'[i] # job'[d].work
               /\ work'[i] = job'[d].work => pc'[d] = "desc" /\ i = idx'[d]
    <3>1. "work" \in Offering /\ "idle" \notin Offering
      BY DEF Offering
    <3>2. \A d \in Callers : pc'[d] \in Offering => pc[d] \in Offering
      BY <3>1, <2>1, <2>2
    <3>3. \A d \in Callers, i \in Slot :
            pc'[d] \in Offering /\ work'[i] = job[d].work => pc'[d] = "desc" /\ i = idx[d]
      BY <3>1, <3>2, <2>1, <2>2, <2>3, <2>5, <1>m
    <3> QED
      BY <3>2, <3>3, <2>1, <1>m
  <2>7. \A d \in Callers : pc'[d] = "idle" => pc[d] = "idle"
    BY <2>2
  <2> QED
    BY <2>1, <2>4, <2>5, <2>6, <2>7, <1>j, <1>k, <1>l, <1>n DEF Jobs
<1>3. ASSUME NEW c \in Callers, J_Desc(c) PROVE Jobs'
  <2>1. /\ pc[c] = "desc" /\ pc'[c] \in {"addunlock", "signal"} /\ c \in Proc
        /\ \A d \in Callers : d # c => pc'[d] = pc[d]
        /\ desc' = [desc EXCEPT ![idx[c]] = job[c].desc] /\ idx[c] \in Slot
        /\ UNCHANGED <<idx, work, ran, calls, job>>
    BY <1>3, <1>y, <1>t, InSlot, Processes DEF J_Desc, Move, Goto, local, world
  <2>2. /\ desc'[idx[c]] = job[c].work
        /\ \A i \in Slot : i # idx[c] => desc'[i] = desc[i]
    BY <2>1, <1>k, <1>y
  <2>3. \A i \in Slot : work'[i] <= calls' /\ desc'[i] <= calls'
    BY <2>1, <2>2, <1>j, <1>k, <1>y
  <2>4. \A d \in Callers : pc'[d] # "idle" => pc[d] # "idle"
    BY <2>1
  <2>5. \A d \in Callers : pc'[d] \in Offering => pc[d] \in Offering /\ d # c
    BY <2>1 DEF Offering
  <2>6. \A d \in Callers : pc'[d] \in Offering => job[d].work # job[c].work
    BY <2>1, <2>5, <1>l
  <2>7. \A d \in Callers : pc'[d] \in Offering =>
          /\ ran'[job'[d].work] = 0
          /\ \A i \in Slot :
               /\ desc'[i] # job'[d].work
               /\ work'[i] = job'[d].work => pc'[d] = "desc" /\ i = idx'[d]
    BY <2>1, <2>2, <2>5, <2>6, <1>m
  <2>8. \A d \in Callers : pc'[d] = "idle" => pc[d] = "idle"
    BY <2>1
  <2> QED
    BY <2>1, <2>3, <2>4, <2>7, <2>8, <1>j, <1>k, <1>l, <1>n DEF Jobs
<1>4. ASSUME NEW w \in Worker, W_Run(w) PROVE Jobs'
  <2>1. /\ pc[w] = "run" /\ w \in Proc /\ idx[w] \in Slot
        /\ job[w].work = work[idx[w]] /\ work[idx[w]] # Garbage
    BY <1>4, <1>t, InSlot, Processes DEF W_Run, Contents
  <2>2. /\ job[w].work \in Job /\ job[w].work <= calls
        /\ UNCHANGED <<idx, work, desc, calls>>
        /\ ran' = [ran EXCEPT ![job[w].work] = IF @ = 0 THEN 1 ELSE 2]
        /\ \A c \in Callers : pc'[c] = pc[c] /\ job'[c] = job[c]
    BY <1>4, <2>1, <1>y, <1>j, Processes
    DEF W_Run, Goto, memory, slots, local, world, Written, Garbage
  <2>3. \A j \in Job : j # job[w].work => ran'[j] = ran[j]
    BY <2>2, <1>y
  <2>4. \A j \in Job : j > calls' => ran'[j] = 0
    BY <2>2, <2>3, <1>j, <1>y DEF Job
  <2>5. \A c \in Callers : pc[c] \in Offering => job[c].work # job[w].work
    <3> SUFFICES ASSUME NEW c \in Callers, pc[c] \in Offering,
                        job[c].work = work[idx[w]]
                 PROVE  FALSE
      BY <2>1
    <3>1. pc[c] = "desc" /\ idx[c] = idx[w]
      BY <2>1, <1>m
    <3>2. pc[c] \in Claimed \union Served /\ pc[w] \in Claimed \union Served
      BY <3>1, <2>1 DEF Claimed, Served
    <3>3. c = w
      BY <3>1, <3>2, <2>1, <1>t, Apart, Processes
    <3> QED
      BY <3>1, <3>3, <2>1
  <2>6. \A c \in Callers : pc[c] \in Offering => job[c].work \in Job
    BY <1>k, <1>y, PoolAssumption DEF PoolInv, TypeOK, Job, Offering
  <2>7. \A c \in Callers : pc'[c] \in Offering =>
          /\ ran'[job'[c].work] = 0
          /\ \A i \in Slot :
               /\ desc'[i] # job'[c].work
               /\ work'[i] = job'[c].work => pc'[c] = "desc" /\ i = idx'[c]
    BY <2>2, <2>3, <2>5, <2>6, <1>m
  <2> QED
    BY <2>2, <2>4, <2>7, <1>j, <1>k, <1>l, <1>n DEF Jobs
<1>5. CASE NoJobs
  BY <1>5, JobsQuietStep, JobsRest
<1> QED
  BY <1>1, <1>2, <1>3, <1>4, <1>5 DEF NoJobs

\* What a slot holds, restated by the labels of Before, Stored and Taken.
LEMMA ContentsParts ==
  Contents <=>
    /\ \A i \in Slot : work[i] = desc[i]
                       \/ \E c \in Callers : pc[c] = "desc" /\ idx[c] = i
    /\ \A i \in Slot : ~busy[i] \/ i >= cur => Settled(i)
    /\ \A p \in Proc : pc[p] \in Before => Settled(idx[p])
    /\ \A c \in Callers : pc[c] = "desc" => work[idx[c]] = job[c].work
    /\ \A c \in Callers : pc[c] \in Stored /\ idx[c] < Max =>
         work[idx[c]] # Garbage /\ ran[work[idx[c]]] = 0
    /\ \A w \in Worker : pc[w] \in Taken =>
         /\ work[idx[w]] # Garbage /\ ran[work[idx[w]]] = 0
         /\ pc[w] \in {"readdesc", "run"} => job[w].work = work[idx[w]]
         /\ pc[w] = "run" => job[w].desc = desc[idx[w]]
  BY DEF Contents, Before, Stored, Taken

\* A step that changes neither jobs nor slots: only p moves, others at most stop.
LEMMA ContentsMoved ==
  ASSUME Contents, UNCHANGED <<work, desc, ran>>, NEW p \in Proc,
         \A q \in Proc : q # p =>
           \/ pc'[q] = pc[q] /\ idx'[q] = idx[q]
              /\ (q \in Callers \union Worker => job'[q] = job[q])
           \/ pc[q] = "signal" /\ pc'[q] = "idle",
         \A i \in Slot : ~busy'[i] \/ i >= cur' => Settled(i),
         pc[p] # "desc", pc'[p] # "desc",
         pc'[p] \in Before => Settled(idx'[p]),
         pc'[p] \in Stored => p \notin Callers,
         pc'[p] \in Taken /\ p \in Worker =>
           /\ work[idx'[p]] # Garbage /\ ran[work[idx'[p]]] = 0
           /\ pc'[p] \in {"readdesc", "run"} => job'[p].work = work[idx'[p]]
           /\ pc'[p] = "run" => job'[p].desc = desc[idx'[p]]
  PROVE  Contents'
<1>z. {"signal", "idle"} \intersect (Before \union Taken \union {"desc"}) = {}
      /\ "idle" \notin Stored
  BY DEF Before, Stored, Taken
<1>1. \A i \in Slot : work'[i] = desc'[i]
                       \/ \E c \in Callers : pc'[c] = "desc" /\ idx'[c] = i
  BY Processes, <1>z DEF Contents
<1>2. \A i \in Slot : ~busy'[i] \/ i >= cur' => Settled(i)'
  BY DEF Settled
<1>3. \A q \in Proc : pc'[q] \in Before => Settled(idx[q])'
  BY <1>z, ContentsParts DEF Settled
<1>4. \A c \in Callers : pc'[c] = "desc" => work'[idx'[c]] = job'[c].work
  BY Processes, <1>z DEF Contents
<1>5. \A c \in Callers : pc'[c] \in Stored /\ idx'[c] < Max =>
        work'[idx'[c]] # Garbage /\ ran'[work'[idx'[c]]] = 0
  BY Processes, <1>z, ContentsParts
<1>6. \A w \in Worker : pc'[w] \in Taken =>
        /\ work'[idx'[w]] # Garbage /\ ran'[work'[idx'[w]]] = 0
        /\ pc'[w] \in {"readdesc", "run"} => job'[w].work = work'[idx'[w]]
        /\ pc'[w] = "run" => job'[w].desc = desc'[idx'[w]]
  BY Processes, <1>z, ContentsParts
<1> QED
  BY <1>1, <1>2, <1>3, <1>4, <1>5, <1>6 DEF Contents, Before, Stored, Taken

\* Every step keeps what is known of the slots' contents.
LEMMA ContentsStep ==
  ASSUME PoolInv, Places, Homes, Tame, Open, SlotsInv, Jobs, Contents,
         [Next]_vars
  PROVE  Contents'
<1>t. Bounds /\ Owned /\ Token
  BY DEF SlotsInv
<1>y. /\ pc \in [Proc -> Labels] /\ idx \in [Proc -> 0..Max] /\ TypeOK
      /\ job \in [Callers \union Worker -> Task] /\ calls \in Nat
      /\ work \in [Slot -> Written] /\ desc \in [Slot -> Written]
      /\ busy \in [Slot -> BOOLEAN] /\ cur \in Min..Max
      /\ ran \in [Job -> 0..2] /\ Written \subseteq Nat
  BY PoolAssumption DEF PoolInv, TypeOK, Written, Job, Garbage
<1>z. /\ Before \intersect Stored = {} /\ Before \intersect Taken = {}
      /\ "desc" \notin Before \union Stored \union Taken
      /\ Before \union Stored \union Taken \union {"desc"} \subseteq Claimed \union Served
  BY DEF Before, Stored, Taken, Claimed, Served
<1>a. \A p, q \in Proc :
        /\ pc[p] \in Claimed \union Served /\ pc[q] \in Claimed \union Served
           /\ idx[p] \in Slot /\ idx[p] = idx[q]
        => p = q /\ busy[idx[p]]
  BY <1>t, Apart
<1>b. /\ \A i \in Slot : work[i] = desc[i]
                         \/ \E c \in Callers : pc[c] = "desc" /\ idx[c] = i
      /\ \A i \in Slot : ~busy[i] \/ i >= cur => Settled(i)
      /\ \A p \in Proc : pc[p] \in Before => Settled(idx[p])
      /\ \A c \in Callers : pc[c] = "desc" => work[idx[c]] = job[c].work
      /\ \A c \in Callers : pc[c] \in Stored /\ idx[c] < Max =>
           work[idx[c]] # Garbage /\ ran[work[idx[c]]] = 0
  BY ContentsParts
<1>c. \A w \in Worker : pc[w] \in Taken =>
        /\ work[idx[w]] # Garbage /\ ran[work[idx[w]]] = 0
        /\ pc[w] \in {"readdesc", "run"} => job[w].work = work[idx[w]]
        /\ pc[w] = "run" => job[w].desc = desc[idx[w]]
  BY ContentsParts
<1>p. /\ \A c \in Callers : pc[c] \in CallerPcs
      /\ \A w \in Worker : pc[w] \in WorkerPcs
      /\ pc[Main] \notin Before /\ pc[Manager] \notin Before
  BY DEF Places, Steady, Before, MainPcs
<1> HIDE DEF Proc, Worker, Slot
<1>1. ASSUME NEW c \in Callers, J_Claim(c) PROVE Contents'
  <2>1. /\ pc[c] = "claim" /\ pc' = [pc EXCEPT ![c] = "work"] /\ c \in Proc
        /\ busy' = [busy EXCEPT ![idx[c]] = TRUE] /\ idx[c] \in Slot
        /\ ~busy[idx[c]]
        /\ UNCHANGED <<idx, work, desc, ran, job, cur>>
    BY <1>1, <1>t, InSlot, Processes
    DEF J_Claim, Move, Goto, local, world, Owned
  <2>2. "work" \notin Stored /\ "work" \notin Taken
    BY DEF Stored, Taken
  <2>3. \A i \in Slot : ~busy'[i] \/ i >= cur' => Settled(i)
    BY <2>1, <1>b, <1>y
  <2>4. Settled(idx'[c])
    BY <2>1, <1>b
  <2> QED
    BY <2>1, <2>2, <2>3, <2>4, <1>y, ContentsMoved
<1>2. ASSUME NEW c \in Callers, J_Fresh(c) PROVE Contents'
  <2>1. /\ pc[c] = "fresh" /\ pc' = [pc EXCEPT ![c] = "inc"] /\ c \in Proc
        /\ idx' = [idx EXCEPT ![c] = cur]
        /\ busy' = [busy EXCEPT ![cur] = TRUE] /\ cur \in Slot
        /\ UNCHANGED <<work, desc, ran, job, cur>>
    BY <1>2, <1>y, PoolAssumption, FreshStep, Processes
    DEF world, Slot, PoolInv, Counted
  <2>2. "inc" \notin Stored /\ "inc" \notin Taken
    BY DEF Stored, Taken
  <2>3. Settled(cur)
    BY <2>1, <1>b, <1>y, PoolAssumption
  <2>4. \A i \in Slot : ~busy'[i] \/ i >= cur' => Settled(i)
    BY <2>1, <1>b, <1>y
  <2>5. idx'[c] = cur
    BY <2>1, <1>y
  <2> QED
    BY <2>1, <2>2, <2>3, <2>4, <2>5, <1>y, ContentsMoved
<1>3. ASSUME NEW w \in Worker, W_ReadWork(w) PROVE Contents'
  <2>1. /\ pc[w] = "readwork" /\ pc' = [pc EXCEPT ![w] = "readdesc"] /\ w \in Proc
        /\ job' = [job EXCEPT ![w].work = work[idx[w]]]
        /\ UNCHANGED <<idx, busy, work, desc, ran, cur>>
    BY <1>3, Processes DEF W_ReadWork, Move, Goto, memory, slots, world
  <2>2. /\ "readdesc" \notin Stored /\ "readdesc" \notin Before
        /\ "readwork" \in Taken
    BY DEF Stored, Taken, Before
  <2>3. job'[w].work = work[idx[w]] /\ \A q \in Callers \union Worker : q # w => job'[q] = job[q]
    BY <2>1, <1>y DEF Task
  <2> QED
    BY <2>1, <2>2, <2>3, <1>b, <1>c, <1>y, ContentsMoved
<1>4. ASSUME NEW w \in Worker, W_ReadDesc(w) PROVE Contents'
  <2>1. /\ pc[w] = "readdesc" /\ pc' = [pc EXCEPT ![w] = "run"] /\ w \in Proc
        /\ job' = [job EXCEPT ![w].desc = desc[idx[w]]]
        /\ UNCHANGED <<idx, busy, work, desc, ran, cur>>
    BY <1>4, Processes DEF W_ReadDesc, Move, Goto, memory, slots, world
  <2>2. /\ "run" \notin Stored /\ "run" \notin Before
        /\ "readdesc" \in Taken
    BY DEF Stored, Taken, Before
  <2>3. /\ job'[w].work = job[w].work /\ job'[w].desc = desc[idx[w]]
        /\ \A q \in Callers \union Worker : q # w => job'[q] = job[q]
    BY <2>1, <1>y DEF Task
  <2> QED
    BY <2>1, <2>2, <2>3, <1>b, <1>c, <1>y, ContentsMoved
<1>5. ASSUME NEW w \in Worker, W_Clear(w) PROVE Contents'
  <2>1. /\ pc[w] = "clear" /\ pc' = [pc EXCEPT ![w] = "reunlock"] /\ w \in Proc
        /\ busy' = [busy EXCEPT ![idx[w]] = FALSE]
        /\ UNCHANGED <<idx, job, work, desc, ran, cur>>
    BY <1>5, Processes DEF W_Clear, Move, Goto, local, world
  <2>2. "reunlock" \notin Before \union Stored \union Taken /\ "clear" \in Before
    BY DEF Stored, Taken, Before
  <2>3. \A i \in Slot : ~busy'[i] \/ i >= cur' => Settled(i)
    BY <2>1, <2>2, <1>b, <1>y
  <2> QED
    BY <2>1, <2>2, <2>3, <1>y, ContentsMoved
<1>6. ASSUME NEW c \in Callers, J_Signal(c) PROVE Contents'
  <2>1. /\ pc[c] = "signal" /\ pc'[c] = "idle" /\ c \in Proc
        /\ \A p \in Proc : p \notin Worker /\ p # c => pc'[p] = pc[p]
        /\ idx' = [idx EXCEPT ![c] = 0] /\ job' = [job EXCEPT ![c] = None]
        /\ UNCHANGED <<busy, work, desc, ran, cur>>
    BY <1>6, <1>y, SignalStep, Processes DEF memory, slots, world
  <2>2. \A w \in Worker : pc'[w] # pc[w] =>
          pc[w] = "waiting" /\ idx[w] = idx[c] /\ pc'[w] = "woken"
    BY <1>6, <1>y, <1>t, SignalStep DEF Bounds
  <2>3. CASE \A w \in Worker : pc'[w] = pc[w]
    <3>1. \A q \in Proc : q # c => pc'[q] = pc[q] /\ idx'[q] = idx[q]
            /\ (q \in Callers \union Worker => job'[q] = job[q])
      BY <2>1, <2>3, <1>y
    <3>2. "idle" \notin Before \union Stored \union Taken
      BY DEF Before, Stored, Taken
    <3> QED
      BY <2>1, <3>1, <3>2, <1>b, ContentsMoved
  <2>4. ASSUME NEW w \in Worker, pc'[w] # pc[w] PROVE Contents'
    <3>1. pc[w] = "waiting" /\ idx[w] = idx[c] /\ pc'[w] = "woken" /\ idx[w] \in Slot
          /\ w \in Proc /\ w # c
      BY <2>2, <2>4, <1>t, InSlot, Processes
    <3>2. \A q \in Worker : q # w => pc'[q] = pc[q]
      BY <2>2, <3>1 DEF Homes, EverySlotServed
    <3>3. \A q \in Proc : q # w =>
            \/ pc'[q] = pc[q] /\ idx'[q] = idx[q]
               /\ (q \in Callers \union Worker => job'[q] = job[q])
            \/ pc[q] = "signal" /\ pc'[q] = "idle"
      BY <2>1, <3>2, <1>y
    <3>4. work[idx'[w]] # Garbage /\ ran[work[idx'[w]]] = 0
      <4>1. pc[c] \in Stored /\ idx[c] < Max /\ idx'[w] = idx[c]
        BY <2>1, <3>1, <1>y DEF Stored, Slot, PoolInv, Counted
      <4> QED
        BY <4>1, <1>b
    <3>5. "woken" \notin Before \union Stored
      BY DEF Before, Stored
    <3> QED
      BY <2>1, <3>1, <3>3, <3>4, <3>5, <1>b, ContentsMoved
  <2> QED
    BY <2>3, <2>4
<1>7. ASSUME NEW c \in Callers, J_Work(c) PROVE Contents'
  <2>1. /\ pc[c] = "work" /\ pc' = [pc EXCEPT ![c] = "desc"] /\ c \in Proc
        /\ work' = [work EXCEPT ![idx[c]] = job[c].work] /\ idx[c] \in Slot
        /\ UNCHANGED <<idx, busy, desc, ran, cur, job>>
    BY <1>7, <1>t, InSlot, Processes DEF J_Work, Move, Goto, local, world
  <2>2. /\ pc'[c] = "desc" /\ \A q \in Proc : q # c => pc'[q] = pc[q]
        /\ work'[idx[c]] = job[c].work
        /\ \A i : i # idx[c] => work'[i] = work[i]
    BY <2>1, <1>y
  <2>3. "work" \in Before /\ busy[idx[c]] /\ ~(idx[c] >= cur)
    BY <2>1, <1>z, <1>a, <1>t, <1>y DEF Before, Bounds
  <2>4. \A q \in Proc : q # c /\ pc'[q] \in Before \union Stored \union Taken \union {"desc"}
                          => pc[q] = pc'[q] /\ idx[q] # idx[c]
    BY <2>1, <2>2, <2>3, <1>z, <1>a
  <2>5. \A i \in Slot : work'[i] = desc'[i]
                       \/ \E d \in Callers : pc'[d] = "desc" /\ idx'[d] = i
    BY <2>1, <2>2, <1>b, Processes
  <2>6. \A i \in Slot : ~busy'[i] \/ i >= cur' => Settled(i)'
    BY <2>1, <2>2, <2>3, <1>b DEF Settled
  <2>7. \A q \in Proc : pc'[q] \in Before => Settled(idx[q])'
    BY <2>1, <2>2, <2>4, <1>b, <1>z DEF Settled
  <2>8. \A d \in Callers : pc'[d] = "desc" => work'[idx'[d]] = job'[d].work
    BY <2>1, <2>2, <2>4, <1>b, Processes
  <2>9. \A d \in Callers : pc'[d] \in Stored /\ idx'[d] < Max =>
          work'[idx'[d]] # Garbage /\ ran'[work'[idx'[d]]] = 0
    BY <2>1, <2>2, <2>4, <1>b, <1>z, Processes
  <2>10. \A w \in Worker : pc'[w] \in Taken =>
          /\ work'[idx'[w]] # Garbage /\ ran'[work'[idx'[w]]] = 0
          /\ pc'[w] \in {"readdesc", "run"} => job'[w].work = work'[idx'[w]]
          /\ pc'[w] = "run" => job'[w].desc = desc'[idx'[w]]
    BY <2>1, <2>2, <2>4, <1>c, <1>z, Processes
  <2> QED
    BY <2>5, <2>6, <2>7, <2>8, <2>9, <2>10 DEF Contents, Before, Stored, Taken
<1>8. ASSUME NEW c \in Callers, J_Desc(c) PROVE Contents'
  <2>1. /\ pc[c] = "desc" /\ pc'[c] \in Stored /\ c \in Proc
        /\ \A q \in Proc : q # c => pc'[q] = pc[q]
        /\ desc' = [desc EXCEPT ![idx[c]] = job[c].desc] /\ idx[c] \in Slot
        /\ UNCHANGED <<idx, busy, work, ran, cur, job>>
    BY <1>8, <1>y, <1>t, InSlot, Processes
    DEF J_Desc, Move, Goto, local, world, Stored
  <2>2. /\ job[c].desc = work[idx[c]] /\ work[idx[c]] # Garbage
        /\ ran[work[idx[c]]] = 0
    <3>1. job[c].desc = job[c].work /\ job[c].work # Garbage
      BY <2>1, <1>y DEF Jobs, Garbage
    <3>2. ran[job[c].work] = 0
      BY <2>1 DEF Jobs, Offering
    <3> QED
      BY <3>1, <3>2, <2>1, <1>b
  <2>3. desc'[idx[c]] = work[idx[c]] /\ \A i : i # idx[c] => desc'[i] = desc[i]
    BY <2>1, <2>2, <1>y
  <2>4. \A q \in Proc : q # c /\ pc'[q] \in Before \union Stored \union Taken \union {"desc"}
                          => pc[q] = pc'[q] /\ idx[q] # idx[c]
    BY <2>1, <1>z, <1>a
  <2>5. \A i \in Slot : work'[i] = desc'[i]
                       \/ \E d \in Callers : pc'[d] = "desc" /\ idx'[d] = i
    BY <2>1, <2>3, <1>b, Processes
  <2>6. \A i \in Slot : ~busy'[i] \/ i >= cur' => Settled(i)'
    BY <2>1, <1>b DEF Settled
  <2>7. \A q \in Proc : pc'[q] \in Before => Settled(idx[q])'
    BY <2>1, <2>4, <1>b, <1>z DEF Settled
  <2>8. \A d \in Callers : pc'[d] = "desc" => work'[idx'[d]] = job'[d].work
    BY <2>1, <2>4, <1>b, <1>z, Processes
  <2>9. \A d \in Callers : pc'[d] \in Stored /\ idx'[d] < Max =>
          work'[idx'[d]] # Garbage /\ ran'[work'[idx'[d]]] = 0
    BY <2>1, <2>2, <2>4, <1>b, <1>z, Processes
  <2>10. \A w \in Worker : pc'[w] \in Taken =>
          /\ work'[idx'[w]] # Garbage /\ ran'[work'[idx'[w]]] = 0
          /\ pc'[w] \in {"readdesc", "run"} => job'[w].work = work'[idx'[w]]
          /\ pc'[w] = "run" => job'[w].desc = desc'[idx'[w]]
    BY <2>1, <2>3, <2>4, <1>c, <1>z, Processes
  <2> QED
    BY <2>5, <2>6, <2>7, <2>8, <2>9, <2>10 DEF Contents, Before, Stored, Taken
<1>9. ASSUME NEW w \in Worker, W_Run(w) PROVE Contents'
  <2>1. /\ pc[w] = "run" /\ w \in Proc /\ idx[w] \in Slot /\ pc[w] \in Taken
        /\ job[w].work = work[idx[w]] /\ work[idx[w]] # Garbage
    BY <1>9, <1>t, <1>c, InSlot, Processes DEF W_Run, Taken
  <2>2. /\ job[w].work \in Job /\ pc'[w] = "relock"
        /\ UNCHANGED <<idx, work, desc, busy, cur>>
        /\ ran' = [ran EXCEPT ![job[w].work] = IF @ = 0 THEN 1 ELSE 2]
        /\ \A q \in Proc : q # w => pc'[q] = pc[q]
        /\ \A q \in Callers \union Worker : q # w => job'[q] = job[q]
    BY <1>9, <2>1, <1>y, Processes
    DEF W_Run, Goto, memory, slots, local, world, Written
  <2>3. /\ \A j \in Job : j # job[w].work => ran'[j] = ran[j]
        /\ \A j \in Job : ran[j] > 0 => ran'[j] > 0
        /\ ran'[job[w].work] > 0
    BY <2>2, <1>y
  <2>4. \A i \in Slot : work[i] # Garbage => work[i] \in Job
    BY <1>y DEF Written, Garbage
  <2>5. \A i \in Slot : i # idx[w] /\ work[i] # Garbage => ran'[work[i]] = ran[work[i]]
    BY <2>1, <2>3, <2>4 DEF Jobs
  <2>6. \A i \in Slot : Settled(i) => Settled(i)'
    BY <2>2, <2>3, <2>4 DEF Settled
  <2>7. \A q \in Proc : q # w /\ pc'[q] \in Before \union Stored \union Taken \union {"desc"}
                          => pc[q] = pc'[q] /\ idx[q] # idx[w]
    BY <2>1, <2>2, <1>z, <1>a
  <2>8. "relock" \notin Stored \union Taken \union {"desc"}
    BY DEF Stored, Taken
  <2>9. \A i \in Slot : work'[i] = desc'[i]
                       \/ \E d \in Callers : pc'[d] = "desc" /\ idx'[d] = i
    BY <2>1, <2>2, <1>b, Processes
  <2>10. \A i \in Slot : ~busy'[i] \/ i >= cur' => Settled(i)'
    BY <2>2, <2>6, <1>b
  <2>11. \A q \in Proc : pc'[q] \in Before => Settled(idx[q])'
    <3>1. \A q \in Proc : q # w /\ pc'[q] \in Before => Settled(idx[q])
      BY <2>7, <1>b
    <3>2. \A q \in Proc : q # w /\ pc'[q] \in Before => idx[q] \in Slot
      <4>1. \A c \in Callers :
              pc[c] \in {"inc", "incstore", "create", "index", "work"} => idx[c] \in Slot
        <5>1. \A c \in Callers : pc[c] \in {"inc", "incstore", "create", "index", "work"}
                 => idx[c] \in 0..Max /\ cur \in Min..Max
          BY <1>y, Processes
        <5>2. \A c \in Callers : pc[c] = "inc" => cur < Max
          BY DEF PoolInv, Counted
        <5>3. \A c \in Callers : pc[c] = "incstore" => cur < Max
          BY <5>1, PoolAssumption DEF PoolInv, Counted, Homes
        <5>4. \A c \in Callers :
                /\ pc[c] \in {"inc", "incstore"} => idx[c] = cur
                /\ pc[c] \in {"create", "index"} => idx[c] = cur - 1
          BY DEF Homes
        <5> QED
          BY <5>1, <5>2, <5>3, <5>4, <1>t, InSlot, PoolAssumption DEF Slot
      <4>2. \A c \in Callers : pc[c] \in Before =>
              pc[c] \in {"inc", "incstore", "create", "index", "work"}
        BY <1>p DEF Before, CallerPcs
      <4> QED
        BY <4>1, <4>2, <2>2, <1>t, <1>p, InSlot DEF Proc
    <3>3. \A q \in Proc : q # w /\ pc'[q] \in Before => Settled(idx[q])'
      BY <3>1, <3>2, <2>2, <2>6 DEF Settled
    <3>4. Settled(idx[w])'
      BY <2>1, <2>2, <2>3 DEF Settled
    <3> QED
      BY <3>3, <3>4
  <2>12. \A d \in Callers : pc'[d] = "desc" => work'[idx'[d]] = job'[d].work
    BY <2>2, <1>b, Processes
  <2>13. \A d \in Callers : pc'[d] \in Stored /\ idx'[d] < Max =>
          work'[idx'[d]] # Garbage /\ ran'[work'[idx'[d]]] = 0
    <3>1. \A d \in Callers : pc'[d] \in Stored /\ idx'[d] < Max =>
            idx[d] \in Slot /\ pc[d] \in Stored /\ idx[d] # idx[w]
      BY <2>2, <2>7, <1>y, Processes, PoolAssumption DEF Slot
    <3> QED
      BY <3>1, <2>2, <2>5, <1>b
  <2>14. \A v \in Worker : pc'[v] \in Taken =>
          /\ work'[idx'[v]] # Garbage /\ ran'[work'[idx'[v]]] = 0
          /\ pc'[v] \in {"readdesc", "run"} => job'[v].work = work'[idx'[v]]
          /\ pc'[v] = "run" => job'[v].desc = desc'[idx'[v]]
    <3>1. \A v \in Worker : pc'[v] \in Taken =>
            v # w /\ pc[v] = pc'[v] /\ idx[v] # idx[w] /\ idx[v] \in Slot
      BY <2>2, <2>7, <2>8, <1>t, InSlot, Processes
    <3> QED
      BY <3>1, <2>2, <2>5, <1>c
  <2> QED
    BY <2>9, <2>10, <2>11, <2>12, <2>13, <2>14
    DEF Contents, Before, Stored, Taken
<1>10. CASE NoContents
  BY <1>10, ContentsQuietStep, ContentsRest
<1> QED
  BY <1>1, <1>2, <1>3, <1>4, <1>5, <1>6, <1>7, <1>8, <1>9, <1>10 DEF NoContents

\* There are no jobs at first.
LEMMA JobsInit == Init => Jobs /\ Contents
<1> SUFFICES ASSUME Init PROVE Jobs /\ Contents
  OBVIOUS
<1>1. /\ \A p \in Proc : pc[p] \in {"init", "idle", "unborn"}
      /\ \A c \in Callers : pc[c] = "idle" /\ job[c] = None
      /\ \A i \in Slot : work[i] = Garbage /\ desc[i] = Garbage
      /\ \A j \in Job : ran[j] = 0
      /\ calls = 0
  BY Processes DEF Init
<1>2. Jobs
  BY <1>1 DEF Jobs, Offering, Garbage
<1>3. Contents
  BY <1>1, Processes DEF Contents, Settled
<1> QED
  BY <1>2, <1>3

\* Slots and jobs, as they are from creat_thread_pool until tp_close.
THEOREM PoolJobs ==
  Spec /\ []Tame => [](PoolInv /\ Places /\ Homes /\ SlotsInv /\ JobsInv)
<1> DEFINE I == PoolInv /\ Places /\ Homes /\ SlotsInv
           J == I /\ JobsInv
<1>1. Init => J
  BY InitInv, HomesInit, SlotsInit, JobsInit DEF JobsInv
<1>2. J /\ Tame /\ Tame' /\ [Next]_vars => J'
  <2> SUFFICES ASSUME J, Tame, Tame', [Next]_vars PROVE J'
    OBVIOUS
  <2>1. I'
    BY TypeStep, CountedStep, PlacesStep, HomesStep, SlotsStep DEF PoolInv,
       Tame
  <2>2. ASSUME Open' PROVE Jobs' /\ Contents'
    <3>1. Open /\ Jobs /\ Contents
      BY <2>2, OpenStep DEF JobsInv
    <3> QED
      BY <3>1, JobsStep, ContentsStep
  <2> QED
    BY <2>1, <2>2 DEF JobsInv
<1> HIDE DEF J
<1>3. Spec /\ []Tame => []J
  BY <1>1, <1>2, PTL DEF Spec
<1> QED
  BY <1>3, PTL DEF J

\* Nor does, until one of these happens, any worker run the function of one job
\* with the argument of another, although th_work and th_job are written and read in two
\* steps each, without the slot's lock (lines 134, 151 and 296).
THEOREM PoolWholeJobs == Spec /\ []Tame => []WholeJobs
<1>1. PoolInv /\ SlotsInv /\ JobsInv => WholeJobs
  <2> SUFFICES ASSUME PoolInv, Bounds, Token, Contents, NEW w \in Worker, pc[w] = "run"
               PROVE  job[w].work = job[w].desc
    BY DEF SlotsInv, JobsInv, WholeJobs
  <2>1. idx[w] \in Slot
    BY InSlot
  <2>2. job[w].work = work[idx[w]] /\ job[w].desc = desc[idx[w]]
    BY DEF Contents
  <2>3. ASSUME NEW c \in Callers, pc[c] = "desc", idx[c] = idx[w] PROVE FALSE
    <3>1. pc[c] \in Claimed \union Served /\ pc[w] \in Claimed \union Served
      BY <2>3 DEF Claimed, Served
    <3> QED
      BY <2>1, <2>3, <3>1, Apart, Processes
  <2> QED
    BY <2>1, <2>2, <2>3 DEF Contents
<1> QED
  BY <1>1, PoolJobs, PTL

\* JobPool's steps under the mapping of PoolSpec.
LEMMA PoolMapped ==
  /\ Offered' = Offered /\ Held' = Held /\ ran' = ran => UNCHANGED Pool!vars
  /\ Offered = {} /\ Held = {} /\ ran = [j \in Job |-> 0] => Pool!Init
  BY DEF Pool!vars, Pool!Init

\* A new job is offered.
LEMMA PoolOffer ==
  ASSUME NEW j \in Job, j \notin Offered \union Held, ran[j] = 0,
         Offered' = Offered \union {j}, Held' = Held, ran' = ran
  PROVE  Pool!Next
  BY DEF Pool!Next, Pool!Offer

\* An offered job is taken.
LEMMA PoolTake ==
  ASSUME NEW j \in Job, j \in Offered, Cardinality(Held) < Max,
         Offered' = Offered \ {j}, Held' = Held \union {j}, ran' = ran
  PROVE  Pool!Next
<1>1. Pool!Cardinality(Held) = Cardinality(Held)
  BY DEF Pool!Cardinality, Cardinality
<1> QED
  BY <1>1 DEF Pool!Next, Pool!Take

\* An offered job is turned away.
LEMMA PoolTurnAway ==
  ASSUME NEW j \in Job, j \in Offered,
         Offered' = Offered \ {j}, Held' = Held, ran' = ran
  PROVE  Pool!Next
  BY DEF Pool!Next, Pool!TurnAway

\* A held job is run.
LEMMA PoolRun ==
  ASSUME NEW j \in Job, j \in Held, Held' = Held \ {j},
         ran' = [ran EXCEPT ![j] = @ + 1], Offered' = Offered
  PROVE  Pool!Next
  BY DEF Pool!Next, Pool!Run

\* A caller goes on offering its job.
StillOffering == \A c \in Callers :
  pc[c] \in Offering => pc'[c] \in Offering /\ job'[c] = job[c]

\* A caller stops offering only when the job is stored or the pool is full.
LEMMA OfferingStep ==
  ASSUME PoolInv, Places, Homes, [Next]_vars, NoJobs,
         ~\E c \in Callers : J_Check(c)
  PROVE  StillOffering
<1>y. /\ pc \in [Proc -> Labels] /\ idx \in [Proc -> 0..Max] /\ TypeOK
      /\ job \in [Callers \union Worker -> Task]
      /\ busy \in [Slot -> BOOLEAN]
      /\ cur \in Min..Max /\ Min \in Nat /\ Max \in Nat /\ Slot \subseteq Int
  BY PoolAssumption DEF PoolInv, TypeOK, Slot
<1> HIDE DEF Proc, Worker
<1> USE <1>y, Processes DEF Goto, memory, slots, sync, local, world
<1>1. CASE T_Init
  <2>1. born + 1 \in Worker /\ born + 1 # Main /\ born + 1 \in Proc
        /\ pc[born + 1] = "unborn"
    BY <1>1, Processes, PoolAssumption
    DEF T_Init, PoolInv, TypeOK, Counted, Homes, Worker
  <2> QED
    BY <1>1, <2>1 DEF T_Init, StillOffering, Offering
<1>2. CASE T_Manager
  BY <1>2 DEF T_Manager, StillOffering, Offering
<1>3. CASE T_Fail
  BY <1>3 DEF T_Fail, StillOffering, Offering
<1>4. CASE T_Close
  BY <1>4 DEF T_Close, StillOffering, Offering
<1>5. CASE T_Destroy
  BY <1>5 DEF T_Destroy, mutex_destroy, cond_destroy, StillOffering, Offering
<1>6. CASE T_Free
  BY <1>6 DEF T_Free, StillOffering, Offering
<1>7. CASE M_Wake
  BY <1>7 DEF M_Wake, StillOffering, Offering
<1>8. CASE M_Count
  BY <1>8 DEF M_Count, StillOffering, Offering
<1>9. CASE M_Status
  BY <1>9 DEF M_Status, StillOffering, Offering
<1>10. CASE M_Min
  BY <1>10 DEF M_Min, Move, StillOffering, Offering
<1>11. CASE M_Last
  BY <1>11 DEF M_Last, Move, StillOffering, Offering
<1>12. CASE M_KillLock
  BY <1>12 DEF M_KillLock, Move, mutex_destroy, StillOffering, Offering
<1>13. CASE M_KillCond
  BY <1>13 DEF M_KillCond, Move, cond_destroy, StillOffering, Offering
<1>14. CASE M_Dec
  BY <1>14 DEF M_Dec, Move, StillOffering, Offering
<1>15. CASE M_DecStore
  BY <1>15 DEF M_DecStore, Move, StillOffering, Offering
<1>16. ASSUME NEW c \in Callers, J_Scan(c) PROVE StillOffering
  BY <1>16 DEF J_Scan, Move, StillOffering, Offering
<1>17. ASSUME NEW c \in Callers, J_Lock(c) PROVE StillOffering
  BY <1>17 DEF J_Lock, Move, mutex_lock, StillOffering, Offering
<1>18. ASSUME NEW c \in Callers, J_Test(c) PROVE StillOffering
  BY <1>18 DEF J_Test, mutex_unlock, StillOffering, Offering
<1>19. ASSUME NEW c \in Callers, J_Claim(c) PROVE StillOffering
  BY <1>19 DEF J_Claim, Move, mutex_unlock, StillOffering, Offering
<1>20. ASSUME NEW c \in Callers, J_AddLock(c) PROVE StillOffering
  BY <1>20 DEF J_AddLock, StillOffering, Offering
<1>21. ASSUME NEW c \in Callers, J_Fresh(c) PROVE StillOffering
  BY <1>21, FreshStep DEF StillOffering, Offering
<1>22. ASSUME NEW c \in Callers, J_Inc(c) PROVE StillOffering
  BY <1>22 DEF J_Inc, Move, StillOffering, Offering
<1>23. ASSUME NEW c \in Callers, J_IncStore(c) PROVE StillOffering
  BY <1>23 DEF J_IncStore, Move, StillOffering, Offering
<1>24. ASSUME NEW c \in Callers, J_Create(c) PROVE StillOffering
  <2>1. born + 1 \in Worker /\ born + 1 # Main /\ born + 1 \in Proc
        /\ pc[born + 1] = "unborn"
    BY <1>24, Processes, PoolAssumption
    DEF J_Create, PoolInv, TypeOK, Counted, Homes, Worker
  <2> QED
    BY <1>24, <2>1 DEF J_Create, StillOffering, Offering
<1>25. ASSUME NEW c \in Callers, J_CreateFails(c) PROVE StillOffering
  BY <1>25 DEF J_CreateFails, StillOffering, Offering
<1>26. ASSUME NEW c \in Callers, J_Index(c) PROVE StillOffering
  BY <1>26 DEF J_Index, Move, StillOffering, Offering
<1>27. ASSUME NEW c \in Callers, J_AddUnlock(c) PROVE StillOffering
  BY <1>27 DEF J_AddUnlock, Move, StillOffering, Offering
<1>28. ASSUME NEW c \in Callers, J_Signal(c) PROVE StillOffering
  BY <1>28, SignalStep DEF StillOffering, Offering
<1>29. ASSUME NEW w \in Worker, W_Start(w) PROVE StillOffering
  BY <1>29 DEF W_Start, Search, StillOffering, Offering
<1>30. ASSUME NEW w \in Worker, W_Lock(w) PROVE StillOffering
  BY <1>30 DEF W_Lock, mutex_lock, StillOffering, Offering
<1>31. ASSUME NEW w \in Worker, W_Wait(w) PROVE StillOffering
  BY <1>31 DEF W_Wait, StillOffering, Offering
<1>32. ASSUME NEW w \in Worker, W_Wake(w) PROVE StillOffering
  BY <1>32 DEF W_Wake, Move, StillOffering, Offering
<1>33. ASSUME NEW w \in Worker, W_Unlock(w) PROVE StillOffering
  BY <1>33 DEF W_Unlock, mutex_unlock, StillOffering, Offering
<1>34. ASSUME NEW w \in Worker, W_ReadWork(w) PROVE StillOffering
  BY <1>34 DEF W_ReadWork, Move, StillOffering, Offering
<1>35. ASSUME NEW w \in Worker, W_ReadDesc(w) PROVE StillOffering
  BY <1>35 DEF W_ReadDesc, Move, StillOffering, Offering
<1>36. ASSUME NEW w \in Worker, W_Clear(w) PROVE StillOffering
  BY <1>36 DEF W_Clear, Move, StillOffering, Offering
<1>37. CASE UNCHANGED vars
  BY <1>37 DEF vars, StillOffering
<1>38. ASSUME NEW c \in Callers, J_SignalAstray(c) PROVE StillOffering
  BY <1>38 DEF J_SignalAstray, StillOffering, Offering
<1> QED
  BY <1>1, <1>2, <1>3, <1>4, <1>5, <1>6, <1>7, <1>8, <1>9, <1>10, <1>11,
     <1>12, <1>13, <1>14, <1>15, <1>16, <1>17, <1>18, <1>19, <1>20,
     <1>21, <1>22, <1>23, <1>24, <1>25, <1>26, <1>27, <1>28, <1>29,
     <1>30, <1>31, <1>32, <1>33, <1>34, <1>35, <1>36, <1>37, <1>38
  DEF Next, MainStep, ManagerStep, CallerStep, WorkerStep,
      NoJobs

\* A step by which at most caller c stops offering its job.
LEMMA OfferedRest ==
  ASSUME StillOffering, \A c \in Callers : pc'[c] \in Offering => pc[c] \in
         Offering
  PROVE  Offered' = Offered
<1>1. \A c \in Callers : (pc'[c] \in Offering <=> pc[c] \in Offering)
                         /\ (pc[c] \in Offering => job'[c] = job[c])
  BY DEF StillOffering
<1> QED
  BY <1>1 DEF Offered

\* When one does, only its job is no longer offered.
LEMMA OfferedLess ==
  ASSUME Jobs, NEW c \in Callers, pc[c] \in Offering, pc'[c] \notin Offering,
         \A d \in Callers : d # c => pc'[d] = pc[d],
         job' = job
  PROVE  job[c].work \in Offered /\ Offered' = Offered \ {job[c].work}
<1>1. \A d \in Callers : pc[d] \in Offering => pc[d] # "idle"
  BY DEF Offering
<1>2. \A d \in Callers : d # c /\ pc[d] \in Offering => job[d].work # job[c].work
  BY <1>1 DEF Jobs
<1> QED
  BY <1>2 DEF Offered

\* The slot that a caller fills is one that no held job is in.
LEMMA RoomLeft ==
  ASSUME NEW i \in Slot, work[i] # desc[i]
  PROVE  Cardinality(Held) < Max
<1> DEFINE S == Slot \ {i}
           T == {work[k] : k \in S}
<1>1. IsFiniteSet(Slot) /\ Cardinality(Slot) = Max
  BY FS_Interval, PoolAssumption DEF Slot
<1>2. IsFiniteSet(S) /\ Cardinality(S) = Max - 1
  BY <1>1, FS_RemoveElement
<1>3. IsFiniteSet(T) /\ Cardinality(T) <= Cardinality(S)
  <2> DEFINE f == [k \in S |-> work[k]]
  <2>1. f \in Surjection(S, T)
    BY DEF Surjection
  <2> QED
    BY <1>2, <2>1, FS_Surjection
<1>4. Held \subseteq T
  BY DEF Held
<1>5. Cardinality(Held) <= Cardinality(T)
  BY <1>3, <1>4, FS_Subset
<1>6. Cardinality(Held) \in Nat /\ Cardinality(T) \in Nat
  BY <1>3, <1>4, FS_Subset, FS_CardinalityType
<1> QED
  BY <1>2, <1>3, <1>5, <1>6, PoolAssumption

\* Every step of the pool is a step of JobPool, or none.
LEMMA PoolStep ==
  ASSUME PoolInv, Places, Homes, Tame, Open, SlotsInv, Jobs, Contents,
         [Next]_vars
  PROVE  [Pool!Next]_(Pool!vars)
<1>t. Bounds /\ Owned /\ Token
  BY DEF SlotsInv
<1>y. /\ pc \in [Proc -> Labels] /\ idx \in [Proc -> 0..Max] /\ TypeOK
      /\ job \in [Callers \union Worker -> Task] /\ calls \in Nat
      /\ work \in [Slot -> Written] /\ desc \in [Slot -> Written]
      /\ ran \in [Job -> 0..2] /\ Written \subseteq Nat
  BY PoolAssumption DEF PoolInv, TypeOK, Written, Job, Garbage
<1>j. \A c \in Callers : pc[c] \in Offering => job[c].work \in Job
  <2>1. calls <= NumJobs /\ NumJobs \in Nat
    BY PoolAssumption DEF PoolInv, TypeOK
  <2>2. \A n \in 1..calls : n \in Job
    BY <2>1, <1>y DEF Job
  <2> QED
    BY <2>2 DEF Jobs, Offering
<1> HIDE DEF Proc, Worker, Slot
<1>1. ASSUME NEW c \in Callers, ProcessJob(c) PROVE Pool!Next
  <2>1. /\ pc[c] = "idle" /\ calls + 1 \in Job
        /\ job' = [job EXCEPT ![c] = [work |-> calls + 1, desc |-> calls + 1]]
        /\ pc' = [pc EXCEPT ![c] = "scan"] /\ c \in Proc
        /\ UNCHANGED <<work, desc, ran>>
    BY <1>1, <1>y, Processes, PoolAssumption
    DEF ProcessJob, Goto, memory, slots, Job
  <2>2. /\ job'[c].work = calls + 1 /\ pc'[c] \in Offering /\ pc[c] \notin Offering
        /\ \A d \in Callers : d # c => job'[d] = job[d] /\ pc'[d] = pc[d]
    BY <2>1, <1>y, Processes DEF Offering
  <2>3. Offered' = Offered \union {calls + 1}
    BY <2>2 DEF Offered
  <2>4. Held' = Held
    BY <2>1 DEF Held
  <2>5. ran[calls + 1] = 0 /\ calls + 1 \notin Held
    BY <2>1, <1>y DEF Jobs, Held
  <2>6. calls + 1 \notin Offered
    BY <1>y DEF Jobs, Offered, Offering
  <2> QED
    BY <2>1, <2>3, <2>4, <2>5, <2>6, PoolOffer
<1>2. ASSUME NEW c \in Callers, J_Work(c) PROVE UNCHANGED Pool!vars
  <2>1. /\ pc[c] = "work" /\ pc' = [pc EXCEPT ![c] = "desc"] /\ c \in Proc
        /\ work' = [work EXCEPT ![idx[c]] = job[c].work] /\ idx[c] \in Slot
        /\ UNCHANGED <<desc, ran, job>>
    BY <1>2, <1>t, InSlot, Processes DEF J_Work, Move, Goto, local, world
  <2>2. Offered' = Offered
    BY <2>1, <1>y, OfferedRest, Processes DEF StillOffering, Offering
  <2>3. Settled(idx[c]) /\ desc[idx[c]] # job[c].work
    BY <2>1 DEF Contents, Jobs, Offering
  <2>4. \A j \in Job, i \in Slot : ran[j] = 0 =>
          ((work'[i] = j /\ desc[i] = j) <=> (work[i] = j /\ desc[i] = j))
    BY <2>1, <2>3, <1>y DEF Settled, Job, Garbage
  <2>5. Held' = Held
    BY <2>1, <2>4 DEF Held
  <2> QED
    BY <2>1, <2>2, <2>5, PoolMapped
<1>3. ASSUME NEW c \in Callers, J_Desc(c) PROVE Pool!Next
  <2>1. /\ pc[c] = "desc" /\ pc'[c] \in {"addunlock", "signal"} /\ c \in Proc
        /\ \A d \in Callers : d # c => pc'[d] = pc[d]
        /\ desc' = [desc EXCEPT ![idx[c]] = job[c].desc] /\ idx[c] \in Slot
        /\ UNCHANGED <<work, ran, job>>
    BY <1>3, <1>y, <1>t, InSlot, Processes DEF J_Desc, Move, Goto, local, world
  <2>2. /\ job[c].work \in Job /\ job[c].desc = job[c].work
        /\ work[idx[c]] = job[c].work /\ desc[idx[c]] # job[c].work
        /\ ran[job[c].work] = 0
    BY <2>1, <1>j DEF Contents, Jobs, Offering
  <2>3. job[c].work \in Offered /\ Offered' = Offered \ {job[c].work}
    BY <2>1, OfferedLess DEF Offering
  <2>4. Held' = Held \union {job[c].work}
    <3>1. \A j \in Job, i \in Slot : (work[i] = j /\ desc'[i] = j) <=>
            (work[i] = j /\ desc[i] = j) \/ (j = job[c].work /\ i = idx[c])
      BY <2>1, <2>2, <1>y
    <3> QED
      BY <3>1, <2>1, <2>2 DEF Held
  <2>5. Cardinality(Held) < Max
    BY <2>1, <2>2, RoomLeft
  <2> QED
    BY <2>2, <2>1, <2>3, <2>4, <2>5, PoolTake
<1>4. ASSUME NEW c \in Callers, J_Check(c) PROVE [Pool!Next]_(Pool!vars)
  <2>1. /\ pc[c] = "check" /\ pc'[c] \in {"addunlock", "fresh"} /\ c \in Proc
        /\ \A d \in Callers : d # c => pc'[d] = pc[d]
        /\ UNCHANGED <<work, desc, ran, job>>
    BY <1>4, <1>y, Processes
    DEF J_Check, Move, Goto, memory, slots, local, world
  <2>2. Held' = Held
    BY <2>1 DEF Held
  <2>3. CASE pc'[c] = "addunlock"
    <3>1. job[c].work \in Offered /\ Offered' = Offered \ {job[c].work}
      BY <2>1, <2>3, OfferedLess DEF Offering
    <3>2. job[c].work \in Job
      BY <2>1, <1>j DEF Offering
    <3> QED
      BY <2>1, <2>2, <3>1, <3>2, PoolTurnAway
  <2>4. CASE pc'[c] = "fresh"
    <3>1. Offered' = Offered
      BY <2>1, <2>4, OfferedRest DEF StillOffering, Offering
    <3> QED
      BY <2>1, <2>2, <3>1, PoolMapped
  <2> QED
    BY <2>1, <2>3, <2>4
<1>5. ASSUME NEW w \in Worker, W_Run(w) PROVE Pool!Next
  <2>1. /\ pc[w] = "run" /\ w \in Proc /\ idx[w] \in Slot
        /\ job[w].work = work[idx[w]] /\ work[idx[w]] # Garbage
        /\ ran[work[idx[w]]] = 0
    BY <1>5, <1>t, InSlot, Processes DEF W_Run, Contents
  <2>2. /\ job[w].work \in Job
        /\ UNCHANGED <<work, desc>>
        /\ ran' = [ran EXCEPT ![job[w].work] = IF @ = 0 THEN 1 ELSE 2]
        /\ \A c \in Callers : pc'[c] = pc[c] /\ job'[c] = job[c]
    BY <1>5, <2>1, <1>y, Processes
    DEF W_Run, Goto, memory, slots, local, world, Written
  <2>3. work[idx[w]] = desc[idx[w]]
    <3>1. ASSUME NEW c \in Callers, pc[c] = "desc", idx[c] = idx[w] PROVE FALSE
      <4>1. pc[c] \in Claimed \union Served /\ pc[w] \in Claimed \union Served
        BY <2>1, <3>1 DEF Claimed, Served
      <4> QED
        BY <2>1, <3>1, <4>1, <1>t, Apart, Processes
    <3> QED
      BY <2>1, <3>1 DEF Contents
  <2>4. Offered' = Offered
    BY <2>2, OfferedRest DEF StillOffering
  <2>5. job[w].work \in Held
    BY <2>1, <2>2, <2>3 DEF Held
  <2>6. ran' = [ran EXCEPT ![job[w].work] = ran[job[w].work] + 1]
    BY <2>1, <2>2, <1>y
  <2>7. Held' = Held \ {job[w].work}
    BY <2>1, <2>2, <2>6, <1>y DEF Held
  <2> QED
    BY <2>2, <2>4, <2>5, <2>6, <2>7, PoolRun
<1>6. CASE NoJobs /\ ~\E c \in Callers : J_Check(c)
  <2>1. StillOffering /\ JobsQuiet
    BY <1>6, OfferingStep, JobsQuietStep
  <2>2. Offered' = Offered /\ Held' = Held /\ ran' = ran
    BY <2>1, OfferedRest DEF JobsQuiet, Held
  <2> QED
    BY <2>2, PoolMapped
<1> QED
  BY <1>1, <1>2, <1>3, <1>4, <1>5, <1>6 DEF NoJobs

\* While no thread is deleted and no caller overtaken the pool implements JobPool
\* until tp_close: a job is taken or turned away, never more than max_th_num are
\* held, a job that was taken is not overwritten, and is run at most once.
THEOREM PoolImplements == Spec /\ []Tame => PoolSpec
<1> DEFINE I == PoolInv /\ Places /\ Homes /\ SlotsInv /\ JobsInv
<1>1. Init => Pool!Init
  <2> SUFFICES ASSUME Init PROVE Pool!Init
    OBVIOUS
  <2>1. Offered = {}
    BY DEF Init, Offered, Offering, Proc
  <2>2. Held = {} /\ ran = [j \in Job |-> 0]
    BY DEF Init, Held, Job, Garbage
  <2> QED
    BY <2>1, <2>2, PoolMapped
<1>2. I /\ Tame /\ [Next]_vars => [Open => Pool!Next]_(Pool!vars)
  BY PoolStep DEF JobsInv
<1>3. Spec /\ []Tame => []I
  BY PoolJobs
<1> HIDE DEF I
<1> QED
  BY <1>1, <1>2, <1>3, PTL DEF Spec, PoolSpec

\* A manager that does not wake, or finds cur_th_num at min_th_num each time.
Calm ==
  /\ pc[Manager] \in {"unborn", "sleep", "count", "min"}
  /\ Rounds = 0 => pc[Manager] \in {"unborn", "sleep"}

\* Whoever finds no idle slot has looked at all.
Ahead == \A c \in Callers : pc[c] \in {"addlock", "check"} => idx[c] >= cur

\* A pool of fixed size, or one whose manager never wakes, deletes no thread.
LEMMA CalmStep ==
  ASSUME Rounds = 0 \/ Min = Max, PoolInv, Calm, [Next]_vars
  PROVE  Calm'
<1> USE PoolAssumption DEF PoolInv, TypeOK, Counted, Adding, Calm, Goto,
      CallerPcs, WorkerPcs, MainPcs, Proc, Worker, memory, slots, sync, local, world
<1>1. CASE T_Init
  BY <1>1 DEF T_Init
<1>2. CASE T_Manager
  BY <1>2 DEF T_Manager
<1>3. CASE T_Fail
  BY <1>3 DEF T_Fail
<1>4. CASE T_Close
  BY <1>4 DEF T_Close
<1>5. CASE T_Destroy
  BY <1>5 DEF T_Destroy, mutex_destroy, cond_destroy
<1>6. CASE T_Free
  BY <1>6 DEF T_Free
<1>7. CASE M_Wake
  BY <1>7 DEF M_Wake
<1>8. CASE M_Count
  BY <1>8 DEF M_Count
<1>9. CASE M_Status
  BY <1>9 DEF M_Status
<1>10. CASE M_Min
  BY <1>10 DEF M_Min, Move
<1>11. CASE M_Last
  BY <1>11 DEF M_Last, Move
<1>12. CASE M_KillLock
  BY <1>12 DEF M_KillLock, Move, mutex_destroy
<1>13. CASE M_KillCond
  BY <1>13 DEF M_KillCond, Move, cond_destroy
<1>14. CASE M_Dec
  BY <1>14 DEF M_Dec, Move
<1>15. CASE M_DecStore
  BY <1>15 DEF M_DecStore, Move
<1>16. ASSUME NEW c \in Callers, ProcessJob(c) PROVE Calm'
  BY <1>16 DEF ProcessJob
<1>17. ASSUME NEW c \in Callers, J_Scan(c) PROVE Calm'
  BY <1>17 DEF J_Scan, Move
<1>18. ASSUME NEW c \in Callers, J_Lock(c) PROVE Calm'
  BY <1>18 DEF J_Lock, Move, mutex_lock
<1>19. ASSUME NEW c \in Callers, J_Test(c) PROVE Calm'
  BY <1>19 DEF J_Test, mutex_unlock
<1>20. ASSUME NEW c \in Callers, J_Claim(c) PROVE Calm'
  BY <1>20 DEF J_Claim, Move, mutex_unlock
<1>21. ASSUME NEW c \in Callers, J_Work(c) PROVE Calm'
  BY <1>21 DEF J_Work, Move
<1>22. ASSUME NEW c \in Callers, J_Desc(c) PROVE Calm'
  BY <1>22 DEF J_Desc, Move
<1>23. ASSUME NEW c \in Callers, J_AddLock(c) PROVE Calm'
  BY <1>23 DEF J_AddLock
<1>24. ASSUME NEW c \in Callers, J_Check(c) PROVE Calm'
  BY <1>24 DEF J_Check, Move
<1>25. ASSUME NEW c \in Callers, J_Fresh(c) PROVE Calm'
  BY <1>25 DEF J_Fresh, Fresh, Asleep
<1>26. ASSUME NEW c \in Callers, J_Inc(c) PROVE Calm'
  BY <1>26 DEF J_Inc, Move
<1>27. ASSUME NEW c \in Callers, J_IncStore(c) PROVE Calm'
  BY <1>27 DEF J_IncStore, Move
<1>28. ASSUME NEW c \in Callers, J_Create(c) PROVE Calm'
  BY <1>28 DEF J_Create
<1>29. ASSUME NEW c \in Callers, J_CreateFails(c) PROVE Calm'
  BY <1>29 DEF J_CreateFails
<1>30. ASSUME NEW c \in Callers, J_Index(c) PROVE Calm'
  BY <1>30 DEF J_Index, Move
<1>31. ASSUME NEW c \in Callers, J_AddUnlock(c) PROVE Calm'
  BY <1>31 DEF J_AddUnlock, Move
<1>32. ASSUME NEW c \in Callers, J_Signal(c) PROVE Calm'
  BY <1>32, SignalStep
<1>33. ASSUME NEW w \in Worker, W_Start(w) PROVE Calm'
  BY <1>33 DEF W_Start, Search
<1>34. ASSUME NEW w \in Worker, W_Lock(w) PROVE Calm'
  BY <1>34 DEF W_Lock, mutex_lock
<1>35. ASSUME NEW w \in Worker, W_Wait(w) PROVE Calm'
  BY <1>35 DEF W_Wait
<1>36. ASSUME NEW w \in Worker, W_Wake(w) PROVE Calm'
  BY <1>36 DEF W_Wake, Move
<1>37. ASSUME NEW w \in Worker, W_Unlock(w) PROVE Calm'
  BY <1>37 DEF W_Unlock, mutex_unlock
<1>38. ASSUME NEW w \in Worker, W_ReadWork(w) PROVE Calm'
  BY <1>38 DEF W_ReadWork, Move
<1>39. ASSUME NEW w \in Worker, W_ReadDesc(w) PROVE Calm'
  BY <1>39 DEF W_ReadDesc, Move
<1>40. ASSUME NEW w \in Worker, W_Run(w) PROVE Calm'
  BY <1>40 DEF W_Run
<1>41. ASSUME NEW w \in Worker, W_Clear(w) PROVE Calm'
  BY <1>41 DEF W_Clear, Move
<1>42. CASE UNCHANGED vars
  BY <1>42 DEF vars, Owned
<1>43. ASSUME NEW c \in Callers, J_SignalAstray(c) PROVE Calm'
  BY <1>43 DEF J_SignalAstray
<1> QED
  BY <1>1, <1>2, <1>3, <1>4, <1>5, <1>6, <1>7, <1>8, <1>9, <1>10, <1>11,
     <1>12, <1>13, <1>14, <1>15, <1>16, <1>17, <1>18, <1>19, <1>20,
     <1>21, <1>22, <1>23, <1>24, <1>25, <1>26, <1>27, <1>28, <1>29,
     <1>30, <1>31, <1>32, <1>33, <1>34, <1>35, <1>36, <1>37, <1>38,
     <1>39, <1>40, <1>41, <1>42, <1>43
  DEF Next, MainStep, ManagerStep, CallerStep, WorkerStep

\* With one caller, or no room to grow, nobody is overtaken.
LEMMA AheadStep ==
  ASSUME Min = Max \/ \A c, d \in Callers : c = d, PoolInv, PoolInv', Places,
         Ahead, [Next]_vars
  PROVE  Ahead'
<1> USE PoolAssumption DEF PoolInv, TypeOK, Places, Steady, Ahead, Goto,
      CallerPcs, WorkerPcs, MainPcs, Proc, Worker, memory, slots, sync, local, world
<1>1. CASE T_Init
  BY <1>1 DEF T_Init
<1>2. CASE T_Manager
  BY <1>2 DEF T_Manager
<1>3. CASE T_Fail
  BY <1>3 DEF T_Fail
<1>4. CASE T_Close
  BY <1>4 DEF T_Close
<1>5. CASE T_Destroy
  BY <1>5 DEF T_Destroy, mutex_destroy, cond_destroy
<1>6. CASE T_Free
  BY <1>6 DEF T_Free
<1>7. CASE M_Wake
  BY <1>7 DEF M_Wake
<1>8. CASE M_Count
  BY <1>8 DEF M_Count
<1>9. CASE M_Status
  BY <1>9 DEF M_Status
<1>10. CASE M_Min
  BY <1>10 DEF M_Min, Move
<1>11. CASE M_Last
  BY <1>11 DEF M_Last, Move
<1>12. CASE M_KillLock
  BY <1>12 DEF M_KillLock, Move, mutex_destroy
<1>13. CASE M_KillCond
  BY <1>13 DEF M_KillCond, Move, cond_destroy
<1>14. CASE M_Dec
  BY <1>14 DEF M_Dec, Move
<1>15. CASE M_DecStore
  BY <1>15 DEF M_DecStore, Move
<1>16. ASSUME NEW c \in Callers, ProcessJob(c) PROVE Ahead'
  BY <1>16 DEF ProcessJob
<1>17. ASSUME NEW c \in Callers, J_Scan(c) PROVE Ahead'
  BY <1>17 DEF J_Scan, Move
<1>18. ASSUME NEW c \in Callers, J_Lock(c) PROVE Ahead'
  BY <1>18 DEF J_Lock, Move, mutex_lock
<1>19. ASSUME NEW c \in Callers, J_Test(c) PROVE Ahead'
  BY <1>19 DEF J_Test, mutex_unlock
<1>20. ASSUME NEW c \in Callers, J_Claim(c) PROVE Ahead'
  BY <1>20 DEF J_Claim, Move, mutex_unlock
<1>21. ASSUME NEW c \in Callers, J_Work(c) PROVE Ahead'
  BY <1>21 DEF J_Work, Move
<1>22. ASSUME NEW c \in Callers, J_Desc(c) PROVE Ahead'
  BY <1>22 DEF J_Desc, Move
<1>23. ASSUME NEW c \in Callers, J_AddLock(c) PROVE Ahead'
  BY <1>23 DEF J_AddLock
<1>24. ASSUME NEW c \in Callers, J_Check(c) PROVE Ahead'
  BY <1>24 DEF J_Check, Move
<1>25. ASSUME NEW c \in Callers, J_Fresh(c) PROVE Ahead'
  BY <1>25 DEF J_Fresh, Fresh, Asleep
<1>26. ASSUME NEW c \in Callers, J_Inc(c) PROVE Ahead'
  BY <1>26 DEF J_Inc, Move
<1>27. ASSUME NEW c \in Callers, J_IncStore(c) PROVE Ahead'
  BY <1>27 DEF J_IncStore, Move
<1>28. ASSUME NEW c \in Callers, J_Create(c) PROVE Ahead'
  BY <1>28 DEF J_Create
<1>29. ASSUME NEW c \in Callers, J_CreateFails(c) PROVE Ahead'
  BY <1>29 DEF J_CreateFails
<1>30. ASSUME NEW c \in Callers, J_Index(c) PROVE Ahead'
  BY <1>30 DEF J_Index, Move
<1>31. ASSUME NEW c \in Callers, J_AddUnlock(c) PROVE Ahead'
  BY <1>31 DEF J_AddUnlock, Move
<1>32. ASSUME NEW c \in Callers, J_Signal(c) PROVE Ahead'
  <2>1. /\ pc'[c] = "idle" /\ cur' = cur
        /\ \A d \in Callers : d # c => pc'[d] = pc[d] /\ idx'[d] = idx[d]
    BY <1>32, SignalStep DEF memory
  <2> QED
    BY <2>1
<1>33. ASSUME NEW w \in Worker, W_Start(w) PROVE Ahead'
  BY <1>33 DEF W_Start, Search
<1>34. ASSUME NEW w \in Worker, W_Lock(w) PROVE Ahead'
  BY <1>34 DEF W_Lock, mutex_lock
<1>35. ASSUME NEW w \in Worker, W_Wait(w) PROVE Ahead'
  BY <1>35 DEF W_Wait
<1>36. ASSUME NEW w \in Worker, W_Wake(w) PROVE Ahead'
  BY <1>36 DEF W_Wake, Move
<1>37. ASSUME NEW w \in Worker, W_Unlock(w) PROVE Ahead'
  BY <1>37 DEF W_Unlock, mutex_unlock
<1>38. ASSUME NEW w \in Worker, W_ReadWork(w) PROVE Ahead'
  BY <1>38 DEF W_ReadWork, Move
<1>39. ASSUME NEW w \in Worker, W_ReadDesc(w) PROVE Ahead'
  BY <1>39 DEF W_ReadDesc, Move
<1>40. ASSUME NEW w \in Worker, W_Run(w) PROVE Ahead'
  BY <1>40 DEF W_Run
<1>41. ASSUME NEW w \in Worker, W_Clear(w) PROVE Ahead'
  BY <1>41 DEF W_Clear, Move
<1>42. CASE UNCHANGED vars
  BY <1>42 DEF vars, Owned
<1>43. ASSUME NEW c \in Callers, J_SignalAstray(c) PROVE Ahead'
  BY <1>43 DEF J_SignalAstray
<1> QED
  BY <1>1, <1>2, <1>3, <1>4, <1>5, <1>6, <1>7, <1>8, <1>9, <1>10, <1>11,
     <1>12, <1>13, <1>14, <1>15, <1>16, <1>17, <1>18, <1>19, <1>20,
     <1>21, <1>22, <1>23, <1>24, <1>25, <1>26, <1>27, <1>28, <1>29,
     <1>30, <1>31, <1>32, <1>33, <1>34, <1>35, <1>36, <1>37, <1>38,
     <1>39, <1>40, <1>41, <1>42, <1>43
  DEF Next, MainStep, ManagerStep, CallerStep, WorkerStep

\* Where the theorems above need not assume anything of the behaviour: a pool
\* that does not shrink and either has one caller or does not grow.
THEOREM PoolTame ==
  ASSUME Rounds = 0 \/ Min = Max,
         Min = Max \/ \A c, d \in Callers : c = d
  PROVE  Spec => []Tame
<1> DEFINE I == PoolInv /\ Places /\ Calm /\ Ahead
<1>1. Init => I
  <2> SUFFICES ASSUME Init PROVE I
    OBVIOUS
  <2>1. pc[Manager] = "unborn" /\ \A c \in Callers : pc[c] = "idle"
    BY Processes DEF Init
  <2> QED
    BY <2>1, InitInv, HomesInit DEF Calm, Ahead
<1>2. I => Tame
  <2> SUFFICES ASSUME I, NEW c \in Callers, pc[c] = "check", Max <= cur
               PROVE  idx[c] = Max
    BY DEF Tame, NotOvertaken, Places
  <2>1. idx[c] \in 0..Max /\ cur \in Min..Max /\ idx[c] >= cur
    BY Processes DEF PoolInv, TypeOK, Ahead
  <2> QED
    BY <2>1, PoolAssumption
<1>3. I /\ [Next]_vars => I'
  <2> SUFFICES ASSUME I, [Next]_vars PROVE I'
    OBVIOUS
  <2>1. PoolInv' /\ Calm'
    BY TypeStep, CountedStep, CalmStep DEF PoolInv
  <2>2. Steady'
    BY <2>1 DEF Steady, Calm
  <2> QED
    BY <2>1, <2>2, PlacesStep, AheadStep
<1> HIDE DEF I
<1> QED
  BY <1>1, <1>2, <1>3, PTL DEF Spec

\* Such a pool implements JobPool until tp_close, whatever its callers, workers
\* and manager do.
THEOREM PoolImplementsJobPool ==
  ASSUME Rounds = 0 \/ Min = Max,
         Min = Max \/ \A c, d \in Callers : c = d
  PROVE  Spec => PoolSpec
BY PoolTame, PoolImplements, PTL
=============================================================================
