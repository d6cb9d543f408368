--------------------------- MODULE DriverLifecycle ---------------------------
(***************************************************************************)
(* Loading, unloading and opening the character drivers: driver/globalmem  *)
(* ch6 (globalmem.c and multi_globalmem.c) and ch7, driver/globalfifo ch8, *)
(* ch9 and ch12 (with globalfifo-dev.c), and driver/proc/proc.c.           *)
(*                                                                         *)
(* What each init function acquires, in which order, what it gives back    *)
(* when a step fails, and what its exit function gives back, is a Script.  *)
(* A thread of control runs through a script one kernel call at a time,    *)
(* while tasks open the device, call its handlers and close it.            *)
(*                                                                         *)
(* The kernel is external (Linux 4.0).  A module can be got while its init *)
(* function runs, but no longer once it is being unloaded; it is unloaded  *)
(* only while nobody has got it, and an open file of a file_operations     *)
(* with an owner gets it.  A file of /proc does not, but remove_proc_entry *)
(* waits for the calls under way and disables the file.  The platform bus  *)
(* probes the device of globalfifo-dev.c when it and the driver are there; *)
(* it calls remove when either goes or on an unbind through sysfs, and     *)
(* then frees what probe got by devm_kzalloc.                              *)
(***************************************************************************)
EXTENDS Naturals, SequencesExt

CONSTANTS
  Task,         \* the tasks that open the device
  First,        \* the minor number of a driver with one device
  Minors        \* the minor numbers of multi_globalmem, in order

Minor == ToSet(Minors) \union {First}

\* What a driver can hold: its region of device numbers, the memory of its
\* device structure, the mutex and the wait queues in it (once initialised),
\* a cdev per minor, a misc device; its /proc directory and entry; a platform
\* driver; a platform device, allocated and added.
Named == {"region", "mem", "mutex", "queues", "misc", "dir", "entry",
          "pdrv", "palloc", "pdev"}

Resource == Minor \union Named

\* load: what is acquired, in order.  fail[x]: what is given back when x cannot
\* be had and init returns an error; an x that can fail and is not there is
\* missed silently.  exit: what is given back by exit, in order.
Script(load, fail, exit) == [load |-> load, fail |-> fail, exit |-> exit]

\* Mutation of Ch6: exit frees the memory and leaves the cdev.
Ch6_KeepsCdev == Script(<<"region", "mem", First>>,
                        [region |-> <<>>, mem |-> <<"region">>],
                        <<"mem", "region">>)

\* globalmem_setup_cdev only reports that cdev_add failed.
Ch6 == Script(<<"region", "mem", First>>,
              [region |-> <<>>, mem |-> <<"region">>],
              <<First, "mem", "region">>)

\* One structure of all devices, one region, a cdev each.
MultiMem == Script(<<"region", "mem">> \o Minors,
                   [region |-> <<>>, mem |-> <<"region">>],
                   Minors \o <<"mem", "region">>)

\* cdev_add comes before mutex_init ...
Ch7 == Script(<<"region", "mem", First, "mutex">>,
              [region |-> <<>>, mem |-> <<"region">>],
              <<First, "mem", "region">>)

\* Mutation of Ch8: a failed allocation keeps the region.
Ch8_KeepsRegion == Script(<<"region", "mem", First, "mutex", "queues">>,
                          [region |-> <<>>, mem |-> <<>>],
                          <<First, "mem", "region">>)

\* ... and before init_waitqueue_head.
Ch8 == Script(<<"region", "mem", First, "mutex", "queues">>,
              [region |-> <<>>, mem |-> <<"region">>],
              <<First, "mem", "region">>)

Ch9 == Script(<<"region", "mem", First, "mutex", "queues">>,
              [region |-> <<>>, mem |-> <<"region">>],
              <<First, "mem", "region">>)

\* module_platform_driver, in ch12 ...
Ch12 == Script(<<"pdrv">>, [pdrv |-> <<>>], <<"pdrv">>)

\* Mutation of Ch12Probe: the device is registered first, as in ch9.
Ch12Probe_Early == Script(<<"mem", "misc", "mutex", "queues">>,
                          [mem |-> <<>>, misc |-> <<"mem">>],
                          <<"misc", "mem">>)

\* ... its probe and remove (devm_kzalloc's memory is freed by the bus) ...
Ch12Probe == Script(<<"mem", "mutex", "queues", "misc">>,
                    [mem |-> <<>>, misc |-> <<"mem">>],
                    <<"misc", "mem">>)

\* ... and the module that makes the platform device.
Ch12Dev == Script(<<"palloc", "pdev">>,
                  [palloc |-> <<>>, pdev |-> <<"palloc">>],
                  <<"pdev", "palloc">>)

\* When the entry cannot be made the directory stays.
Proc == Script(<<"dir", "entry">>, [dir |-> <<>>, entry |-> <<>>],
               <<"entry", "dir">>)

ModuleScript == [ch6 |-> Ch6, multi |-> MultiMem, ch7 |-> Ch7, ch8 |-> Ch8,
                 ch9 |-> Ch9, ch12 |-> Ch12, proc |-> Proc]

Driver == DOMAIN ModuleScript

\* Threads of control: insmod or rmmod of the driver, the same of
\* globalfifo-dev.ko, and the bus that probes or removes the device.
Control == {"module", "devmodule", "device"}

ASSUME LifecycleAssumption ==
  Minors \in Seq(ToSet(Minors)) /\ Minor \intersect Named = {}

VARIABLES
  driver,       \* the driver of this behavior
  phase,        \* where each control is in its script
  todo,         \* what it has still to acquire or to give back
  held,         \* what the driver holds
  file,         \* each task's file: closed, open, or in a handler
  stale,        \* the tasks whose file is that of a device already freed
  crashed       \* a handler met memory that is not (or not yet) its device

ctrl == <<phase, todo>>
vars == <<driver, ctrl, held, file, stale, crashed>>

Phases == {"out", "loading", "live", "failing", "unloading"}

\* Types.
TypeOK ==
  /\ driver \in Driver
  /\ phase \in [Control -> Phases]
  /\ todo \in [Control -> Seq(Resource)]
  /\ held \subseteq Resource
  /\ file \in [Task -> {"closed", "open", "in"}]
  /\ stale \subseteq Task
  /\ crashed \in BOOLEAN

Init ==
  /\ driver \in Driver
  /\ phase = [k \in Control |-> "out"]
  /\ todo = [k \in Control |-> <<>>]
  /\ held = {}
  /\ file = [t \in Task |-> "closed"]
  /\ stale = {}
  /\ crashed = FALSE

ScriptOf(k) == CASE k = "module"    -> ModuleScript[driver]
                 [] k = "devmodule" -> Ch12Dev
                 [] k = "device"    -> Ch12Probe

Enter(k, p, script) ==
  /\ phase' = [phase EXCEPT ![k] = p]
  /\ todo' = [todo EXCEPT ![k] = script]

-----------------------------------------------------------------------------
(* The threads of control. *)

Arriving(k) == phase[k] \in {"loading", "live"}

\* insmod of either module; the bus probes when it has driver and device.
Start(k) ==
  /\ phase[k] = "out"
  /\ k = "devmodule" => driver = "ch12"
  /\ k = "device" => /\ {"pdrv", "pdev"} \subseteq held
                     /\ Arriving("module") /\ Arriving("devmodule")
  /\ Enter(k, "loading", ScriptOf(k).load)
  /\ UNCHANGED <<driver, held, file, stale, crashed>>

\* A name can be used once in /proc.
Acquire(k) == LET x == Head(todo[k]) IN
  /\ phase[k] = "loading" /\ todo[k] # <<>>
  /\ x = "dir" => x \notin held
  /\ held' = held \union {x}
  /\ todo' = [todo EXCEPT ![k] = Tail(@)]
  /\ UNCHANGED <<driver, phase, file, stale, crashed>>

\* The kernel has no memory, or the number or the name is taken.
AcquireFails(k) == LET x == Head(todo[k]) IN
  /\ phase[k] = "loading" /\ todo[k] # <<>>
  /\ IF x \in DOMAIN ScriptOf(k).fail
     THEN Enter(k, "failing", ScriptOf(k).fail[x])
     ELSE x \in Minor /\ Enter(k, "loading", Tail(todo[k]))
  /\ UNCHANGED <<driver, held, file, stale, crashed>>

Loaded(k) ==
  /\ phase[k] = "loading" /\ todo[k] = <<>>
  /\ Enter(k, "live", <<>>)
  /\ UNCHANGED <<driver, held, file, stale, crashed>>

\* Mutation of Busy: file_operations without an owner.
Busy_NoOwner == FALSE

\* An open file holds the driver's module (owner = THIS_MODULE), except in
\* /proc; nothing holds globalfifo-dev.ko or the device.
Busy == driver # "proc" /\ \E t \in Task : file[t] # "closed"

\* rmmod; an unbind, or because the driver or the device goes.
Stop(k) ==
  /\ phase[k] = "live"
  /\ k = "module" => ~Busy
  /\ Enter(k, "unloading", ScriptOf(k).exit)
  /\ UNCHANGED <<driver, held, file, stale, crashed>>

\* The mutex and the wait queues are part of the memory that is freed.
Gone(x) == IF x = "mem" THEN {"mem", "mutex", "queues"} ELSE {x}

\* The bus first removes the device of a driver, or a device, that goes.
GiveUp(k) == LET x == Head(todo[k]) IN
  /\ phase[k] \in {"failing", "unloading"} /\ todo[k] # <<>>
  /\ x \in {"pdrv", "pdev"} => phase["device"] = "out"
  /\ x = "entry" => \A t \in Task : file[t] # "in"
  /\ held' = held \ Gone(x)
  /\ todo' = [todo EXCEPT ![k] = Tail(@)]
  /\ stale' = IF x = "mem" THEN {t \in Task : file[t] # "closed"} ELSE stale
  /\ UNCHANGED <<driver, phase, file, crashed>>

Out(k) ==
  /\ phase[k] \in {"failing", "unloading"} /\ todo[k] = <<>>
  /\ Enter(k, "out", <<>>)
  /\ UNCHANGED <<driver, held, file, stale, crashed>>

-----------------------------------------------------------------------------
(* The tasks. *)

\* What the handlers use.
Needs == CASE driver = "proc"               -> {}
           [] driver \in {"ch6", "multi"}   -> {"mem"}
           [] driver = "ch7"                -> {"mem", "mutex"}
           [] driver \in {"ch8", "ch9", "ch12"} -> {"mem", "mutex", "queues"}

\* A handler that locks a mutex of zeros follows the null pointers of its wait
\* list; one of a freed device follows whatever is there.
Touch(t, what, next) ==
  IF what \subseteq held /\ (t \in stale => what = {})
  THEN /\ file' = [file EXCEPT ![t] = next]
       /\ stale' = IF next = "closed" THEN stale \ {t} ELSE stale
       /\ UNCHANGED crashed
  ELSE crashed' = TRUE /\ UNCHANGED <<file, stale>>

\* open finds the cdev, the misc device or the /proc entry, and gets the module.
Open(t) ==
  /\ file[t] = "closed"
  /\ held \intersect (Minor \union {"misc", "entry"}) # {}
  /\ phase["module"] # "unloading"
  /\ file' = [file EXCEPT ![t] = "open"]
  /\ UNCHANGED <<driver, ctrl, held, stale, crashed>>

\* read, write, ioctl or poll.  A call fails in a /proc file whose entry is
\* gone or going: remove_proc_entry is the first call of the exit function.
Call(t) ==
  /\ file[t] = "open"
  /\ driver = "proc" => "entry" \in held /\ phase["module"] # "unloading"
  /\ Touch(t, Needs, "in")
  /\ UNCHANGED <<driver, ctrl, held>>

\* The handler goes on (it may have slept) and returns.
Return(t) ==
  /\ file[t] = "in"
  /\ Touch(t, Needs, "open")
  /\ UNCHANGED <<driver, ctrl, held>>

\* The release of ch9 and ch12 takes the file off the device's async_queue.
Close(t) ==
  /\ file[t] = "open"
  /\ Touch(t, IF driver \in {"ch9", "ch12"} THEN {"mem"} ELSE {}, "closed")
  /\ UNCHANGED <<driver, ctrl, held>>

-----------------------------------------------------------------------------

KernelStep(k) ==
  Acquire(k) \/ AcquireFails(k) \/ Loaded(k) \/ GiveUp(k) \/ Out(k)

\* Nothing is said of what happens after a crash.
Next ==
  /\ ~crashed
  /\ \/ \E k \in Control : Start(k) \/ Stop(k) \/ KernelStep(k)
     \/ \E t \in Task : Open(t) \/ Call(t) \/ Return(t) \/ Close(t)

Spec == Init /\ [][Next]_vars

-----------------------------------------------------------------------------
(* Properties *)

\* The drivers that call cdev_add before they have initialised the device.
EarlyCdev == {"ch7", "ch8", "ch9"}

\* Once its load is over no handler and no release meets memory that is freed,
\* or a mutex or wait queue that is not initialised, however open, rmmod and
\* errors mix, except in a file of globalfifo ch12 that outlives its device:
\* only there can the device be freed while a file is open.
SafeOnceLoaded ==
  /\ crashed => \/ driver \in EarlyCdev /\ phase["module"] = "loading"
                \/ stale # {}
  /\ stale # {} => driver = "ch12"

\* A load that failed and an unload leave nothing behind, whichever step
\* failed; except that proc.c keeps its directory when proc_create_data fails.
NothingLeftBehind == (\A k \in Control : phase[k] = "out") =>
  held \subseteq (IF driver = "proc" THEN {"dir"} ELSE {})

\* Types, and NothingLeftBehind.
Inv == TypeOK /\ NothingLeftBehind
==============================================================================
