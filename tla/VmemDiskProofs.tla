---------------------------- MODULE VmemDiskProofs ----------------------------
(***************************************************************************)
(* What is proved of the block driver, for any number of disks, any sizes  *)
(* and any bios: an unload gives everything back (DiskGivesBack), what can *)
(* go wrong does so only where HarmOnlyFrom says (DiskHarms), and with a   *)
(* queue the disks implement SectorDisk (DiskImplements).                  *)
(*                                                                         *)
(* The first two follow from DiskInv: the place in the scripts of set-up   *)
(* and exit says what each device holds (Stages), so that whole devices    *)
(* own their data (Owned) and only a queue that is not cleaned up has      *)
(* requests (Requests), all of them of open disks (Carried).  For the last *)
(* there is also AtHand: of the bios of a disk only one is moved in part,  *)
(* so that the disk's store is its memory and the rest of that one bio.    *)
(***************************************************************************)
EXTENDS VmemDisk, SequenceTheorems, TLAPS

-----------------------------------------------------------------------------
(* The inductive invariant *)

\* setup_device has not touched d.
Blank(d) == dev[d].data = NULL /\ dev[d].queue = "none" /\ dev[d].gd = "none"

\* setup_device has not come to d, or has given it no data.
ToCome(d) == \/ phase \in {"insmod", "kmalloc", "failed"}
             \/ phase = "setup" /\ (d > i \/ (d = i /\ step = "data"))

\* exit is past the vfree of d; past its blk_cleanup_queue.
Freed(d) == phase = "gone" \/ (phase = "exit" /\ d < i)

Cleaned(d) == Freed(d) \/ (Exiting("data") /\ d = i)

\* What set-up and exit have done to each device is what their place says.
Stages ==
  /\ phase \in {"insmod", "kmalloc", "failed"} => i = 0 /\ step = "data"
  /\ phase = "setup" => i < NDEVICES /\ step # "drain"
  /\ phase = "exit" => i < NDEVICES
  /\ \A d \in Device :
       /\ ToCome(d) => Blank(d)
       /\ phase = "setup" /\ step # "data" /\ d = i =>
            /\ dev[d].data # NULL /\ dev[d].gd = "none"
            /\ dev[d].queue = IF step = "queue" THEN "none" ELSE "on"
       /\ dev[d].queue # "none" => dev[d].data # NULL
       /\ dev[d].gd # "none" => dev[d].queue # "none"
       /\ dev[d].queue \notin {"none", "on"} => phase \in {"exit", "gone"}
       /\ phase = "exit" =>
            /\ d > i \/ (d = i /\ step \in {"gd", "queue"}) =>
                 dev[d].queue \in {"none", "on"}
            /\ step = "drain" /\ d = i => mode = "queue" /\ dev[d].queue = "dying"
       /\ Cleaned(d) => dev[d].queue \in {"none", "dead", "put"}

\* The devices whose data is their own: set-up keeps it, or has not failed yet.
Whole(d) == dev[d].data # NULL /\ d \notin HalfMade

\* Data in use belongs to a device that exit has not freed; whole devices have
\* data of their own, in use until exit frees it or, after a half-made device,
\* frees the address that device still points to.
Owned ==
  /\ \A a \in allocated : \E d \in Device : dev[d].data = a /\ ~Freed(d)
  /\ \A d, e \in Device : Whole(d) /\ Whole(e) /\ d # e => dev[d].data # dev[e].data
  /\ \A d \in Device : Whole(d) /\ ~Freed(d) /\ (phase = "exit" => HalfMade = {}) =>
       dev[d].data \in allocated

\* Only a queue that is not yet cleaned up has requests.
Queues(d) ==
  /\ mode = "noqueue" => pend[d] = {} /\ started[d] = <<>>
  /\ pend[d] # {} \/ started[d] # <<>> => dev[d].queue \in {"on", "dying"}
  /\ cur[d] # <<>> => started[d] # <<>>

\* The bios of a request wait; one without data has it to itself.
Waiting(d) == \A r \in pend[d] :
  /\ r # <<>>
  /\ \A k \in DOMAIN r : /\ io[r[k]].dev = d /\ at[r[k]] = "queued"
                         /\ io[r[k]].dir = "pc" => Len(r) = 1

\* A bio is in one request, at one place.
Apart(d) == \A r, s \in pend[d] : \A j \in DOMAIN r : \A k \in DOMAIN s :
  r[j] = s[k] => r = s /\ j = k

\* The bios of the request that is worked on are moving, and those that are
\* left have segments left.
Moving(d) ==
  /\ \A k \in DOMAIN started[d] : /\ io[started[d][k]].dev = d
                                  /\ at[started[d][k]] = "moving"
  /\ \A k \in DOMAIN cur[d] : LET b == cur[d][k] IN
       /\ io[b].dev = d /\ at[b] = "moving" /\ io[b].dir # "pc"
       /\ moved[b] < Len(Ends(b))
  /\ \A j, k \in DOMAIN cur[d] : cur[d][j] = cur[d][k] => j = k

\* What the queues and the bios agree on.
Requests ==
  /\ \A d \in Device : Queues(d) /\ Waiting(d) /\ Apart(d) /\ Moving(d)
  /\ \A b \in Bio : at[b] \in {"new", "queued"} => moved[b] = 0

\* A disk on which a bio is under way is open, and has been set up.
Carried ==
  /\ \A b \in Bio : at[b] \in {"queued", "moving"} => io[b].dev \in open
  /\ \A d \in open : dev[d].gd # "none"

\* The inductive invariant of the driver.
DiskInv == Inv /\ Stages /\ Owned /\ Requests /\ Carried /\ HarmOnlyFrom

-----------------------------------------------------------------------------
(* Set-up and exit *)

\* A device as setup_device leaves it.
DevType == [data : Addr \union {NULL},
            queue : {"none", "on", "dying", "dead", "put"},
            gd : {"none", "on", "deleted"}]

\* The types of set-up and exit.
LifeTypes ==
  /\ mode \in {"queue", "noqueue"} /\ param \in BOOLEAN
  /\ phase \in {"insmod", "kmalloc", "setup", "live", "exit", "gone", "failed"}
  /\ i \in 0 .. NDEVICES
  /\ step \in {"data", "queue", "gd", "drain"}
  /\ major \in BOOLEAN
  /\ dev \in [Device -> DevType]
  /\ allocated \subseteq Addr
  /\ harm \subseteq Harm

\* Steps of set-up and exit do not touch the bios: what is said of them stays
\* true as long as a queue with requests is neither removed nor dead.
LEMMA LifeLeavesBios ==
  ASSUME TypeOK, Requests, Carried, UNCHANGED <<traffic, open, mode>>,
         \A d \in Device : /\ dev[d].gd # "none" => dev'[d].gd # "none"
                           /\ pend[d] # {} \/ started[d] # <<>> =>
                                dev'[d].queue \in {"on", "dying"}
  PROVE  Requests' /\ Carried'
<1>1. /\ pend' = pend /\ cur' = cur /\ started' = started /\ at' = at
      /\ moved' = moved /\ open' = open /\ mode' = mode
  BY DEF traffic
<1>2. Requests'
  BY <1>1 DEF Requests, Queues, Waiting, Apart, Moving
<1>3. Carried'
  BY <1>1 DEF Carried, TypeOK
<1> QED
  BY <1>2, <1>3

\* A step of set-up or exit need only keep the types of its own variables.
LEMMA LifeTyped ==
  ASSUME TypeOK, UNCHANGED <<traffic, open>>, LifeTypes', 
         mem' \in [Addr -> [Sector -> Datum]]
  PROVE  TypeOK'
BY DEF TypeOK, traffic, LifeTypes, DevType

\* They are part of TypeOK.
LEMMA TypedLife == TypeOK => LifeTypes
BY DEF TypeOK, LifeTypes, DevType

\* They add nothing to harm but a second vfree.
LEMMA LifeHarm ==
  ASSUME HarmOnlyFrom, ~Halted, moved' = moved,
         harm' \subseteq harm \union {"free"},
         "free" \in harm' => HalfMade' # {}
  PROVE  HarmOnlyFrom'
<1>1. "data" \notin harm /\ "code" \notin harm
  BY DEF Halted
<1> QED
  BY <1>1 DEF HarmOnlyFrom, Even, Step, Ends

\* Which devices HalfMade holds.
LEMMA InHalf ==
  /\ \A d \in Device : d \in HalfMade <=>
       /\ dev[d].data # NULL /\ dev[d].gd = "none" /\ (phase = "setup" => d < i)
  /\ HalfMade \subseteq Device
BY DEF HalfMade

\* Between the stages of a device: nothing has changed.
LEMMA RegisterStep ==
  ASSUME DiskInv, ~Halted, \E ok \in BOOLEAN : Register(ok) \/ Kmalloc(ok)
  PROVE  DiskInv'
<1> USE DEF DiskInv, Inv, Stay
<1>1. /\ phase \in {"insmod", "kmalloc"} /\ phase' \in {"kmalloc", "setup", "failed"}
      /\ i' = i /\ step' = step /\ dev' = dev /\ allocated' = allocated
      /\ harm' = harm /\ mode' = mode /\ param' = param /\ mem' = mem
      /\ open' = open /\ UNCHANGED traffic /\ major' \in BOOLEAN
  BY TypedLife DEF Register, Kmalloc, LifeTypes
<1>2. TypeOK'
  <2>1. LifeTypes'
    BY <1>1, TypedLife DEF LifeTypes
  <2> QED
    BY <1>1, <2>1, LifeTyped DEF TypeOK
<1>3. Requests' /\ Carried'
  <2>1. \A d \in Device : /\ dev[d].gd # "none" => dev'[d].gd # "none"
                          /\ pend[d] # {} \/ started[d] # <<>> =>
                               dev'[d].queue \in {"on", "dying"}
    BY <1>1 DEF Requests, Queues
  <2> QED
    BY <1>1, <2>1, LifeLeavesBios
<1>4. \A d \in Device : Blank(d)
  BY <1>1 DEF Stages, ToCome
<1>5. Stages'
  BY <1>1, <1>4, DiskAssumption DEF Stages, ToCome, Blank, Cleaned, Freed,
     Exiting
<1>6. \A d \in Device : d \notin HalfMade /\ d \notin HalfMade'
  BY <1>1, <1>4 DEF HalfMade, Blank
<1>7. Owned'
  BY <1>1, <1>4 DEF Owned, Blank, Whole, Freed
<1>8. HarmOnlyFrom'
  <2>1. "free" \notin harm
    BY <1>6, InHalf DEF HarmOnlyFrom
  <2> QED
    BY <1>1, <2>1, LifeHarm DEF traffic
<1>9. GivenBack'
  BY <1>1 DEF GivenBack
<1> QED
  BY <1>2, <1>3, <1>5, <1>7, <1>8, <1>9

\* setup_device gets its data: a whole device more.
LEMMA DataStep ==
  ASSUME DiskInv, ~Halted, NEW a \in Addr, S_Data(a)
  PROVE  DiskInv'
<1> USE DEF DiskInv, Inv
<1>1. /\ phase = "setup" /\ step = "data" /\ a \notin allocated
      /\ dev' = [dev EXCEPT ![i].data = a] /\ step' = "queue"
      /\ allocated' = allocated \union {a} /\ a # NULL
      /\ mode' = mode /\ param' = param /\ phase' = phase /\ i' = i
      /\ major' = major /\ open' = open /\ UNCHANGED traffic /\ harm' = harm
      /\ mem' = [mem EXCEPT ![a] = [s \in Sector |-> Junk]]
  BY DiskAssumption DEF S_Data, At
<1>2. i \in Device
  BY <1>1, DiskAssumption DEF Stages, Device, TypeOK
<1>3. Blank(i)
  BY <1>1, <1>2 DEF Stages, ToCome
<1>4. /\ dev' \in [Device -> DevType]
      /\ \A d \in Device : d # i => dev'[d] = dev[d]
      /\ dev'[i].data = a /\ dev'[i].queue = "none" /\ dev'[i].gd = "none"
  BY <1>1, <1>2, <1>3, TypedLife DEF LifeTypes, DevType, Blank
<1>5. TypeOK'
  <2>1. LifeTypes'
    BY <1>1, <1>4, TypedLife DEF LifeTypes
  <2>2. mem' \in [Addr -> [Sector -> Datum]]
    BY <1>1 DEF TypeOK, Datum
  <2> QED
    BY <1>1, <2>1, <2>2, LifeTyped
<1>6. Requests' /\ Carried'
  <2>1. \A d \in Device : /\ dev[d].gd # "none" => dev'[d].gd # "none"
                          /\ pend[d] # {} \/ started[d] # <<>> =>
                               dev'[d].queue \in {"on", "dying"}
    BY <1>3, <1>4 DEF Requests, Queues, Blank
  <2> QED
    BY <1>1, <2>1, LifeLeavesBios
<1>7. \A d \in Device : d \in Int
  BY DEF Device
<1>8. Stages'
  <2>1. \A d \in Device : ToCome(d)' => Blank(d)'
    BY <1>1, <1>2, <1>4, <1>7 DEF Stages, ToCome, Blank
  <2> QED
    BY <1>1, <1>2, <1>3, <1>4, <2>1
       DEF Stages, Cleaned, Freed, Exiting, Blank
<1>9. \A d \in Device : d \in HalfMade' <=> d \in HalfMade
  BY <1>1, <1>2, <1>3, <1>4, <1>7, InHalf DEF Blank, HalfMade, TypeOK
<1>10. \A d \in Device : Whole(d)' <=> Whole(d) \/ d = i
  BY <1>1, <1>2, <1>4, <1>9, <1>7, InHalf DEF Whole, HalfMade, TypeOK
<1>11. \A d \in Device : ~Freed(d) /\ ~Freed(d)'
  BY <1>1 DEF Freed
<1>12. Owned'
  <2>1. \A b \in allocated' : \E d \in Device : dev'[d].data = b /\ ~Freed(d)'
    <3> SUFFICES ASSUME NEW b \in allocated'
                 PROVE  \E d \in Device : dev'[d].data = b
      BY <1>11
    <3>1. CASE b = a
      BY <3>1, <1>2, <1>4
    <3>2. CASE b # a
      <4>1. PICK d \in Device : dev[d].data = b
        BY <3>2, <1>1 DEF Owned
      <4>2. d # i
        BY <4>1, <3>2, <1>1, <1>3, DiskAssumption DEF Blank, TypeOK
      <4> QED
        BY <4>1, <4>2, <1>4
    <3> QED
      BY <3>1, <3>2
  <2>2. \A d \in Device : Whole(d) => dev[d].data \in allocated
    BY <1>1, <1>11 DEF Owned
  <2>3. \A d, e \in Device : Whole(d)' /\ Whole(e)' /\ d # e =>
          dev'[d].data # dev'[e].data
    BY <2>2, <1>1, <1>4, <1>10 DEF Owned
  <2>4. \A d \in Device : Whole(d)' => dev'[d].data \in allocated'
    BY <2>2, <1>1, <1>4, <1>10
  <2> QED
    BY <2>1, <2>3, <2>4 DEF Owned
<1>13. HarmOnlyFrom'
  <2>1. "free" \in harm' => HalfMade' # {}
    BY <1>1, <1>9, InHalf DEF HarmOnlyFrom
  <2> QED
    BY <1>1, <2>1, LifeHarm DEF traffic
<1>14. GivenBack'
  BY <1>1 DEF GivenBack
<1> QED
  BY <1>5, <1>6, <1>8, <1>12, <1>13, <1>14

\* After the last step of a device the next is begun, or set-up is complete.
LEMMA Next_Device ==
  ASSUME TypeOK, Stages, phase = "setup", NextDevice
  PROVE  /\ i \in Device /\ i' = i + 1 /\ step' = "data" /\ phase' \in {"setup", "live"}
         /\ i' \in 0 .. NDEVICES
         /\ \A d \in Device : d \in Int /\ ((phase' = "setup" => d < i') <=> d < i')
         /\ phase' = "setup" => i' < NDEVICES
<1>1. i \in Device
  BY DiskAssumption DEF Stages, TypeOK, Device
<1>2. /\ i' = i + 1 /\ step' = "data" /\ phase' \in {"setup", "live"}
      /\ phase' = "setup" => i' < NDEVICES
      /\ phase' = "live" => ~(i' < NDEVICES)
  BY DEF NextDevice
<1>3. i' \in 0 .. NDEVICES
  BY <1>1, <1>2, DiskAssumption DEF Device
<1>4. \A d \in Device : d \in Int /\ ((phase' = "setup" => d < i') <=> d < i')
  BY <1>1, <1>2, <1>3, DiskAssumption DEF Device
<1> QED
  BY <1>1, <1>2, <1>3, <1>4

\* vmalloc failed: the device stays blank.
LEMMA NoDataStep ==
  ASSUME DiskInv, ~Halted, S_NoData
  PROVE  DiskInv'
<1> USE DEF DiskInv, Inv
<1>1. /\ phase = "setup" /\ step = "data" /\ dev' = dev
      /\ allocated' = allocated /\ mode' = mode /\ param' = param
      /\ major' = major /\ open' = open /\ UNCHANGED traffic /\ harm' = harm
      /\ mem' = mem /\ NextDevice
  BY DEF S_NoData, At, Stay
<1>2. /\ i \in Device /\ i' = i + 1 /\ step' = "data" /\ phase' \in {"setup", "live"}
      /\ i' \in 0 .. NDEVICES
      /\ \A d \in Device : d \in Int /\ ((phase' = "setup" => d < i') <=> d < i')
      /\ phase' = "setup" => i' < NDEVICES
  BY <1>1, Next_Device
<1>3. Blank(i)
  BY <1>1, <1>2 DEF Stages, ToCome
<1>5. TypeOK'
  <2>1. LifeTypes'
    BY <1>1, <1>2, TypedLife DEF LifeTypes
  <2> QED
    BY <1>1, <2>1, LifeTyped DEF TypeOK
<1>6. Requests' /\ Carried'
  <2>1. \A d \in Device : /\ dev[d].gd # "none" => dev'[d].gd # "none"
                          /\ pend[d] # {} \/ started[d] # <<>> =>
                               dev'[d].queue \in {"on", "dying"}
    BY <1>1 DEF Requests, Queues
  <2> QED
    BY <1>1, <2>1, LifeLeavesBios
<1>8. Stages'
  <2>1. \A d \in Device : ToCome(d)' => Blank(d)'
    BY <1>1, <1>2 DEF Stages, ToCome, Blank
  <2> QED
    BY <1>1, <1>2, <2>1 DEF Stages, Cleaned, Freed, Exiting, Blank
<1>9. \A d \in Device : d \in HalfMade' <=> d \in HalfMade
  BY <1>1, <1>2, <1>3, InHalf DEF Blank, HalfMade
<1>10. \A d \in Device : Whole(d)' <=> Whole(d)
  BY <1>1, <1>9 DEF Whole
<1>11. \A d \in Device : ~Freed(d) /\ ~Freed(d)'
  BY <1>1, <1>2 DEF Freed
<1>12. Owned'
  BY <1>1, <1>2, <1>10, <1>11 DEF Owned
<1>13. HarmOnlyFrom'
  <2>1. "free" \in harm' => HalfMade' # {}
    BY <1>1, <1>9, InHalf DEF HarmOnlyFrom
  <2> QED
    BY <1>1, <2>1, LifeHarm DEF traffic
<1>14. GivenBack'
  BY <1>2 DEF GivenBack
<1> QED
  BY <1>5, <1>6, <1>8, <1>12, <1>13, <1>14

\* The queue of the device is made.
LEMMA QueueStep ==
  ASSUME DiskInv, ~Halted, S_Queue
  PROVE  DiskInv'
<1> USE DEF DiskInv, Inv
<1>1. /\ phase = "setup" /\ step = "queue"
      /\ dev' = [dev EXCEPT ![i].queue = "on"] /\ step' = "gd"
      /\ allocated' = allocated /\ mode' = mode /\ param' = param
      /\ phase' = phase /\ i' = i
      /\ major' = major /\ open' = open /\ UNCHANGED traffic /\ harm' = harm
      /\ mem' = mem
  BY DEF S_Queue, At, Stay
<1>2. i \in Device /\ \A d \in Device : d \in Int
  BY <1>1, DiskAssumption DEF Stages, Device, TypeOK
<1>3. dev[i].data # NULL /\ dev[i].gd = "none" /\ dev[i].queue = "none"
  BY <1>1, <1>2 DEF Stages
<1>4. /\ dev' \in [Device -> DevType]
      /\ \A d \in Device : d # i => dev'[d] = dev[d]
      /\ dev'[i].data = dev[i].data /\ dev'[i].queue = "on"
      /\ dev'[i].gd = "none"
  BY <1>1, <1>2, <1>3, TypedLife DEF LifeTypes, DevType
<1>5. TypeOK'
  <2>1. LifeTypes'
    BY <1>1, <1>4, TypedLife DEF LifeTypes
  <2> QED
    BY <1>1, <2>1, LifeTyped DEF TypeOK
<1>6. Requests' /\ Carried'
  <2>1. \A d \in Device : /\ dev[d].gd # "none" => dev'[d].gd # "none"
                          /\ pend[d] # {} \/ started[d] # <<>> =>
                               dev'[d].queue \in {"on", "dying"}
    BY <1>3, <1>4 DEF Requests, Queues
  <2> QED
    BY <1>1, <2>1, LifeLeavesBios
<1>8. Stages'
  <2>1. \A d \in Device : ToCome(d)' => Blank(d)'
    BY <1>1, <1>2, <1>4 DEF Stages, ToCome, Blank
  <2> QED
    BY <1>1, <1>2, <1>3, <1>4, <2>1 DEF Stages, Cleaned, Freed, Exiting
<1>9. \A d \in Device : d \in HalfMade' <=> d \in HalfMade
  BY <1>1, <1>2, <1>3, <1>4, InHalf DEF HalfMade
<1>10. \A d \in Device : Whole(d)' <=> Whole(d)
  BY <1>1, <1>2, <1>4, <1>9 DEF Whole
<1>11. \A d \in Device : /\ ~Freed(d) /\ ~Freed(d)'
                         /\ dev'[d].data = dev[d].data
  BY <1>1, <1>4 DEF Freed
<1>12. Owned'
  BY <1>1, <1>10, <1>11 DEF Owned
<1>13. HarmOnlyFrom'
  <2>1. "free" \in harm' => HalfMade' # {}
    BY <1>1, <1>9, InHalf DEF HarmOnlyFrom
  <2> QED
    BY <1>1, <2>1, LifeHarm DEF traffic
<1>14. GivenBack'
  BY <1>1 DEF GivenBack
<1> QED
  BY <1>5, <1>6, <1>8, <1>12, <1>13, <1>14

\* add_disk: the device stays whole.
LEMMA DiskStep ==
  ASSUME DiskInv, ~Halted, S_Disk
  PROVE  DiskInv'
<1> USE DEF DiskInv, Inv
<1>1. /\ phase = "setup" /\ step = "gd"
      /\ dev' = [dev EXCEPT ![i].gd = "on"] /\ NextDevice
      /\ allocated' = allocated /\ mode' = mode /\ param' = param
      /\ major' = major /\ open' = open /\ UNCHANGED traffic /\ harm' = harm
      /\ mem' = mem
  BY DEF S_Disk, At, Stay
<1>2. /\ i \in Device /\ i' = i + 1 /\ step' = "data" /\ phase' \in {"setup", "live"}
      /\ i' \in 0 .. NDEVICES
      /\ \A d \in Device : d \in Int /\ ((phase' = "setup" => d < i') <=> d < i')
      /\ phase' = "setup" => i' < NDEVICES
  BY <1>1, Next_Device
<1>3. dev[i].data # NULL /\ dev[i].gd = "none" /\ dev[i].queue = "on"
  BY <1>1, <1>2 DEF Stages
<1>4. /\ dev' \in [Device -> DevType]
      /\ \A d \in Device : d # i => dev'[d] = dev[d]
      /\ dev'[i].data = dev[i].data /\ dev'[i].queue = "on"
      /\ dev'[i].gd = "on"
  BY <1>1, <1>2, <1>3, TypedLife DEF LifeTypes, DevType
<1>5. TypeOK'
  <2>1. LifeTypes'
    BY <1>1, <1>2, <1>4, TypedLife DEF LifeTypes
  <2> QED
    BY <1>1, <2>1, LifeTyped DEF TypeOK
<1>6. Requests' /\ Carried'
  <2>1. \A d \in Device : /\ dev[d].gd # "none" => dev'[d].gd # "none"
                          /\ pend[d] # {} \/ started[d] # <<>> =>
                               dev'[d].queue \in {"on", "dying"}
    BY <1>3, <1>4 DEF Requests, Queues
  <2> QED
    BY <1>1, <2>1, LifeLeavesBios
<1>8. Stages'
  <2>1. \A d \in Device : ToCome(d)' => Blank(d)'
    BY <1>1, <1>2, <1>4 DEF Stages, ToCome, Blank
  <2> QED
    BY <1>1, <1>2, <1>3, <1>4, <2>1 DEF Stages, Cleaned, Freed, Exiting
<1>9. \A d \in Device : d \in HalfMade' <=> d \in HalfMade
  BY <1>1, <1>2, <1>3, <1>4, InHalf DEF HalfMade
<1>10. \A d \in Device : Whole(d)' <=> Whole(d)
  BY <1>1, <1>2, <1>4, <1>9 DEF Whole
<1>11. \A d \in Device : /\ ~Freed(d) /\ ~Freed(d)'
                         /\ dev'[d].data = dev[d].data
  BY <1>1, <1>2, <1>4 DEF Freed
<1>12. Owned'
  BY <1>1, <1>2, <1>10, <1>11 DEF Owned
<1>13. HarmOnlyFrom'
  <2>1. "free" \in harm' => HalfMade' # {}
    BY <1>1, <1>9, InHalf DEF HarmOnlyFrom
  <2> QED
    BY <1>1, <2>1, LifeHarm DEF traffic
<1>14. GivenBack'
  BY <1>2 DEF GivenBack
<1> QED
  BY <1>5, <1>6, <1>8, <1>12, <1>13, <1>14

\* out_vfree: one whole device less, one half-made device more.
LEMMA VfreeStep ==
  ASSUME DiskInv, ~Halted, S_Vfree
  PROVE  DiskInv'
<1> USE DEF DiskInv, Inv
<1>1. /\ phase = "setup" /\ step \in {"queue", "gd"}
      /\ dev' = dev /\ NextDevice
      /\ allocated' = allocated \ {dev[i].data}
      /\ harm' = harm \union (IF dev[i].data \in allocated THEN {} ELSE {"free"})
      /\ mode' = mode /\ param' = param
      /\ major' = major /\ open' = open /\ UNCHANGED traffic
      /\ mem' = mem
  BY DEF S_Vfree, At, Stay, Vfree
<1>2. /\ i \in Device /\ i' = i + 1 /\ step' = "data" /\ phase' \in {"setup", "live"}
      /\ i' \in 0 .. NDEVICES
      /\ \A d \in Device : d \in Int /\ ((phase' = "setup" => d < i') <=> d < i')
      /\ phase' = "setup" => i' < NDEVICES
  BY <1>1, Next_Device
<1>3. dev[i].data # NULL /\ dev[i].gd = "none"
  BY <1>1, <1>2 DEF Stages
<1>4. Whole(i) /\ \A d \in Device : ~Freed(d) /\ ~Freed(d)'
  BY <1>1, <1>2, <1>3, InHalf DEF Whole, Freed
<1>7. harm' = harm
  <2>1. dev[i].data \in allocated
    BY <1>1, <1>2, <1>4 DEF Owned
  <2> QED
    BY <1>1, <2>1
<1>5. TypeOK'
  <2>1. LifeTypes'
    BY <1>1, <1>2, <1>7, TypedLife DEF LifeTypes
  <2> QED
    BY <1>1, <2>1, LifeTyped DEF TypeOK
<1>6. Requests' /\ Carried'
  <2>1. \A d \in Device : /\ dev[d].gd # "none" => dev'[d].gd # "none"
                          /\ pend[d] # {} \/ started[d] # <<>> =>
                               dev'[d].queue \in {"on", "dying"}
    BY <1>1 DEF Requests, Queues
  <2> QED
    BY <1>1, <2>1, LifeLeavesBios
<1>8. Stages'
  <2>1. \A d \in Device : ToCome(d)' => Blank(d)'
    BY <1>1, <1>2 DEF Stages, ToCome, Blank
  <2> QED
    BY <1>1, <1>2, <2>1 DEF Stages, Cleaned, Freed, Exiting
<1>9. \A d \in Device : d \in HalfMade' <=> d \in HalfMade \/ d = i
  BY <1>1, <1>2, <1>3, InHalf DEF HalfMade
<1>10. \A d \in Device : Whole(d)' <=> Whole(d) /\ d # i
  BY <1>1, <1>9 DEF Whole
<1>12. Owned'
  <2>1. \A d \in Device : Whole(d)' => dev'[d].data \in allocated'
    BY <1>1, <1>2, <1>4, <1>10 DEF Owned
  <2>2. \A b \in allocated' : \E d \in Device : dev'[d].data = b /\ ~Freed(d)'
    BY <1>1, <1>4 DEF Owned
  <2> QED
    BY <1>1, <1>10, <2>1, <2>2 DEF Owned
<1>13. HarmOnlyFrom'
  <2>1. "free" \in harm' => HalfMade' # {}
    BY <1>2, <1>9
  <2> QED
    BY <1>7, <2>1, <1>1, LifeHarm DEF traffic
<1>14. GivenBack'
  BY <1>2 DEF GivenBack
<1> QED
  BY <1>5, <1>6, <1>8, <1>12, <1>13, <1>14

\* rmmod begins with the first device.
LEMMA RmmodStep ==
  ASSUME DiskInv, ~Halted, Rmmod
  PROVE  DiskInv'
<1> USE DEF DiskInv, Inv
<1>1. /\ phase = "live" /\ phase' = "exit" /\ i' = 0 /\ step' = "gd"
      /\ dev' = dev /\ allocated' = allocated /\ harm' = harm
      /\ mode' = mode /\ param' = param /\ mem' = mem
      /\ major' = major /\ open' = open /\ UNCHANGED traffic
  BY DEF Rmmod, Stay
<1>2. 0 \in 0 .. NDEVICES /\ 0 < NDEVICES /\ \A d \in Device : d \in Int /\ ~(d < 0)
  BY DiskAssumption DEF Device
<1>5. TypeOK'
  <2>1. LifeTypes'
    BY <1>1, <1>2, TypedLife DEF LifeTypes
  <2> QED
    BY <1>1, <2>1, LifeTyped DEF TypeOK
<1>6. Requests' /\ Carried'
  <2>1. \A d \in Device : /\ dev[d].gd # "none" => dev'[d].gd # "none"
                          /\ pend[d] # {} \/ started[d] # <<>> =>
                               dev'[d].queue \in {"on", "dying"}
    BY <1>1 DEF Requests, Queues
  <2> QED
    BY <1>1, <2>1, LifeLeavesBios
<1>8. Stages'
  BY <1>1, <1>2 DEF Stages, ToCome, Cleaned, Freed, Exiting
<1>9. HalfMade' = HalfMade
  BY <1>1 DEF HalfMade
<1>10. \A d \in Device : (Whole(d)' <=> Whole(d)) /\ ~Freed(d) /\ ~Freed(d)'
  BY <1>1, <1>2, <1>9 DEF Whole, Freed
<1>12. Owned'
  BY <1>1, <1>10 DEF Owned
<1>13. HarmOnlyFrom'
  <2>1. "free" \in harm' => HalfMade' # {}
    BY <1>1, <1>9 DEF HarmOnlyFrom
  <2> QED
    BY <1>1, <2>1, LifeHarm DEF traffic
<1>14. GivenBack'
  BY <1>1 DEF GivenBack
<1> QED
  BY <1>5, <1>6, <1>8, <1>12, <1>13, <1>14

\* del_gendisk: the disk is no longer to be opened.
LEMMA GoneDiskStep ==
  ASSUME DiskInv, ~Halted, X_Disk
  PROVE  DiskInv'
<1> USE DEF DiskInv, Inv
<1>1. /\ phase = "exit" /\ step = "gd" /\ step' = "queue"
      /\ dev' = [dev EXCEPT ![i].gd = IF @ = "on" THEN "deleted" ELSE @]
      /\ phase' = phase /\ i' = i
      /\ allocated' = allocated /\ harm' = harm
      /\ mode' = mode /\ param' = param /\ mem' = mem
      /\ major' = major /\ open' = open /\ UNCHANGED traffic
  BY DEF X_Disk, Stay, Exiting
<1>2. i \in Device /\ \A d \in Device : d \in Int
  BY <1>1, DiskAssumption DEF Stages, Device, TypeOK
<1>4. /\ dev' \in [Device -> DevType]
      /\ \A d \in Device : d # i => dev'[d] = dev[d]
      /\ dev'[i].data = dev[i].data /\ dev'[i].queue = dev[i].queue
      /\ dev'[i].gd = "none" <=> dev[i].gd = "none"
  <2>1. dev[i] \in DevType
    BY <1>2, TypedLife DEF LifeTypes
  <2> DEFINE g == IF dev[i].gd = "on" THEN "deleted" ELSE dev[i].gd
  <2>2. dev' = [dev EXCEPT ![i] = [dev[i] EXCEPT !.gd = g]]
    BY <1>1
  <2>3. g \in {"none", "on", "deleted"} /\ (g = "none" <=> dev[i].gd = "none")
    BY <2>1 DEF DevType
  <2>4. [dev[i] EXCEPT !.gd = g] \in DevType
    BY <2>1, <2>3 DEF DevType
  <2>5. dev'[i] = [dev[i] EXCEPT !.gd = g]
    BY <2>2, <1>2, TypedLife DEF LifeTypes
  <2>6. dev'[i].data = dev[i].data /\ dev'[i].queue = dev[i].queue /\ dev'[i].gd = g
    BY <2>5, <2>1 DEF DevType
  <2>7. \A d \in Device : d # i => dev'[d] = dev[d]
    BY <2>2, <1>2, TypedLife DEF LifeTypes
  <2>8. dev' \in [Device -> DevType]
    BY <2>2, <2>4, <1>2, TypedLife DEF LifeTypes
  <2> QED
    BY <2>3, <2>6, <2>7, <2>8
<1>5. TypeOK'
  <2>1. LifeTypes'
    BY <1>1, <1>4, TypedLife DEF LifeTypes
  <2> QED
    BY <1>1, <2>1, LifeTyped DEF TypeOK
<1>7. \A d \in Device : /\ dev'[d].data = dev[d].data /\ dev'[d].queue = dev[d].queue
                        /\ dev'[d].gd = "none" <=> dev[d].gd = "none"
  BY <1>4
<1>6. Requests' /\ Carried'
  <2>1. \A d \in Device : /\ dev[d].gd # "none" => dev'[d].gd # "none"
                          /\ pend[d] # {} \/ started[d] # <<>> =>
                               dev'[d].queue \in {"on", "dying"}
    BY <1>7 DEF Requests, Queues
  <2> QED
    BY <1>1, <2>1, LifeLeavesBios
<1>8. Stages'
  BY <1>1, <1>2, <1>7 DEF Stages, ToCome, Cleaned, Freed, Exiting
<1>9. \A d \in Device : d \in HalfMade' <=> d \in HalfMade
  BY <1>1, <1>7, InHalf DEF HalfMade
<1>10. \A d \in Device : (Whole(d)' <=> Whole(d)) /\ (Freed(d)' <=> Freed(d))
  BY <1>1, <1>7, <1>9 DEF Whole, Freed
<1>11. HalfMade' = HalfMade
  BY <1>9 DEF HalfMade
<1>12. Owned'
  BY <1>1, <1>7, <1>10, <1>11 DEF Owned
<1>13. HarmOnlyFrom'
  <2>1. "free" \in harm' => HalfMade' # {}
    BY <1>1, <1>11 DEF HarmOnlyFrom
  <2> QED
    BY <1>1, <2>1, LifeHarm DEF traffic
<1>14. GivenBack'
  BY <1>1 DEF GivenBack
<1> QED
  BY <1>5, <1>6, <1>8, <1>12, <1>13, <1>14

\* blk_cleanup_queue begins; a queue of make_request is only put.
LEMMA CleanupStep ==
  ASSUME DiskInv, ~Halted, X_Queue
  PROVE  DiskInv'
<1> USE DEF DiskInv, Inv
<1> DEFINE q == IF dev[i].queue = "on" THEN Dropped ELSE dev[i].queue
<1>1. /\ phase = "exit" /\ step = "queue"
      /\ dev' = [dev EXCEPT ![i] = [dev[i] EXCEPT !.queue = q]]
      /\ step' = IF dev'[i].queue = "dying" THEN "drain" ELSE "data"
      /\ phase' = phase /\ i' = i
      /\ allocated' = allocated /\ harm' = harm
      /\ mode' = mode /\ param' = param /\ mem' = mem
      /\ major' = major /\ open' = open /\ UNCHANGED traffic
  BY DEF X_Queue, Stay, Exiting
<1>2. i \in Device /\ \A d \in Device : d \in Int
  BY <1>1, DiskAssumption DEF Stages, Device, TypeOK
<1>3. /\ dev[i].queue \in {"none", "on"} /\ mode \in {"queue", "noqueue"}
      /\ q = "none" <=> dev[i].queue = "none"
      /\ q = "dying" => mode = "queue"
      /\ q \in {"none", "dying", "put"}
      /\ mode = "queue" => q # "put"
  BY <1>1, <1>2 DEF Stages, TypeOK, Dropped
<1>4. /\ dev' \in [Device -> DevType]
      /\ \A d \in Device : d # i => dev'[d] = dev[d]
      /\ dev'[i].data = dev[i].data /\ dev'[i].gd = dev[i].gd
      /\ dev'[i].queue = q
  <2>1. dev[i] \in DevType
    BY <1>2, TypedLife DEF LifeTypes
  <2>2. [dev[i] EXCEPT !.queue = q] \in DevType
    BY <2>1, <1>3 DEF DevType
  <2> HIDE DEF q
  <2>3. dev'[i] = [dev[i] EXCEPT !.queue = q]
    BY <1>1, <1>2, TypedLife DEF LifeTypes
  <2>4. /\ dev'[i].data = dev[i].data /\ dev'[i].gd = dev[i].gd
        /\ dev'[i].queue = q
    BY <2>3, <2>1 DEF DevType
  <2>5. \A d \in Device : d # i => dev'[d] = dev[d]
    BY <1>1, <1>2, TypedLife DEF LifeTypes
  <2>6. dev' \in [Device -> DevType]
    BY <1>1, <2>2, <1>2, TypedLife DEF LifeTypes
  <2> QED
    BY <2>4, <2>5, <2>6
<1> HIDE DEF q
<1>5. TypeOK'
  <2>1. LifeTypes'
    BY <1>1, <1>4, TypedLife DEF LifeTypes
  <2> QED
    BY <1>1, <2>1, LifeTyped DEF TypeOK
<1>7. \A d \in Device : dev'[d].data = dev[d].data /\ dev'[d].gd = dev[d].gd
  BY <1>4
<1>6. Requests' /\ Carried'
  <2>1. \A d \in Device : /\ dev[d].gd # "none" => dev'[d].gd # "none"
                          /\ pend[d] # {} \/ started[d] # <<>> =>
                               dev'[d].queue \in {"on", "dying"}
    BY <1>3, <1>4, <1>7 DEF Requests, Queues
  <2> QED
    BY <1>1, <2>1, LifeLeavesBios
<1>8. Stages'
  <2>1. \A d \in Device : dev'[d].queue # "none" <=> dev[d].queue # "none"
    BY <1>3, <1>4
  <2>2. \A d \in Device : Cleaned(d)' => dev'[d].queue \in {"none", "dead", "put"}
    BY <1>1, <1>2, <1>3, <1>4 DEF Stages, Cleaned, Freed, Exiting
  <2>3. \A d \in Device : ~ToCome(d)'
    BY <1>1 DEF ToCome
  <2> QED
    BY <1>1, <1>2, <1>3, <1>4, <1>7, <2>1, <2>2, <2>3 DEF Stages
<1>11. HalfMade' = HalfMade
  BY <1>1, <1>7 DEF HalfMade
<1>10. \A d \in Device : (Whole(d)' <=> Whole(d)) /\ (Freed(d)' <=> Freed(d))
  BY <1>1, <1>7, <1>11 DEF Whole, Freed
<1>12. Owned'
  BY <1>1, <1>7, <1>10, <1>11 DEF Owned
<1>13. HarmOnlyFrom'
  <2>1. "free" \in harm' => HalfMade' # {}
    BY <1>1, <1>11 DEF HarmOnlyFrom
  <2> QED
    BY <1>1, <2>1, LifeHarm DEF traffic
<1>14. GivenBack'
  BY <1>1 DEF GivenBack
<1> QED
  BY <1>5, <1>6, <1>8, <1>12, <1>13, <1>14

\* blk_cleanup_queue returns: the queue has no requests.
LEMMA DrainStep ==
  ASSUME DiskInv, ~Halted, X_Drain
  PROVE  DiskInv'
<1> USE DEF DiskInv, Inv
<1>1. /\ phase = "exit" /\ step = "drain" /\ step' = "data"
      /\ pend[i] = {} /\ started[i] = <<>>
      /\ dev' = [dev EXCEPT ![i].queue = "dead"]
      /\ phase' = phase /\ i' = i
      /\ allocated' = allocated /\ harm' = harm
      /\ mode' = mode /\ param' = param /\ mem' = mem
      /\ major' = major /\ open' = open /\ UNCHANGED traffic
  BY DEF X_Drain, Stay, Exiting
<1>2. i \in Device /\ \A d \in Device : d \in Int
  BY <1>1, DiskAssumption DEF Stages, Device, TypeOK
<1>3. dev[i].queue = "dying" /\ mode = "queue"
  BY <1>1, <1>2 DEF Stages
<1>4. /\ dev' \in [Device -> DevType]
      /\ \A d \in Device : d # i => dev'[d] = dev[d]
      /\ dev'[i].data = dev[i].data /\ dev'[i].gd = dev[i].gd
      /\ dev'[i].queue = "dead"
  BY <1>1, <1>2, <1>3, TypedLife DEF LifeTypes, DevType
<1>5. TypeOK'
  <2>1. LifeTypes'
    BY <1>1, <1>4, TypedLife DEF LifeTypes
  <2> QED
    BY <1>1, <2>1, LifeTyped DEF TypeOK
<1>7. \A d \in Device : dev'[d].data = dev[d].data /\ dev'[d].gd = dev[d].gd
  BY <1>4
<1>6. Requests' /\ Carried'
  <2>1. \A d \in Device : /\ dev[d].gd # "none" => dev'[d].gd # "none"
                          /\ pend[d] # {} \/ started[d] # <<>> =>
                               dev'[d].queue \in {"on", "dying"}
    BY <1>1, <1>4, <1>7 DEF Requests, Queues
  <2> QED
    BY <1>1, <2>1, LifeLeavesBios
<1>8. Stages'
  <2>1. \A d \in Device : dev'[d].queue # "none" <=> dev[d].queue # "none"
    BY <1>3, <1>4
  <2>2. \A d \in Device : Cleaned(d)' => dev'[d].queue \in {"none", "dead", "put"}
    BY <1>1, <1>2, <1>3, <1>4 DEF Stages, Cleaned, Freed, Exiting
  <2>3. \A d \in Device : ~ToCome(d)'
    BY <1>1 DEF ToCome
  <2> QED
    BY <1>1, <1>2, <1>3, <1>4, <1>7, <2>1, <2>2, <2>3 DEF Stages
<1>11. HalfMade' = HalfMade
  BY <1>1, <1>7 DEF HalfMade
<1>10. \A d \in Device : (Whole(d)' <=> Whole(d)) /\ (Freed(d)' <=> Freed(d))
  BY <1>1, <1>7, <1>11 DEF Whole, Freed
<1>12. Owned'
  BY <1>1, <1>7, <1>10, <1>11 DEF Owned
<1>13. HarmOnlyFrom'
  <2>1. "free" \in harm' => HalfMade' # {}
    BY <1>1, <1>11 DEF HarmOnlyFrom
  <2> QED
    BY <1>1, <2>1, LifeHarm DEF traffic
<1>14. GivenBack'
  BY <1>1 DEF GivenBack
<1> QED
  BY <1>5, <1>6, <1>8, <1>12, <1>13, <1>14

\* vfree in exit, for a whole device of its own data; after a half-made device
\* anything may be freed that is in use, never more.
LEMMA FreeStep ==
  ASSUME DiskInv, ~Halted, X_Data
  PROVE  DiskInv'
<1> USE DEF DiskInv, Inv
<1>1. /\ phase = "exit" /\ step = "data" /\ step' = "gd"
      /\ i' = i + 1 /\ phase' = (IF i + 1 < NDEVICES THEN "exit" ELSE "gone")
      /\ dev' = dev
      /\ major' = (major /\ i + 1 < NDEVICES)
      /\ mode' = mode /\ param' = param /\ mem' = mem
      /\ open' = open /\ UNCHANGED traffic
  BY DEF X_Data, Stay, Exiting, X_Next
<1>2. /\ IF dev[i].data = NULL THEN allocated' = allocated /\ harm' = harm
         ELSE /\ allocated' = allocated \ {dev[i].data}
              /\ harm' = harm \union
                   (IF dev[i].data \in allocated THEN {} ELSE {"free"})
  BY DEF X_Data, Vfree
<1>3. /\ i \in Device /\ i' \in 0 .. NDEVICES /\ i \in Int
      /\ \A d \in Device : d \in Int /\ (~(d < i') <=> ~(d < i) /\ d # i)
      /\ ~(i + 1 < NDEVICES) => \A d \in Device : d < i'
  BY <1>1, DiskAssumption DEF Stages, Device, TypeOK
<1>4. \A d \in Device : Freed(d)' <=> Freed(d) \/ d = i
  BY <1>1, <1>3 DEF Freed
<1>5. TypeOK'
  <2>1. phase' \in {"exit", "gone"} /\ major' \in BOOLEAN
    BY <1>1, TypedLife DEF LifeTypes
  <2>2. allocated' \subseteq allocated /\ harm' \subseteq harm \union {"free"}
    BY <1>2
  <2>3. LifeTypes'
    BY <1>1, <1>3, <2>1, <2>2, TypedLife DEF LifeTypes, Harm
  <2> QED
    BY <1>1, <2>3, LifeTyped DEF TypeOK
<1>6. Requests' /\ Carried'
  <2>1. \A d \in Device : /\ dev[d].gd # "none" => dev'[d].gd # "none"
                          /\ pend[d] # {} \/ started[d] # <<>> =>
                               dev'[d].queue \in {"on", "dying"}
    BY <1>1 DEF Requests, Queues
  <2> QED
    BY <1>1, <2>1, LifeLeavesBios
<1>8. Stages'
  <2>1. \A d \in Device : Cleaned(d)' => dev'[d].queue \in {"none", "dead", "put"}
    BY <1>1, <1>3, <1>4 DEF Stages, Cleaned, Exiting
  <2>2. \A d \in Device : ~ToCome(d)' /\ (d > i' \/ d = i' => d > i)
    BY <1>1, <1>3 DEF ToCome
  <2>3. phase' \in {"exit", "gone"} /\ (phase' = "exit" => i' < NDEVICES)
    BY <1>1
  <2> QED
    BY <1>1, <1>3, <2>1, <2>2, <2>3 DEF Stages
<1>11. HalfMade' = HalfMade
  BY <1>1 DEF HalfMade
<1>10. \A d \in Device : Whole(d)' <=> Whole(d)
  BY <1>1, <1>11 DEF Whole
<1>9. HalfMade = {} /\ dev[i].data # NULL =>
        Whole(i) /\ dev[i].data \in allocated
  BY <1>1, <1>3 DEF Whole, Owned, Freed
<1>12. Owned'
  <2>1. \A a \in allocated' : \E d \in Device : dev'[d].data = a /\ ~Freed(d)'
    <3> SUFFICES ASSUME NEW a \in allocated'
                 PROVE  \E d \in Device : dev[d].data = a /\ ~Freed(d)'
      BY <1>1
    <3>1. a \in allocated /\ (dev[i].data # NULL => a # dev[i].data) /\ a # NULL
      BY <1>2, DiskAssumption DEF TypeOK
    <3>2. PICK d \in Device : dev[d].data = a /\ ~Freed(d)
      BY <3>1 DEF Owned
    <3> QED
      BY <3>1, <3>2, <1>4
  <2>2. \A d \in Device : Whole(d)' /\ ~Freed(d)' /\ (phase' = "exit" => HalfMade' = {}) =>
          dev'[d].data \in allocated'
    <3> SUFFICES ASSUME NEW d \in Device, Whole(d), ~Freed(d)',
                        phase' = "exit" => HalfMade = {}
                 PROVE  dev[d].data \in allocated'
      BY <1>1, <1>10, <1>11
    <3>1. phase' = "exit" /\ ~Freed(d) /\ d # i
      BY <1>1, <1>4 DEF Freed
    <3>2. dev[d].data \in allocated
      BY <3>1 DEF Owned
    <3> QED
      BY <1>2, <1>3, <1>9, <3>1, <3>2 DEF Owned
  <2> QED
    BY <1>1, <1>10, <2>1, <2>2 DEF Owned
<1>13. HarmOnlyFrom'
  <2>1. "free" \in harm' => HalfMade' # {}
    BY <1>2, <1>9, <1>11 DEF HarmOnlyFrom
  <2>2. harm' \subseteq harm \union {"free"}
    BY <1>2
  <2> QED
    BY <1>1, <2>1, <2>2, LifeHarm DEF traffic
<1>14. GivenBack'
  <2> SUFFICES ASSUME phase' = "gone"
               PROVE  /\ allocated' = {} /\ ~major'
                      /\ \A d \in Device : dev'[d].queue \in {"none", "dead", "put"}
    BY DEF GivenBack
  <2>1. ~(i + 1 < NDEVICES) /\ \A d \in Device : Freed(d)'
    BY <1>1 DEF Freed
  <2>2. allocated' = {}
    BY <2>1, <1>12 DEF Owned
  <2>3. \A d \in Device : Cleaned(d)'
    BY <2>1 DEF Cleaned
  <2> QED
    BY <1>1, <2>1, <2>2, <2>3, <1>8 DEF Stages
<1> QED
  BY <1>5, <1>6, <1>8, <1>12, <1>13, <1>14

-----------------------------------------------------------------------------
(* A transfer *)

\* The k-th segment of a bio lies within its data.
LEMMA SegmentProps ==
  ASSUME NEW b \in Bio, NEW k \in Nat, k < Len(Ends(b))
  PROVE  /\ Total(b) \in Nat /\ Ends(b)[k + 1] \in Nat
         /\ Ends(b)[k + 1] > 0 /\ Ends(b)[k + 1] <= Total(b)
         /\ k > 0 => Ends(b)[k] \in Nat /\ Ends(b)[k] < Ends(b)[k + 1]
<1> DEFINE e == Ends(b)
<1>1. /\ e \in Seq(Nat \ {0})
      /\ \A j, l \in DOMAIN e : j < l => e[j] < e[l]
  BY DiskAssumption
<1> HIDE DEF e
<1>2. /\ Len(e) \in Nat /\ DOMAIN e = 1 .. Len(e)
      /\ \A j \in 1 .. Len(e) : e[j] \in Nat \ {0}
  BY <1>1, LenProperties, ElementOfSeq
<1>3. /\ k < Len(e) /\ k + 1 \in 1 .. Len(e) /\ Len(e) \in 1 .. Len(e)
      /\ k > 0 => k \in 1 .. Len(e)
  BY <1>2 DEF e
<1>4. e # <<>>
  BY <1>1, <1>3, EmptySeq
<1>5. Total(b) = e[Len(e)]
  BY <1>4 DEF e, Total, Last
<1>6. e[k + 1] <= e[Len(e)]
  <2>1. CASE k + 1 = Len(e)
    BY <2>1, <1>2, <1>3
  <2>2. CASE k + 1 < Len(e)
    BY <2>2, <1>1, <1>2, <1>3
  <2>3. k + 1 = Len(e) \/ k + 1 < Len(e)
    <3> DEFINE n == Len(e)
    <3>1. n \in Nat /\ k < n
      BY <1>2, <1>3
    <3> HIDE DEF n
    <3>2. k + 1 = n \/ k + 1 < n
      BY <3>1
    <3> QED
      BY <3>2 DEF n
  <2> QED
    BY <2>1, <2>2, <2>3
<1>7. k > 0 => e[k] \in Nat /\ e[k] < e[k + 1]
  <2> SUFFICES ASSUME k > 0 PROVE e[k] \in Nat /\ e[k] < e[k + 1]
    OBVIOUS
  <2>1. k \in DOMAIN e /\ k + 1 \in DOMAIN e /\ k < k + 1
    BY <1>2, <1>3
  <2> QED
    BY <1>1, <1>2, <2>1
<1> QED
  BY <1>2, <1>3, <1>5, <1>6, <1>7 DEF e

\* What a bio is, in numbers.
LEMMA BioProps ==
  ASSUME NEW b \in Bio, TypeOK, moved[b] < Len(Ends(b))
  PROVE  /\ io[b].dev \in Device /\ io[b].sector \in Nat /\ NSECTORS \in Nat
         /\ moved[b] \in Nat /\ Len(Ends(b)) \in Nat
         /\ Total(b) \in Nat /\ io[b].sector + Total(b) <= NSECTORS
         /\ Step(b) \in Nat /\ Step(b) > 0 /\ Step(b) <= Total(b)
         /\ Offset(b) \in Nat /\ Length(b) \in Nat /\ Length(b) > 0
         /\ Offset(b) + Length(b) <= Total(b)
         /\ moved[b] = 0 => Length(b) = Step(b)
         /\ Place(b) \in Nat
<1>1. /\ io[b].dev \in Device /\ io[b].sector \in Nat /\ NSECTORS \in Nat
      /\ io[b].sector + Total(b) <= NSECTORS
  BY DiskAssumption
<1>2. Len(Ends(b)) \in Nat
  BY DiskAssumption, LenProperties
<1>3. moved[b] \in Nat
  BY <1>2 DEF TypeOK
<1>4. /\ Total(b) \in Nat /\ Ends(b)[moved[b] + 1] \in Nat
      /\ Ends(b)[moved[b] + 1] > 0 /\ Ends(b)[moved[b] + 1] <= Total(b)
      /\ moved[b] > 0 => Ends(b)[moved[b]] \in Nat /\ Ends(b)[moved[b]] < Ends(b)[moved[b] + 1]
  BY <1>3, SegmentProps
<1>5. Step(b) \in Nat /\ Step(b) > 0 /\ Step(b) <= Total(b)
  <2>1. 0 < Len(Ends(b))
    BY <1>2, <1>3
  <2> QED
    BY <2>1, SegmentProps DEF Step
<1>6. /\ Offset(b) \in Nat /\ Length(b) \in Nat /\ Length(b) > 0
      /\ Offset(b) + Length(b) <= Total(b)
  <2>1. CASE moved[b] = 0
    BY <2>1, <1>4 DEF Offset, Length
  <2>2. CASE moved[b] > 0
    BY <2>2, <1>4 DEF Offset, Length
  <2> QED
    BY <1>3, <2>1, <2>2
<1>7. moved[b] = 0 => Length(b) = Step(b)
  BY <1>5 DEF Offset, Length, Step
<1>8. Place(b) \in Nat
  <2>1. moved[b] * Step(b) \in Nat
    BY <1>3, <1>5
  <2> QED
    BY <2>1, <1>1 DEF Place
<1> QED
  BY <1>1, <1>2, <1>3, <1>4, <1>5, <1>6, <1>7, <1>8

\* The segments of an even bio are as long as the first, and lie at multiples
\* of that length.
LEMMA EvenProps ==
  ASSUME NEW b \in Bio, TypeOK, moved[b] < Len(Ends(b)), Even(b)
  PROVE  Length(b) = Step(b) /\ Offset(b) = moved[b] * Step(b)
<1>1. /\ moved[b] \in Nat /\ Len(Ends(b)) \in Nat /\ Step(b) \in Nat
  BY BioProps
<1>2. DOMAIN Ends(b) = 1 .. Len(Ends(b))
  BY DiskAssumption, LenProperties
<1> DEFINE m == moved[b]
           l == Step(b)
<1>3. Ends(b)[m + 1] = (m + 1) * l /\ (m > 0 => Ends(b)[m] = m * l)
  BY <1>1, <1>2 DEF Even
<1>4. Offset(b) = m * l
  BY <1>1, <1>3 DEF Offset
<1>5. (m + 1) * l - m * l = l
  BY <1>1
<1> QED
  BY <1>3, <1>4, <1>5 DEF Length

\* One round of vmem_disk_xfer_bio: what is written lies on the disk and comes
\* from the bio's data; harm is done only by a first length that is not this
\* segment's, or to data that was freed.
LEMMA TransferStep ==
  ASSUME NEW b \in Bio, TypeOK, moved[b] < Len(Ends(b)), Transfer(b)
  PROVE  /\ mem' \in [Addr -> [Sector -> Datum]]
         /\ DOMAIN moved' = Bio
         /\ \A c \in Bio : /\ moved'[c] \in 0 .. Len(Ends(c))
                           /\ moved'[c] = moved[c] \/ (c = b /\ moved'[c] = moved[c] + 1)
         /\ DOMAIN buffer' = Bio
         /\ \A c \in Bio : buffer'[c] \in [0 .. Total(c) - 1 -> Datum]
         /\ harm \subseteq harm' /\ harm' \subseteq harm \union {"data", "buffer"}
         /\ "data" \in harm' => "data" \in harm \/ dev[io[b].dev].data \notin allocated
         /\ "buffer" \in harm' => "buffer" \in harm \/ (moved'[b] > 0 /\ ~Even(b))
<1> DEFINE a == dev[io[b].dev].data
<1>0. /\ io[b].dev \in Device /\ io[b].sector \in Nat /\ NSECTORS \in Nat
      /\ moved[b] \in Nat /\ Len(Ends(b)) \in Nat
      /\ Total(b) \in Nat /\ io[b].sector + Total(b) <= NSECTORS
      /\ Step(b) \in Nat /\ Step(b) > 0 /\ Step(b) <= Total(b)
      /\ Offset(b) \in Nat /\ Length(b) \in Nat /\ Length(b) > 0
      /\ Offset(b) + Length(b) <= Total(b)
      /\ moved[b] = 0 => Length(b) = Step(b)
      /\ Place(b) \in Nat
  BY BioProps
<1>1. /\ moved' = [moved EXCEPT ![b] = IF Fits(b) /\ a \notin allocated THEN @ ELSE @ + 1]
      /\ IF Fits(b) /\ a \in allocated /\ Copied(b) \subseteq Sector
         THEN MemCpy(b, a) ELSE mem' = mem /\ buffer' = buffer
      /\ harm' = harm \union
           {h \in Harm : /\ Fits(b)
                         /\ \/ h = "data" /\ a \notin allocated
                            \/ h = "bounds" /\ ~(Copied(b) \subseteq Sector)
                            \/ h = "buffer" /\ Step(b) > Length(b)}
  BY DEF Transfer
<1>2. Fits(b) => Copied(b) \subseteq Sector
  BY <1>0 DEF Fits, Copied, Sector
<1>3. /\ moved'[b] = IF Fits(b) /\ a \notin allocated THEN moved[b] ELSE moved[b] + 1
      /\ \A c \in Bio : c # b => moved'[c] = moved[c]
      /\ DOMAIN moved' = Bio
  BY <1>1 DEF TypeOK
<1>4. moved'[b] \in 0 .. Len(Ends(b))
  BY <1>0, <1>3
<1>5. \A c \in Bio : /\ moved'[c] \in 0 .. Len(Ends(c))
                     /\ moved'[c] = moved[c] \/ (c = b /\ moved'[c] = moved[c] + 1)
  BY <1>3, <1>4 DEF TypeOK
<1>6. /\ harm \subseteq harm' /\ harm' \subseteq harm \union {"data", "buffer"}
      /\ "data" \in harm' => "data" \in harm \/ a \notin allocated
  BY <1>1, <1>2
<1>7. "buffer" \in harm' => "buffer" \in harm \/ (moved'[b] > 0 /\ ~Even(b))
  <2> SUFFICES ASSUME "buffer" \in harm', "buffer" \notin harm
               PROVE  moved'[b] > 0 /\ ~Even(b)
    OBVIOUS
  <2>1. Step(b) > Length(b)
    BY <1>1
  <2>2. moved[b] > 0
    BY <2>1, <1>0
  <2>3. ~Even(b)
    BY <2>1, <1>0, EvenProps
  <2> QED
    BY <2>2, <2>3, <1>0, <1>3
<1>8. /\ mem' \in [Addr -> [Sector -> Datum]]
      /\ DOMAIN buffer' = Bio
      /\ \A c \in Bio : buffer'[c] \in [0 .. Total(c) - 1 -> Datum]
  <2>1. CASE ~(Fits(b) /\ a \in allocated /\ Copied(b) \subseteq Sector)
    BY <2>1, <1>1 DEF TypeOK
  <2>2. CASE Fits(b) /\ a \in allocated /\ Copied(b) \subseteq Sector
    <3>1. a \in Addr /\ MemCpy(b, a)
      BY <2>2, <1>1 DEF TypeOK
    <3>2. CASE io[b].dir = "write"
      <4> DEFINE new == [s \in Sector |->
                    IF s \notin Copied(b) THEN mem[a][s]
                    ELSE LET j == s - Place(b) IN
                         IF j < Length(b) THEN buffer[b][Offset(b) + j] ELSE Junk]
      <4>1. mem' = [mem EXCEPT ![a] = new] /\ buffer' = buffer
        BY <3>1, <3>2 DEF MemCpy
      <4>2. ASSUME NEW s \in Sector
            PROVE  new[s] \in Datum
        <5>1. CASE s \notin Copied(b)
          BY <5>1, <3>1 DEF TypeOK
        <5>2. CASE s \in Copied(b) /\ s - Place(b) < Length(b)
          <6>1. Offset(b) + (s - Place(b)) \in 0 .. Total(b) - 1
            BY <5>2, <1>0, SMTT(30) DEF Copied
          <6>2. buffer[b][Offset(b) + (s - Place(b))] \in Datum
            BY <6>1 DEF TypeOK
          <6> QED
            BY <5>2, <6>2
        <5>3. CASE s \in Copied(b) /\ ~(s - Place(b) < Length(b))
          BY <5>3 DEF Datum
        <5> QED
          BY <5>1, <5>2, <5>3
      <4>3. new \in [Sector -> Datum]
        BY <4>2
      <4> HIDE DEF new
      <4> QED
        BY <4>1, <4>3, <3>1 DEF TypeOK
    <3>3. CASE io[b].dir # "write"
      <4> DEFINE new == [o \in DOMAIN buffer[b] |->
                       LET j == o - Offset(b) IN
                       IF 0 <= j /\ j < Step(b) /\ j < Length(b)
                       THEN mem[a][Place(b) + j] ELSE buffer[b][o]]
      <4>1. buffer' = [buffer EXCEPT ![b] = new] /\ mem' = mem
        BY <3>1, <3>3 DEF MemCpy
      <4>2. buffer[b] \in [0 .. Total(b) - 1 -> Datum] /\ DOMAIN buffer = Bio
        BY DEF TypeOK
      <4>3. ASSUME NEW o \in 0 .. Total(b) - 1
            PROVE  new[o] \in Datum
        <5> DEFINE j == o - Offset(b)
        <5>1. CASE 0 <= j /\ j < Step(b) /\ j < Length(b)
          <6>3. Place(b) + j \in Copied(b)
            BY <5>1, <1>0, SMTT(30) DEF Copied
          <6>1. Place(b) + j \in Sector
            BY <6>3, <2>2
          <6>2. mem[a][Place(b) + j] \in Datum
            BY <6>1, <3>1 DEF TypeOK
          <6> QED
            BY <5>1, <6>2, <4>2
        <5>2. CASE ~(0 <= j /\ j < Step(b) /\ j < Length(b))
          BY <5>2, <4>2
        <5> QED
          BY <5>1, <5>2
      <4>4. new \in [0 .. Total(b) - 1 -> Datum]
        BY <4>2, <4>3
      <4> HIDE DEF new
      <4>5. \A c \in Bio : buffer'[c] \in [0 .. Total(c) - 1 -> Datum]
        BY <4>1, <4>2, <4>4 DEF TypeOK
      <4> QED
        BY <4>1, <4>2, <4>5 DEF TypeOK
    <3> QED
      BY <3>2, <3>3
  <2> QED
    BY <2>1, <2>2
<1> QED
  BY <1>3, <1>5, <1>6, <1>7, <1>8

-----------------------------------------------------------------------------
(* The users of the disks *)

\* They do not touch what set-up and exit keep.
LEMMA UseKeeps ==
  ASSUME DiskInv, Use
  PROVE  /\ Stages' /\ Owned' /\ GivenBack' /\ HalfMade' = HalfMade
         /\ mode' = mode /\ phase' = phase /\ dev' = dev /\ allocated' = allocated
<1>1. /\ mode' = mode /\ param' = param /\ phase' = phase /\ i' = i /\ step' = step
      /\ major' = major /\ dev' = dev /\ allocated' = allocated
  BY DEF Use, life
<1>2. HalfMade' = HalfMade
  BY <1>1 DEF HalfMade
<1>3. Stages'
  BY <1>1 DEF DiskInv, Stages, ToCome, Blank, Cleaned, Freed, Exiting
<1>4. Owned'
  BY <1>1, <1>2 DEF DiskInv, Owned, Whole, Freed
<1>5. GivenBack'
  BY <1>1 DEF DiskInv, Inv, GivenBack
<1> QED
  BY <1>1, <1>2, <1>3, <1>4, <1>5

\* The types of the bios.
BioTypes ==
  /\ mem \in [Addr -> [Sector -> Datum]]
  /\ open \subseteq Device
  /\ pend \in [Device -> SUBSET Seq(Bio)]
  /\ cur \in [Device -> Seq(Bio)] /\ started \in [Device -> Seq(Bio)]
  /\ at \in [Bio -> {"new", "queued", "moving", "ok", "error"}]
  /\ DOMAIN moved = Bio /\ \A b \in Bio : moved[b] \in 0 .. Len(Ends(b))
  /\ DOMAIN buffer = Bio /\ \A b \in Bio : buffer[b] \in [0 .. Total(b) - 1 -> Datum]
  /\ harm \subseteq Harm

\* They are part of TypeOK.
LEMMA TypedBios == TypeOK => BioTypes
BY DEF TypeOK, BioTypes

\* A step that leaves set-up and exit alone need only keep the types of the bios.
LEMMA UseTyped ==
  ASSUME TypeOK, Use, BioTypes'
  PROVE  TypeOK'
BY DEF TypeOK, Use, life, BioTypes

\* Harm in code and data stops the model, so there was none.
LEMMA UseHarm ==
  ASSUME DiskInv, ~Halted, Use,
         \A b \in Bio : moved'[b] \in Nat /\ moved'[b] >= moved[b], DOMAIN moved' = Bio,
         harm' \subseteq harm \union {"data", "buffer", "code"},
         "data" \in harm' => phase = "exit" /\ (mode = "noqueue" \/ HalfMade # {}),
         "buffer" \in harm' =>
           "buffer" \in harm \/ \E b \in Bio : moved'[b] > 0 /\ ~Even(b),
         "code" \in harm' => phase = "gone" /\ open' # {}
  PROVE  HarmOnlyFrom'
<1>1. /\ HalfMade' = HalfMade /\ mode' = mode /\ phase' = phase
  BY UseKeeps
<1>2. "bounds" \notin harm' /\ ("free" \in harm' => "free" \in harm)
  BY DEF DiskInv, HarmOnlyFrom
<1>3. "buffer" \in harm' => \E b \in Bio : moved'[b] > 0 /\ ~Even(b)
  <2>1. ASSUME NEW b \in Bio, moved[b] > 0
        PROVE  moved'[b] > 0
    <3>1. moved[b] \in Nat
      BY DiskAssumption, LenProperties DEF DiskInv, Inv, TypeOK
    <3>2. moved'[b] \in Nat /\ moved'[b] >= moved[b]
      OBVIOUS
    <3> QED
      BY <2>1, <3>1, <3>2
  <2> QED
    BY <2>1 DEF DiskInv, HarmOnlyFrom
<1>4. \A b \in Bio : Even(b)' <=> Even(b)
  BY DEF Even, Step, Ends
<1> QED
  BY <1>1, <1>2, <1>3, <1>4 DEF DiskInv, HarmOnlyFrom

\* A disk that is open is whole, and outside exit its data is in use.
LEMMA OpenIsWhole ==
  ASSUME DiskInv, NEW d \in open
  PROVE  /\ d \in Device /\ Whole(d) /\ phase \in {"setup", "live", "exit", "gone"}
         /\ phase \in {"setup", "live"} => dev[d].data \in allocated
         /\ ~Freed(d) /\ HalfMade = {} => dev[d].data \in allocated
<1> USE DEF DiskInv, Inv
<1>1. d \in Device /\ dev[d].gd # "none"
  BY DEF TypeOK, Carried
<1>2. dev[d].data # NULL
  BY <1>1 DEF Stages
<1>3. Whole(d)
  BY <1>1, <1>2, InHalf DEF Whole
<1>4. phase \in {"setup", "live", "exit", "gone"}
  BY <1>1 DEF Stages, ToCome, Blank, TypeOK
<1>5. phase \in {"setup", "live"} => dev[d].data \in allocated
  BY <1>1, <1>3 DEF Owned, Freed
<1>6. ~Freed(d) /\ HalfMade = {} => dev[d].data \in allocated
  BY <1>1, <1>3 DEF Owned
<1> QED
  BY <1>1, <1>3, <1>4, <1>5, <1>6

\* Of a step that leaves the harm and the transfers alone.
LEMMA QuietHarm ==
  ASSUME DiskInv, ~Halted, Use, moved' = moved, harm' = harm
  PROVE  HarmOnlyFrom'
<1>1. \A b \in Bio : moved'[b] \in Nat /\ moved'[b] >= moved[b]
  BY DiskAssumption, LenProperties DEF DiskInv, Inv, TypeOK
<1>2. "data" \notin harm' /\ "code" \notin harm' /\ DOMAIN moved' = Bio
  BY DEF Halted, DiskInv, Inv, TypeOK
<1>3. harm' \subseteq harm \union {"data", "buffer", "code"}
  OBVIOUS
<1> QED
  BY <1>1, <1>2, <1>3, UseHarm

\* open, release and the ioctl keep DiskInv.
LEMMA OpenStep ==
  ASSUME DiskInv, ~Halted, NEW d \in Device, Open(d) \/ Close(d) \/ Getgeo(d)
  PROVE  DiskInv'
<1> USE DEF DiskInv, Inv
<1>1. /\ Use /\ mem' = mem /\ pend' = pend /\ cur' = cur /\ started' = started
      /\ at' = at /\ moved' = moved /\ buffer' = buffer
      /\ harm' \subseteq harm \union {"code"} /\ open' \subseteq Device
  BY DEF Open, Close, Getgeo, traffic, TypeOK
<1>2. /\ Stages' /\ Owned' /\ GivenBack' /\ HalfMade' = HalfMade
      /\ mode' = mode /\ phase' = phase /\ dev' = dev /\ allocated' = allocated
  BY <1>1, UseKeeps
<1>3. TypeOK'
  <2>1. BioTypes'
    BY <1>1, TypedBios DEF BioTypes, Harm
  <2> QED
    BY <1>1, <2>1, UseTyped
<1>4. Requests'
  BY <1>1, <1>2 DEF Requests, Queues, Waiting, Apart, Moving
<1>5. Carried'
  <2>1. CASE Open(d)
    BY <2>1, <1>1, <1>2 DEF Open, Carried
  <2>2. CASE Close(d)
    BY <2>2, <1>1, <1>2 DEF Close, Busy, Carried
  <2>3. CASE Getgeo(d)
    BY <2>3, <1>1, <1>2 DEF Getgeo, Carried
  <2> QED
    BY <2>1, <2>2, <2>3
<1>6. HarmOnlyFrom'
  <2>1. CASE harm' = harm
    BY <2>1, <1>1, QuietHarm
  <2>2. CASE harm' # harm
    <3>1. phase = "gone" /\ open' # {}
      BY <2>2 DEF Open, Close, Getgeo
    <3>2. "data" \notin harm' /\ ("buffer" \in harm' => "buffer" \in harm)
      BY <1>1 DEF Halted
    <3>3. DOMAIN moved' = Bio /\ \A b \in Bio : moved'[b] \in Nat /\ moved'[b] >= moved[b]
      BY <1>1, DiskAssumption, LenProperties DEF TypeOK
    <3>4. harm' \subseteq harm \union {"data", "buffer", "code"}
      BY <1>1
    <3> QED
      BY <1>1, <3>1, <3>2, <3>3, <3>4, UseHarm
  <2> QED
    BY <2>1, <2>2
<1> QED
  BY <1>2, <1>3, <1>4, <1>5, <1>6

\* The elements of a sequence of bios.
LEMMA BioSeq ==
  ASSUME NEW s \in Seq(Bio)
  PROVE  /\ Len(s) \in Nat /\ DOMAIN s = 1 .. Len(s)
         /\ \A k \in DOMAIN s : s[k] \in Bio
         /\ s # <<>> => Head(s) = s[1] /\ Last(s) = s[Len(s)]
                        /\ Len(s) \in DOMAIN s /\ 1 \in DOMAIN s
<1>1. Len(s) \in Nat /\ DOMAIN s = 1 .. Len(s) /\ \A k \in DOMAIN s : s[k] \in Bio
  BY LenProperties, ElementOfSeq
<1>2. s # <<>> => Len(s) > 0
  BY <1>1, EmptySeq
<1>3. s # <<>> => Head(s) = s[1] /\ Last(s) = s[Len(s)]
  BY HeadTailProperties DEF Last
<1> QED
  BY <1>1, <1>2, <1>3

\* A bio that no request holds joins one of its device: in a request of its
\* own, or at the end of one of bios with data.
LEMMA QueueOne ==
  ASSUME DiskInv, NEW b \in Bio, at[b] = "new", Queue(b)
  PROVE  LET d == io[b].dev IN
         /\ pend' \in [Device -> SUBSET Seq(Bio)]
         /\ at' = [at EXCEPT ![b] = "queued"]
         /\ \A e \in Device : e # d => pend'[e] = pend[e]
         /\ Waiting(d)' /\ Apart(d)'
<1> USE DEF DiskInv, Inv
<1> DEFINE d == io[b].dev
<1>1. d \in Device
  BY DiskAssumption
<1>2. /\ at' = [at EXCEPT ![b] = "queued"]
      /\ \/ pend' = [pend EXCEPT ![d] = pend[d] \union {<<b>>}]
         \/ \E r \in pend[d] :
              /\ Follows(Last(r), b)
              /\ pend' = [pend EXCEPT ![d] = (pend[d] \ {r}) \union {Append(r, b)}]
  BY DEF Queue
<1>3. /\ pend \in [Device -> SUBSET Seq(Bio)]
      /\ \A r \in pend[d] : r \in Seq(Bio)
  BY <1>1 DEF TypeOK
<1>4. Waiting(d) /\ Apart(d)
  BY <1>1 DEF Requests
<1>5. \A r \in pend[d] : \A k \in DOMAIN r : r[k] \in Bio /\ r[k] # b
  BY <1>3, <1>4, BioSeq DEF Waiting
<1>6. \A c \in Bio : at'[c] = IF c = b THEN "queued" ELSE at[c]
  BY <1>2 DEF TypeOK
<1>7. CASE pend' = [pend EXCEPT ![d] = pend[d] \union {<<b>>}]
  <2>1. /\ <<b>> \in Seq(Bio) /\ Len(<<b>>) = 1 /\ <<b>>[1] = b
        /\ DOMAIN <<b>> = {1} /\ <<b>> # <<>>
    OBVIOUS
  <2> DEFINE new == <<b>>
  <2> HIDE DEF new
  <2>2. /\ new \in Seq(Bio) /\ Len(new) = 1 /\ new # <<>>
        /\ \A k \in DOMAIN new : k = 1 /\ new[k] = b
    BY <2>1 DEF new
  <2>3. pend'[d] = pend[d] \union {new} /\ pend' \in [Device -> SUBSET Seq(Bio)]
    BY <1>1, <1>3, <1>7, <2>2 DEF new
  <2>4. Waiting(d)'
    BY <1>4, <1>5, <1>6, <2>2, <2>3 DEF Waiting
  <2>5. Apart(d)'
    BY <1>4, <1>5, <2>2, <2>3 DEF Apart
  <2> QED
    BY <1>1, <1>2, <1>3, <1>7, <2>3, <2>4, <2>5
<1>8. ASSUME NEW r \in pend[d], Follows(Last(r), b),
             pend' = [pend EXCEPT ![d] = (pend[d] \ {r}) \union {Append(r, b)}]
      PROVE  /\ pend' \in [Device -> SUBSET Seq(Bio)]
             /\ \A e \in Device : e # d => pend'[e] = pend[e]
             /\ Waiting(d)' /\ Apart(d)'
  <2> DEFINE new == Append(r, b)
  <2>1. /\ r \in Seq(Bio) /\ r # <<>> /\ Len(r) \in Nat /\ DOMAIN r = 1 .. Len(r)
        /\ Last(r) = r[Len(r)] /\ Len(r) \in DOMAIN r
    BY <1>3, <1>4, BioSeq DEF Waiting
  <2>2. /\ new \in Seq(Bio) /\ Len(new) = Len(r) + 1 /\ DOMAIN new = 1 .. Len(r) + 1
        /\ \A k \in 1 .. Len(r) : new[k] = r[k]
        /\ new[Len(r) + 1] = b
    BY <2>1, AppendProperties, LenProperties
  <2> HIDE DEF new
  <2>3. \A k \in DOMAIN new :
          (k \in DOMAIN r /\ new[k] = r[k]) \/ (k = Len(r) + 1 /\ new[k] = b)
    <3> DEFINE n == Len(r)
    <3>1. n \in Nat /\ DOMAIN new = 1 .. n + 1 /\ DOMAIN r = 1 .. n
      BY <2>1, <2>2
    <3> HIDE DEF n
    <3>2. \A k \in DOMAIN new : k \in DOMAIN r \/ k = n + 1
      BY <3>1
    <3> QED
      BY <2>1, <2>2, <3>2 DEF n
  <2>4. new # <<>>
    BY <2>1, <2>2, EmptySeq
  <2>5. pend'[d] = (pend[d] \ {r}) \union {new} /\ pend' \in [Device -> SUBSET Seq(Bio)]
        /\ \A e \in Device : e # d => pend'[e] = pend[e]
    BY <1>1, <1>3, <1>8, <2>2 DEF new
  <2>6. io[b].dir # "pc" /\ \A k \in DOMAIN r : io[r[k]].dir # "pc"
    <3>1. io[b].dir # "pc" /\ io[r[Len(r)]].dir = io[b].dir
      BY <2>1, <1>8 DEF Follows
    <3>2. ASSUME NEW k \in DOMAIN r, io[r[k]].dir = "pc"
          PROVE  FALSE
      <4>1. Len(r) = 1
        BY <3>2, <1>4 DEF Waiting
      <4>2. k = Len(r)
        BY <4>1, <2>1
      <4> QED
        BY <4>2, <3>1, <3>2
    <3> QED
      BY <3>1, <3>2
  <2>7. \A k \in DOMAIN new : /\ io[new[k]].dev = d /\ at'[new[k]] = "queued"
                              /\ io[new[k]].dir # "pc"
    BY <1>4, <1>5, <1>6, <2>3, <2>6 DEF Waiting
  <2>8. Waiting(d)'
    BY <1>4, <1>5, <1>6, <2>4, <2>5, <2>7 DEF Waiting
  <2>9. \A s \in pend[d] \ {r} : \A j \in DOMAIN s : \A k \in DOMAIN new : s[j] # new[k]
    BY <1>4, <1>5, <2>3 DEF Apart
  <2>10. \A j, k \in DOMAIN new : new[j] = new[k] => j = k
    BY <1>4, <1>5, <2>3 DEF Apart
  <2>11. Apart(d)'
    BY <1>4, <2>5, <2>9, <2>10 DEF Apart
  <2> QED
    BY <2>5, <2>8, <2>11
<1> QED
  BY <1>2, <1>7, <1>8, <1>1, <1>3

\* A change of a bio that no request of a device holds changes nothing there.
LEMMA OtherDevice ==
  ASSUME DiskInv, UNCHANGED <<dev, mode>>, NEW e \in Device,
         pend'[e] = pend[e], cur'[e] = cur[e], started'[e] = started[e],
         \A c \in Bio : io[c].dev = e /\ at[c] \in {"queued", "moving"} =>
           at'[c] = at[c] /\ (at[c] = "moving" => moved'[c] = moved[c])
  PROVE  Queues(e)' /\ Waiting(e)' /\ Apart(e)' /\ Moving(e)'
<1> USE DEF DiskInv, Inv
<1>1. Queues(e) /\ Waiting(e) /\ Apart(e) /\ Moving(e)
  BY DEF Requests
<1>2. /\ \A r \in pend[e] : \A k \in DOMAIN r : r[k] \in Bio
      /\ \A k \in DOMAIN started[e] : started[e][k] \in Bio
      /\ \A k \in DOMAIN cur[e] : cur[e][k] \in Bio
  BY BioSeq DEF TypeOK
<1>3. Queues(e)'
  BY <1>1 DEF Queues
<1>4. Waiting(e)'
  BY <1>1, <1>2 DEF Waiting
<1>5. Apart(e)'
  BY <1>1 DEF Apart
<1>6. Moving(e)'
  BY <1>1, <1>2 DEF Moving, Ends
<1> QED
  BY <1>3, <1>4, <1>5, <1>6

\* A bio that is queued, refused or given to vmem_disk_make_request keeps DiskInv.
LEMMA SubmitStep ==
  ASSUME DiskInv, ~Halted, NEW b \in Bio, Submit(b)
  PROVE  DiskInv'
<1> USE DEF DiskInv, Inv
<1> DEFINE d == io[b].dev
<1>0. d \in Device
  BY DiskAssumption
<1>1. /\ d \in open /\ at[b] = "new" /\ Use
      /\ mem' = mem /\ open' = open /\ cur' = cur /\ started' = started
      /\ moved' = moved /\ buffer' = buffer
  BY DEF Submit
<1>2. /\ Stages' /\ Owned' /\ GivenBack' /\ HalfMade' = HalfMade
      /\ mode' = mode /\ phase' = phase /\ dev' = dev /\ allocated' = allocated
  BY <1>1, UseKeeps
<1>3. \/ mode = "queue" /\ dev[d].queue = "on" /\ Queue(b)
      \/ at' = [at EXCEPT ![b] = "error"] /\ pend' = pend /\ harm' = harm
      \/ /\ mode = "noqueue" /\ io[b].dir # "pc"
         /\ at' = [at EXCEPT ![b] = "moving"] /\ pend' = pend
         /\ harm' = harm \union (IF phase = "gone" THEN {"code"} ELSE {})
  <2>1. mode \in {"queue", "noqueue"}
    BY DEF TypeOK
  <2> QED
    BY <2>1 DEF Submit
<1>4. /\ pend' \in [Device -> SUBSET Seq(Bio)]
      /\ \A e \in Device : e # d => pend'[e] = pend[e]
      /\ \E l \in {"queued", "error", "moving"} : at' = [at EXCEPT ![b] = l]
  BY <1>1, <1>3, QueueOne DEF TypeOK
<1>5. /\ at' \in [Bio -> {"new", "queued", "moving", "ok", "error"}]
      /\ \A c \in Bio : c # b => at'[c] = at[c]
      /\ at'[b] \in {"queued", "error", "moving"}
  BY <1>4 DEF TypeOK
<1>6. harm' = harm \/ (harm' = harm \union {"code"} /\ phase = "gone")
  BY <1>3 DEF Queue
<1>7. TypeOK'
  <2>1. BioTypes'
    BY <1>1, <1>4, <1>5, <1>6, TypedBios DEF BioTypes, Harm
  <2> QED
    BY <1>1, <2>1, UseTyped
<1>8. Carried'
  BY <1>1, <1>2, <1>5 DEF Carried
<1>9. HarmOnlyFrom'
  <2>1. CASE harm' = harm
    BY <2>1, <1>1, QuietHarm
  <2>2. CASE harm' = harm \union {"code"} /\ phase = "gone"
    <3>2. "data" \notin harm' /\ ("buffer" \in harm' => "buffer" \in harm)
      BY <2>2 DEF Halted
    <3>3. /\ DOMAIN moved' = Bio
          /\ \A c \in Bio : moved'[c] \in Nat /\ moved'[c] >= moved[c]
      BY <1>1, DiskAssumption, LenProperties DEF TypeOK
    <3>4. harm' \subseteq harm \union {"data", "buffer", "code"}
      BY <2>2
    <3> QED
      BY <1>1, <2>2, <3>2, <3>3, <3>4, UseHarm
  <2> QED
    BY <1>6, <2>1, <2>2
<1>10. Requests'
  <2>1. ASSUME NEW e \in Device, e # d
        PROVE  Queues(e)' /\ Waiting(e)' /\ Apart(e)' /\ Moving(e)'
    BY <2>1, <1>1, <1>2, <1>4, <1>5, OtherDevice
  <2>2. Moving(d)'
    <3>1. Moving(d) /\ cur[d] \in Seq(Bio) /\ started[d] \in Seq(Bio)
      BY <1>0 DEF Requests, TypeOK
    <3>2. /\ \A k \in DOMAIN started[d] : started[d][k] \in Bio /\ started[d][k] # b
          /\ \A k \in DOMAIN cur[d] : cur[d][k] \in Bio /\ cur[d][k] # b
      BY <1>1, <3>1, BioSeq DEF Moving
    <3> QED
      BY <1>1, <1>5, <3>1, <3>2 DEF Moving, Ends
  <2>3. Queues(d)' /\ Waiting(d)' /\ Apart(d)'
    <3>1. Queues(d) /\ Waiting(d) /\ Apart(d)
      BY <1>0 DEF Requests
    <3>2. CASE mode = "queue" /\ dev[d].queue = "on" /\ Queue(b)
      <4>1. Waiting(d)' /\ Apart(d)'
        BY <3>2, <1>1, QueueOne
      <4>2. Queues(d)'
        BY <3>1, <3>2, <1>1, <1>2 DEF Queues
      <4> QED
        BY <4>1, <4>2
    <3>3. CASE pend' = pend
      <4>1. \A r \in pend[d] : \A k \in DOMAIN r : r[k] \in Bio /\ r[k] # b
        BY <1>0, <1>1, <3>1, BioSeq DEF Waiting, TypeOK
      <4> QED
        BY <1>1, <1>2, <1>5, <3>1, <3>3, <4>1 DEF Queues, Waiting, Apart
    <3> QED
      BY <1>3, <3>2, <3>3
  <2>4. \A c \in Bio : at'[c] \in {"new", "queued"} => moved'[c] = 0
    BY <1>1, <1>5 DEF Requests
  <2> QED
    BY <2>1, <2>2, <2>3, <2>4 DEF Requests
<1> QED
  BY <1>2, <1>7, <1>8, <1>9, <1>10

-----------------------------------------------------------------------------
(* The request function and make_request *)

\* The bios of r are all given the label l.
Relabel(r, l) == at' = [b \in Bio |-> IF b \in ToSet(r) THEN l ELSE at[b]]

\* Taking a request of d off the queue: the others stay as they were.
LEMMA TakeRequest ==
  ASSUME DiskInv, NEW d \in Device, NEW r \in pend[d], NEW l \in {"moving", "error"},
         Relabel(r, l), pend' = [pend EXCEPT ![d] = @ \ {r}]
  PROVE  /\ pend' \in [Device -> SUBSET Seq(Bio)]
         /\ at' \in [Bio -> {"new", "queued", "moving", "ok", "error"}]
         /\ Waiting(d)' /\ Apart(d)'
         /\ r \in Seq(Bio) /\ r # <<>> /\ Head(r) = r[1]
         /\ \A k \in DOMAIN r : /\ r[k] \in Bio /\ at'[r[k]] = l /\ io[r[k]].dev = d
                                /\ at[r[k]] = "queued" /\ moved[r[k]] = 0
         /\ \A c \in Bio : at'[c] = at[c] \/ (at[c] = "queued" /\ io[c].dev = d /\ at'[c] = l)
         /\ \A e \in Device : e # d => pend'[e] = pend[e]
<1> USE DEF DiskInv, Inv
<1>1. pend \in [Device -> SUBSET Seq(Bio)] /\ r \in Seq(Bio)
  BY DEF TypeOK
<1>2. /\ pend' \in [Device -> SUBSET Seq(Bio)] /\ pend'[d] = pend[d] \ {r}
      /\ \A e \in Device : e # d => pend'[e] = pend[e]
  BY <1>1
<1>3. Waiting(d) /\ Apart(d)
  BY DEF Requests
<1>4. /\ r # <<>> /\ Head(r) = r[1]
      /\ \A k \in DOMAIN r : /\ r[k] \in Bio /\ at[r[k]] = "queued" /\ io[r[k]].dev = d
                             /\ r[k] \in ToSet(r)
  BY <1>1, <1>3, BioSeq DEF Waiting, ToSet
<1>5. \A c \in Bio : /\ c \in ToSet(r) => at'[c] = l /\ \E k \in DOMAIN r : c = r[k]
                     /\ c \notin ToSet(r) => at'[c] = at[c]
  BY DEF Relabel, ToSet
<1>6. \A k \in DOMAIN r : at'[r[k]] = l /\ moved[r[k]] = 0
  BY <1>4, <1>5 DEF Requests
<1>7. \A c \in Bio : at'[c] = at[c] \/ (at[c] = "queued" /\ io[c].dev = d /\ at'[c] = l)
  BY <1>4, <1>5
<1>8. at' \in [Bio -> {"new", "queued", "moving", "ok", "error"}]
  <2>1. \A c \in Bio : at'[c] \in {"new", "queued", "moving", "ok", "error"}
    BY <1>7 DEF TypeOK
  <2> QED
    BY <2>1 DEF Relabel
<1>9. \A s \in pend'[d] : \A k \in DOMAIN s : s[k] \in Bio /\ at'[s[k]] = at[s[k]]
  <2> SUFFICES ASSUME NEW s \in pend[d], s # r, NEW k \in DOMAIN s
               PROVE  s[k] \in Bio /\ at'[s[k]] = at[s[k]]
    BY <1>2
  <2>1. s[k] \in Bio
    BY <1>1, BioSeq
  <2>2. \A j \in DOMAIN r : r[j] # s[k]
    BY <1>3 DEF Apart
  <2> QED
    BY <2>1, <2>2, <1>5
<1>10. Waiting(d)'
  BY <1>2, <1>3, <1>9 DEF Waiting
<1>11. Apart(d)'
  BY <1>2, <1>3 DEF Apart
<1> QED
  BY <1>1, <1>2, <1>4, <1>6, <1>7, <1>8, <1>10, <1>11

\* Failing a non-fs request keeps DiskInv.
LEMMA NonFsStep ==
  ASSUME DiskInv, ~Halted, NEW d \in Device, Q_NonFs(d)
  PROVE  DiskInv'
<1> USE DEF DiskInv, Inv
<1>1. PICK r \in pend[d] : /\ started[d] = <<>> /\ Relabel(r, "error")
                           /\ pend' = [pend EXCEPT ![d] = @ \ {r}]
  BY DEF Q_NonFs, Relabel
<1>2. /\ Use /\ mem' = mem /\ open' = open /\ cur' = cur /\ started' = started
      /\ moved' = moved /\ buffer' = buffer /\ harm' = harm
  BY DEF Q_NonFs
<1>3. /\ Stages' /\ Owned' /\ GivenBack' /\ HalfMade' = HalfMade
      /\ mode' = mode /\ phase' = phase /\ dev' = dev /\ allocated' = allocated
  BY <1>2, UseKeeps
<1>4. /\ pend' \in [Device -> SUBSET Seq(Bio)]
      /\ at' \in [Bio -> {"new", "queued", "moving", "ok", "error"}]
      /\ Waiting(d)' /\ Apart(d)'
      /\ \A c \in Bio : at'[c] = at[c]
                        \/ (at[c] = "queued" /\ io[c].dev = d /\ at'[c] = "error")
      /\ \A e \in Device : e # d => pend'[e] = pend[e]
  BY <1>1, TakeRequest
<1>5. TypeOK'
  <2>1. BioTypes'
    BY <1>2, <1>4, TypedBios DEF BioTypes
  <2> QED
    BY <1>2, <2>1, UseTyped
<1>6. Carried'
  BY <1>2, <1>3, <1>4 DEF Carried
<1>7. HarmOnlyFrom'
  BY <1>2, QuietHarm
<1>8. Requests'
  <2>1. ASSUME NEW e \in Device, e # d
        PROVE  Queues(e)' /\ Waiting(e)' /\ Apart(e)' /\ Moving(e)'
    BY <2>1, <1>2, <1>3, <1>4, OtherDevice
  <2>2. Moving(d)'
    <3>1. Moving(d) /\ cur[d] \in Seq(Bio) /\ started[d] \in Seq(Bio)
      BY DEF Requests, TypeOK
    <3>2. /\ \A k \in DOMAIN started[d] : started[d][k] \in Bio
          /\ \A k \in DOMAIN cur[d] : cur[d][k] \in Bio
      BY <3>1, BioSeq
    <3> QED
      BY <1>2, <1>4, <3>1, <3>2 DEF Moving, Ends
  <2>3. Queues(d)'
    <3>1. Queues(d) /\ pend[d] # {}
      BY <1>1 DEF Requests
    <3> QED
      BY <1>1, <1>2, <1>3, <3>1 DEF Queues
  <2>4. \A c \in Bio : at'[c] \in {"new", "queued"} => moved'[c] = 0
    BY <1>2, <1>4 DEF Requests
  <2> QED
    BY <1>4, <2>1, <2>2, <2>3, <2>4 DEF Requests
<1> QED
  BY <1>3, <1>5, <1>6, <1>7, <1>8

\* Taking the next request from the queue keeps DiskInv.
LEMMA StartStep ==
  ASSUME DiskInv, ~Halted, NEW d \in Device, Q_Start(d)
  PROVE  DiskInv'
<1> USE DEF DiskInv, Inv
<1>1. PICK r \in pend[d] : /\ started[d] = <<>> /\ Relabel(r, "moving") /\ ~NonFs(r)
                           /\ pend' = [pend EXCEPT ![d] = @ \ {r}]
                           /\ cur' = [cur EXCEPT ![d] = r]
                           /\ started' = [started EXCEPT ![d] = r]
  BY DEF Q_Start, Relabel
<1>2. /\ Use /\ mem' = mem /\ open' = open
      /\ moved' = moved /\ buffer' = buffer /\ harm' = harm
  BY DEF Q_Start
<1>3. /\ Stages' /\ Owned' /\ GivenBack' /\ HalfMade' = HalfMade
      /\ mode' = mode /\ phase' = phase /\ dev' = dev /\ allocated' = allocated
  BY <1>2, UseKeeps
<1>4. /\ pend' \in [Device -> SUBSET Seq(Bio)]
      /\ at' \in [Bio -> {"new", "queued", "moving", "ok", "error"}]
      /\ Waiting(d)' /\ Apart(d)'
      /\ r \in Seq(Bio) /\ r # <<>> /\ Head(r) = r[1]
      /\ \A k \in DOMAIN r : /\ r[k] \in Bio /\ at'[r[k]] = "moving" /\ io[r[k]].dev = d
                             /\ at[r[k]] = "queued" /\ moved[r[k]] = 0
      /\ \A c \in Bio : at'[c] = at[c]
                        \/ (at[c] = "queued" /\ io[c].dev = d /\ at'[c] = "moving")
      /\ \A e \in Device : e # d => pend'[e] = pend[e]
  BY <1>1, TakeRequest
<1>5. /\ cur' \in [Device -> Seq(Bio)] /\ started' \in [Device -> Seq(Bio)]
      /\ cur'[d] = r /\ started'[d] = r
      /\ \A e \in Device : e # d => cur'[e] = cur[e] /\ started'[e] = started[e]
  BY <1>1, <1>4 DEF TypeOK
<1>6. TypeOK'
  <2>1. BioTypes'
    BY <1>2, <1>4, <1>5, TypedBios DEF BioTypes
  <2> QED
    BY <1>2, <2>1, UseTyped
<1>7. Carried'
  BY <1>2, <1>3, <1>4 DEF Carried
<1>8. HarmOnlyFrom'
  BY <1>2, QuietHarm
<1>9. Requests'
  <2>1. ASSUME NEW e \in Device, e # d
        PROVE  Queues(e)' /\ Waiting(e)' /\ Apart(e)' /\ Moving(e)'
    <3>1. /\ pend'[e] = pend[e] /\ cur'[e] = cur[e] /\ started'[e] = started[e]
          /\ \A c \in Bio : io[c].dev = e => at'[c] = at[c]
      BY <2>1, <1>4, <1>5
    <3> QED
      BY <3>1, <1>2, <1>3, OtherDevice
  <2>2. Moving(d)'
    <3>1. \A k \in DOMAIN r : io[r[k]].dir # "pc"
      <4> SUFFICES ASSUME NEW k \in DOMAIN r, io[r[k]].dir = "pc" PROVE FALSE
        OBVIOUS
      <4>1. Len(r) = 1
        BY DEF Requests, Waiting
      <4>2. k = 1
        BY <4>1, <1>4, BioSeq
      <4> QED
        BY <4>2, <1>1, <1>4 DEF NonFs
    <3>2. \A k \in DOMAIN r : moved[r[k]] < Len(Ends(r[k]))
      <4> SUFFICES ASSUME NEW k \in DOMAIN r PROVE 0 < Len(Ends(r[k]))
        BY <1>4
      <4>1. Ends(r[k]) # <<>> /\ Ends(r[k]) \in Seq(Nat \ {0})
        BY <1>4, <3>1, DiskAssumption
      <4>2. Len(Ends(r[k])) \in Nat /\ Len(Ends(r[k])) # 0
        BY <4>1, LenProperties, EmptySeq
      <4> QED
        BY <4>2
    <3>3. \A j, k \in DOMAIN r : r[j] = r[k] => j = k
      BY DEF Requests, Apart
    <3> QED
      BY <1>2, <1>4, <1>5, <3>1, <3>2, <3>3 DEF Moving, Ends
  <2>3. Queues(d)'
    <3>1. Queues(d) /\ pend[d] # {}
      BY <1>1 DEF Requests
    <3> QED
      BY <1>4, <1>5, <1>3, <3>1 DEF Queues
  <2>4. \A c \in Bio : at'[c] \in {"new", "queued"} => moved'[c] = 0
    BY <1>2, <1>4 DEF Requests
  <2> QED
    BY <1>4, <2>1, <2>2, <2>3, <2>4 DEF Requests
<1> QED
  BY <1>3, <1>6, <1>7, <1>8, <1>9

\* __blk_end_request_all keeps DiskInv.
LEMMA EndStep ==
  ASSUME DiskInv, ~Halted, NEW d \in Device, Q_End(d)
  PROVE  DiskInv'
<1> USE DEF DiskInv, Inv
<1>1. /\ started[d] # <<>> /\ cur[d] = <<>> /\ Relabel(started[d], "ok")
      /\ started' = [started EXCEPT ![d] = <<>>]
      /\ Use /\ mem' = mem /\ open' = open /\ pend' = pend /\ cur' = cur
      /\ moved' = moved /\ buffer' = buffer /\ harm' = harm
  BY DEF Q_End, Relabel
<1>2. /\ Stages' /\ Owned' /\ GivenBack' /\ HalfMade' = HalfMade
      /\ mode' = mode /\ phase' = phase /\ dev' = dev /\ allocated' = allocated
  BY <1>1, UseKeeps
<1>3. \A c \in Bio : at'[c] = at[c]
                     \/ (at[c] = "moving" /\ io[c].dev = d /\ at'[c] = "ok")
  <2>1. Moving(d)
    BY DEF Requests
  <2>2. \A c \in Bio : /\ c \in ToSet(started[d]) => at'[c] = "ok" /\ at[c] = "moving"
                                                     /\ io[c].dev = d
                       /\ c \notin ToSet(started[d]) => at'[c] = at[c]
    BY <1>1, <2>1 DEF Relabel, ToSet, Moving
  <2> QED
    BY <2>2
<1>4. at' \in [Bio -> {"new", "queued", "moving", "ok", "error"}]
  <2>1. \A c \in Bio : at'[c] \in {"new", "queued", "moving", "ok", "error"}
    BY <1>3 DEF TypeOK
  <2> QED
    BY <2>1, <1>1 DEF Relabel
<1>5. /\ started' \in [Device -> Seq(Bio)] /\ started'[d] = <<>>
      /\ \A e \in Device : e # d => started'[e] = started[e]
  <2>1. <<>> \in Seq(Bio)
    BY EmptySeq
  <2> QED
    BY <1>1, <2>1 DEF TypeOK
<1>6. TypeOK'
  <2>1. BioTypes'
    BY <1>1, <1>4, <1>5, TypedBios DEF BioTypes
  <2> QED
    BY <1>1, <2>1, UseTyped
<1>7. Carried'
  BY <1>1, <1>2, <1>3 DEF Carried
<1>8. HarmOnlyFrom'
  BY <1>1, QuietHarm
<1>9. Requests'
  <2>1. ASSUME NEW e \in Device, e # d
        PROVE  Queues(e)' /\ Waiting(e)' /\ Apart(e)' /\ Moving(e)'
    <3>1. /\ pend'[e] = pend[e] /\ cur'[e] = cur[e] /\ started'[e] = started[e]
          /\ \A c \in Bio : io[c].dev = e => at'[c] = at[c]
      BY <2>1, <1>1, <1>3, <1>5
    <3> QED
      BY <3>1, <1>1, <1>2, OtherDevice
  <2>2. Moving(d)' /\ Queues(d)'
    <3>1. \A k : k \notin DOMAIN cur'[d] /\ k \notin DOMAIN started'[d]
      BY <1>1, <1>5
    <3>2. Queues(d)
      BY DEF Requests
    <3> QED
      BY <1>1, <1>2, <1>5, <3>1, <3>2 DEF Moving, Queues
  <2>3. Waiting(d)' /\ Apart(d)'
    <3>1. Waiting(d) /\ Apart(d)
      BY DEF Requests
    <3>2. \A r \in pend[d] : \A k \in DOMAIN r : r[k] \in Bio /\ at'[r[k]] = at[r[k]]
      BY <1>3, <3>1, BioSeq DEF TypeOK, Waiting
    <3> QED
      BY <1>1, <3>1, <3>2 DEF Waiting, Apart
  <2>4. \A c \in Bio : at'[c] \in {"new", "queued"} => moved'[c] = 0
    BY <1>1, <1>3 DEF Requests
  <2> QED
    BY <2>1, <2>2, <2>3, <2>4 DEF Requests
<1> QED
  BY <1>2, <1>6, <1>7, <1>8, <1>9

\* What a transfer can do wrong: use data that exit freed, without a queue or
\* after a half-made device; and copy by the first segment's length.
LEMMA TransferHarm ==
  ASSUME DiskInv, ~Halted, NEW b \in Bio, at[b] = "moving", phase # "gone", Use,
         mode = "queue" => ~Freed(io[b].dev), moved[b] < Len(Ends(b)), Transfer(b)
  PROVE  HarmOnlyFrom'
<1> USE DEF DiskInv, Inv
<1> DEFINE d == io[b].dev
<1>1. /\ DOMAIN moved' = Bio
      /\ \A c \in Bio : moved'[c] = moved[c] \/ (c = b /\ moved'[c] = moved[c] + 1)
      /\ harm' \subseteq harm \union {"data", "buffer"}
      /\ "data" \in harm' => "data" \in harm \/ dev[d].data \notin allocated
      /\ "buffer" \in harm' => "buffer" \in harm \/ (moved'[b] > 0 /\ ~Even(b))
  BY TransferStep
<1>2. \A c \in Bio : moved[c] \in Nat
  BY DiskAssumption, LenProperties DEF TypeOK
<1>3. \A c \in Bio : moved'[c] \in Nat /\ moved'[c] >= moved[c]
  BY <1>1, <1>2
<1>4. "data" \notin harm /\ "code" \notin harm
  BY DEF Halted
<1>5. d \in open
  BY DEF Carried
<1>6. /\ phase \in {"setup", "live", "exit", "gone"}
      /\ phase \in {"setup", "live"} => dev[d].data \in allocated
      /\ ~Freed(d) /\ HalfMade = {} => dev[d].data \in allocated
  BY <1>5, OpenIsWhole
<1>7. "data" \in harm' => phase = "exit" /\ (mode = "noqueue" \/ HalfMade # {})
  <2>1. mode \in {"queue", "noqueue"}
    BY DEF TypeOK
  <2> QED
    BY <2>1, <1>1, <1>4, <1>6
<1>8. "code" \notin harm' /\ harm' \subseteq harm \union {"data", "buffer", "code"}
  BY <1>1, <1>4
<1> QED
  BY <1>1, <1>3, <1>7, <1>8, UseHarm

\* A queue with requests belongs to a device that exit has not freed.
LEMMA BusyNotFreed ==
  ASSUME DiskInv, NEW d \in Device, pend[d] # {} \/ started[d] # <<>>
  PROVE  mode = "queue" /\ ~Freed(d) /\ phase # "gone"
<1> USE DEF DiskInv, Inv
<1>1. mode = "queue" /\ dev[d].queue \in {"on", "dying"}
  BY DEF Requests, Queues, TypeOK
<1>2. ~Cleaned(d)
  BY <1>1 DEF Stages
<1> QED
  BY <1>1, <1>2 DEF Cleaned, Freed

\* One segment of the request at hand keeps DiskInv.
LEMMA BioStep ==
  ASSUME DiskInv, ~Halted, NEW d \in Device, Q_Bio(d)
  PROVE  DiskInv'
<1> USE DEF DiskInv, Inv
<1> DEFINE b == Head(cur[d])
<1>1. /\ cur[d] # <<>> /\ Transfer(b) /\ Use
      /\ cur' = [cur EXCEPT ![d] = IF moved'[b] = Len(Ends(b)) THEN Tail(cur[d]) ELSE cur[d]]
      /\ open' = open /\ pend' = pend /\ started' = started /\ at' = at
  BY DEF Q_Bio
<1>2. Queues(d) /\ Waiting(d) /\ Apart(d) /\ Moving(d)
  BY DEF Requests
<1>3. /\ cur[d] \in Seq(Bio) /\ 1 \in DOMAIN cur[d] /\ b = cur[d][1]
      /\ b \in Bio /\ Len(cur[d]) \in Nat /\ DOMAIN cur[d] = 1 .. Len(cur[d])
      /\ \A k \in DOMAIN cur[d] : cur[d][k] \in Bio
  BY <1>1, BioSeq DEF TypeOK
<1>4. /\ io[b].dev = d /\ at[b] = "moving" /\ moved[b] < Len(Ends(b))
  BY <1>2, <1>3 DEF Moving
<1> HIDE DEF b
<1>5. /\ Stages' /\ Owned' /\ GivenBack' /\ HalfMade' = HalfMade
      /\ mode' = mode /\ phase' = phase /\ dev' = dev /\ allocated' = allocated
  BY <1>1, UseKeeps
<1>6. /\ mem' \in [Addr -> [Sector -> Datum]]
      /\ DOMAIN moved' = Bio
      /\ \A c \in Bio : /\ moved'[c] \in 0 .. Len(Ends(c))
                        /\ moved'[c] = moved[c] \/ (c = b /\ moved'[c] = moved[c] + 1)
      /\ DOMAIN buffer' = Bio
      /\ \A c \in Bio : buffer'[c] \in [0 .. Total(c) - 1 -> Datum]
      /\ harm' \subseteq harm \union {"data", "buffer"}
  BY <1>1, <1>3, <1>4, TransferStep
<1>7. Tail(cur[d]) \in Seq(Bio) /\ Len(Tail(cur[d])) = Len(cur[d]) - 1
      /\ \A k \in 1 .. Len(cur[d]) - 1 : Tail(cur[d])[k] = cur[d][k + 1]
  BY <1>1, <1>3, HeadTailProperties
<1>8. /\ cur' \in [Device -> Seq(Bio)]
      /\ \A e \in Device : e # d => cur'[e] = cur[e]
      /\ cur'[d] = IF moved'[b] = Len(Ends(b)) THEN Tail(cur[d]) ELSE cur[d]
  BY <1>1, <1>3, <1>7 DEF TypeOK
<1>9. TypeOK'
  <2>1. harm' \subseteq Harm
    BY <1>6 DEF TypeOK, Harm
  <2>2. BioTypes'
    BY <1>1, <1>6, <1>8, <2>1, TypedBios DEF BioTypes, Ends, Total
  <2> QED
    BY <1>1, <2>2, UseTyped
<1>10. Carried'
  BY <1>1, <1>5 DEF Carried
<1>11. HarmOnlyFrom'
  <2>1. started[d] # <<>>
    BY <1>1, <1>2 DEF Queues
  <2>2. ~Freed(d) /\ phase # "gone"
    BY <2>1, BusyNotFreed
  <2> QED
    BY <1>1, <1>3, <1>4, <2>2, TransferHarm
<1>12. Requests'
  <2>1. ASSUME NEW e \in Device, e # d
        PROVE  Queues(e)' /\ Waiting(e)' /\ Apart(e)' /\ Moving(e)'
    <3>1. \A c \in Bio : io[c].dev = e => moved'[c] = moved[c]
      BY <2>1, <1>4, <1>6
    <3> QED
      BY <2>1, <3>1, <1>1, <1>5, <1>8, OtherDevice
  <2>2. Queues(d)' /\ Waiting(d)' /\ Apart(d)'
    BY <1>1, <1>2, <1>5 DEF Queues, Waiting, Apart
  <2>3. Moving(d)'
    <3>1. \A k \in DOMAIN cur[d] : k # 1 => cur[d][k] # b
      BY <1>2, <1>3 DEF Moving
    <3>2. CASE moved'[b] = Len(Ends(b))
      <4>1. \A k \in DOMAIN cur'[d] : k + 1 \in DOMAIN cur[d] /\ k + 1 # 1 /\ k \in Int
                                      /\ cur'[d][k] = cur[d][k + 1]
        <5>1. DOMAIN cur'[d] = 1 .. Len(cur[d]) - 1
          BY <3>2, <1>7, <1>8, LenProperties
        <5> DEFINE n == Len(cur[d])
        <5>2. n \in Nat /\ DOMAIN cur'[d] = 1 .. n - 1 /\ DOMAIN cur[d] = 1 .. n
          BY <5>1, <1>3
        <5>3. \A k \in 1 .. n - 1 : cur'[d][k] = cur[d][k + 1]
          BY <3>2, <1>7, <1>8
        <5> HIDE DEF n
        <5> QED
          BY <5>2, <5>3
      <4>2. \A k \in DOMAIN cur'[d] : LET c == cur'[d][k] IN
               /\ io[c].dev = d /\ at'[c] = "moving" /\ io[c].dir # "pc"
               /\ moved'[c] < Len(Ends(c))
        <5> SUFFICES ASSUME NEW k \in DOMAIN cur'[d]
                     PROVE  LET c == cur[d][k + 1] IN
                            /\ io[c].dev = d /\ at[c] = "moving" /\ io[c].dir # "pc"
                            /\ moved'[c] < Len(Ends(c))
          BY <4>1, <1>1
        <5>1. moved'[cur[d][k + 1]] = moved[cur[d][k + 1]]
          BY <4>1, <3>1, <1>3, <1>6
        <5> QED
          BY <5>1, <4>1, <1>2 DEF Moving
      <4>3. \A j, k \in DOMAIN cur'[d] : cur'[d][j] = cur'[d][k] => j = k
        <5> SUFFICES ASSUME NEW j \in DOMAIN cur'[d], NEW k \in DOMAIN cur'[d],
                            cur[d][j + 1] = cur[d][k + 1]
                     PROVE  j = k
          BY <4>1
        <5>1. j + 1 = k + 1
          BY <4>1, <1>2 DEF Moving
        <5> QED
          BY <5>1, <4>1
      <4> QED
        BY <4>2, <4>3, <1>1, <1>2 DEF Moving, Ends
    <3>3. CASE moved'[b] # Len(Ends(b))
      <4>1. cur'[d] = cur[d]
        BY <3>3, <1>8
      <4>2. \A k \in DOMAIN cur[d] : moved'[cur[d][k]] < Len(Ends(cur[d][k]))
        <5>1. moved'[b] < Len(Ends(b))
          <6>1. moved'[b] \in 0 .. Len(Ends(b)) /\ Len(Ends(b)) \in Nat
            BY <1>3, <1>6, DiskAssumption, LenProperties
          <6> QED
            BY <6>1, <3>3
        <5>2. \A c \in Bio : c # b => moved'[c] = moved[c]
          BY <1>6
        <5> QED
          BY <5>1, <5>2, <1>2, <1>3 DEF Moving
      <4> QED
        BY <4>1, <4>2, <1>1, <1>2 DEF Moving, Ends
    <3> QED
      BY <3>2, <3>3
  <2>4. \A c \in Bio : at'[c] \in {"new", "queued"} => moved'[c] = 0
    <3>1. \A c \in Bio : at[c] # "moving" => moved'[c] = moved[c]
      BY <1>4, <1>6
    <3> QED
      BY <3>1, <1>1 DEF Requests
  <2> QED
    BY <2>1, <2>2, <2>3, <2>4 DEF Requests
<1> QED
  BY <1>5, <1>9, <1>10, <1>11, <1>12

\* Without a queue the sets of requests are empty, and there is less to keep.
LEMMA NoRequests ==
  ASSUME DiskInv, mode = "noqueue", mode' = mode, dev' = dev,
         pend' = pend, cur' = cur, started' = started,
         \A c \in Bio : at'[c] \in {"new", "queued"} => moved'[c] = 0
  PROVE  Requests'
<1> USE DEF DiskInv, Inv
<1>1. ASSUME NEW d \in Device
      PROVE  Queues(d)' /\ Waiting(d)' /\ Apart(d)' /\ Moving(d)'
  <2>1. Queues(d) /\ pend[d] = {} /\ started[d] = <<>> /\ cur[d] = <<>>
    BY DEF Requests, Queues
  <2>2. \A k : k \notin DOMAIN cur[d] /\ k \notin DOMAIN started[d]
    BY <2>1
  <2> QED
    BY <2>1, <2>2 DEF Queues, Waiting, Apart, Moving
<1> QED
  BY <1>1 DEF Requests

\* A step of vmem_disk_make_request keeps DiskInv.
LEMMA MakeStep ==
  ASSUME DiskInv, ~Halted, NEW b \in Bio, Make(b)
  PROVE  DiskInv'
<1> USE DEF DiskInv, Inv
<1>1. /\ mode = "noqueue" /\ at[b] = "moving" /\ Use /\ open' = open
      /\ pend' = pend /\ cur' = cur /\ started' = started
  BY DEF Make, N_Gone, N_Bio, N_End, traffic
<1>2. /\ Stages' /\ Owned' /\ GivenBack' /\ HalfMade' = HalfMade
      /\ mode' = mode /\ phase' = phase /\ dev' = dev /\ allocated' = allocated
  BY <1>1, UseKeeps
<1>3. CASE N_Gone(b)
  <2>1. /\ phase = "gone" /\ harm' = harm \union {"code"} /\ mem' = mem
        /\ at' = at /\ moved' = moved /\ buffer' = buffer
    BY <1>3 DEF N_Gone, traffic
  <2>2. BioTypes'
    BY <1>1, <2>1, TypedBios DEF BioTypes, Harm
  <2>3. TypeOK'
    BY <1>1, <2>2, UseTyped
  <2>4. Requests' /\ Carried'
    BY <1>1, <1>2, <2>1, NoRequests DEF Carried, Requests
  <2>5. HarmOnlyFrom'
    <3>1. open # {}
      BY <1>1 DEF Carried
    <3>2. "data" \notin harm' /\ ("buffer" \in harm' => "buffer" \in harm)
      BY <2>1 DEF Halted
    <3>3. /\ DOMAIN moved' = Bio
          /\ \A c \in Bio : moved'[c] \in Nat /\ moved'[c] >= moved[c]
      BY <2>1, DiskAssumption, LenProperties DEF TypeOK
    <3>4. harm' \subseteq harm \union {"data", "buffer", "code"}
      BY <2>1
    <3> QED
      BY <1>1, <2>1, <3>1, <3>2, <3>3, <3>4, UseHarm
  <2> QED
    BY <1>2, <2>3, <2>4, <2>5
<1>4. CASE N_Bio(b)
  <2>1. /\ phase # "gone" /\ moved[b] < Len(Ends(b)) /\ Transfer(b) /\ at' = at
    BY <1>4 DEF N_Bio
  <2>2. /\ mem' \in [Addr -> [Sector -> Datum]]
        /\ DOMAIN moved' = Bio
        /\ \A c \in Bio : /\ moved'[c] \in 0 .. Len(Ends(c))
                          /\ moved'[c] = moved[c] \/ (c = b /\ moved'[c] = moved[c] + 1)
        /\ DOMAIN buffer' = Bio
        /\ \A c \in Bio : buffer'[c] \in [0 .. Total(c) - 1 -> Datum]
        /\ harm' \subseteq harm \union {"data", "buffer"}
    BY <2>1, TransferStep
  <2>3. TypeOK'
    <3>1. harm' \subseteq Harm
      BY <2>2 DEF TypeOK, Harm
    <3>2. BioTypes'
      BY <1>1, <2>1, <2>2, <3>1, TypedBios DEF BioTypes, Ends, Total
    <3> QED
      BY <1>1, <3>2, UseTyped
  <2>4. Requests'
    <3>1. \A c \in Bio : at'[c] \in {"new", "queued"} => moved'[c] = 0
      BY <1>1, <2>1, <2>2 DEF Requests
    <3> QED
      BY <3>1, <1>1, <1>2, NoRequests
  <2>5. Carried'
    BY <1>1, <1>2, <2>1 DEF Carried
  <2>6. HarmOnlyFrom'
    BY <1>1, <2>1, TransferHarm
  <2> QED
    BY <1>2, <2>3, <2>4, <2>5, <2>6
<1>5. CASE N_End(b)
  <2>1. /\ at' = [at EXCEPT ![b] = "ok"] /\ mem' = mem
        /\ moved' = moved /\ buffer' = buffer /\ harm' = harm
    BY <1>5 DEF N_End
  <2>2. \A c \in Bio : at'[c] = IF c = b THEN "ok" ELSE at[c]
    BY <2>1 DEF TypeOK
  <2>3. TypeOK'
    <3>1. BioTypes'
      BY <1>1, <2>1, TypedBios DEF BioTypes
    <3> QED
      BY <1>1, <3>1, UseTyped
  <2>4. Requests'
    <3>1. \A c \in Bio : at'[c] \in {"new", "queued"} => moved'[c] = 0
      BY <2>1, <2>2 DEF Requests
    <3> QED
      BY <3>1, <1>1, <1>2, NoRequests
  <2>5. Carried'
    BY <1>1, <1>2, <2>2 DEF Carried
  <2>6. HarmOnlyFrom'
    BY <1>1, <2>1, QuietHarm
  <2> QED
    BY <1>2, <2>3, <2>4, <2>5, <2>6
<1> QED
  BY <1>3, <1>4, <1>5 DEF Make

-----------------------------------------------------------------------------
(* The theorems *)

\* Before insmod there is nothing.
LEMMA DiskInit == Init => DiskInv
<1> SUFFICES ASSUME Init PROVE DiskInv
  OBVIOUS
<1>1. \A b \in Bio : Len(Ends(b)) \in Nat
  BY DiskAssumption, LenProperties
<1>2. TypeOK
  <2>1. LifeTypes
    <3>1. [data |-> NULL, queue |-> "none", gd |-> "none"] \in DevType
      BY DEF DevType
    <3>2. dev \in [Device -> DevType]
      BY <3>1 DEF Init
    <3>3. 0 \in 0 .. NDEVICES
      BY DiskAssumption
    <3> QED
      BY <3>2, <3>3 DEF Init, LifeTypes
  <2>2. BioTypes
    <3>1. mem \in [Addr -> [Sector -> Datum]]
      BY DEF Init, Datum
    <3>2. pend \in [Device -> SUBSET Seq(Bio)]
      BY DEF Init
    <3>3. cur \in [Device -> Seq(Bio)] /\ started \in [Device -> Seq(Bio)]
      BY EmptySeq DEF Init
    <3>4. DOMAIN moved = Bio /\ \A b \in Bio : moved[b] \in 0 .. Len(Ends(b))
      BY <1>1 DEF Init
    <3>5. DOMAIN buffer = Bio /\ \A b \in Bio : buffer[b] \in [0 .. Total(b) - 1 -> Datum]
      <4> SUFFICES ASSUME NEW b \in Bio
                   PROVE  buffer[b] \in [0 .. Total(b) - 1 -> Datum]
        BY DEF Init
      <4>1. \A j \in 0 .. Total(b) - 1 : <<b, j>> \in Datum /\ Junk \in Datum
        BY DEF Datum
      <4> QED
        BY <4>1 DEF Init
    <3> QED
      BY <3>1, <3>2, <3>3, <3>4, <3>5 DEF Init, BioTypes
  <2> QED
    BY <2>1, <2>2 DEF TypeOK, LifeTypes, BioTypes, DevType
<1>3. \A d \in Device : Blank(d) /\ pend[d] = {} /\ cur[d] = <<>> /\ started[d] = <<>>
  BY DEF Init, Blank
<1>4. Stages
  BY <1>3 DEF Init, Stages, Blank, Cleaned, Freed, Exiting
<1>5. Owned
  BY <1>3 DEF Init, Owned, Whole, Blank
<1>6. Requests
  <2>1. \A d \in Device : Queues(d) /\ Waiting(d) /\ Apart(d) /\ Moving(d)
    BY <1>3 DEF Queues, Waiting, Apart, Moving
  <2> QED
    BY <2>1 DEF Init, Requests
<1>7. Carried /\ HarmOnlyFrom /\ GivenBack
  BY DEF Init, Carried, HarmOnlyFrom, GivenBack
<1> QED
  BY <1>2, <1>4, <1>5, <1>6, <1>7 DEF DiskInv, Inv

\* Every step of set-up, exit, the users and the block layer keeps DiskInv.
LEMMA DiskInductive == DiskInv /\ [Next]_vars => DiskInv'
<1> SUFFICES ASSUME DiskInv, [Next]_vars PROVE DiskInv'
  OBVIOUS
<1>1. CASE UNCHANGED vars
  <2>1. /\ Use /\ UNCHANGED <<mem, open, traffic, harm>>
    BY <1>1 DEF vars, Use
  <2>2. /\ Stages' /\ Owned' /\ GivenBack' /\ HalfMade' = HalfMade
        /\ mode' = mode /\ phase' = phase /\ dev' = dev /\ allocated' = allocated
    BY <2>1, UseKeeps
  <2>3. TypeOK'
    <3>1. BioTypes'
      BY <2>1, TypedBios DEF DiskInv, Inv, BioTypes, traffic, Ends, Total
    <3> QED
      BY <2>1, <3>1, UseTyped DEF DiskInv, Inv
  <2>4. Requests' /\ Carried'
    BY <2>1, <2>2 DEF DiskInv, Requests, Queues, Waiting, Apart, Moving, Ends,
       Carried, traffic
  <2>5. HarmOnlyFrom'
    BY <2>1, <2>2 DEF DiskInv, HarmOnlyFrom, traffic, Even, Step, Ends
  <2> QED
    BY <2>2, <2>3, <2>4, <2>5 DEF DiskInv, Inv
<1>2. CASE ~Halted /\ (Set_Up \/ Rmmod \/ Exit)
  BY <1>2, RegisterStep, DataStep, NoDataStep, QueueStep, DiskStep, VfreeStep,
     RmmodStep, GoneDiskStep, CleanupStep, DrainStep, FreeStep DEF Set_Up, Exit
<1>3. ASSUME ~Halted, NEW d \in Device, Open(d) \/ Close(d) \/ Getgeo(d) \/ Serve(d)
      PROVE  DiskInv'
  BY <1>3, OpenStep, StartStep, NonFsStep, BioStep, EndStep DEF Serve
<1>4. ASSUME ~Halted, NEW b \in Bio, Submit(b) \/ Make(b)
      PROVE  DiskInv'
  BY <1>4, SubmitStep, MakeStep
<1> QED
  BY <1>1, <1>2, <1>3, <1>4 DEF Next

\* DiskInv holds of every state the driver and its users reach.
LEMMA DiskInvariance == Spec => []DiskInv
  BY DiskInit, DiskInductive, PTL DEF Spec

\* The types, and that an unload gives back the data, the queues and the major,
\* whichever steps of setup_device had failed.
THEOREM DiskGivesBack == Spec => []Inv
<1>1. DiskInv => Inv
  BY DEF DiskInv
<1> QED
  BY <1>1, DiskInvariance, PTL

\* Nothing is copied beyond a disk; a segment's buffer is left only by a bio of
\* uneven segments; freed data is used, and data freed twice, only after a
\* set-up that failed half-way or, without a queue, in an exit; code of the
\* unloaded module runs only for a disk that was open.
THEOREM DiskHarms == Spec => []HarmOnlyFrom
<1>1. DiskInv => HarmOnlyFrom
  BY DEF DiskInv
<1> QED
  BY <1>1, DiskInvariance, PTL

-----------------------------------------------------------------------------
(* The request that is worked on *)

\* With a queue, of the bios of a disk only the one at hand has been moved in
\* part; the others of its request wait or have been moved.
Partly(b) == at[b] = "moving" /\ moved[b] > 0 /\ moved[b] < Len(Ends(b))

AtHand == mode = "queue" => \A d \in Device :
  /\ \A b \in Bio : io[b].dev = d /\ Partly(b) => cur[d] # <<>> /\ b = Head(cur[d])
  /\ \A k \in DOMAIN started[d] : LET b == started[d][k] IN
       /\ io[b].dir # "pc"
       /\ moved[b] = Len(Ends(b)) \/ \E j \in DOMAIN cur[d] : cur[d][j] = b

\* A step that starts and moves nothing keeps AtHand.
LEMMA AtHandSame ==
  ASSUME AtHand, UNCHANGED <<mode, cur, started, moved>>,
         \A b \in Bio : at'[b] = "moving" => at[b] = "moving"
  PROVE  AtHand'
BY DEF AtHand, Partly, Ends

\* Every step keeps it.
LEMMA AtHandStep == DiskInv /\ AtHand /\ [Next]_vars => AtHand'
<1> SUFFICES ASSUME DiskInv, AtHand, [Next]_vars PROVE AtHand'
  OBVIOUS
<1> USE DEF DiskInv, Inv
<1>0. DiskInv'
  BY DiskInductive
<1>1. CASE UNCHANGED <<mode, traffic>>
  BY <1>1, AtHandSame DEF traffic
<1>2. CASE UNCHANGED vars
  BY <1>1, <1>2 DEF vars
<1>3. CASE Set_Up \/ Rmmod \/ Exit
  BY <1>1, <1>3 DEF Set_Up, Exit, Register, Kmalloc, S_Data, S_NoData, S_Queue,
     S_Disk, S_Vfree, Rmmod, X_Disk, X_Queue, X_Drain, X_Data, Stay
<1>4. ASSUME NEW d \in Device, Open(d) \/ Close(d) \/ Getgeo(d)
      PROVE  AtHand'
  BY <1>1, <1>4 DEF Open, Close, Getgeo, Use
<1>5. ASSUME NEW b \in Bio, Submit(b)
      PROVE  AtHand'
  <2>1. /\ mode' = mode /\ cur' = cur /\ started' = started /\ moved' = moved
    BY <1>5 DEF Submit, Use
  <2>2. CASE mode = "queue"
    <3>1. \A c \in Bio : at'[c] = "moving" => at[c] = "moving"
      <4>1. \E l \in {"queued", "error"} : at' = [at EXCEPT ![b] = l]
        BY <1>5, <2>2 DEF Submit, Queue
      <4> QED
        BY <4>1 DEF TypeOK
    <3> QED
      BY <2>1, <3>1, AtHandSame
  <2>3. CASE mode # "queue"
    BY <2>1, <2>3 DEF AtHand
  <2> QED
    BY <2>2, <2>3
<1>6. ASSUME NEW b \in Bio, Make(b)
      PROVE  AtHand'
  BY <1>6 DEF Make, N_Gone, N_Bio, N_End, Use, AtHand
<1>7. ASSUME NEW d \in Device, Q_NonFs(d)
      PROVE  AtHand'
  <2>1. /\ mode' = mode /\ cur' = cur /\ started' = started /\ moved' = moved
        /\ \A c \in Bio : at'[c] = "moving" => at[c] = "moving"
    BY <1>7 DEF Q_NonFs, Use
  <2> QED
    BY <2>1, AtHandSame
<1>8. ASSUME NEW d \in Device, Q_Start(d), mode = "queue"
      PROVE  AtHand'
  <2>1. PICK r \in pend[d] : /\ started[d] = <<>>
                             /\ at' = [b \in Bio |-> IF b \in ToSet(r) THEN "moving" ELSE at[b]]
                             /\ cur' = [cur EXCEPT ![d] = r]
                             /\ started' = [started EXCEPT ![d] = r]
    BY <1>8 DEF Q_Start
  <2>2. moved' = moved /\ mode' = mode
    BY <1>8 DEF Q_Start, Use
  <2>3. /\ cur'[d] = r /\ started'[d] = r
        /\ \A e \in Device : e # d => cur'[e] = cur[e] /\ started'[e] = started[e]
    BY <2>1 DEF TypeOK
  <2>4. \A c \in Bio : Partly(c)' => Partly(c)
    <3> SUFFICES ASSUME NEW c \in Bio, Partly(c)' PROVE Partly(c)
      OBVIOUS
    <3>1. moved[c] > 0 /\ moved[c] < Len(Ends(c))
      BY <2>2 DEF Partly, Ends
    <3>2. c \notin ToSet(r)
      <4> SUFFICES ASSUME c \in ToSet(r) PROVE FALSE
        OBVIOUS
      <4>1. at[c] = "queued"
        BY DEF Requests, Waiting, ToSet
      <4> QED
        BY <4>1, <3>1 DEF Requests
    <3> QED
      BY <2>1, <3>1, <3>2 DEF Partly
  <2>5. cur[d] = <<>>
    BY <2>1 DEF Requests, Queues
  <2>6. ASSUME NEW e \in Device, NEW b \in Bio, io[b].dev = e, Partly(b)'
        PROVE  cur'[e] # <<>> /\ b = Head(cur'[e])
    BY <1>8, <2>3, <2>4, <2>5, <2>6 DEF AtHand
  <2>7. ASSUME NEW k \in DOMAIN started'[d]
        PROVE  /\ io[started'[d][k]].dir # "pc"
               /\ \E j \in DOMAIN cur'[d] : cur'[d][j] = started'[d][k]
    BY <1>0, <2>3, <2>7 DEF Requests, Moving
  <2> QED
    BY <1>8, <2>2, <2>3, <2>6, <2>7 DEF AtHand, Ends
<1>9. ASSUME NEW d \in Device, Q_End(d), mode = "queue"
      PROVE  AtHand'
  <2>1. /\ cur[d] = <<>> /\ cur' = cur /\ moved' = moved /\ mode' = mode
        /\ at' = [b \in Bio |-> IF b \in ToSet(started[d]) THEN "ok" ELSE at[b]]
        /\ started' = [started EXCEPT ![d] = <<>>]
    BY <1>9 DEF Q_End, Use
  <2>2. \A c \in Bio : Partly(c)' => Partly(c)
    BY <2>1 DEF Partly, Ends
  <2>3. /\ \A k : k \notin DOMAIN started'[d]
        /\ \A e \in Device : e # d => started'[e] = started[e]
    BY <2>1 DEF TypeOK
  <2> QED
    BY <1>9, <2>1, <2>2, <2>3 DEF AtHand, Ends
<1>10. ASSUME NEW d \in Device, Q_Bio(d), mode = "queue"
       PROVE  AtHand'
  <2> DEFINE b == Head(cur[d])
  <2>1. /\ cur[d] # <<>> /\ Transfer(b) /\ mode' = mode
        /\ cur' = [cur EXCEPT ![d] = IF moved'[b] = Len(Ends(b)) THEN Tail(cur[d]) ELSE cur[d]]
        /\ started' = started /\ at' = at
    BY <1>10 DEF Q_Bio, Use
  <2>2. /\ b \in Bio /\ b = cur[d][1] /\ 1 \in DOMAIN cur[d] /\ cur[d] \in Seq(Bio)
    BY <2>1, BioSeq DEF TypeOK
  <2>3. io[b].dev = d /\ moved[b] < Len(Ends(b))
    BY <2>2 DEF Requests, Moving
  <2> HIDE DEF b
  <2>4. \A c \in Bio : /\ moved'[c] \in 0 .. Len(Ends(c))
                       /\ c # b => moved'[c] = moved[c]
    BY <2>1, <2>2, <2>3, TransferStep
  <2>5. /\ cur'[d] = IF moved'[b] = Len(Ends(b)) THEN Tail(cur[d]) ELSE cur[d]
        /\ \A e \in Device : e # d => cur'[e] = cur[e]
    BY <2>1 DEF TypeOK
  <2>6. ASSUME NEW e \in Device, NEW c \in Bio, io[c].dev = e, Partly(c)'
        PROVE  cur'[e] # <<>> /\ c = Head(cur'[e])
    <3>1. CASE c # b
      <4>1. Partly(c)
        BY <3>1, <2>1, <2>4, <2>6 DEF Partly, Ends
      <4>2. cur[e] # <<>> /\ c = Head(cur[e])
        BY <4>1, <2>6, <1>10 DEF AtHand
      <4>3. e # d
        BY <4>2, <3>1 DEF b
      <4> QED
        BY <4>2, <4>3, <2>5
    <3>2. CASE c = b
      <4>1. moved'[b] # Len(Ends(b)) /\ e = d
        BY <3>2, <2>2, <2>3, <2>4, <2>6 DEF Partly, Ends
      <4> QED
        BY <4>1, <3>2, <2>1, <2>5 DEF b
    <3> QED
      BY <3>1, <3>2
  <2>7. ASSUME NEW e \in Device, NEW k \in DOMAIN started[e]
        PROVE  /\ io[started[e][k]].dir # "pc"
               /\ \/ moved'[started[e][k]] = Len(Ends(started[e][k]))
                  \/ \E j \in DOMAIN cur'[e] : cur'[e][j] = started[e][k]
    <3> DEFINE c == started[e][k]
    <3>1. /\ c \in Bio /\ io[c].dev = e /\ io[c].dir # "pc"
          /\ moved[c] = Len(Ends(c)) \/ \E j \in DOMAIN cur[e] : cur[e][j] = c
      <4>1. c \in Bio
        <5>1. started[e] \in Seq(Bio)
          BY DEF TypeOK
        <5> QED
          BY <5>1, <2>7, BioSeq
      <4>2. io[c].dev = e
        BY <2>7 DEF Requests, Moving
      <4>3. /\ io[c].dir # "pc"
            /\ moved[c] = Len(Ends(c)) \/ \E j \in DOMAIN cur[e] : cur[e][j] = c
        BY <1>10, <2>7 DEF AtHand
      <4> QED
        BY <4>1, <4>2, <4>3
    <3> HIDE DEF c
    <3>2. CASE e # d
      <4>1. c # b
        BY <3>1, <3>2, <2>3
      <4> QED
        BY <3>1, <3>2, <4>1, <2>4, <2>5 DEF c
    <3>3. CASE e = d /\ moved[c] = Len(Ends(c))
      <4>1. c # b
        BY <3>3, <2>3, <3>1, DiskAssumption, LenProperties
      <4> QED
        BY <3>1, <3>3, <4>1, <2>4 DEF c
    <3>4. ASSUME e = d, NEW j \in DOMAIN cur[d], cur[d][j] = c
          PROVE  \/ moved'[c] = Len(Ends(c))
                 \/ \E l \in DOMAIN cur'[d] : cur'[d][l] = c
      <4>1. CASE moved'[b] # Len(Ends(b))
        BY <4>1, <3>4, <2>5
      <4>2. CASE moved'[b] = Len(Ends(b)) /\ c # b
        <5> DEFINE n == Len(cur[d])
        <5>1. n \in Nat /\ DOMAIN cur[d] = 1 .. n
          BY <2>2, BioSeq
        <5>2. /\ Tail(cur[d]) \in Seq(Bio) /\ Len(Tail(cur[d])) = n - 1
              /\ \A l \in 1 .. n - 1 : Tail(cur[d])[l] = cur[d][l + 1]
          BY <2>1, <2>2, HeadTailProperties
        <5>3. DOMAIN Tail(cur[d]) = 1 .. n - 1
          BY <5>2, LenProperties
        <5>4. j # 1
          BY <4>2, <3>4, <2>2
        <5> HIDE DEF n
        <5>5. j - 1 \in 1 .. n - 1 /\ (j - 1) + 1 = j
          BY <5>1, <5>4
        <5>6. Tail(cur[d])[j - 1] = c
          BY <5>2, <5>5, <3>4
        <5> QED
          BY <5>3, <5>5, <5>6, <4>2, <2>5
      <4>3. CASE moved'[b] = Len(Ends(b)) /\ c = b
        BY <4>3
      <4> QED
        BY <4>1, <4>2, <4>3
    <3> QED
      BY <3>1, <3>2, <3>3, <3>4 DEF c
  <2> QED
    BY <2>1, <2>6, <2>7 DEF AtHand, Ends
<1>11. CASE mode # "queue"
  <2>1. mode' = mode
    BY DEF Next, vars, Set_Up, Exit, Register, Kmalloc, S_Data, S_NoData,
       S_Queue,
       S_Disk, S_Vfree, Rmmod, X_Disk, X_Queue, X_Drain, X_Data, Stay, Open, Close,
       Getgeo, Serve, Q_Start, Q_NonFs, Q_Bio, Q_End, Submit, Make, N_Gone, N_Bio,
       N_End, Use
  <2> QED
    BY <2>1, <1>11 DEF AtHand
<1>12. CASE mode = "queue"
  BY <1>2, <1>3, <1>4, <1>5, <1>6, <1>7, <1>8, <1>9, <1>10, <1>12 DEF Next,
     Serve
<1> QED
  BY <1>11, <1>12

\* At first nothing is moved.
LEMMA AtHandInit == Init => AtHand
<1> SUFFICES ASSUME Init, NEW d \in Device
             PROVE  /\ \A b \in Bio : ~Partly(b)
                    /\ \A k : k \notin DOMAIN started[d]
  BY DEF AtHand
<1> QED
  BY DEF Init, Partly

-----------------------------------------------------------------------------
(* The steps of SectorDisk *)

\* What was reported of a bio, and whether it counts as carried out.
Told(b) == IF at[b] \in {"ok", "error"} THEN at[b] ELSE "none"
Done(b) == moved[b] > 0

\* A step that changes nothing a user of the disks can see.
LEMMA StutterMaps ==
  ASSUME \A d \in Device : StoreOf(d)' = StoreOf(d),
         \A b \in Bio : /\ BufferOf(b)' = BufferOf(b)
                        /\ Done(b)' <=> Done(b)
                        /\ Told(b)' = Told(b)
  PROVE  UNCHANGED Store!vars
<1>1. [d \in Device |-> StoreOf(d)]' = [d \in Device |-> StoreOf(d)]
  OBVIOUS
<1>2. [b \in Bio |-> BufferOf(b)]' = [b \in Bio |-> BufferOf(b)]
  OBVIOUS
<1>3. {b \in Bio : moved[b] > 0}' = {b \in Bio : moved[b] > 0}
  BY DEF Done
<1>4. [b \in Bio |-> IF at[b] \in {"ok", "error"} THEN at[b] ELSE "none"]'
        = [b \in Bio |-> IF at[b] \in {"ok", "error"} THEN at[b] ELSE "none"]
  BY DEF Told
<1> QED
  BY <1>1, <1>2, <1>3, <1>4 DEF Store!vars

\* A disk appears.
LEMMA AppearMaps ==
  ASSUME NEW e \in Device, StoreOf(e) = <<>>, DOMAIN StoreOf(e)' = Sector,
         \A d \in Device : d # e => StoreOf(d)' = StoreOf(d),
         \A b \in Bio : /\ BufferOf(b)' = BufferOf(b)
                        /\ Done(b)' <=> Done(b)
                        /\ Told(b)' = Told(b)
  PROVE  Store!Next
<1> DEFINE S == [d \in Device |-> StoreOf(d)]
<1>1. S' = [S EXCEPT ![e] = S'[e]] /\ S[e] = <<>> /\ DOMAIN S'[e] = Sector
  OBVIOUS
<1>2. [b \in Bio |-> BufferOf(b)]' = [b \in Bio |-> BufferOf(b)]
  OBVIOUS
<1>3. {b \in Bio : moved[b] > 0}' = {b \in Bio : moved[b] > 0}
  BY DEF Done
<1>4. [b \in Bio |-> IF at[b] \in {"ok", "error"} THEN at[b] ELSE "none"]'
        = [b \in Bio |-> IF at[b] \in {"ok", "error"} THEN at[b] ELSE "none"]
  BY DEF Told
<1>5. Store!Appear(e)
  BY <1>1, <1>2, <1>3, <1>4 DEF Store!Appear
<1> QED
  BY <1>5 DEF Store!Next

\* A disk vanishes.
LEMMA VanishMaps ==
  ASSUME NEW e \in Device, StoreOf(e)' = <<>>,
         \A d \in Device : d # e => StoreOf(d)' = StoreOf(d),
         \A b \in Bio : /\ BufferOf(b)' = BufferOf(b)
                        /\ Done(b)' <=> Done(b)
                        /\ Told(b)' = Told(b)
  PROVE  Store!Next
<1> DEFINE S == [d \in Device |-> StoreOf(d)]
<1>1. S' = [S EXCEPT ![e] = <<>>]
  OBVIOUS
<1>2. [b \in Bio |-> BufferOf(b)]' = [b \in Bio |-> BufferOf(b)]
  OBVIOUS
<1>3. {b \in Bio : moved[b] > 0}' = {b \in Bio : moved[b] > 0}
  BY DEF Done
<1>4. [b \in Bio |-> IF at[b] \in {"ok", "error"} THEN at[b] ELSE "none"]'
        = [b \in Bio |-> IF at[b] \in {"ok", "error"} THEN at[b] ELSE "none"]
  BY DEF Told
<1>5. Store!Vanish(e)
  BY <1>1, <1>2, <1>3, <1>4 DEF Store!Vanish
<1> QED
  BY <1>5 DEF Store!Next

\* Bios are reported.
LEMMA ReportMaps ==
  ASSUME \A d \in Device : StoreOf(d)' = StoreOf(d),
         \A b \in Bio :
           /\ BufferOf(b)' = BufferOf(b)
           /\ Done(b)' <=> Done(b)
           /\ Told(b)' = Told(b) \/ (Told(b) = "none" /\
                Told(b)' = IF Done(b) THEN "ok" ELSE "error"),
         at' \in [Bio -> {"new", "queued", "moving", "ok", "error"}]
  PROVE  Store!Next
<1> DEFINE R == [b \in Bio |-> IF at[b] \in {"ok", "error"} THEN at[b] ELSE "none"]
           D == {b \in Bio : moved[b] > 0}
<1>1. [d \in Device |-> StoreOf(d)]' = [d \in Device |-> StoreOf(d)]
  OBVIOUS
<1>2. [b \in Bio |-> BufferOf(b)]' = [b \in Bio |-> BufferOf(b)]
  OBVIOUS
<1>3. D' = D
  BY DEF Done
<1>4. R' \in [Bio -> {"none", "ok", "error"}]
  OBVIOUS
<1>5. \A b \in Bio : R'[b] # R[b] => /\ R[b] = "none"
                                     /\ R'[b] = IF b \in D THEN "ok" ELSE "error"
  BY DEF Told, Done
<1>6. Store!Report
  BY <1>1, <1>2, <1>3, <1>4, <1>5 DEF Store!Report
<1> QED
  BY <1>6 DEF Store!Next

\* A bio is carried out: its sectors are written, or read, at once.
LEMMA DoMaps ==
  ASSUME NEW b \in Bio, NEW e \in Device, io[b].dev = e, ~Done(b), Told(b) = "none", Done(b)',
         StoreOf(e) # <<>>,
         \A c \in Bio : (c # b => (Done(c)' <=> Done(c))) /\ Told(c)' = Told(c),
         \A d \in Device : d # e => StoreOf(d)' = StoreOf(d),
         \A c \in Bio : c # b => BufferOf(c)' = BufferOf(c),
         \/ /\ io[b].dir = "write" /\ BufferOf(b)' = BufferOf(b)
            /\ Even(b) => StoreOf(e)' =
                 [s \in Sector |-> IF s \in Store!Span(b)
                                   THEN BufferOf(b)[s - io[b].sector]
                                   ELSE StoreOf(e)[s]]
         \/ /\ io[b].dir = "read" /\ StoreOf(e)' = StoreOf(e)
            /\ Even(b) => BufferOf(b)' =
                 [j \in DOMAIN BufferOf(b) |-> StoreOf(e)[io[b].sector + j]]
  PROVE  Store!Next
<1> DEFINE S == [d \in Device |-> StoreOf(d)]
           B == [c \in Bio |-> BufferOf(c)]
           R == [c \in Bio |-> IF at[c] \in {"ok", "error"} THEN at[c] ELSE "none"]
           D == {c \in Bio : moved[c] > 0}
<1>1. Store!Even(b) <=> Even(b)
  BY DEF Store!Even, Even, Ends, Step
<1>2. R' = R /\ R[b] = "none"
  BY DEF Told
<1>3. D' = D \union {b} /\ b \notin D
  BY DEF Done
<1>4. Store!Write(b) \/ Store!Read(b)
  <2>1. CASE /\ io[b].dir = "write" /\ BufferOf(b)' = BufferOf(b)
             /\ Even(b) => StoreOf(e)' =
                  [s \in Sector |-> IF s \in Store!Span(b)
                                    THEN BufferOf(b)[s - io[b].sector]
                                    ELSE StoreOf(e)[s]]
    <3>1. B' = B /\ B[b] = BufferOf(b)
      BY <2>1
    <3>2. S' = [S EXCEPT ![e] = S'[e]] /\ S[e] = StoreOf(e) /\ S'[e] = StoreOf(e)'
      OBVIOUS
    <3>3. Even(b) => S'[e] = Store!Written(b, S[e])
      BY <2>1, <3>1, <3>2 DEF Store!Written
    <3>4. S' = [S EXCEPT ![e] = IF Store!Even(b) THEN Store!Written(b, S[e]) ELSE S'[e]]
      BY <1>1, <3>2, <3>3
    <3> QED
      BY <2>1, <3>1, <3>2, <3>4 DEF Store!Write
  <2>2. CASE /\ io[b].dir = "read" /\ StoreOf(e)' = StoreOf(e)
             /\ Even(b) => BufferOf(b)' =
                  [j \in DOMAIN BufferOf(b) |-> StoreOf(e)[io[b].sector + j]]
    <3>1. S' = S /\ S[e] = StoreOf(e)
      BY <2>2
    <3>2. B' = [B EXCEPT ![b] = B'[b]] /\ B[b] = BufferOf(b) /\ B'[b] = BufferOf(b)'
      OBVIOUS
    <3>3. Even(b) => B'[b] = Store!Fetched(b, S[e])
      BY <2>2, <3>1, <3>2 DEF Store!Fetched
    <3>4. B' = [B EXCEPT ![b] = IF Store!Even(b) THEN Store!Fetched(b, S[e]) ELSE B'[b]]
      BY <1>1, <3>2, <3>3
    <3> QED
      BY <2>2, <3>1, <3>2, <3>4 DEF Store!Read
  <2> QED
    BY <2>1, <2>2
<1>5. Store!Do(b)
  BY <1>2, <1>3, <1>4 DEF Store!Do
<1> QED
  BY <1>5 DEF Store!Next

\* A bio of uneven segments goes on.
LEMMA MuddleMaps ==
  ASSUME NEW b \in Bio, io[b].dev \in Device, Done(b), ~Even(b), Told(b) = "none",
         \A c \in Bio : (Done(c)' <=> Done(c)) /\ Told(c)' = Told(c),
         \A d \in Device : d # io[b].dev => StoreOf(d)' = StoreOf(d),
         \A c \in Bio : c # b => BufferOf(c)' = BufferOf(c)
  PROVE  Store!Next
<1> DEFINE S == [d \in Device |-> StoreOf(d)]
           B == [c \in Bio |-> BufferOf(c)]
           R == [c \in Bio |-> IF at[c] \in {"ok", "error"} THEN at[c] ELSE "none"]
           D == {c \in Bio : moved[c] > 0}
<1>1. ~Store!Even(b)
  BY DEF Store!Even, Even, Ends, Step
<1>2. R' = R /\ R[b] = "none"
  BY DEF Told
<1>3. D' = D /\ b \in D
  BY DEF Done
<1>4. S' = [S EXCEPT ![io[b].dev] = S'[io[b].dev]] /\ B' = [B EXCEPT ![b] = B'[b]]
  OBVIOUS
<1>5. Store!Muddle(b)
  BY <1>1, <1>2, <1>3, <1>4 DEF Store!Muddle
<1> QED
  BY <1>5 DEF Store!Next

-----------------------------------------------------------------------------
(* What the users see of the disks and of their buffers *)

\* There is a disk, and its data is in use.
Alive(d) == dev[d].gd # "none" /\ dev[d].data \in allocated

\* Of the bios of a disk only the one at hand is under way.
LEMMA OneAtHand ==
  ASSUME DiskInv, AtHand, mode = "queue", NEW d \in Device
  PROVE  /\ \A b \in Bio : io[b].dev = d /\ InFlight(b) =>
              cur[d] # <<>> /\ b = Head(cur[d])
         /\ \A b \in Bio : io[b].dev = d /\ InFlight(b) => d \in open /\ Whole(d)
<1>1. \A b \in Bio : InFlight(b) => Partly(b) /\ at[b] = "moving"
  <2> SUFFICES ASSUME NEW b \in Bio, InFlight(b)
               PROVE  Partly(b) /\ at[b] = "moving"
    OBVIOUS
  <2> DEFINE n == Len(Ends(b))
  <2>1. n \in Nat /\ at[b] = "moving" /\ moved[b] \in 1 .. n - 1
    BY DiskAssumption, LenProperties DEF InFlight
  <2> HIDE DEF n
  <2>2. moved[b] > 0 /\ moved[b] < n
    BY <2>1
  <2> QED
    BY <2>1, <2>2 DEF Partly, n
<1>2. \A b \in Bio : InFlight(b) => io[b].dev \in open
  BY <1>1 DEF DiskInv, Carried
<1>3. \A b \in Bio : InFlight(b) => Whole(io[b].dev)
  BY <1>2, OpenIsWhole
<1> QED
  BY <1>1, <1>2, <1>3 DEF AtHand

\* The data of a disk, with what its write under way has still to move.
StoreWith(d, b) ==
  [s \in Sector |-> IF InFlight(b) /\ io[b].dir = "write" /\ s \in Rest(b)
                    THEN buffer[b][s - io[b].sector] ELSE mem[dev[d].data][s]]

\* If no other bio of the disk is under way, that is its store.
StoreKnown == \A d \in Device, b \in Bio :
  /\ Alive(d) /\ io[b].dev = d
  /\ \A c \in Bio : io[c].dev = d /\ InFlight(c) => c = b
  => StoreOf(d) = StoreWith(d, b)

\* That holds in every state.
LEMMA StoreIs == StoreKnown
<1> SUFFICES ASSUME NEW d \in Device, NEW b \in Bio, Alive(d), io[b].dev = d,
                    \A c \in Bio : io[c].dev = d /\ InFlight(c) => c = b
             PROVE  StoreOf(d) = StoreWith(d, b)
  BY DEF StoreKnown
<1> DEFINE W == {c \in Bio : InFlight(c) /\ io[c].dev = d /\ io[c].dir = "write"}
           f == [s \in Sector |->
                   IF \E c \in W : s \in Rest(c)
                   THEN LET c == CHOOSE c \in W : s \in Rest(c)
                        IN buffer[c][s - io[c].sector]
                   ELSE mem[dev[d].data][s]]
<1>1. StoreOf(d) = f
  BY DEF StoreOf, Alive
<1>2. \A c \in W : c = b
  OBVIOUS
<1>3. b \in W <=> InFlight(b) /\ io[b].dir = "write"
  OBVIOUS
<1>4. ASSUME NEW s \in Sector
      PROVE  f[s] = StoreWith(d, b)[s]
  <2>1. CASE b \in W /\ s \in Rest(b)
    <3>1. (CHOOSE c \in W : s \in Rest(c)) = b
      BY <1>2, <2>1
    <3>2. f[s] = buffer[b][s - io[b].sector]
      BY <2>1, <3>1
    <3> QED
      BY <1>3, <2>1, <3>2 DEF StoreWith
  <2>2. CASE ~(b \in W /\ s \in Rest(b))
    <3>1. ~(\E c \in W : s \in Rest(c))
      BY <1>2, <2>2
    <3>2. f[s] = mem[dev[d].data][s]
      BY <3>1
    <3> QED
      BY <1>3, <2>2, <3>2 DEF StoreWith
  <2> QED
    BY <2>1, <2>2
<1> QED
  BY <1>1, <1>4 DEF StoreWith

\* Of the next state, too.
LEMMA StoreIsThen == StoreKnown'
BY StoreIs, PTL

\* A disk that is not there, or whose data was freed, has no store.
LEMMA StoreIsNot ==
  ASSUME NEW d \in Device, ~Alive(d)
  PROVE  StoreOf(d) = <<>>
BY DEF StoreOf, Alive

\* One that is there has sectors.
LEMMA StoreIsThere ==
  ASSUME NEW d \in Device, Alive(d)
  PROVE  DOMAIN StoreOf(d) = Sector /\ StoreOf(d) # <<>>
<1>1. DOMAIN StoreOf(d) = Sector
  BY DEF StoreOf, Alive
<1>2. 0 \in Sector /\ 0 \notin DOMAIN <<>>
  BY DiskAssumption DEF Sector
<1> QED
  BY <1>1, <1>2

\* A step that touches neither the data of a disk, nor the bios under way.
LEMMA SameStore ==
  ASSUME NEW d \in Device, (dev'[d].gd = "none") <=> (dev[d].gd = "none"),
         dev[d].gd # "none" => /\ dev'[d].data = dev[d].data
                               /\ dev[d].data \in allocated' <=> dev[d].data \in allocated
                               /\ mem'[dev[d].data] = mem[dev[d].data],
         \A b \in Bio : io[b].dev = d /\ io[b].dir = "write" =>
           /\ InFlight(b)' <=> InFlight(b)
           /\ InFlight(b) => buffer'[b] = buffer[b] /\ Rest(b)' = Rest(b)
  PROVE  StoreOf(d)' = StoreOf(d)
<1> DEFINE W == {b \in Bio : InFlight(b) /\ io[b].dev = d /\ io[b].dir = "write"}
           g(s) == CHOOSE b \in W : s \in Rest(b)
<1>1. Alive(d)' <=> Alive(d)
  BY DEF Alive
<1>2. CASE ~Alive(d)
  BY <1>1, <1>2 DEF StoreOf, Alive
<1>3. CASE Alive(d)
  <2>1. W' = W /\ \A b \in W : Rest(b)' = Rest(b) /\ buffer'[b] = buffer[b]
    OBVIOUS
  <2>2. /\ dev'[d].data = dev[d].data /\ mem'[dev[d].data] = mem[dev[d].data]
    BY <1>3 DEF Alive
  <2>3. \A s \in Sector : {b \in W : s \in Rest(b)}' = {b \in W : s \in Rest(b)}
    BY <2>1
  <2> DEFINE h(s) == IF \E b \in W : s \in Rest(b)
                     THEN buffer[g(s)][s - io[g(s)].sector]
                     ELSE mem[dev[d].data][s]
  <2>4. StoreOf(d) = [s \in Sector |-> h(s)]
    BY <1>3 DEF StoreOf, Alive
  <2>5. StoreOf(d)' = [s \in Sector |-> h(s)']
    BY <1>1, <1>3 DEF StoreOf, Alive
  <2>6. ASSUME NEW s \in Sector
        PROVE  h(s)' = h(s)
    <3>1. (\E b \in W : s \in Rest(b))' <=> (\E b \in W : s \in Rest(b))
      BY <2>1
    <3>2. CASE ~(\E b \in W : s \in Rest(b))
      BY <3>1, <3>2, <2>2
    <3>3. CASE \E b \in W : s \in Rest(b)
      <4>1. (CHOOSE b \in {c \in W : s \in Rest(c)} : TRUE) = g(s)
        OBVIOUS
      <4>2. g(s)' = g(s)
        <5>1. \A b : (b \in W' /\ s \in Rest(b)') <=> (b \in W /\ s \in Rest(b))
          BY <2>1
        <5> QED
          BY <5>1
      <4>3. g(s) \in W
        BY <3>3
      <4> QED
        BY <3>1, <3>3, <4>2, <4>3, <2>1
    <3> QED
      BY <3>2, <3>3
  <2> QED
    BY <2>4, <2>5, <2>6
<1> QED
  BY <1>2, <1>3

\* The same of a buffer.
LEMMA SameBuffer ==
  ASSUME NEW b \in Bio, InFlight(b)' <=> InFlight(b), buffer'[b] = buffer[b],
         InFlight(b) => /\ Rest(b)' = Rest(b)
                        /\ dev'[io[b].dev].data = dev[io[b].dev].data
                        /\ mem'[dev[io[b].dev].data] = mem[dev[io[b].dev].data]
  PROVE  BufferOf(b)' = BufferOf(b)
<1>1. CASE InFlight(b)
  BY <1>1 DEF BufferOf
<1>2. CASE ~InFlight(b)
  BY <1>2 DEF BufferOf
<1> QED
  BY <1>1, <1>2

\* A bio that is neither taken up nor let go, and of which nothing is moved.
LEMMA SameFlight ==
  ASSUME NEW b \in Bio, moved'[b] = moved[b],
         (at'[b] = "moving" <=> at[b] = "moving")
           \/ moved[b] \notin 1 .. Len(Ends(b)) - 1
  PROVE  (InFlight(b)' <=> InFlight(b)) /\ Rest(b)' = Rest(b)
<1>1. Even(b)' <=> Even(b)
  BY DEF Even, Ends, Step
<1>2. Rest(b)' = Rest(b)
  BY DEF Rest, Step, Ends, Total
<1> QED
  BY <1>1, <1>2 DEF InFlight, Ends

\* A step of set-up or exit does not show on a disk unless the disk comes or
\* its data goes.
LEMMA LifeView ==
  ASSUME DiskInv, AtHand, mode = "queue", UNCHANGED traffic,
         \A d \in Device : dev[d].gd # "none" =>
           dev'[d].data = dev[d].data /\ mem'[dev[d].data] = mem[dev[d].data]
  PROVE  /\ \A b \in Bio : /\ BufferOf(b)' = BufferOf(b)
                           /\ Done(b)' <=> Done(b)
                           /\ Told(b)' = Told(b)
         /\ \A d \in Device :
              /\ (dev'[d].gd = "none") <=> (dev[d].gd = "none")
              /\ dev[d].gd # "none" => (dev[d].data \in allocated' <=> dev[d].data \in allocated)
              => StoreOf(d)' = StoreOf(d)
<1>1. at' = at /\ moved' = moved /\ buffer' = buffer
  BY DEF traffic
<1>2. \A b \in Bio : (InFlight(b)' <=> InFlight(b)) /\ Rest(b)' = Rest(b)
  BY <1>1, SameFlight
<1>3. ASSUME NEW b \in Bio
      PROVE  BufferOf(b)' = BufferOf(b)
  <2>1. InFlight(b) => /\ dev'[io[b].dev].data = dev[io[b].dev].data
                       /\ mem'[dev[io[b].dev].data] = mem[dev[io[b].dev].data]
    <3> SUFFICES ASSUME InFlight(b)
                 PROVE  /\ dev'[io[b].dev].data = dev[io[b].dev].data
                        /\ mem'[dev[io[b].dev].data] = mem[dev[io[b].dev].data]
      OBVIOUS
    <3>1. io[b].dev \in Device
      BY DiskAssumption
    <3>2. io[b].dev \in open
      BY DEF InFlight, DiskInv, Carried
    <3> QED
      BY <3>1, <3>2 DEF DiskInv, Carried
  <2> QED
    BY <1>1, <1>2, <2>1, SameBuffer
<1>4. ASSUME NEW d \in Device, (dev'[d].gd = "none") <=> (dev[d].gd = "none"),
             dev[d].gd # "none" =>
               (dev[d].data \in allocated' <=> dev[d].data \in allocated)
      PROVE  StoreOf(d)' = StoreOf(d)
  BY <1>1, <1>2, <1>4, SameStore
<1> QED
  BY <1>1, <1>3, <1>4 DEF Done, Told

\* A device whose gendisk was added is whole, and until exit its data is in use.
LEMMA GendiskIsWhole ==
  ASSUME DiskInv, NEW d \in Device, dev[d].gd # "none"
  PROVE  Whole(d) /\ (phase # "exit" /\ ~Freed(d) => dev[d].data \in allocated)
<1>1. dev[d].data # NULL /\ d \notin HalfMade
  BY DEF DiskInv, Stages, HalfMade
<1> QED
  BY <1>1 DEF DiskInv, Owned, Whole

\* vfree of data makes vanish at most the one disk that has it.
LEMMA VfreeMaps ==
  ASSUME DiskInv, AtHand, mode = "queue", NEW a, allocated' = allocated \ {a},
         UNCHANGED <<mem, traffic, dev>>
  PROVE  Store!Next \/ UNCHANGED Store!vars
<1>1. /\ \A b \in Bio : /\ BufferOf(b)' = BufferOf(b)
                        /\ Done(b)' <=> Done(b)
                        /\ Told(b)' = Told(b)
      /\ \A d \in Device : dev[d].gd = "none" \/ dev[d].data # a =>
           StoreOf(d)' = StoreOf(d)
  BY LifeView
<1>2. CASE \E e \in Device : dev[e].gd # "none" /\ dev[e].data = a
  <2>1. PICK e \in Device : dev[e].gd # "none" /\ dev[e].data = a
    BY <1>2
  <2>2. \A d \in Device : d # e => dev[d].gd = "none" \/ dev[d].data # a
    BY <2>1, GendiskIsWhole DEF DiskInv, Owned
  <2>3. StoreOf(e)' = <<>>
    <3>1. ~Alive(e)'
      BY <2>1 DEF Alive
    <3> QED
      BY <3>1 DEF StoreOf, Alive
  <2> QED
    BY <1>1, <2>2, <2>3, VanishMaps
<1>3. CASE ~(\E e \in Device : dev[e].gd # "none" /\ dev[e].data = a)
  BY <1>1, <1>3, StutterMaps
<1> QED
  BY <1>2, <1>3

\* Set-up and exit: a disk appears when its gendisk is added; it vanishes when
\* its data is freed.
LEMMA LifeMaps ==
  ASSUME DiskInv, AtHand, mode = "queue", Set_Up \/ Rmmod \/ Exit
  PROVE  Store!Next \/ UNCHANGED Store!vars
<1> USE DEF DiskInv, Inv
<1>1. CASE \E ok \in BOOLEAN : Register(ok) \/ Kmalloc(ok)
  <2>1. dev' = dev /\ allocated' = allocated /\ mem' = mem /\ UNCHANGED traffic
    BY <1>1 DEF Register, Kmalloc, Stay
  <2> QED
    BY <2>1, LifeView, StutterMaps
<1>2. ASSUME NEW a \in Addr, S_Data(a)
      PROVE  UNCHANGED Store!vars
  <2>1. /\ phase = "setup" /\ step = "data" /\ a \notin allocated
        /\ dev' = [dev EXCEPT ![i].data = a] /\ allocated' = allocated \union {a}
        /\ mem' = [mem EXCEPT ![a] = [s \in Sector |-> Junk]]
        /\ UNCHANGED traffic
    BY <1>2 DEF S_Data, At
  <2>2. i \in Device
    BY <2>1, DiskAssumption DEF Stages, TypeOK, Device
  <2>3. dev[i].gd = "none"
    BY <2>1, <2>2 DEF Stages, ToCome, Blank
  <2>4. \A d \in Device : /\ dev'[d].gd = dev[d].gd
                          /\ d # i => dev'[d].data = dev[d].data
    BY <2>1, <2>2 DEF TypeOK
  <2>5. \A d \in Device : dev[d].gd # "none" => dev[d].data \in allocated
    BY <2>1, GendiskIsWhole DEF Freed
  <2>6. \A d \in Device : dev[d].gd # "none" =>
          /\ dev'[d].data = dev[d].data /\ mem'[dev[d].data] = mem[dev[d].data]
          /\ dev[d].data \in allocated'
    BY <2>1, <2>3, <2>4, <2>5 DEF TypeOK
  <2> QED
    BY <2>1, <2>4, <2>5, <2>6, LifeView, StutterMaps
<1>3. CASE S_NoData \/ Rmmod
  <2>1. dev' = dev /\ allocated' = allocated /\ mem' = mem /\ UNCHANGED traffic
    BY <1>3 DEF S_NoData, Rmmod, Stay
  <2> QED
    BY <2>1, LifeView, StutterMaps
<1>4. CASE S_Queue \/ X_Disk \/ X_Queue \/ X_Drain
  <2>1. allocated' = allocated /\ mem' = mem /\ UNCHANGED traffic
    BY <1>4 DEF S_Queue, X_Disk, X_Queue, X_Drain, Stay
  <2>2. \A d \in Device : /\ dev'[d].data = dev[d].data
                          /\ (dev'[d].gd = "none") <=> (dev[d].gd = "none")
    <3>1. i \in Device
      BY <1>4, DiskAssumption
      DEF S_Queue, X_Disk, X_Queue, X_Drain, At, Exiting, Stages, TypeOK, Device
    <3>2. CASE S_Queue
      BY <3>1, <3>2 DEF S_Queue, TypeOK
    <3>3. CASE X_Disk
      BY <3>1, <3>3 DEF X_Disk, TypeOK
    <3>4. CASE X_Queue
      BY <3>1, <3>4 DEF X_Queue, TypeOK
    <3>5. CASE X_Drain
      BY <3>1, <3>5 DEF X_Drain, TypeOK
    <3> QED
      BY <1>4, <3>2, <3>3, <3>4, <3>5
  <2> QED
    BY <2>1, <2>2, LifeView, StutterMaps
<1>5. CASE S_Disk
  <2>1. /\ phase = "setup" /\ step = "gd" /\ dev' = [dev EXCEPT ![i].gd = "on"]
        /\ allocated' = allocated /\ mem' = mem /\ UNCHANGED traffic
    BY <1>5 DEF S_Disk, At, Stay
  <2>2. PICK e \in Device : e = i
    BY <2>1, DiskAssumption DEF Stages, TypeOK, Device
  <2>3. dev[e].gd = "none" /\ dev[e].data # NULL
    BY <2>1, <2>2 DEF Stages
  <2>4. dev[e].data \in allocated
    <3>1. Whole(e)
      BY <2>1, <2>2, <2>3, DiskAssumption DEF Whole, HalfMade, Device
    <3> QED
      BY <3>1, <2>1, <2>2 DEF Owned, Freed
  <2>5. /\ dev'[e].gd = "on" /\ \A d \in Device : dev'[d].data = dev[d].data
        /\ \A d \in Device : d # e => dev'[d].gd = dev[d].gd
    BY <2>1, <2>2 DEF TypeOK
  <2>6. StoreOf(e) = <<>>
    BY <2>3, StoreIsNot DEF Alive
  <2>7. DOMAIN StoreOf(e)' = Sector
    BY <2>1, <2>4, <2>5 DEF StoreOf
  <2>8. /\ \A b \in Bio : /\ BufferOf(b)' = BufferOf(b)
                          /\ Done(b)' <=> Done(b)
                          /\ Told(b)' = Told(b)
        /\ \A d \in Device : d # e => StoreOf(d)' = StoreOf(d)
    BY <2>1, <2>5, LifeView
  <2> QED
    BY <2>6, <2>7, <2>8, AppearMaps
<1>6. CASE S_Vfree
  BY <1>6, VfreeMaps DEF S_Vfree, Vfree, Stay
<1>7. CASE X_Data
  <2>1. UNCHANGED <<mem, traffic, dev>>
    BY <1>7 DEF X_Data, Stay
  <2>2. CASE dev[i].data = NULL
    <3>1. allocated' = allocated
      BY <1>7, <2>2 DEF X_Data
    <3> QED
      BY <2>1, <3>1, LifeView, StutterMaps
  <2>3. CASE dev[i].data # NULL
    <3>1. allocated' = allocated \ {dev[i].data}
      BY <1>7, <2>3 DEF X_Data, Vfree
    <3> QED
      BY <2>1, <3>1, VfreeMaps
  <2> QED
    BY <2>2, <2>3
<1> QED
  BY <1>1, <1>2, <1>3, <1>4, <1>5, <1>6, <1>7 DEF Set_Up, Exit

\* A step of the users or the block layer that transfers nothing shows only in
\* what it reports.
LEMMA UseView ==
  ASSUME DiskInv, Use, UNCHANGED <<mem, buffer>>,
         \A b \in Bio : moved'[b] = moved[b],
         \A b \in Bio : \/ at'[b] = "moving" <=> at[b] = "moving"
                        \/ moved[b] \notin 1 .. Len(Ends(b)) - 1
  PROVE  /\ \A d \in Device : StoreOf(d)' = StoreOf(d)
         /\ \A b \in Bio : BufferOf(b)' = BufferOf(b) /\ (Done(b)' <=> Done(b))
<1>1. dev' = dev /\ allocated' = allocated
  BY DEF Use, life
<1>2. \A b \in Bio : (InFlight(b)' <=> InFlight(b)) /\ Rest(b)' = Rest(b)
  BY SameFlight
<1>3. \A d \in Device : StoreOf(d)' = StoreOf(d)
  BY <1>1, <1>2, SameStore
<1>4. \A b \in Bio : BufferOf(b)' = BufferOf(b)
  BY <1>1, <1>2, SameBuffer
<1> QED
  BY <1>3, <1>4 DEF Done

\* Where the transfers of a bio of even segments stand.
LEMMA EvenPlace ==
  ASSUME NEW b \in Bio, TypeOK, moved[b] < Len(Ends(b)), Even(b)
  PROVE  LET o == moved[b] * Step(b) IN
         /\ o \in Nat /\ o + Step(b) <= Total(b)
         /\ Offset(b) = o /\ Length(b) = Step(b) /\ Place(b) = io[b].sector + o
         /\ moved[b] = 0 => o = 0
         /\ moved[b] + 1 = Len(Ends(b)) => o + Step(b) = Total(b)
         /\ (moved[b] + 1) * Step(b) = o + Step(b)
         /\ Fits(b)
<1> DEFINE m == moved[b]
           l == Step(b)
           o == m * l
<1>1. /\ m \in Nat /\ l \in Nat /\ Total(b) \in Nat /\ NSECTORS \in Nat
      /\ io[b].sector \in Nat /\ io[b].sector + Total(b) <= NSECTORS
      /\ Offset(b) + Length(b) <= Total(b) /\ Len(Ends(b)) \in Nat
  BY BioProps
<1>2. Length(b) = l /\ Offset(b) = o
  BY EvenProps
<1>3. Place(b) = io[b].sector + o
  BY DEF Place
<1>4. o \in Nat /\ (m = 0 => o = 0) /\ (m + 1) * l = o + l
  BY <1>1
<1>5. m + 1 = Len(Ends(b)) => o + l = Total(b)
  <2> SUFFICES ASSUME m + 1 = Len(Ends(b)) PROVE o + l = Total(b)
    OBVIOUS
  <2>1. DOMAIN Ends(b) = 1 .. Len(Ends(b))
    BY DiskAssumption, LenProperties
  <2>2. m + 1 \in DOMAIN Ends(b) /\ Ends(b) # <<>>
    BY <2>1, <1>1
  <2>3. Ends(b)[m + 1] = (m + 1) * l
    BY <2>2 DEF Even
  <2>4. Total(b) = Ends(b)[m + 1]
    BY <2>2 DEF Total, Last
  <2> QED
    BY <2>3, <2>4, <1>4
<1> HIDE DEF m, l, o
<1>6. o + l <= Total(b) /\ Fits(b)
  <2>1. o + l <= Total(b)
    BY <1>1, <1>2, <1>4
  <2>2. io[b].sector + o + l <= NSECTORS
    BY <2>1, <1>1, <1>4
  <2> QED
    BY <2>1, <2>2, <1>3 DEF Fits, l
<1> QED
  BY <1>1, <1>2, <1>3, <1>4, <1>5, <1>6 DEF m, l, o

\* The sectors that are left of a bio.
LEMMA RestIs ==
  ASSUME NEW b \in Bio, NEW o \in Nat
  PROVE  \A s \in Sector : s \in {io[b].sector + j : j \in o .. Total(b) - 1} <=>
           io[b].sector + o <= s /\ s < io[b].sector + Total(b)
<1> DEFINE n == Total(b)
           f == io[b].sector
<1>1. f \in Nat /\ n \in Int
  <2>1. Ends(b) # <<>> => n \in Nat
    <3> SUFFICES ASSUME Ends(b) # <<>> PROVE n \in Nat
      OBVIOUS
    <3>1. Len(Ends(b)) \in Nat /\ Len(Ends(b)) > 0
      BY DiskAssumption, LenProperties, EmptySeq
    <3> QED
      BY <3>1, SegmentProps
  <2>2. Ends(b) = <<>> => n = 0
    BY DEF Total
  <2> QED
    BY <2>1, <2>2, DiskAssumption
<1>2. \A s \in Sector : s \in Nat
  BY DEF Sector
<1> HIDE DEF n, f
<1> SUFFICES ASSUME NEW s \in Sector
             PROVE  s \in {f + j : j \in o .. n - 1} <=> f + o <= s /\ s < f + n
  BY DEF n, f
<1>3. s \in {f + j : j \in o .. n - 1} => f + o <= s /\ s < f + n
  BY <1>1, <1>2
<1>4. ASSUME f + o <= s, s < f + n
      PROVE  s \in {f + j : j \in o .. n - 1}
  <2>1. s - f \in o .. n - 1 /\ f + (s - f) = s
    BY <1>1, <1>2, <1>4
  <2> QED
    BY <2>1
<1> QED
  BY <1>3, <1>4

\* What one round of vmem_disk_xfer_bio did: nothing, count a segment that is
\* beyond the end, or copy one.
LEMMA TransferCases ==
  ASSUME NEW b \in Bio, TypeOK, moved[b] < Len(Ends(b)), Transfer(b)
  PROVE  /\ \A c \in Bio : c # b => moved'[c] = moved[c]
         /\ \/ /\ moved'[b] = moved[b] /\ mem' = mem /\ buffer' = buffer
            \/ /\ ~Fits(b) /\ moved'[b] = moved[b] + 1 /\ mem' = mem /\ buffer' = buffer
            \/ /\ Fits(b) /\ moved'[b] = moved[b] + 1
               /\ dev[io[b].dev].data \in allocated
               /\ MemCpy(b, dev[io[b].dev].data)
<1> DEFINE a == dev[io[b].dev].data
<1>1. /\ moved' = [moved EXCEPT ![b] = IF Fits(b) /\ a \notin allocated THEN @ ELSE @ + 1]
      /\ IF Fits(b) /\ a \in allocated /\ Copied(b) \subseteq Sector
         THEN MemCpy(b, a) ELSE mem' = mem /\ buffer' = buffer
  BY DEF Transfer
<1>2. /\ Place(b) \in Nat /\ Step(b) \in Nat /\ NSECTORS \in Nat
  BY BioProps
<1>3. Fits(b) => Copied(b) \subseteq Sector
  BY <1>2 DEF Fits, Copied, Sector
<1>4. \A c \in Bio : moved'[c] = IF c # b THEN moved[c] ELSE
                                 IF Fits(b) /\ a \notin allocated THEN moved[c]
                                                                  ELSE moved[c] + 1
  BY <1>1 DEF TypeOK
<1>5. CASE Fits(b) /\ a \notin allocated
  BY <1>1, <1>4, <1>5
<1>6. CASE ~Fits(b)
  BY <1>1, <1>4, <1>6
<1>7. CASE Fits(b) /\ a \in allocated
  BY <1>1, <1>3, <1>4, <1>7
<1> QED
  BY <1>4, <1>5, <1>6, <1>7

\* A copy touches one disk or one buffer.
LEMMA CopyWhere ==
  ASSUME NEW b \in Bio, NEW a \in Addr, TypeOK, MemCpy(b, a)
  PROVE  /\ io[b].dir = "write" => /\ buffer' = buffer
                                   /\ \A x \in Addr : x # a => mem'[x] = mem[x]
         /\ io[b].dir # "write" => /\ mem' = mem
                                   /\ \A c \in Bio : c # b => buffer'[c] = buffer[c]
<1>1. CASE io[b].dir = "write"
  <2> DEFINE new == [s \in Sector |->
                    IF s \notin Copied(b) THEN mem[a][s]
                    ELSE LET j == s - Place(b) IN
                         IF j < Length(b) THEN buffer[b][Offset(b) + j] ELSE Junk]
  <2>1. mem' = [mem EXCEPT ![a] = new] /\ buffer' = buffer
    BY <1>1 DEF MemCpy
  <2> HIDE DEF new
  <2> QED
    BY <1>1, <2>1 DEF TypeOK
<1>2. CASE io[b].dir # "write"
  <2> DEFINE new == [o \in DOMAIN buffer[b] |->
                       LET j == o - Offset(b) IN
                       IF 0 <= j /\ j < Step(b) /\ j < Length(b)
                       THEN mem[a][Place(b) + j] ELSE buffer[b][o]]
  <2>1. buffer' = [buffer EXCEPT ![b] = new] /\ mem' = mem
    BY <1>2 DEF MemCpy
  <2> HIDE DEF new
  <2> QED
    BY <1>2, <2>1 DEF TypeOK
<1> QED
  BY <1>1, <1>2

\* What a copy of an even bio's segment writes: the bio's data at its place.
LEMMA CopyWrite ==
  ASSUME NEW b \in Bio, NEW a \in Addr, TypeOK, moved[b] < Len(Ends(b)), Even(b),
         MemCpy(b, a), io[b].dir = "write"
  PROVE  \A s \in Sector : LET f == io[b].sector
                               o == moved[b] * Step(b) IN
           mem'[a][s] = IF f + o <= s /\ s < f + o + Step(b)
                        THEN buffer[b][s - f] ELSE mem[a][s]
<1> DEFINE f == io[b].sector
           o == moved[b] * Step(b)
           l == Step(b)
           new == [s \in Sector |->
                    IF s \notin Copied(b) THEN mem[a][s]
                    ELSE LET j == s - Place(b) IN
                         IF j < Length(b) THEN buffer[b][Offset(b) + j] ELSE Junk]
<1>1. mem' = [mem EXCEPT ![a] = new]
  BY DEF MemCpy
<1>2. o \in Nat /\ l \in Nat /\ f \in Nat
  BY BioProps, EvenPlace
<1>3. Offset(b) = o /\ Length(b) = l /\ Place(b) = f + o
  BY EvenPlace
<1>4. Copied(b) = f + o .. f + o + l - 1
  BY <1>3 DEF Copied
<1>5. \A s \in Sector : s \in Nat
  BY DEF Sector
<1> SUFFICES ASSUME NEW s \in Sector
             PROVE  mem'[a][s] = IF f + o <= s /\ s < f + o + l
                                 THEN buffer[b][s - f] ELSE mem[a][s]
  OBVIOUS
<1>6. mem'[a][s] = new[s]
  <2> HIDE DEF new
  <2>1. mem'[a] = new
    BY <1>1 DEF TypeOK
  <2> QED
    BY <2>1
<1> HIDE DEF f, o, l
<1>7. new[s] = IF s \notin Copied(b) THEN mem[a][s]
               ELSE IF s - (f + o) < l THEN buffer[b][o + (s - (f + o))] ELSE Junk
  BY <1>3
<1> HIDE DEF new
<1>8. CASE f + o <= s /\ s < f + o + l
  <2>1. s \in Copied(b) /\ s - (f + o) < l /\ o + (s - (f + o)) = s - f
    BY <1>2, <1>4, <1>5, <1>8
  <2> QED
    BY <1>6, <1>7, <1>8, <2>1
<1>9. CASE ~(f + o <= s /\ s < f + o + l)
  <2>1. s \notin Copied(b)
    BY <1>2, <1>4, <1>5, <1>9
  <2> QED
    BY <1>6, <1>7, <1>9, <2>1
<1> QED
  BY <1>8, <1>9

\* What it reads: the data of its place, into its part of the buffer.
LEMMA CopyRead ==
  ASSUME NEW b \in Bio, NEW a \in Addr, TypeOK, moved[b] < Len(Ends(b)), Even(b),
         MemCpy(b, a), io[b].dir # "write"
  PROVE  LET o == moved[b] * Step(b) IN
         buffer'[b] = [j \in DOMAIN buffer[b] |->
                         IF o <= j /\ j < o + Step(b)
                         THEN mem[a][io[b].sector + j] ELSE buffer[b][j]]
<1> DEFINE f == io[b].sector
           o == moved[b] * Step(b)
           l == Step(b)
           new == [q \in DOMAIN buffer[b] |->
                       LET j == q - Offset(b) IN
                       IF 0 <= j /\ j < Step(b) /\ j < Length(b)
                       THEN mem[a][Place(b) + j] ELSE buffer[b][q]]
<1>1. buffer' = [buffer EXCEPT ![b] = new]
  BY DEF MemCpy
<1>2. o \in Nat /\ l \in Nat /\ f \in Nat /\ Total(b) \in Nat
  BY BioProps, EvenPlace
<1>3. Offset(b) = o /\ Length(b) = l /\ Place(b) = f + o
  BY EvenPlace
<1>4. DOMAIN buffer[b] = 0 .. Total(b) - 1 /\ \A j \in DOMAIN buffer[b] : j \in Nat
  BY <1>2 DEF TypeOK
<1>5. buffer'[b] = new
  <2> HIDE DEF new
  <2> QED
    BY <1>1 DEF TypeOK
<1>6. ASSUME NEW j \in DOMAIN buffer[b]
      PROVE  new[j] = IF o <= j /\ j < o + l THEN mem[a][f + j] ELSE buffer[b][j]
  <2>1. new[j] = IF 0 <= j - o /\ j - o < l /\ j - o < l
                 THEN mem[a][f + o + (j - o)] ELSE buffer[b][j]
    BY <1>3
  <2> HIDE DEF f, o, l, new
  <2>2. (0 <= j - o /\ j - o < l) <=> (o <= j /\ j < o + l)
    BY <1>2, <1>4
  <2>3. f + o + (j - o) = f + j
    BY <1>2, <1>4
  <2> QED
    BY <2>1, <2>2, <2>3
<1>7. new = [j \in DOMAIN buffer[b] |-> new[j]]
  OBVIOUS
<1> HIDE DEF new, o, l, f
<1> QED
  BY <1>5, <1>6, <1>7 DEF o, l, f

\* A segment of the bio at hand is copied.
Copies(d, b, a) ==
  /\ d \in Device /\ b \in Bio /\ a \in Addr
  /\ io[b].dev = d /\ at[b] = "moving" /\ moved[b] < Len(Ends(b))
  /\ dev[d].data = a /\ Alive(d) /\ dev' = dev /\ allocated' = allocated
  /\ at' = at /\ moved'[b] = moved[b] + 1 /\ MemCpy(b, a)
  /\ \A c \in Bio : c # b => moved'[c] = moved[c]
  /\ \A c \in Bio : io[c].dev = d /\ InFlight(c) => c = b

\* After each segment of an even write, the disk reads as if all that was left
\* of the bio had been written.
LEMMA EvenWrite ==
  ASSUME DiskInv, NEW d, NEW b, NEW a, Copies(d, b, a), Even(b), io[b].dir = "write"
  PROVE  LET f == io[b].sector
             o == moved[b] * Step(b)
             image == [s \in Sector |-> IF f + o <= s /\ s < f + Total(b)
                                        THEN buffer[b][s - f] ELSE mem[a][s]]
         IN  /\ StoreOf(d)' = image
             /\ moved[b] > 0 => StoreOf(d) = image
             /\ moved[b] = 0 => StoreOf(d) = [s \in Sector |-> mem[a][s]]
<1> USE DEF DiskInv, Inv
<1> DEFINE f == io[b].sector
           o == moved[b] * Step(b)
           l == Step(b)
           n == Total(b)
           m == moved[b]
           N == Len(Ends(b))
           image == [s \in Sector |-> IF f + o <= s /\ s < f + n
                                      THEN buffer[b][s - f] ELSE mem[a][s]]
<1>1. /\ d \in Device /\ b \in Bio /\ a \in Addr
      /\ io[b].dev = d /\ at[b] = "moving" /\ m < N
      /\ dev[d].data = a /\ Alive(d) /\ dev' = dev /\ allocated' = allocated
      /\ at' = at /\ moved'[b] = m + 1 /\ MemCpy(b, a)
      /\ \A c \in Bio : c # b => moved'[c] = moved[c]
      /\ \A c \in Bio : io[c].dev = d /\ InFlight(c) => c = b
  BY DEF Copies
<1>2. /\ f \in Nat /\ n \in Nat /\ l \in Nat /\ m \in Nat /\ N \in Nat /\ o \in Nat
      /\ o + l <= n /\ (m = 0 => o = 0) /\ (m + 1 = N => o + l = n)
      /\ (m + 1) * l = o + l
  BY <1>1, BioProps, EvenPlace
<1>3. /\ buffer' = buffer
      /\ \A s \in Sector : mem'[a][s] = IF f + o <= s /\ s < f + o + l
                                        THEN buffer[b][s - f] ELSE mem[a][s]
  BY <1>1, CopyWhere, CopyWrite
<1>4. Rest(b) = {f + j : j \in o .. n - 1}
  BY DEF Rest
<1>5. Rest(b)' = {f + j : j \in o + l .. n - 1}
  <2>1. Rest(b)' = {f + j : j \in moved'[b] * l .. n - 1}
    BY DEF Rest, Step, Ends, Total
  <2> QED
    BY <1>1, <1>2, <2>1
<1>6. (InFlight(b) <=> m \in 1 .. N - 1) /\ (InFlight(b)' <=> m + 1 \in 1 .. N - 1)
  BY <1>1 DEF InFlight, Even, Ends, Step
<1>7. StoreOf(d) = StoreWith(d, b)
  BY <1>1, StoreIs DEF StoreKnown
<1>8. StoreOf(d)' = StoreWith(d, b)'
  <2>1. Alive(d)'
    BY <1>1 DEF Alive
  <2>2. ASSUME NEW c \in Bio, io[c].dev = d, InFlight(c)'
        PROVE  c = b
    <3>1. c # b => (InFlight(c)' <=> InFlight(c))
      BY <1>1, SameFlight
    <3> QED
      BY <1>1, <2>2, <3>1
  <2> QED
    BY <1>1, <2>1, <2>2, StoreIsThen DEF StoreKnown
<1>9. /\ StoreOf(d) = [s \in Sector |-> IF m \in 1 .. N - 1 /\ s \in Rest(b)
                                        THEN buffer[b][s - f] ELSE mem[a][s]]
      /\ StoreOf(d)' = [s \in Sector |-> IF m + 1 \in 1 .. N - 1 /\ s \in Rest(b)'
                                         THEN buffer[b][s - f] ELSE mem'[a][s]]
  BY <1>1, <1>3, <1>6, <1>7, <1>8 DEF StoreWith
<1>10. \A s \in Sector : /\ s \in Nat
                         /\ s \in Rest(b) <=> f + o <= s /\ s < f + n
                         /\ s \in Rest(b)' <=> f + (o + l) <= s /\ s < f + n
  <2>1. o + l \in Nat
    BY <1>2
  <2> HIDE DEF o, l
  <2>2. \A s \in Sector : s \in {f + j : j \in o .. n - 1} <=> f + o <= s /\ s < f + n
    BY <1>1, <1>2, RestIs
  <2>3. \A s \in Sector : s \in {f + j : j \in o + l .. n - 1}
                            <=> f + (o + l) <= s /\ s < f + n
    BY <1>1, <2>1, RestIs
  <2> QED
    BY <1>4, <1>5, <2>2, <2>3 DEF Sector
<1> HIDE DEF f, o, l, n, m, N
<1>11. StoreOf(d)' = image
  <2>1. ASSUME NEW s \in Sector
        PROVE  (IF m + 1 \in 1 .. N - 1 /\ s \in Rest(b)'
                THEN buffer[b][s - f] ELSE mem'[a][s])
               = IF f + o <= s /\ s < f + n THEN buffer[b][s - f] ELSE mem[a][s]
    <3>1. s \in Nat /\ (s \in Rest(b)' <=> f + (o + l) <= s /\ s < f + n)
      BY <1>10
    <3>2. mem'[a][s] = IF f + o <= s /\ s < f + o + l THEN buffer[b][s - f] ELSE mem[a][s]
      BY <1>3
    <3>3. (m + 1 \in 1 .. N - 1) <=> m + 1 # N
      BY <1>1, <1>2
    <3> QED
      BY <1>2, <3>1, <3>2, <3>3
  <2> QED
    BY <1>9, <2>1
<1>12. m > 0 => StoreOf(d) = image
  <2>1. m > 0 => m \in 1 .. N - 1
    BY <1>1, <1>2
  <2> QED
    BY <1>9, <1>10, <2>1
<1>13. m = 0 => StoreOf(d) = [s \in Sector |-> mem[a][s]]
  BY <1>9
<1> QED
  BY <1>11, <1>12, <1>13 DEF f, o, n, m

\* After each segment of an even read, the buffer reads as if all that was left
\* of the bio had been read.
LEMMA EvenRead ==
  ASSUME DiskInv, NEW d, NEW b, NEW a, Copies(d, b, a), Even(b), io[b].dir = "read"
  PROVE  LET f == io[b].sector
             o == moved[b] * Step(b)
             image == [j \in DOMAIN buffer[b] |->
                         IF o <= j THEN mem[a][f + j] ELSE buffer[b][j]]
         IN  /\ BufferOf(b)' = image
             /\ moved[b] > 0 => BufferOf(b) = image
             /\ moved[b] = 0 => BufferOf(b) = buffer[b]
             /\ StoreOf(d) = [s \in Sector |-> mem[a][s]]
             /\ \A j \in DOMAIN buffer[b] : f + j \in Sector
<1> USE DEF DiskInv, Inv
<1> DEFINE f == io[b].sector
           o == moved[b] * Step(b)
           l == Step(b)
           n == Total(b)
           m == moved[b]
           N == Len(Ends(b))
           J == DOMAIN buffer[b]
           image == [j \in J |-> IF o <= j THEN mem[a][f + j] ELSE buffer[b][j]]
<1>1. /\ d \in Device /\ b \in Bio /\ a \in Addr
      /\ io[b].dev = d /\ at[b] = "moving" /\ m < N
      /\ dev[d].data = a /\ Alive(d) /\ dev' = dev /\ allocated' = allocated
      /\ at' = at /\ moved'[b] = m + 1 /\ MemCpy(b, a)
      /\ \A c \in Bio : c # b => moved'[c] = moved[c]
      /\ \A c \in Bio : io[c].dev = d /\ InFlight(c) => c = b
  BY DEF Copies
<1>2. /\ f \in Nat /\ n \in Nat /\ l \in Nat /\ m \in Nat /\ N \in Nat /\ o \in Nat
      /\ o + l <= n /\ (m = 0 => o = 0) /\ (m + 1 = N => o + l = n)
      /\ (m + 1) * l = o + l /\ NSECTORS \in Nat /\ f + n <= NSECTORS
  BY <1>1, BioProps, EvenPlace
<1>3. /\ mem' = mem
      /\ buffer'[b] = [j \in J |-> IF o <= j /\ j < o + l
                                   THEN mem[a][f + j] ELSE buffer[b][j]]
  BY <1>1, CopyWhere, CopyRead
<1>4. J = 0 .. n - 1
  BY <1>1 DEF TypeOK
<1>5. /\ Rest(b) = {f + j : j \in o .. n - 1}
      /\ Rest(b)' = {f + j : j \in o + l .. n - 1}
  <2>1. Rest(b)' = {f + j : j \in moved'[b] * l .. n - 1}
    BY DEF Rest, Step, Ends, Total
  <2> QED
    BY <1>1, <1>2, <2>1 DEF Rest
<1>6. (InFlight(b) <=> m \in 1 .. N - 1) /\ (InFlight(b)' <=> m + 1 \in 1 .. N - 1)
  BY <1>1 DEF InFlight, Even, Ends, Step
<1>7. StoreOf(d) = [s \in Sector |-> mem[a][s]]
  <2>1. StoreOf(d) = StoreWith(d, b)
    BY <1>1, StoreIs DEF StoreKnown
  <2> QED
    BY <1>1, <2>1 DEF StoreWith
<1>8. /\ InFlight(b) => BufferOf(b) = [j \in J |-> IF f + j \in Rest(b)
                                        THEN mem[a][f + j] ELSE buffer[b][j]]
      /\ ~InFlight(b) => BufferOf(b) = buffer[b]
  BY <1>1 DEF BufferOf
<1>a. DOMAIN buffer'[b] = J
  BY <1>3
<1>9. /\ InFlight(b)' => BufferOf(b)' = [j \in J |-> IF f + j \in Rest(b)'
                                        THEN mem[a][f + j] ELSE buffer'[b][j]]
      /\ ~InFlight(b)' => BufferOf(b)' = buffer'[b]
  BY <1>1, <1>3, <1>a DEF BufferOf
<1>10. buffer[b] = [j \in J |-> buffer[b][j]] /\ buffer'[b] = [j \in J |-> buffer'[b][j]]
  BY <1>1, <1>3 DEF TypeOK
<1> HIDE DEF f, o, l, n, m, N
<1>11. \A j \in J : /\ j \in Nat /\ f + j \in Sector
                    /\ f + j \in Rest(b) <=> o <= j
                    /\ f + j \in Rest(b)' <=> o + l <= j
  <2> SUFFICES ASSUME NEW j \in J
               PROVE  /\ j \in Nat /\ f + j \in Sector
                      /\ f + j \in Rest(b) <=> o <= j
                      /\ f + j \in Rest(b)' <=> o + l <= j
    OBVIOUS
  <2>1. j \in Nat /\ j < n /\ j \in 0 .. n - 1
    BY <1>2, <1>4
  <2>2. f + j \in Sector
    BY <1>2, <2>1 DEF Sector
  <2>3. \A k \in Int : f + k = f + j => k = j
    BY <1>2, <2>1
  <2>4. f + j \in Rest(b) <=> j \in o .. n - 1
    BY <1>2, <1>5, <2>3
  <2>5. f + j \in Rest(b)' <=> j \in o + l .. n - 1
    <3> DEFINE q == o + l
    <3>1. q \in Nat /\ Rest(b)' = {f + k : k \in q .. n - 1}
      BY <1>2, <1>5
    <3> HIDE DEF q
    <3>2. f + j \in Rest(b)' <=> j \in q .. n - 1
      BY <1>2, <2>3, <3>1
    <3> QED
      BY <3>2 DEF q
  <2> QED
    BY <1>2, <2>1, <2>2, <2>4, <2>5
<1>12. BufferOf(b)' = image
  <2>1. ASSUME NEW j \in J
        PROVE  (IF m + 1 \in 1 .. N - 1 /\ f + j \in Rest(b)'
                THEN mem[a][f + j] ELSE buffer'[b][j])
               = IF o <= j THEN mem[a][f + j] ELSE buffer[b][j]
    <3>1. j \in Nat /\ j < n /\ (f + j \in Rest(b)' <=> o + l <= j)
      BY <1>11, <1>4, <1>2
    <3>2. buffer'[b][j] = IF o <= j /\ j < o + l THEN mem[a][f + j] ELSE buffer[b][j]
      BY <1>3
    <3>3. (m + 1 \in 1 .. N - 1) <=> m + 1 # N
      BY <1>1, <1>2
    <3> QED
      BY <1>2, <3>1, <3>2, <3>3
  <2> QED
    BY <1>6, <1>9, <1>10, <2>1
<1>13. m > 0 => BufferOf(b) = image
  <2>1. m > 0 => m \in 1 .. N - 1
    BY <1>1, <1>2
  <2> QED
    BY <1>6, <1>8, <1>11, <2>1
<1>14. m = 0 => BufferOf(b) = buffer[b]
  BY <1>6, <1>8
<1> QED
  BY <1>7, <1>11, <1>12, <1>13, <1>14 DEF f, o, m

\* One segment of a request is a step of SectorDisk, or none that shows: the
\* first carries the bio out, the others of an even bio were foreseen.
LEMMA BioMaps ==
  ASSUME DiskInv, AtHand, mode = "queue", NEW d \in Device, Q_Bio(d)
  PROVE  Store!Next \/ UNCHANGED Store!vars
<1> USE DEF DiskInv, Inv
<1>1. cur[d] # <<>> /\ Transfer(Head(cur[d])) /\ Use /\ at' = at
  BY DEF Q_Bio
<1>2. PICK b \in Bio : /\ b = Head(cur[d]) /\ io[b].dev = d /\ at[b] = "moving"
                       /\ io[b].dir # "pc" /\ moved[b] < Len(Ends(b))
  <2>1. cur[d] \in Seq(Bio)
    BY DEF TypeOK
  <2>2. 1 \in DOMAIN cur[d] /\ Head(cur[d]) = cur[d][1] /\ cur[d][1] \in Bio
    BY <1>1, <2>1, BioSeq
  <2> QED
    BY <2>2 DEF Requests, Moving
<1>3. io[b].dir \in {"read", "write"}
  BY <1>2, DiskAssumption
<1>4. d \in open /\ Whole(d) /\ dev[d].gd # "none"
  BY <1>2, OpenIsWhole DEF Carried
<1>5. PICK a \in Addr : dev[d].data = a
  BY <1>4 DEF Whole, TypeOK
<1>6. dev' = dev /\ allocated' = allocated
  BY <1>1 DEF Use, life
<1>7. \A c \in Bio : io[c].dev = d /\ InFlight(c) => c = b
  BY <1>2, OneAtHand
<1>8. \A c \in Bio : /\ Told(c)' = Told(c)
                     /\ c # b => Done(c)' <=> Done(c)
                     /\ c # b => (InFlight(c)' <=> InFlight(c)) /\ Rest(c)' = Rest(c)
  <2>1. \A c \in Bio : c # b => moved'[c] = moved[c]
    BY <1>1, <1>2, TransferCases
  <2> QED
    BY <1>1, <2>1, SameFlight DEF Told, Done
<1>9. Told(b) = "none" /\ moved[b] \in Nat
  BY <1>2, BioProps DEF Told
<1>10. CASE moved'[b] = moved[b] /\ mem' = mem /\ buffer' = buffer
  <2>1. \A c \in Bio : moved'[c] = moved[c]
    BY <1>1, <1>2, <1>10, TransferCases
  <2> QED
    BY <1>1, <1>8, <1>10, <2>1, UseView, StutterMaps
<1>11. CASE ~Fits(b) /\ moved'[b] = moved[b] + 1 /\ mem' = mem /\ buffer' = buffer
  <2>1. ~Even(b)
    BY <1>2, <1>11, EvenPlace
  <2>2. moved[b] > 0
    <3> SUFFICES ASSUME moved[b] = 0 PROVE FALSE
      BY <1>9
    <3>1. /\ Step(b) \in Nat /\ Step(b) <= Total(b) /\ io[b].sector \in Nat
          /\ io[b].sector + Total(b) <= NSECTORS /\ Total(b) \in Nat /\ NSECTORS \in Nat
      BY <1>2, BioProps
    <3>2. Place(b) = io[b].sector
      BY <3>1 DEF Place
    <3> QED
      BY <1>11, <3>1, <3>2 DEF Fits
  <2>3. ~InFlight(b) /\ ~InFlight(b)'
    BY <2>1 DEF InFlight, Even, Ends, Step
  <2>4. \A c \in Bio : /\ InFlight(c)' <=> InFlight(c)
                       /\ InFlight(c) => Rest(c)' = Rest(c)
    BY <1>8, <2>3
  <2>5. \A e \in Device : StoreOf(e)' = StoreOf(e)
    BY <1>6, <1>11, <2>4, SameStore
  <2>6. \A c \in Bio : BufferOf(c)' = BufferOf(c)
    BY <1>6, <1>11, <2>4, SameBuffer
  <2>7. Done(b)' <=> Done(b)
    BY <1>9, <1>11, <2>2 DEF Done
  <2> QED
    BY <1>8, <2>5, <2>6, <2>7, StutterMaps
<1>12. CASE moved'[b] = moved[b] + 1 /\ a \in allocated /\ MemCpy(b, a)
  <2>1. Alive(d)
    BY <1>4, <1>5, <1>12 DEF Alive
  <2>2. Copies(d, b, a)
    <3>1. \A c \in Bio : c # b => moved'[c] = moved[c]
      BY <1>1, <1>2, TransferCases
    <3> QED
      BY <1>1, <1>2, <1>5, <1>6, <1>7, <1>12, <2>1, <3>1 DEF Copies
  <2>3. /\ io[b].dir = "write" => /\ buffer' = buffer
                                  /\ \A x \in Addr : x # a => mem'[x] = mem[x]
        /\ io[b].dir # "write" => /\ mem' = mem
                                  /\ \A c \in Bio : c # b => buffer'[c] = buffer[c]
    BY <1>12, CopyWhere
  <2>4. \A e \in Device : e # d /\ dev[e].gd # "none" => mem'[dev[e].data] = mem[dev[e].data]
    <3> SUFFICES ASSUME NEW e \in Device, e # d, dev[e].gd # "none"
                 PROVE  mem'[dev[e].data] = mem[dev[e].data]
      OBVIOUS
    <3>1. Whole(e)
      BY GendiskIsWhole
    <3>2. dev[e].data # a /\ dev[e].data \in Addr
      BY <1>4, <1>5, <3>1 DEF Owned, Whole, TypeOK
    <3> QED
      BY <2>3, <3>2
  <2>5. \A e \in Device : e # d => StoreOf(e)' = StoreOf(e)
    <3> SUFFICES ASSUME NEW e \in Device, e # d PROVE StoreOf(e)' = StoreOf(e)
      OBVIOUS
    <3>1. \A c \in Bio : io[c].dev = e => /\ c # b
                                          /\ buffer'[c] = buffer[c]
      BY <1>2, <2>3
    <3> QED
      BY <1>6, <1>8, <2>4, <3>1, SameStore
  <2>6. io[b].dir = "read" => StoreOf(d)' = StoreOf(d)
    <3> SUFFICES ASSUME io[b].dir = "read" PROVE StoreOf(d)' = StoreOf(d)
      OBVIOUS
    <3>1. \A c \in Bio : io[c].dir = "write" => /\ c # b
                                                /\ buffer'[c] = buffer[c]
      BY <2>3
    <3>2. mem' = mem
      BY <2>3
    <3> QED
      BY <1>6, <1>8, <3>1, <3>2, SameStore
  <2>7. \A c \in Bio : c # b => BufferOf(c)' = BufferOf(c)
    <3> SUFFICES ASSUME NEW c \in Bio, c # b PROVE BufferOf(c)' = BufferOf(c)
      OBVIOUS
    <3>1. buffer'[c] = buffer[c]
      BY <2>3
    <3>2. InFlight(c) => mem'[dev[io[c].dev].data] = mem[dev[io[c].dev].data]
      <4> SUFFICES ASSUME InFlight(c)
                   PROVE  mem'[dev[io[c].dev].data] = mem[dev[io[c].dev].data]
        OBVIOUS
      <4>1. io[c].dev \in Device /\ io[c].dev # d
        BY <1>7, DiskAssumption
      <4>2. io[c].dev \in open
        BY DEF InFlight, Carried
      <4>3. dev[io[c].dev].gd # "none"
        BY <4>2 DEF Carried
      <4> QED
        BY <2>4, <4>1, <4>3
    <3> QED
      BY <1>6, <1>8, <3>1, <3>2, SameBuffer
  <2>8. io[b].dir = "write" => BufferOf(b)' = BufferOf(b) /\ BufferOf(b) = buffer[b]
    BY <2>3 DEF BufferOf
  <2>9. StoreOf(d) # <<>> /\ (Done(b) <=> moved[b] > 0) /\ Done(b)'
    BY <1>9, <1>12, <2>1, StoreIsThere DEF Done
  <2>10. CASE ~Even(b) /\ moved[b] > 0
    BY <1>2, <1>8, <1>9, <2>5, <2>7, <2>9, <2>10, MuddleMaps
  <2>11. CASE ~Even(b) /\ moved[b] = 0
    <3>1. ~Done(b) /\ Done(b)'
      BY <2>9, <2>11
    <3>2. CASE io[b].dir = "write"
      BY <1>2, <1>8, <1>9, <2>5, <2>7, <2>8, <2>9, <2>11, <3>1, <3>2, DoMaps
    <3>3. CASE io[b].dir = "read"
      BY <1>2, <1>8, <1>9, <2>5, <2>6, <2>7, <2>9, <2>11, <3>1, <3>3, DoMaps
    <3> QED
      BY <1>3, <3>2, <3>3
  <2>12. CASE Even(b) /\ moved[b] > 0
    <3>1. StoreOf(d)' = StoreOf(d)
      BY <1>3, <2>2, <2>6, <2>12, EvenWrite
    <3>2. BufferOf(b)' = BufferOf(b)
      BY <1>3, <2>2, <2>8, <2>12, EvenRead
    <3> QED
      BY <1>8, <2>5, <2>7, <2>9, <2>12, <3>1, <3>2, StutterMaps
  <2>13. CASE Even(b) /\ moved[b] = 0
    <3> DEFINE f == io[b].sector
               n == Total(b)
    <3>1. f \in Nat /\ n \in Nat /\ moved[b] * Step(b) = 0 /\ f + moved[b] * Step(b) = f
      <4>1. f \in Nat /\ n \in Nat /\ moved[b] * Step(b) = 0
        BY <1>2, <2>13, BioProps, EvenPlace
      <4> QED
        BY <4>1
    <3>2. Store!Span(b) = {s \in Sector : f <= s /\ s < f + n}
      BY DEF Store!Span, Store!Size, Total, Ends, Last
    <3>3. ASSUME io[b].dir = "write"
          PROVE  StoreOf(d)' = [s \in Sector |-> IF s \in Store!Span(b)
                                  THEN BufferOf(b)[s - f] ELSE StoreOf(d)[s]]
      <4>1. /\ StoreOf(d)' = [s \in Sector |-> IF f <= s /\ s < f + n
                                THEN buffer[b][s - f] ELSE mem[a][s]]
            /\ StoreOf(d) = [s \in Sector |-> mem[a][s]]
        BY <2>2, <2>13, <3>1, <3>3, EvenWrite
      <4> QED
        BY <2>8, <3>2, <3>3, <4>1
    <3>4. ASSUME io[b].dir = "read"
          PROVE  BufferOf(b)' = [j \in DOMAIN BufferOf(b) |-> StoreOf(d)[f + j]]
      <4>1. /\ BufferOf(b)' = [j \in DOMAIN buffer[b] |->
                                 IF 0 <= j THEN mem[a][f + j] ELSE buffer[b][j]]
            /\ BufferOf(b) = buffer[b]
            /\ StoreOf(d) = [s \in Sector |-> mem[a][s]]
            /\ \A j \in DOMAIN buffer[b] : f + j \in Sector
        BY <2>2, <2>13, <3>1, <3>4, EvenRead
      <4>2. \A j \in DOMAIN buffer[b] : 0 <= j
        <5>1. DOMAIN buffer[b] = 0 .. n - 1
          BY DEF TypeOK
        <5> QED
          BY <3>1, <5>1
      <4> QED
        BY <4>1, <4>2
    <3>5. ~Done(b) /\ Done(b)'
      BY <2>9, <2>13
    <3>6. CASE io[b].dir = "write"
      BY <1>2, <1>8, <1>9, <2>5, <2>7, <2>8, <2>9, <3>3, <3>5, <3>6, DoMaps
    <3>7. CASE io[b].dir = "read"
      BY <1>2, <1>8, <1>9, <2>5, <2>6, <2>7, <2>9, <3>4, <3>5, <3>7, DoMaps
    <3> QED
      BY <1>3, <3>6, <3>7
  <2> QED
    BY <1>9, <2>10, <2>11, <2>12, <2>13
<1> QED
  BY <1>1, <1>2, <1>5, <1>10, <1>11, <1>12, TransferCases

-----------------------------------------------------------------------------
(* SectorDisk is implemented *)

\* A bio stays where it is, goes on, fails before anything was moved, or ends
\* when everything was.
Passes(b) ==
  \/ at'[b] = at[b]
  \/ at[b] \in {"new", "queued"} /\ at'[b] \in {"queued", "moving", "error"}
  \/ at[b] = "moving" /\ at'[b] = "ok" /\ Ends(b) # <<>> /\ moved[b] = Len(Ends(b))

\* What is said of such bios is what became of them.
LEMMA UseMaps ==
  ASSUME DiskInv, DiskInv', Use, UNCHANGED <<mem, moved, buffer>>,
         \A b \in Bio : Passes(b)
  PROVE  Store!Next
<1>1. \A b \in Bio : at[b] \in {"new", "queued"} => moved[b] = 0
  BY DEF DiskInv, Requests
<1>2. \A b \in Bio : Ends(b) # <<>> => Len(Ends(b)) \in Nat \ {0}
  BY DiskAssumption, LenProperties, EmptySeq
<1>3. ASSUME NEW b \in Bio
      PROVE  \/ at'[b] = "moving" <=> at[b] = "moving"
             \/ moved[b] \notin 1 .. Len(Ends(b)) - 1
  <2>1. CASE at[b] \in {"new", "queued"}
    BY <1>1, <2>1
  <2>2. CASE at[b] = "moving" /\ Ends(b) # <<>> /\ moved[b] = Len(Ends(b))
    BY <1>2, <2>2
  <2> QED
    BY <2>1, <2>2 DEF Passes
<1>4. ASSUME NEW b \in Bio
      PROVE  \/ Told(b)' = Told(b)
             \/ Told(b) = "none" /\ Told(b)' = IF Done(b) THEN "ok" ELSE "error"
  <2>1. CASE at[b] \in {"new", "queued"}
    BY <1>1, <2>1 DEF Passes, Told, Done
  <2>2. CASE at[b] = "moving" /\ Ends(b) # <<>> /\ moved[b] = Len(Ends(b))
    BY <1>2, <2>2 DEF Passes, Told, Done
  <2> QED
    BY <2>1, <2>2 DEF Passes, Told
<1>5. at' \in [Bio -> {"new", "queued", "moving", "ok", "error"}]
  BY DEF DiskInv, Inv, TypeOK
<1>6. /\ \A d \in Device : StoreOf(d)' = StoreOf(d)
      /\ \A b \in Bio : BufferOf(b)' = BufferOf(b) /\ (Done(b)' <=> Done(b))
  BY <1>3, UseView
<1> QED
  BY <1>4, <1>5, <1>6, ReportMaps

\* Open, close, and what the open disk is asked.
LEMMA OpenMaps ==
  ASSUME DiskInv, DiskInv', NEW d \in Device, Open(d) \/ Close(d) \/ Getgeo(d)
  PROVE  Store!Next
<1>1. Use /\ UNCHANGED <<mem, moved, buffer>> /\ at' = at
  BY DEF Open, Close, Getgeo, traffic
<1> QED
  BY <1>1, UseMaps DEF Passes

\* A bio is submitted: it waits in the queue, or fails.
LEMMA SubmitMaps ==
  ASSUME DiskInv, DiskInv', mode = "queue", NEW b \in Bio, Submit(b)
  PROVE  Store!Next
<1>1. /\ Use /\ UNCHANGED <<mem, moved, buffer>> /\ at[b] = "new"
      /\ \E l \in {"queued", "error"} : at' = [at EXCEPT ![b] = l]
  BY DEF Submit, Queue
<1>2. \A c \in Bio : Passes(c)
  BY <1>1 DEF DiskInv, Inv, TypeOK, Passes
<1> QED
  BY <1>1, <1>2, UseMaps

\* A request is taken from the queue: its bios are moving, or have failed.
LEMMA TakeMaps ==
  ASSUME DiskInv, DiskInv', NEW d \in Device, Q_Start(d) \/ Q_NonFs(d)
  PROVE  Store!Next
<1>1. PICK r \in pend[d] : \E l \in {"moving", "error"} :
        at' = [b \in Bio |-> IF b \in ToSet(r) THEN l ELSE at[b]]
  BY DEF Q_Start, Q_NonFs
<1>2. Use /\ UNCHANGED <<mem, moved, buffer>>
  BY DEF Q_Start, Q_NonFs
<1>3. \A b \in ToSet(r) : at[b] = "queued"
  BY DEF DiskInv, Requests, Waiting, ToSet
<1>4. \A b \in Bio : Passes(b)
  BY <1>1, <1>3 DEF Passes
<1> QED
  BY <1>2, <1>4, UseMaps

\* A request ends: all of its bios were moved to their ends.
LEMMA EndMaps ==
  ASSUME DiskInv, DiskInv', AtHand, mode = "queue", NEW d \in Device, Q_End(d)
  PROVE  Store!Next
<1>1. /\ Use /\ UNCHANGED <<mem, moved, buffer>> /\ cur[d] = <<>>
      /\ at' = [b \in Bio |-> IF b \in ToSet(started[d]) THEN "ok" ELSE at[b]]
  BY DEF Q_End
<1>2. ASSUME NEW b \in Bio, b \in ToSet(started[d])
      PROVE  at[b] = "moving" /\ Ends(b) # <<>> /\ moved[b] = Len(Ends(b))
  <2>1. PICK k \in DOMAIN started[d] : b = started[d][k]
    BY <1>2 DEF ToSet
  <2>2. at[b] = "moving"
    BY <2>1 DEF DiskInv, Requests, Moving
  <2>3. io[b].dir # "pc" /\ moved[b] = Len(Ends(b))
    BY <1>1, <2>1 DEF AtHand
  <2> QED
    BY <2>2, <2>3, DiskAssumption
<1>3. \A b \in Bio : Passes(b)
  BY <1>1, <1>2 DEF Passes
<1> QED
  BY <1>1, <1>3, UseMaps

\* Every step with a queue is a step of SectorDisk, or none that shows.
LEMMA DiskMaps ==
  DiskInv /\ AtHand /\ [Next]_vars =>
    (mode = "queue" => Store!Next \/ UNCHANGED Store!vars)
<1> SUFFICES ASSUME DiskInv, AtHand, [Next]_vars, mode = "queue"
             PROVE  Store!Next \/ UNCHANGED Store!vars
  OBVIOUS
<1>1. DiskInv'
  BY DiskInductive
<1>2. CASE UNCHANGED vars
  <2>1. Use /\ UNCHANGED <<mem, moved, buffer>> /\ at' = at
    BY <1>2 DEF vars, Use, traffic
  <2> QED
    BY <1>1, <2>1, UseMaps DEF Passes
<1>3. CASE Set_Up \/ Rmmod \/ Exit
  BY <1>3, LifeMaps
<1>4. ASSUME NEW d \in Device, Open(d) \/ Close(d) \/ Getgeo(d) \/ Serve(d)
      PROVE  Store!Next \/ UNCHANGED Store!vars
  BY <1>1, <1>4, OpenMaps, TakeMaps, BioMaps, EndMaps DEF Serve
<1>5. ASSUME NEW b \in Bio, Submit(b)
      PROVE  Store!Next
  BY <1>1, <1>5, SubmitMaps
<1>6. ASSUME NEW b \in Bio, Make(b)
      PROVE  FALSE
  BY <1>6 DEF Make, N_Gone, N_Bio, N_End
<1> QED
  BY <1>2, <1>3, <1>4, <1>5, <1>6 DEF Next

\* Before set-up there is no disk, and nothing was done or reported.
LEMMA DiskMapsInit == Init => Store!Init
<1> SUFFICES ASSUME Init PROVE Store!Init
  OBVIOUS
<1>1. \A d \in Device : StoreOf(d) = <<>>
  BY DEF Init, StoreOf
<1>2. \A b \in Bio : at[b] = "new" /\ moved[b] = 0
  BY DEF Init
<1>3. {b \in Bio : moved[b] > 0} = {}
  BY <1>2
<1>4. [b \in Bio |-> IF at[b] \in {"ok", "error"} THEN at[b] ELSE "none"]
        = [b \in Bio |-> "none"]
  BY <1>2
<1>5. [d \in Device |-> StoreOf(d)] = [d \in Device |-> <<>>]
  BY <1>1
<1> QED
  BY <1>3, <1>4, <1>5 DEF Store!Init

\* With a queue a disk is what its users are promised: a bio of even segments
\* moves exactly its sectors, as if at once, and is reported once, as done if it
\* was carried out and as failed if nothing of it was; however requests are
\* merged and ordered, and whenever disks are set up or removed.
THEOREM DiskImplements == Spec => SectorSpec
<1>1. Init => DiskInv /\ AtHand
  BY DiskInit, AtHandInit
<1>2. DiskInv /\ AtHand /\ [Next]_vars => (DiskInv /\ AtHand)'
  BY DiskInductive, AtHandStep
<1>3. Spec => [](DiskInv /\ AtHand)
  BY <1>1, <1>2, PTL DEF Spec
<1>4. DiskInv /\ AtHand /\ [Next]_vars =>
        [mode = "queue" => Store!Next \/ UNCHANGED Store!vars]_vars
  BY DiskMaps
<1> QED
  BY <1>3, <1>4, DiskMapsInit, PTL DEF Spec, SectorSpec
=============================================================================
