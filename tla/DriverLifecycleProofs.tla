------------------------ MODULE DriverLifecycleProofs ------------------------
(***************************************************************************)
(* What is proved of loading, unloading and opening the drivers, for any   *)
(* number of tasks and of minor numbers.                                   *)
(*                                                                         *)
(* That nothing is left behind rests on Progress: while a module loads, it *)
(* holds the part of its load script that is done, which the list for a    *)
(* failure there covers; while it leaves, what it holds is covered by what *)
(* it has still to give back.  That handlers are safe rests on Served: the *)
(* device of an open file is complete, except where the source makes it    *)
(* reachable early, or frees it under an open file.                        *)
(***************************************************************************)
EXTENDS DriverLifecycle, SequenceTheorems, TLAPS

\* What proc.c leaves behind when its entry cannot be made.
Leak == IF driver = "proc" THEN {"dir"} ELSE {}

\* What goes when the resources of a list are given up.
Covered(s) == UNION {Gone(s[i]) : i \in DOMAIN s}

Load(k) == ScriptOf(k).load

Own(k) == ToSet(Load(k))

\* The controls that a driver has.
Used(k) == k = "module" \/ driver = "ch12"

\* How much of its load script k has passed, and what it met there.
Passed(k) == Len(Load(k)) - Len(todo[k])

Acquired(k) == {Load(k)[i] : i \in 1 .. Passed(k)}

Leaves(k) == phase[k] \in {"failing", "unloading"}

\* What a control holds fits its place in its script.
Progress(k) ==
  /\ phase[k] = "out" => held \intersect Own(k) \subseteq Leak
  /\ phase[k] = "loading" =>
       /\ Passed(k) \in Nat
       /\ \A i \in 1 .. Len(todo[k]) : todo[k][i] = Load(k)[Passed(k) + i]
       /\ held \intersect Own(k) \subseteq Acquired(k) \union Leak
       /\ Acquired(k) \subseteq held \union Minor
  /\ phase[k] = "live" => Own(k) \subseteq held \union Minor
  /\ Leaves(k) =>
       /\ held \intersect Own(k) \subseteq Covered(todo[k]) \union Leak
       /\ ToSet(todo[k]) \subseteq Own(k) \ {"mutex", "queues"}
  /\ phase[k] = "failing" /\ k = "module" => ToSet(todo[k]) \subseteq {"region"}

\* Whatever is held belongs to a control; only globalfifo ch12 has three.
Partition ==
  /\ \A x \in held : \E k \in Control : Used(k) /\ x \in Own(k)
  /\ \A k \in Control : ~Used(k) => phase[k] = "out"

\* An open file keeps its module, and so its device, except in /proc and ch12.
Kept == driver \notin {"proc", "ch12"} =>
  \A t \in Task : file[t] # "closed" =>
    "mem" \in held /\ phase["module"] \in {"loading", "live"}

\* The misc device of ch12 comes last and goes first.
MiscLast == driver = "ch12" /\ "misc" \in held =>
  /\ {"mem", "mutex", "queues"} \subseteq held
  /\ Leaves("device") => todo["device"] # <<>> /\ Head(todo["device"]) = "misc"

\* The device of an open file is complete.
Served == \A t \in Task : file[t] # "closed" /\ t \notin stale =>
  \/ Needs \subseteq held
  \/ driver \in EarlyCdev /\ phase["module"] = "loading"

FullInv ==
  /\ TypeOK /\ Partition
  /\ \A k \in Control : Used(k) => Progress(k)
  /\ Kept /\ MiscLast /\ Served /\ SafeOnceLoaded

-----------------------------------------------------------------------------
\* The first and the rest of a list that is not empty.
LEMMA FirstAndRest ==
  ASSUME NEW S, NEW s \in Seq(S), s # <<>>
  PROVE  /\ Len(s) \in Nat \ {0} /\ DOMAIN s = 1 .. Len(s)
         /\ Head(s) = s[1] /\ Head(s) \in S
         /\ Tail(s) \in Seq(S) /\ Len(Tail(s)) = Len(s) - 1
         /\ \A i \in 1 .. Len(s) - 1 : Tail(s)[i] = s[i + 1]
         /\ DOMAIN Tail(s) = 1 .. Len(s) - 1
<1>1. Len(s) \in Nat \ {0} /\ DOMAIN s = 1 .. Len(s)
  BY EmptySeq, LenProperties
<1>2. /\ Tail(s) \in Seq(S) /\ Len(Tail(s)) = Len(s) - 1
      /\ \A i \in 1 .. Len(s) - 1 : Tail(s)[i] = s[i + 1]
      /\ Head(s) \in S
  BY HeadTailProperties
<1>3. DOMAIN Tail(s) = 1 .. Len(s) - 1
  BY <1>2, LenProperties
<1>4. Head(s) = s[1]
  BY <1>1
<1> QED
  BY <1>1, <1>2, <1>3, <1>4

\* A list covers what goes with its first element, and what the rest covers.
LEMMA CoverRest ==
  ASSUME NEW S, NEW s \in Seq(S), s # <<>>
  PROVE  /\ Covered(s) = Gone(Head(s)) \union Covered(Tail(s))
         /\ ToSet(s) = {Head(s)} \union ToSet(Tail(s))
<1> DEFINE t == Tail(s)
<1>1. /\ Len(s) \in Nat \ {0} /\ DOMAIN s = 1 .. Len(s) /\ Head(s) = s[1]
      /\ \A i \in 1 .. Len(s) - 1 : t[i] = s[i + 1]
      /\ DOMAIN t = 1 .. Len(s) - 1
  BY FirstAndRest
<1> HIDE DEF t
<1>2. ASSUME NEW i \in DOMAIN s, i # 1
      PROVE  i - 1 \in DOMAIN t /\ t[i - 1] = s[i]
  <2>1. i - 1 \in 1 .. Len(s) - 1 /\ (i - 1) + 1 = i
    BY <1>1, <1>2
  <2> QED
    BY <2>1, <1>1
<1>3. \A i \in DOMAIN t : i + 1 \in DOMAIN s /\ t[i] = s[i + 1]
  BY <1>1
<1>4. 1 \in DOMAIN s
  BY <1>1
<1>5. Covered(s) = Gone(Head(s)) \union Covered(t)
  BY <1>1, <1>2, <1>3, <1>4 DEF Covered
<1>6. ToSet(s) = {Head(s)} \union ToSet(t)
  BY <1>1, <1>2, <1>3, <1>4 DEF ToSet
<1> QED
  BY <1>5, <1>6 DEF t

\* Nothing is covered by an empty list.
LEMMA CoverNone == Covered(<<>>) = {} /\ ToSet(<<>>) = {}
  BY DEF Covered, ToSet

-----------------------------------------------------------------------------

\* The scripts of the character drivers of ch6 to ch9: the region, the memory,
\* then minor numbers and what is initialised; all of it given back on exit.
Char(s) ==
  /\ s.load \in Seq(Resource) /\ s.exit \in Seq(Resource) /\ Len(s.load) >= 2
  /\ s.load[1] = "region" /\ s.load[2] = "mem"
  /\ \A i \in 3 .. Len(s.load) : s.load[i] \in Minor \union {"mutex", "queues"}
  /\ s.fail = [region |-> <<>>, mem |-> <<"region">>]
  /\ ToSet(s.exit) = ToSet(s.load) \ {"mutex", "queues"}

\* Minor numbers are no other resource.
LEMMA MinorsApart ==
  /\ \A x \in Minor : x \notin Named
  /\ Minors \in Seq(Minor) /\ Minors \in Seq(Resource)
  /\ \A i \in 1 .. Len(Minors) : Minors[i] \in Minor
  /\ Minor \subseteq Resource
<1>1. Minors \in Seq(ToSet(Minors))
  BY LifecycleAssumption
<1>2. ToSet(Minors) \subseteq Minor /\ Minor \subseteq Resource
  BY DEF Minor, Resource, Named
<1>3. Minors \in Seq(Minor) /\ Minors \in Seq(Resource)
  BY <1>1, <1>2, SeqMonotonic
<1>4. \A i \in 1 .. Len(Minors) : Minors[i] \in Minor
  BY <1>3, ElementOfSeq
<1>5. \A x \in Minor : x \notin Named
  BY LifecycleAssumption
<1> QED
  BY <1>2, <1>3, <1>4, <1>5 DEF Named

\* The scripts with one device.
LEMMA CharOne == Char(Ch6) /\ Char(Ch7) /\ Char(Ch8) /\ Char(Ch9)
<1>m. First \in Minor /\ \A x \in Minor : x \notin {"mutex", "queues"}
  BY MinorsApart DEF Minor, Named
<1> USE DEF Script, Resource, Named
<1>1. Char(Ch6)
  BY <1>m DEF Ch6, Char, ToSet
<1>2. Char(Ch7)
  BY <1>m DEF Ch7, Char, ToSet
<1>3. Char(Ch8)
  BY <1>m DEF Ch8, Char, ToSet
<1>4. Char(Ch9)
  BY <1>m DEF Ch9, Char, ToSet
<1> QED
  BY <1>1, <1>2, <1>3, <1>4

\* The script with a minor number per device.
LEMMA CharMany == Char(MultiMem)
<1> DEFINE a == <<"region", "mem">>
           b == <<"mem", "region">>
<1>1. a \in Seq(Resource) /\ b \in Seq(Resource) /\ Len(a) = 2 /\ Len(b) = 2
      /\ a[1] = "region" /\ a[2] = "mem" /\ b[1] = "mem" /\ b[2] = "region"
  BY DEF Resource, Named
<1>2. Minors \in Seq(Resource) /\ Len(Minors) \in Nat
      /\ \A i \in 1 .. Len(Minors) : Minors[i] \in Minor
      /\ DOMAIN Minors = 1 .. Len(Minors)
  BY MinorsApart, LenProperties
<1> HIDE DEF a, b
<1>3. /\ a \o Minors \in Seq(Resource) /\ Len(a \o Minors) = 2 + Len(Minors)
      /\ \A i \in 1 .. 2 + Len(Minors) :
           (a \o Minors)[i] = IF i <= 2 THEN a[i] ELSE Minors[i - 2]
  <2>1. /\ a \o Minors \in Seq(Resource) /\ Len(a \o Minors) = Len(a) + Len(Minors)
        /\ \A i \in 1 .. Len(a) + Len(Minors) :
             (a \o Minors)[i] = IF i <= Len(a) THEN a[i] ELSE Minors[i - Len(a)]
    BY <1>1, <1>2, ConcatProperties
  <2> QED
    BY <1>1, <2>1
<1>4. Minors \o b \in Seq(Resource)
  BY <1>1, <1>2, ConcatProperties
<1>5. MultiMem.load = a \o Minors /\ MultiMem.exit = Minors \o b
      /\ MultiMem.fail = [region |-> <<>>, mem |-> <<"region">>]
  BY DEF MultiMem, Script, a, b
<1>6. /\ (a \o Minors)[1] = "region" /\ (a \o Minors)[2] = "mem"
      /\ \A i \in 3 .. 2 + Len(Minors) : (a \o Minors)[i] \in Minor
  <2>1. (a \o Minors)[1] = "region" /\ (a \o Minors)[2] = "mem"
    BY <1>1, <1>2, <1>3
  <2>2. ASSUME NEW i \in 3 .. 2 + Len(Minors)
        PROVE  (a \o Minors)[i] \in Minor
    <3>1. i - 2 \in 1 .. Len(Minors) /\ i \in 1 .. 2 + Len(Minors) /\ ~(i <= 2)
      BY <1>2
    <3> QED
      BY <3>1, <1>2, <1>3
  <2> QED
    BY <2>1, <2>2
<1>7. ToSet(a \o Minors) = {"region", "mem"} \union ToSet(Minors)
      /\ ToSet(Minors \o b) = {"region", "mem"} \union ToSet(Minors)
  <2>1. Range(a \o Minors) = Range(a) \union Range(Minors)
        /\ Range(Minors \o b) = Range(Minors) \union Range(b)
    BY <1>1, <1>2, RangeConcatenation
  <2>2. Range(a) = {"region", "mem"} /\ Range(b) = {"region", "mem"}
    BY DEF Range, a, b
  <2> QED
    BY <2>1, <2>2 DEF Range, ToSet
<1>8. "mutex" \notin ToSet(Minors) /\ "queues" \notin ToSet(Minors)
  BY MinorsApart DEF Minor, Named
<1> QED
  BY <1>2, <1>3, <1>4, <1>5, <1>6, <1>7, <1>8 DEF Char

Exit(k) == ScriptOf(k).exit

Fail(k) == ScriptOf(k).fail

\* What a script must be like: an exit, and the failure of a step after others,
\* give back what they must; the mutex and the queues go with the memory; and
\* a step that failed makes a module give back no more than its region.
Fits(k) ==
  /\ Load(k) \in Seq(Resource) /\ Exit(k) \in Seq(Resource)
  /\ Own(k) \subseteq Covered(Exit(k))
  /\ ToSet(Exit(k)) \subseteq Own(k) \ {"mutex", "queues"}
  /\ \A x \in DOMAIN Fail(k) :
       /\ Fail(k)[x] \in Seq(Resource)
       /\ ToSet(Fail(k)[x]) \subseteq Own(k) \ {"mutex", "queues"}
       /\ k = "module" => ToSet(Fail(k)[x]) \subseteq {"region"}
       /\ \A n \in 1 .. Len(Load(k)) : Load(k)[n] = x =>
            \A i \in 1 .. n - 1 : Load(k)[i] \in Covered(Fail(k)[x]) \union Leak

\* The drivers of ch6 to ch9 have scripts of that kind.
LEMMA CharFits ==
  ASSUME NEW k \in Control, Char(ScriptOf(k))
  PROVE  Fits(k)
<1>1. /\ Load(k) \in Seq(Resource) /\ Exit(k) \in Seq(Resource) /\ Len(Load(k)) >= 2
      /\ Load(k)[1] = "region" /\ Load(k)[2] = "mem"
      /\ \A i \in 3 .. Len(Load(k)) : Load(k)[i] \in Minor \union {"mutex", "queues"}
      /\ Fail(k) = [region |-> <<>>, mem |-> <<"region">>]
      /\ ToSet(Exit(k)) = Own(k) \ {"mutex", "queues"}
  BY DEF Char, Load, Exit, Fail, Own
<1>2. Len(Load(k)) \in Nat /\ DOMAIN Load(k) = 1 .. Len(Load(k))
  BY <1>1, LenProperties
<1>3. {"region", "mem"} \subseteq Own(k)
  BY <1>1, <1>2 DEF Own, ToSet
<1>4. Own(k) \subseteq Covered(Exit(k))
  <2>1. ASSUME NEW x \in ToSet(Exit(k))
        PROVE  Gone(x) \subseteq Covered(Exit(k))
    BY DEF Covered, ToSet
  <2>2. \A x : x \in Gone(x)
    BY DEF Gone
  <2>3. {"mutex", "queues"} \subseteq Gone("mem")
    BY DEF Gone
  <2> QED
    BY <2>1, <2>2, <2>3, <1>1, <1>3
<1>f. /\ DOMAIN Fail(k) = {"region", "mem"}
      /\ Fail(k)["region"] = <<>> /\ Fail(k)["mem"] = <<"region">>
  BY <1>1
<1>5. ASSUME NEW x \in DOMAIN Fail(k)
      PROVE  /\ Fail(k)[x] \in Seq(Resource)
             /\ ToSet(Fail(k)[x]) \subseteq {"region"}
             /\ x = "mem" => "region" \in Covered(Fail(k)[x])
             /\ x \in {"mem", "region"}
  <2>1. <<>> \in Seq(Resource) /\ <<"region">> \in Seq(Resource)
    BY DEF Resource, Named
  <2>2. ToSet(<<>>) = {} /\ ToSet(<<"region">>) = {"region"}
    BY DEF ToSet
  <2>3. "region" \in Covered(<<"region">>)
    BY DEF Covered, Gone
  <2> QED
    BY <1>f, <2>1, <2>2, <2>3
<1>6. ASSUME NEW x \in DOMAIN Fail(k), NEW n \in 1 .. Len(Load(k)), Load(k)[n] = x,
             NEW i \in 1 .. n - 1
      PROVE  Load(k)[i] \in Covered(Fail(k)[x])
  <2>1. n = 1 \/ n = 2 \/ n \in 3 .. Len(Load(k))
    BY <1>2
  <2>2. n \notin 3 .. Len(Load(k))
    BY <1>1, <1>5, <1>6, MinorsApart DEF Named
  <2>3. n = 2 /\ i = 1
    BY <2>1, <2>2
  <2> QED
    BY <2>3, <1>1, <1>5, <1>6
<1> QED
  BY <1>1, <1>3, <1>4, <1>5, <1>6 DEF Fits

CharDriver == {"ch6", "multi", "ch7", "ch8", "ch9"}

\* The script of each control.
LEMMA Scripts ==
  ASSUME driver \in Driver
  PROVE  /\ driver \in CharDriver \union {"ch12", "proc"}
         /\ driver \in CharDriver => Char(ScriptOf("module"))
         /\ driver = "proc" => ScriptOf("module") = Proc
         /\ driver = "ch12" => ScriptOf("module") = Ch12
         /\ ScriptOf("devmodule") = Ch12Dev /\ ScriptOf("device") = Ch12Probe
<1>1. driver \in CharDriver \union {"ch12", "proc"}
  BY DEF Driver, ModuleScript, CharDriver
<1>2. /\ ScriptOf("module") = ModuleScript[driver]
      /\ ScriptOf("devmodule") = Ch12Dev /\ ScriptOf("device") = Ch12Probe
  BY DEF ScriptOf
<1>3. /\ ModuleScript["ch6"] = Ch6 /\ ModuleScript["multi"] = MultiMem
      /\ ModuleScript["ch7"] = Ch7 /\ ModuleScript["ch8"] = Ch8
      /\ ModuleScript["ch9"] = Ch9 /\ ModuleScript["ch12"] = Ch12
      /\ ModuleScript["proc"] = Proc
  BY DEF ModuleScript
<1> QED
  BY <1>1, <1>2, <1>3, CharOne, CharMany DEF CharDriver

\* The scripts of ch12, step by step.
LEMMA PlatformScripts ==
  ASSUME driver = "ch12"
  PROVE  /\ Own("module") = {"pdrv"} /\ Own("devmodule") = {"palloc", "pdev"}
         /\ Own("device") = {"mem", "mutex", "queues", "misc"}
         /\ Len(Load("device")) = 4 /\ Load("device")[4] = "misc"
         /\ \A i \in 1 .. 3 : Load("device")[i] # "misc"
         /\ {"mem", "mutex", "queues"} = {Load("device")[i] : i \in 1 .. 3}
         /\ Head(Exit("device")) = "misc" /\ Exit("device") # <<>>
<1>1. /\ ScriptOf("module") = Ch12 /\ ScriptOf("devmodule") = Ch12Dev
      /\ ScriptOf("device") = Ch12Probe
  BY Scripts DEF Driver, ModuleScript
<1>2. Own("module") = {"pdrv"}
  BY <1>1 DEF Own, Load, Ch12, Script, ToSet
<1>3. Own("devmodule") = {"palloc", "pdev"}
  BY <1>1 DEF Own, Load, Ch12Dev, Script, ToSet
<1>4. Load("device") = <<"mem", "mutex", "queues", "misc">>
      /\ Exit("device") = <<"misc", "mem">>
  BY <1>1 DEF Load, Exit, Ch12Probe, Script
<1>5. Own("device") = {"mem", "mutex", "queues", "misc"}
  BY <1>4 DEF Own, ToSet
<1>6. Head(Exit("device")) = "misc" /\ Exit("device") # <<>>
  BY <1>4
<1>7. /\ Len(Load("device")) = 4 /\ Load("device")[4] = "misc"
      /\ Load("device")[1] = "mem" /\ Load("device")[2] = "mutex"
      /\ Load("device")[3] = "queues"
  BY <1>4
<1>8. 1 .. 3 = {1, 2, 3}
  OBVIOUS
<1> QED
  BY <1>2, <1>3, <1>5, <1>6, <1>7, <1>8

\* Lists of one and of no resource.
LEMMA ShortLists ==
  /\ <<>> \in Seq(Resource) /\ ToSet(<<>>) = {}
  /\ \A x \in Named : <<x>> \in Seq(Resource) /\ ToSet(<<x>>) = {x}
<1>1. <<>> \in Seq(Resource) /\ ToSet(<<>>) = {}
  BY DEF ToSet
<1>2. ASSUME NEW x \in Named
      PROVE  <<x>> \in Seq(Resource) /\ ToSet(<<x>>) = {x}
  BY DEF ToSet, Resource
<1> QED
  BY <1>1, <1>2

\* All scripts are of that kind.
LEMMA AllFit ==
  ASSUME driver \in Driver, NEW k \in Control, Used(k)
  PROVE  Fits(k)
<1>1. CASE driver \in CharDriver
  BY <1>1, Scripts, CharFits DEF Used, CharDriver
<1>2. CASE driver = "proc"
  <2>1. k = "module" /\ ScriptOf(k) = Proc
    BY <1>2, Scripts DEF Used
  <2>2. /\ Load(k) = <<"dir", "entry">> /\ Exit(k) = <<"entry", "dir">>
        /\ DOMAIN Fail(k) = {"dir", "entry"}
        /\ Fail(k)["dir"] = <<>> /\ Fail(k)["entry"] = <<>>
    BY <2>1 DEF Proc, Load, Exit, Fail, Script
  <2>3. /\ Load(k) \in Seq(Resource) /\ Exit(k) \in Seq(Resource)
        /\ Own(k) = {"dir", "entry"} /\ ToSet(Exit(k)) = {"entry", "dir"}
    BY <2>2 DEF Own, ToSet, Resource, Named
  <2>4. Covered(Exit(k)) = {"entry", "dir"}
    BY <2>2 DEF Covered, Gone
  <2>5. ASSUME NEW x \in DOMAIN Fail(k)
        PROVE  /\ Fail(k)[x] \in Seq(Resource)
               /\ ToSet(Fail(k)[x]) \subseteq {}
    BY <2>2, ShortLists DEF Named
  <2>6. ASSUME NEW x \in DOMAIN Fail(k), NEW n \in 1 .. Len(Load(k)), Load(k)[n] = x,
               NEW i \in 1 .. n - 1
        PROVE  Load(k)[i] \in Covered(Fail(k)[x]) \union Leak
    <3>1. /\ Len(Load(k)) = 2 /\ Load(k)[1] = "dir" /\ Load(k)[2] = "entry"
      BY <2>2
    <3>2. n = 2 /\ x = "entry"
      BY <3>1, <2>2, <2>6
    <3>3. Load(k)[i] \in {"dir"}
      BY <3>1, <3>2
    <3> QED
      BY <3>3, <1>2 DEF Leak
  <2> QED
    BY <2>3, <2>4, <2>5, <2>6 DEF Fits
<1>3. CASE driver = "ch12"
  <2>1. CASE k = "module"
    <3>1. ScriptOf(k) = Ch12
      BY <1>3, <2>1, Scripts
    <3>2. /\ Load(k) = <<"pdrv">> /\ Exit(k) = <<"pdrv">>
          /\ DOMAIN Fail(k) = {"pdrv"} /\ Fail(k)["pdrv"] = <<>>
      BY <3>1 DEF Ch12, Load, Exit, Fail, Script
    <3>3. /\ Load(k) \in Seq(Resource) /\ Exit(k) \in Seq(Resource)
          /\ Own(k) = {"pdrv"} /\ ToSet(Exit(k)) = {"pdrv"}
      BY <3>2 DEF Own, ToSet, Resource, Named
    <3>4. Covered(Exit(k)) = {"pdrv"}
      BY <3>2 DEF Covered, Gone
    <3>5. ASSUME NEW x \in DOMAIN Fail(k)
          PROVE  /\ Fail(k)[x] \in Seq(Resource)
                 /\ ToSet(Fail(k)[x]) \subseteq {}
      BY <3>2, ShortLists DEF Named
    <3>6. ASSUME NEW x \in DOMAIN Fail(k), NEW n \in 1 .. Len(Load(k)), Load(k)[n] = x,
                 NEW i \in 1 .. n - 1
          PROVE  Load(k)[i] \in Covered(Fail(k)[x]) \union Leak
      <4>1. /\ Len(Load(k)) = 1 /\ Load(k)[1] = "pdrv"
        BY <3>2
      <4>2. n = 1
        BY <4>1, <3>2, <3>6
      <4> QED
        BY <4>2
    <3> QED
      BY <3>3, <3>4, <3>5, <3>6 DEF Fits
  <2>2. CASE k = "devmodule"
    <3>1. ScriptOf(k) = Ch12Dev
      BY <1>3, <2>2, Scripts
    <3>2. /\ Load(k) = <<"palloc", "pdev">> /\ Exit(k) = <<"pdev", "palloc">>
          /\ DOMAIN Fail(k) = {"palloc", "pdev"}
          /\ Fail(k)["palloc"] = <<>> /\ Fail(k)["pdev"] = <<"palloc">>
      BY <3>1 DEF Ch12Dev, Load, Exit, Fail, Script
    <3>3. /\ Load(k) \in Seq(Resource) /\ Exit(k) \in Seq(Resource)
          /\ Own(k) = {"palloc", "pdev"} /\ ToSet(Exit(k)) = {"pdev", "palloc"}
      BY <3>2 DEF Own, ToSet, Resource, Named
    <3>4. Covered(Exit(k)) = {"pdev", "palloc"}
      BY <3>2 DEF Covered, Gone
    <3>5. ASSUME NEW x \in DOMAIN Fail(k)
          PROVE  /\ Fail(k)[x] \in Seq(Resource)
                 /\ ToSet(Fail(k)[x]) \subseteq {"palloc"}
      BY <3>2, ShortLists DEF Named
    <3>6. ASSUME NEW x \in DOMAIN Fail(k), NEW n \in 1 .. Len(Load(k)), Load(k)[n] = x,
                 NEW i \in 1 .. n - 1
          PROVE  Load(k)[i] \in Covered(Fail(k)[x]) \union Leak
      <4>1. /\ Len(Load(k)) = 2 /\ Load(k)[1] = "palloc" /\ Load(k)[2] = "pdev"
        BY <3>2
      <4>2. n = 2 /\ x = "pdev"
        BY <4>1, <3>2, <3>6
      <4>3. Load(k)[i] \in {"palloc"}
        BY <4>1, <4>2
      <4>4. {"palloc"} \subseteq Covered(Fail(k)["pdev"])
        BY <3>2 DEF Covered, Gone
      <4> QED
        BY <4>2, <4>3, <4>4
    <3> QED
      BY <2>2, <3>3, <3>4, <3>5, <3>6 DEF Fits
  <2>3. CASE k = "device"
    <3>1. ScriptOf(k) = Ch12Probe
      BY <1>3, <2>3, Scripts
    <3>2. /\ Load(k) = <<"mem", "mutex", "queues", "misc">> /\ Exit(k) = <<"misc", "mem">>
          /\ DOMAIN Fail(k) = {"mem", "misc"}
          /\ Fail(k)["mem"] = <<>> /\ Fail(k)["misc"] = <<"mem">>
      BY <3>1 DEF Ch12Probe, Load, Exit, Fail, Script
    <3>3. /\ Load(k) \in Seq(Resource) /\ Exit(k) \in Seq(Resource)
          /\ Own(k) = {"mem", "mutex", "queues", "misc"} /\ ToSet(Exit(k)) = {"misc", "mem"}
      BY <3>2 DEF Own, ToSet, Resource, Named
    <3>4. Covered(Exit(k)) = {"misc", "mem", "mutex", "queues"}
      BY <3>2 DEF Covered, Gone
    <3>5. ASSUME NEW x \in DOMAIN Fail(k)
          PROVE  /\ Fail(k)[x] \in Seq(Resource)
                 /\ ToSet(Fail(k)[x]) \subseteq {"mem"}
      BY <3>2, ShortLists DEF Named
    <3>6. ASSUME NEW x \in DOMAIN Fail(k), NEW n \in 1 .. Len(Load(k)), Load(k)[n] = x,
                 NEW i \in 1 .. n - 1
          PROVE  Load(k)[i] \in Covered(Fail(k)[x]) \union Leak
      <4>1. /\ Len(Load(k)) = 4 /\ Load(k)[1] = "mem" /\ Load(k)[2] = "mutex"
            /\ Load(k)[3] = "queues" /\ Load(k)[4] = "misc"
        BY <3>2
      <4>2. n = 4 /\ x = "misc"
        BY <4>1, <3>2, <3>6
      <4>3. Load(k)[i] \in {"mem", "mutex", "queues"}
        BY <4>1, <4>2
      <4>4. {"mem", "mutex", "queues"} \subseteq Covered(Fail(k)["misc"])
        BY <3>2 DEF Covered, Gone
      <4> QED
        BY <4>2, <4>3, <4>4
    <3> QED
      BY <2>3, <3>3, <3>4, <3>5, <3>6 DEF Fits
  <2> QED
    BY <2>1, <2>2, <2>3 DEF Control
<1> QED
  BY <1>1, <1>2, <1>3, Scripts

\* What the proofs use of the drivers of ch6 to ch9.
LEMMA CharFacts ==
  ASSUME driver \in CharDriver
  PROVE  /\ Len(Load("module")) \in Nat /\ Len(Load("module")) >= 2
         /\ Load("module")[1] = "region" /\ Load("module")[2] = "mem"
         /\ Own("module") \subseteq {"region", "mem", "mutex", "queues"} \union Minor
         /\ {"region", "mem"} \subseteq Own("module")
         /\ Needs \subseteq {"mem", "mutex", "queues"} /\ Needs \subseteq Own("module")
         /\ driver \notin EarlyCdev => Needs = {"mem"}
         /\ Leak = {} /\ driver \notin {"proc", "ch12"}
         /\ \A n \in 1 .. Len(Load("module")) :
              Load("module")[n] \in DOMAIN Fail("module") =>
                \A i \in 1 .. n - 1 : Load("module")[i] # "mem"
<1>1. Char(ScriptOf("module")) /\ Leak = {} /\ driver \notin {"proc", "ch12"}
  BY Scripts DEF CharDriver, Leak, Driver, ModuleScript
<1>2. /\ Load("module") \in Seq(Resource) /\ Len(Load("module")) >= 2
      /\ Load("module")[1] = "region" /\ Load("module")[2] = "mem"
      /\ \A i \in 3 .. Len(Load("module")) :
           Load("module")[i] \in Minor \union {"mutex", "queues"}
      /\ Fail("module") = [region |-> <<>>, mem |-> <<"region">>]
  BY <1>1 DEF Char, Load, Fail
<1>3. /\ Len(Load("module")) \in Nat
      /\ DOMAIN Load("module") = 1 .. Len(Load("module"))
  BY <1>2, LenProperties
<1>4. Own("module") \subseteq {"region", "mem", "mutex", "queues"} \union Minor
  <2>1. ASSUME NEW i \in 1 .. Len(Load("module"))
        PROVE  Load("module")[i] \in {"region", "mem", "mutex", "queues"} \union Minor
    <3>1. i = 1 \/ i = 2 \/ i \in 3 .. Len(Load("module"))
      BY <1>3
    <3> QED
      BY <3>1, <1>2
  <2> QED
    BY <2>1, <1>3 DEF Own, ToSet
<1>5. {"region", "mem"} \subseteq Own("module")
  BY <1>2, <1>3 DEF Own, ToSet
<1>6. /\ Needs \subseteq {"mem", "mutex", "queues"}
      /\ driver \notin EarlyCdev => Needs = {"mem"}
  BY <1>1 DEF Needs, EarlyCdev, CharDriver
<1>7. Needs \subseteq Own("module")
  <2>1. CASE driver \in {"ch6", "multi"}
    BY <2>1, <1>5 DEF Needs
  <2>2. CASE driver = "ch7"
    <3>1. Load("module") = <<"region", "mem", First, "mutex">>
      BY <2>2 DEF Load, ScriptOf, ModuleScript, Ch7, Script
    <3>2. {"mem", "mutex"} \subseteq Own("module")
      BY <3>1 DEF Own, ToSet
    <3> QED
      BY <2>2, <3>2 DEF Needs
  <2>3. CASE driver \in {"ch8", "ch9"}
    <3>1. Load("module") = <<"region", "mem", First, "mutex", "queues">>
      BY <2>3 DEF Load, ScriptOf, ModuleScript, Ch8, Ch9, Script
    <3>2. {"mem", "mutex", "queues"} \subseteq Own("module")
      BY <3>1 DEF Own, ToSet
    <3> QED
      BY <2>3, <3>2 DEF Needs
  <2> QED
    BY <2>1, <2>2, <2>3 DEF CharDriver
<1>8. ASSUME NEW n \in 1 .. Len(Load("module")),
             Load("module")[n] \in DOMAIN Fail("module"), NEW i \in 1 .. n - 1
      PROVE  Load("module")[i] # "mem"
  <2>1. Load("module")[n] \in {"region", "mem"}
    BY <1>2, <1>8
  <2>2. n \notin 3 .. Len(Load("module"))
    BY <2>1, <1>2, MinorsApart DEF Named
  <2>3. n \in {1, 2}
    BY <2>2, <1>3
  <2>4. i = 1
    BY <2>3
  <2> QED
    BY <2>4, <1>2
<1> QED
  BY <1>1, <1>2, <1>3, <1>4, <1>5, <1>6, <1>7, <1>8

\* What the proofs use of proc.c and of ch12.
LEMMA OtherFacts ==
  /\ driver = "proc" => /\ Own("module") = {"dir", "entry"}
                        /\ Needs = {} /\ Leak = {"dir"}
  /\ driver = "ch12" => /\ Needs = {"mem", "mutex", "queues"} /\ Leak = {}
                        /\ driver \notin EarlyCdev
<1>1. CASE driver = "proc"
  <2>1. ScriptOf("module") = Proc
    BY <1>1, Scripts DEF Driver, ModuleScript
  <2>2. Own("module") = {"dir", "entry"}
    BY <2>1 DEF Own, Load, Proc, Script, ToSet
  <2> QED
    BY <1>1, <2>2 DEF Needs, Leak
<1>2. driver = "ch12" => /\ Needs = {"mem", "mutex", "queues"} /\ Leak = {}
                         /\ driver \notin EarlyCdev
  BY DEF Needs, Leak, EarlyCdev
<1> QED
  BY <1>1, <1>2

\* What two controls hold is apart, and memory and its parts are one's.
LEMMA OwnApart ==
  ASSUME driver \in Driver, NEW k \in Control, Used(k)
  PROVE  /\ \A j \in Control : Used(j) /\ j # k => Own(j) \intersect Own(k) = {}
         /\ \A x \in Own(k), j \in Control :
              Used(j) /\ j # k => Gone(x) \intersect Own(j) = {}
         /\ driver # "ch12" => k = "module"
<1>1. CASE driver = "ch12"
  BY <1>1, PlatformScripts DEF Control, Gone
<1>2. CASE driver # "ch12"
  BY <1>2 DEF Used
<1> QED
  BY <1>1, <1>2

\* Only ch12 has a platform driver and device, and only it a misc device.
LEMMA NoPlatform ==
  ASSUME driver \in Driver, driver # "ch12"
  PROVE  {"pdrv", "pdev", "misc"} \intersect Own("module") = {}
<1>1. CASE driver \in CharDriver
  BY <1>1, CharFacts, MinorsApart DEF Named
<1>2. CASE driver = "proc"
  BY <1>2, OtherFacts
<1> QED
  BY <1>1, <1>2, Scripts

\* The scripts are those of the driver, which stays.
LEMMA SameDriver ==
  ASSUME driver' = driver
  PROVE  /\ \A k \in Control : /\ Load(k)' = Load(k) /\ Own(k)' = Own(k)
                               /\ Used(k)' = Used(k)
         /\ Leak' = Leak /\ Needs' = Needs
<1>1. \A k \in Control : ScriptOf(k)' = ScriptOf(k)
  BY DEF ScriptOf
<1>2. \A k \in Control : Load(k)' = Load(k)
  BY <1>1 DEF Load
<1>3. \A k \in Control : Own(k)' = Own(k)
  BY <1>2 DEF Own
<1> QED
  BY <1>2, <1>3 DEF Used, Leak, Needs

\* The drivers start with nothing.
LEMMA InitInv == Init => FullInv
<1> SUFFICES ASSUME Init PROVE FullInv
  OBVIOUS
<1> USE DEF Init
<1>1. TypeOK
  BY ShortLists DEF TypeOK, Phases
<1>2. Partition /\ Kept /\ MiscLast /\ Served /\ SafeOnceLoaded
  BY DEF Partition, Kept, MiscLast, Served, SafeOnceLoaded
<1>3. \A k \in Control : Progress(k)
  BY DEF Progress, Leaves
<1> QED
  BY <1>1, <1>2, <1>3 DEF FullInv

\* Where a control is that loads: the next step, and what came before it.
LEMMA LoadPlace ==
  ASSUME FullInv, NEW k \in Control, Used(k), phase[k] = "loading"
  PROVE  /\ Load(k) \in Seq(Resource) /\ todo[k] \in Seq(Resource)
         /\ Len(Load(k)) \in Nat /\ DOMAIN Load(k) = 1 .. Len(Load(k))
         /\ Len(todo[k]) \in Nat /\ Passed(k) \in Nat
         /\ Passed(k) = Len(Load(k)) - Len(todo[k])
         /\ Acquired(k) \subseteq Own(k)
         /\ todo[k] = <<>> => Passed(k) = Len(Load(k)) /\ Acquired(k) = Own(k)
         /\ todo[k] # <<>> =>
              /\ Passed(k) + 1 \in 1 .. Len(Load(k))
              /\ Head(todo[k]) = Load(k)[Passed(k) + 1] /\ Head(todo[k]) \in Own(k)
<1>1. Progress(k) /\ driver \in Driver /\ todo[k] \in Seq(Resource)
  BY DEF FullInv, TypeOK
<1>2. Load(k) \in Seq(Resource)
  BY <1>1, AllFit DEF Fits
<1>3. /\ Len(Load(k)) \in Nat /\ DOMAIN Load(k) = 1 .. Len(Load(k))
      /\ Len(todo[k]) \in Nat
  BY <1>1, <1>2, LenProperties
<1>4. Passed(k) \in Nat /\ Passed(k) = Len(Load(k)) - Len(todo[k])
  BY <1>1 DEF Progress, Passed
<1>5. Acquired(k) \subseteq Own(k)
  BY <1>3, <1>4 DEF Acquired, Own, ToSet
<1>6. ASSUME todo[k] = <<>>
      PROVE  Passed(k) = Len(Load(k)) /\ Acquired(k) = Own(k)
  <2>1. Len(todo[k]) = 0
    BY <1>6
  <2>2. Passed(k) = Len(Load(k))
    BY <1>3, <1>4, <2>1
  <2> QED
    BY <2>2, <1>3 DEF Acquired, Own, ToSet
<1>7. ASSUME todo[k] # <<>>
      PROVE  /\ Passed(k) + 1 \in 1 .. Len(Load(k))
             /\ Head(todo[k]) = Load(k)[Passed(k) + 1] /\ Head(todo[k]) \in Own(k)
  <2>1. Len(todo[k]) \in Nat \ {0} /\ Head(todo[k]) = todo[k][1]
    BY <1>1, <1>7, FirstAndRest
  <2>2. Passed(k) + 1 \in 1 .. Len(Load(k)) /\ 1 \in 1 .. Len(todo[k])
    BY <2>1, <1>3, <1>4
  <2>3. Head(todo[k]) = Load(k)[Passed(k) + 1]
    BY <2>1, <2>2, <1>1 DEF Progress
  <2> QED
    BY <2>2, <2>3, <1>3 DEF Own, ToSet
<1> QED
  BY <1>1, <1>2, <1>3, <1>4, <1>5, <1>6, <1>7

\* A control that does not move keeps its place, if its resources stay.
LEMMA OthersProgress ==
  ASSUME FullInv, NEW j \in Control, Used(j), driver' = driver,
         phase'[j] = phase[j], todo'[j] = todo[j],
         held' \intersect Own(j) = held \intersect Own(j)
  PROVE  Progress(j)'
<1>0. Progress(j)
  BY DEF FullInv
<1>1. Load(j)' = Load(j) /\ Own(j)' = Own(j) /\ Leak' = Leak
  BY SameDriver
<1>2. Passed(j)' = Passed(j)
  BY <1>1 DEF Passed
<1>3. Acquired(j)' = Acquired(j)
  BY <1>1, <1>2 DEF Acquired
<1>4. Leaves(j)' = Leaves(j)
  BY DEF Leaves
<1>5. phase[j] = "live" => Own(j) \subseteq held' \union Minor
  BY <1>0 DEF Progress
<1>6. phase[j] = "loading" => Acquired(j) \subseteq held' \union Minor
  <2>1. SUFFICES ASSUME phase[j] = "loading" PROVE Acquired(j) \subseteq held' \union Minor
    OBVIOUS
  <2>2. Acquired(j) \subseteq held \union Minor /\ Passed(j) \in Nat
    BY <1>0, <2>1 DEF Progress
  <2>3. Acquired(j) \subseteq Own(j)
    BY <2>1, LoadPlace
  <2> QED
    BY <2>2, <2>3
<1> QED
  BY <1>0, <1>1, <1>2, <1>3, <1>4, <1>5, <1>6 DEF Progress

\* One step further in the load script.
LEMMA NextPlace ==
  ASSUME FullInv, NEW k \in Control, Used(k), phase[k] = "loading", todo[k] # <<>>,
         driver' = driver, phase'[k] = "loading", todo'[k] = Tail(todo[k]),
         \/ held' = held \union {Head(todo[k])}
         \/ held' = held /\ Head(todo[k]) \in Minor
  PROVE  Progress(k)'
<1> DEFINE x == Head(todo[k])
<1>1. /\ Len(todo[k]) \in Nat \ {0} /\ Len(Tail(todo[k])) = Len(todo[k]) - 1
      /\ \A i \in 1 .. Len(todo[k]) - 1 : Tail(todo[k])[i] = todo[k][i + 1]
  BY FirstAndRest DEF FullInv, TypeOK
<1>2. /\ Len(Load(k)) \in Nat /\ Len(todo[k]) \in Nat /\ Passed(k) \in Nat
      /\ Passed(k) = Len(Load(k)) - Len(todo[k])
      /\ x = Load(k)[Passed(k) + 1]
  BY LoadPlace
<1>3. Load(k)' = Load(k) /\ Own(k)' = Own(k) /\ Leak' = Leak
  BY SameDriver
<1>4. Passed(k)' = Passed(k) + 1
  <2>1. Passed(k)' = Len(Load(k)) - Len(Tail(todo[k]))
    BY <1>3 DEF Passed
  <2>2. Passed(k)' = Len(Load(k)) - (Len(todo[k]) - 1)
    BY <2>1, <1>1
  <2>3. \A a, b \in Nat : a - (b - 1) = (a - b) + 1
    OBVIOUS
  <2> QED
    BY <2>2, <2>3, <1>2
<1>5. Acquired(k)' = Acquired(k) \union {x}
  <2>1. \A n \in Nat : 1 .. n + 1 = (1 .. n) \union {n + 1}
    OBVIOUS
  <2>2. Acquired(k)' = {Load(k)[i] : i \in 1 .. Passed(k) + 1}
    BY <1>3, <1>4 DEF Acquired
  <2>3. Acquired(k)' = {Load(k)[i] : i \in (1 .. Passed(k)) \union {Passed(k) + 1}}
    BY <2>1, <2>2, <1>2
  <2> QED
    BY <2>3, <1>2 DEF Acquired
<1>6. \A i \in 1 .. Len(todo[k]) : todo[k][i] = Load(k)[Passed(k) + i]
  BY DEF FullInv, Progress
<1>7. ASSUME NEW i \in 1 .. Len(todo'[k])
      PROVE  todo'[k][i] = Load(k)[Passed(k)' + i]
  <2>1. i \in 1 .. Len(todo[k]) - 1 /\ i + 1 \in 1 .. Len(todo[k])
    BY <1>1
  <2>2. Passed(k) + (i + 1) = Passed(k)' + i
    BY <1>2, <1>4
  <2> QED
    BY <2>1, <2>2, <1>1, <1>6
<1>8. /\ held \intersect Own(k) \subseteq Acquired(k) \union Leak
      /\ Acquired(k) \subseteq held \union Minor
  BY DEF FullInv, Progress
<1>9. /\ held' \intersect Own(k) \subseteq Acquired(k)' \union Leak
      /\ Acquired(k)' \subseteq held' \union Minor
  BY <1>5, <1>8
<1>10. Passed(k)' \in Nat
  BY <1>2, <1>4
<1>11. /\ ~Leaves(k)' /\ phase'[k] = "loading"
  BY DEF Leaves
<1> QED
  BY <1>3, <1>7, <1>9, <1>10, <1>11 DEF Progress

\* A control that is in a script is one that the driver has.
LEMMA InUse ==
  ASSUME FullInv, NEW k \in Control, phase[k] # "out"
  PROVE  Used(k)
  BY DEF FullInv, Partition

\* One control moves, within its own resources.
LEMMA OneMoves ==
  ASSUME FullInv, NEW k \in Control, Used(k), driver' = driver, Progress(k)',
         \A j \in Control \ {k} : phase'[j] = phase[j] /\ todo'[j] = todo[j],
         \A j \in Control \ {k} : Used(j) =>
           held' \intersect Own(j) = held \intersect Own(j)
  PROVE  \A j \in Control : Used(j)' => Progress(j)'
<1> SUFFICES ASSUME NEW j \in Control, Used(j), j # k
             PROVE  Progress(j)'
  BY SameDriver
<1> QED
  BY OthersProgress

\* Only what a control acquires is new.
LEMMA PartitionStays ==
  ASSUME FullInv, NEW k \in Control, Used(k), driver' = driver,
         held' \subseteq held \union Own(k),
         \A j \in Control \ {k} : phase'[j] = phase[j]
  PROVE  Partition'
<1>1. \A j \in Control : Own(j)' = Own(j) /\ Used(j)' = Used(j)
  BY SameDriver
<1>2. Partition
  BY DEF FullInv
<1> QED
  BY <1>1, <1>2 DEF Partition

\* Start: nothing is acquired yet.
LEMMA StartStep ==
  ASSUME FullInv, ~crashed, NEW k \in Control, Start(k)
  PROVE  FullInv'
<1>t. TypeOK /\ driver \in Driver /\ Partition /\ Kept /\ MiscLast /\ Served
  BY DEF FullInv, TypeOK
<1>1. /\ phase[k] = "out" /\ driver' = driver /\ held' = held /\ file' = file
      /\ stale' = stale /\ crashed' = crashed
      /\ phase' = [phase EXCEPT ![k] = "loading"]
      /\ todo' = [todo EXCEPT ![k] = Load(k)]
  BY DEF Start, Enter, Load
<1>2. Used(k)
  <2>1. CASE k = "device"
    <3>1. PICK j \in Control : Used(j) /\ "pdev" \in Own(j)
      BY <2>1, <1>t DEF Start, Partition
    <3>2. driver # "ch12" => j = "module" /\ "pdev" \notin Own("module")
      BY <3>1, <1>t, NoPlatform, OwnApart
    <3> QED
      BY <3>1, <3>2 DEF Used
  <2> QED
    BY <2>1 DEF Start, Used, Control
<1>3. /\ Load(k) \in Seq(Resource) /\ Len(Load(k)) \in Nat
      /\ phase'[k] = "loading" /\ todo'[k] = Load(k)
  <2>1. Load(k) \in Seq(Resource)
    BY <1>t, <1>2, AllFit DEF Fits
  <2> QED
    BY <2>1, <1>1, <1>t, LenProperties DEF TypeOK
<1>4. TypeOK'
  BY <1>t, <1>1, <1>3 DEF TypeOK, Phases
<1>5. Progress(k)'
  <2>1. Load(k)' = Load(k) /\ Own(k)' = Own(k) /\ Leak' = Leak
    BY <1>1, SameDriver
  <2>2. Passed(k)' = 0
    BY <2>1, <1>3 DEF Passed
  <2>3. Acquired(k)' = {}
    BY <2>2 DEF Acquired
  <2>4. held' \intersect Own(k) \subseteq Leak
    BY <1>1, <1>2 DEF FullInv, Progress
  <2>5. ~Leaves(k)'
    BY <1>3 DEF Leaves
  <2>6. \A i \in 1 .. Len(todo'[k]) : todo'[k][i] = Load(k)[0 + i]
    BY <1>3
  <2> QED
    BY <2>1, <2>2, <2>3, <2>4, <2>5, <2>6, <1>3 DEF Progress
<1>6. \A j \in Control \ {k} : phase'[j] = phase[j] /\ todo'[j] = todo[j]
  BY <1>t, <1>1 DEF TypeOK
<1>7. Partition' /\ \A j \in Control : Used(j)' => Progress(j)'
  BY <1>1, <1>2, <1>5, <1>6, OneMoves, PartitionStays
<1>8. Kept'
  <2>1. phase'["module"] \in {phase["module"], "loading"}
    BY <1>t, <1>1 DEF TypeOK, Control
  <2> QED
    BY <2>1, <1>t, <1>1 DEF Kept
<1>9. MiscLast'
  <2>1. Leaves("device")' => Leaves("device") /\ todo'["device"] = todo["device"]
    BY <1>3, <1>6 DEF Leaves, Control
  <2> QED
    BY <2>1, <1>t, <1>1 DEF MiscLast
<1>10. Served'
  <2>1. phase["module"] = "loading" => phase'["module"] = "loading"
    BY <1>t, <1>1 DEF TypeOK, Control
  <2> QED
    BY <2>1, <1>t, <1>1, SameDriver DEF Served
<1>11. SafeOnceLoaded'
  BY <1>1 DEF FullInv, SafeOnceLoaded
<1> QED
  BY <1>4, <1>7, <1>8, <1>9, <1>10, <1>11 DEF FullInv

\* Acquire: the next resource of the script.
LEMMA AcquireStep ==
  ASSUME FullInv, ~crashed, NEW k \in Control, Acquire(k)
  PROVE  FullInv'
<1> DEFINE x == Head(todo[k])
<1>t. TypeOK /\ driver \in Driver /\ Kept /\ MiscLast /\ Served
  BY DEF FullInv, TypeOK
<1>1. /\ phase[k] = "loading" /\ todo[k] # <<>> /\ driver' = driver /\ phase' = phase
      /\ file' = file /\ stale' = stale /\ crashed' = crashed
      /\ held' = held \union {x} /\ todo' = [todo EXCEPT ![k] = Tail(todo[k])]
  BY DEF Acquire
<1>2. Used(k)
  BY <1>1, InUse
<1>3. x \in Own(k) /\ todo'[k] = Tail(todo[k]) /\ phase'[k] = "loading"
  BY <1>t, <1>1, <1>2, LoadPlace DEF TypeOK
<1>4. TypeOK'
  <2>1. x \in Resource /\ Tail(todo[k]) \in Seq(Resource)
    BY <1>t, <1>1, FirstAndRest DEF TypeOK
  <2> QED
    BY <2>1, <1>t, <1>1 DEF TypeOK
<1>5. Progress(k)'
  BY <1>1, <1>2, <1>3, NextPlace
<1>6. \A j \in Control \ {k} : phase'[j] = phase[j] /\ todo'[j] = todo[j]
  BY <1>t, <1>1 DEF TypeOK
<1>7. \A j \in Control \ {k} : Used(j) =>
        held' \intersect Own(j) = held \intersect Own(j)
  BY <1>t, <1>1, <1>2, <1>3, OwnApart
<1>8. Partition' /\ \A j \in Control : Used(j)' => Progress(j)'
  BY <1>1, <1>2, <1>3, <1>5, <1>6, <1>7, OneMoves, PartitionStays
<1>9. Kept'
  BY <1>t, <1>1 DEF Kept
<1>10. MiscLast'
  <2>1. SUFFICES ASSUME driver = "ch12", "misc" \in held'
                 PROVE  /\ {"mem", "mutex", "queues"} \subseteq held'
                        /\ Leaves("device")' => /\ todo'["device"] # <<>>
                                                /\ Head(todo'["device"]) = "misc"
    BY <1>1 DEF MiscLast
  <2>2. CASE "misc" \in held
    <3>1. Leaves("device")' => Leaves("device") /\ todo'["device"] = todo["device"]
      BY <1>1, <1>6 DEF Leaves, Control
    <3> QED
      BY <2>1, <2>2, <3>1, <1>t, <1>1 DEF MiscLast
  <2>3. CASE "misc" \notin held
    <3>1. x = "misc" /\ k = "device"
      BY <2>1, <2>3, <1>1, <1>3, PlatformScripts DEF Control
    <3>2. /\ Load("device")[Passed("device") + 1] = "misc"
          /\ Passed("device") + 1 \in 1 .. 4
      BY <3>1, <1>1, <1>2, <2>1, LoadPlace, PlatformScripts
    <3>3. Passed("device") \in Nat
      BY <3>1, <1>1, <1>2, LoadPlace
    <3>4. Passed("device") = 3
      BY <3>2, <3>3, <2>1, PlatformScripts
    <3>5. {"mem", "mutex", "queues"} = Acquired("device")
      BY <3>4, <2>1, PlatformScripts DEF Acquired
    <3>6. Acquired("device") \subseteq held \union Minor
      BY <3>1, <1>1, <1>2 DEF FullInv, Progress
    <3>7. {"mem", "mutex", "queues"} \subseteq held
      BY <3>5, <3>6, MinorsApart DEF Named
    <3>8. ~Leaves("device")'
      BY <3>1, <1>3 DEF Leaves
    <3> QED
      BY <3>7, <3>8, <1>1
  <2> QED
    BY <2>2, <2>3
<1>11. Served'
  BY <1>t, <1>1, SameDriver DEF Served
<1>12. SafeOnceLoaded'
  BY <1>1 DEF FullInv, SafeOnceLoaded
<1> QED
  BY <1>4, <1>8, <1>9, <1>10, <1>11, <1>12 DEF FullInv

\* AcquireFails: the list for a failure there covers what was acquired.
LEMMA AcquireFailsStep ==
  ASSUME FullInv, ~crashed, NEW k \in Control, AcquireFails(k)
  PROVE  FullInv'
<1> DEFINE x == Head(todo[k])
<1>t. TypeOK /\ driver \in Driver /\ Kept /\ MiscLast /\ Served
  BY DEF FullInv, TypeOK
<1>1. /\ phase[k] = "loading" /\ todo[k] # <<>> /\ driver' = driver /\ held' = held
      /\ file' = file /\ stale' = stale /\ crashed' = crashed
  BY DEF AcquireFails
<1>2. Used(k) /\ Fits(k) /\ Progress(k)
  BY <1>t, <1>1, InUse, AllFit DEF FullInv
<1>3. /\ Passed(k) \in Nat /\ Passed(k) + 1 \in 1 .. Len(Load(k))
      /\ x = Load(k)[Passed(k) + 1] /\ Len(Load(k)) \in Nat
  BY <1>1, <1>2, LoadPlace
<1>4. \A j \in Control \ {k} : phase'[j] = phase[j] /\ todo'[j] = todo[j]
  BY <1>t DEF AcquireFails, Enter, TypeOK
<1>5. SafeOnceLoaded'
  BY <1>1 DEF FullInv, SafeOnceLoaded
<1>6. CASE x \in DOMAIN Fail(k)
  <2>1. /\ phase' = [phase EXCEPT ![k] = "failing"]
        /\ todo' = [todo EXCEPT ![k] = Fail(k)[x]]
    BY <1>6 DEF AcquireFails, Enter, Fail
  <2>2. /\ Fail(k)[x] \in Seq(Resource)
        /\ phase'[k] = "failing" /\ todo'[k] = Fail(k)[x]
    BY <1>t, <1>2, <1>6, <2>1 DEF Fits, TypeOK
  <2>3. TypeOK'
    BY <1>t, <1>1, <2>1, <2>2 DEF TypeOK, Phases
  <2>4. held \intersect Own(k) \subseteq Acquired(k) \union Leak
    BY <1>1, <1>2 DEF Progress
  <2>5. Acquired(k) \subseteq Covered(Fail(k)[x]) \union Leak
    <3>1. ASSUME NEW i \in 1 .. Passed(k)
          PROVE  Load(k)[i] \in Covered(Fail(k)[x]) \union Leak
      <4>1. i \in 1 .. (Passed(k) + 1) - 1
        BY <1>3
      <4> QED
        BY <4>1, <1>2, <1>3, <1>6 DEF Fits
    <3> QED
      BY <3>1 DEF Acquired
  <2>6. Progress(k)'
    <3>1. Own(k)' = Own(k) /\ Leak' = Leak
      BY <1>1, SameDriver
    <3>2. held' \intersect Own(k) \subseteq Covered(todo'[k]) \union Leak
      BY <1>1, <2>2, <2>4, <2>5
    <3>3. Covered(todo[k])' = Covered(todo'[k]) /\ ToSet(todo[k])' = ToSet(todo'[k])
      BY DEF Covered, ToSet, Gone
    <3> QED
      BY <1>2, <1>6, <2>2, <3>1, <3>2, <3>3 DEF Progress, Fits
  <2>7. Partition' /\ \A j \in Control : Used(j)' => Progress(j)'
    BY <1>1, <1>2, <1>4, <2>6, OneMoves, PartitionStays
  <2>8. driver \in CharDriver => k = "module" /\ "mem" \notin held
    <3>1. SUFFICES ASSUME driver \in CharDriver
                   PROVE  k = "module" /\ "mem" \notin held
      OBVIOUS
    <3>2. k = "module"
      BY <3>1, <1>2, <1>t, CharFacts, OwnApart
    <3>3. "mem" \in Own("module") /\ Leak = {}
      BY <3>1, CharFacts
    <3>4. ASSUME NEW i \in 1 .. Passed(k)
          PROVE  Load(k)[i] # "mem"
      <4>1. i \in 1 .. (Passed(k) + 1) - 1
        BY <1>3
      <4> QED
        BY <4>1, <3>1, <3>2, <1>3, <1>6, CharFacts
    <3>5. "mem" \notin Acquired(k)
      BY <3>4 DEF Acquired
    <3> QED
      BY <3>2, <3>3, <3>5, <2>4
  <2>9. driver \in CharDriver => \A t \in Task : file[t] = "closed"
    BY <2>8, <1>t, CharFacts DEF Kept
  <2>10. Kept'
    BY <2>9, <1>t, <1>1, Scripts DEF Kept
  <2>11. MiscLast'
    <3>1. SUFFICES ASSUME driver = "ch12", "misc" \in held, Leaves("device")'
                   PROVE  /\ todo'["device"] # <<>>
                          /\ Head(todo'["device"]) = "misc"
      BY <1>t, <1>1 DEF MiscLast
    <3>2. CASE k = "device"
      <4>1. "misc" \in Acquired(k)
        BY <2>4, <3>1, <3>2, PlatformScripts, OtherFacts
      <4>2. PICK i \in 1 .. Passed(k) : Load(k)[i] = "misc"
        BY <4>1 DEF Acquired
      <4>3. i \in 1 .. 3
        BY <1>3, <3>1, <3>2, PlatformScripts
      <4> QED
        BY <4>2, <4>3, <3>1, <3>2, PlatformScripts
    <3>3. CASE k # "device"
      <4>1. Leaves("device") /\ todo'["device"] = todo["device"]
        BY <1>4, <3>1, <3>3 DEF Leaves, Control
      <4> QED
        BY <4>1, <3>1, <1>t DEF MiscLast
    <3> QED
      BY <3>2, <3>3
  <2>12. Served'
    <3>1. CASE driver \in CharDriver
      BY <2>9, <3>1, <1>1 DEF Served
    <3>2. CASE driver \notin CharDriver
      <4>1. driver \notin EarlyCdev
        BY <3>2 DEF EarlyCdev, CharDriver
      <4> QED
        BY <4>1, <1>t, <1>1, SameDriver DEF Served
    <3> QED
      BY <3>1, <3>2
  <2> QED
    BY <2>3, <2>7, <2>10, <2>11, <2>12, <1>5 DEF FullInv
<1>7. CASE x \notin DOMAIN Fail(k)
  <2>1. /\ x \in Minor /\ phase' = [phase EXCEPT ![k] = "loading"]
        /\ todo' = [todo EXCEPT ![k] = Tail(todo[k])]
    BY <1>7 DEF AcquireFails, Enter, Fail
  <2>2. phase' = phase /\ todo'[k] = Tail(todo[k])
    BY <2>1, <1>1, <1>t DEF TypeOK
  <2>3. TypeOK'
    <3>1. Tail(todo[k]) \in Seq(Resource)
      BY <1>t, <1>1, FirstAndRest DEF TypeOK
    <3> QED
      BY <3>1, <2>1, <2>2, <1>t, <1>1 DEF TypeOK
  <2>4. Progress(k)'
    BY <1>1, <1>2, <2>1, <2>2, NextPlace
  <2>5. Partition' /\ \A j \in Control : Used(j)' => Progress(j)'
    BY <1>1, <1>2, <1>4, <2>4, OneMoves, PartitionStays
  <2>6. Kept' /\ Served'
    BY <2>2, <1>t, <1>1, SameDriver DEF Kept, Served
  <2>7. MiscLast'
    <3>1. Leaves("device")' => Leaves("device") /\ todo'["device"] = todo["device"]
      BY <1>1, <2>2, <1>4 DEF Leaves, Control
    <3> QED
      BY <3>1, <1>t, <1>1 DEF MiscLast
  <2> QED
    BY <2>3, <2>5, <2>6, <2>7, <1>5 DEF FullInv
<1> QED
  BY <1>6, <1>7

\* Loaded: all of the script is passed, and the device complete.
LEMMA LoadedStep ==
  ASSUME FullInv, ~crashed, NEW k \in Control, Loaded(k)
  PROVE  FullInv'
<1>t. TypeOK /\ driver \in Driver /\ Kept /\ MiscLast /\ Served
  BY DEF FullInv, TypeOK
<1>1. /\ phase[k] = "loading" /\ todo[k] = <<>> /\ driver' = driver /\ held' = held
      /\ file' = file /\ stale' = stale /\ crashed' = crashed
      /\ phase' = [phase EXCEPT ![k] = "live"] /\ todo' = [todo EXCEPT ![k] = <<>>]
  BY DEF Loaded, Enter
<1>2. Used(k) /\ Progress(k)
  BY <1>1, InUse DEF FullInv
<1>3. phase'[k] = "live" /\ todo' = todo
  BY <1>t, <1>1 DEF TypeOK
<1>4. TypeOK'
  BY <1>t, <1>1, <1>3 DEF TypeOK, Phases
<1>5. Own(k) \subseteq held \union Minor
  BY <1>1, <1>2, LoadPlace DEF Progress
<1>6. Progress(k)'
  <2>1. Own(k)' = Own(k) /\ Leak' = Leak
    BY <1>1, SameDriver
  <2> QED
    BY <2>1, <1>1, <1>3, <1>5 DEF Progress, Leaves
<1>7. \A j \in Control \ {k} : phase'[j] = phase[j] /\ todo'[j] = todo[j]
  BY <1>t, <1>1 DEF TypeOK
<1>8. Partition' /\ \A j \in Control : Used(j)' => Progress(j)'
  BY <1>1, <1>2, <1>6, <1>7, OneMoves, PartitionStays
<1>9. Kept'
  <2>1. phase'["module"] \in {phase["module"], "live"}
    BY <1>t, <1>1 DEF TypeOK, Control
  <2> QED
    BY <2>1, <1>t, <1>1 DEF Kept
<1>10. MiscLast'
  <2>1. Leaves("device")' => Leaves("device") /\ todo'["device"] = todo["device"]
    BY <1>3, <1>7 DEF Leaves, Control
  <2> QED
    BY <2>1, <1>t, <1>1 DEF MiscLast
<1>11. Served'
  <2>1. CASE driver \in CharDriver
    <3>1. k = "module"
      BY <2>1, <1>2, <1>t, CharFacts, OwnApart
    <3>2. Needs \subseteq held
      BY <2>1, <3>1, <1>5, CharFacts, MinorsApart DEF Named
    <3> QED
      BY <3>2, <1>1, SameDriver DEF Served
  <2>2. CASE driver \notin CharDriver
    <3>1. driver \notin EarlyCdev
      BY <2>2 DEF EarlyCdev, CharDriver
    <3> QED
      BY <3>1, <1>t, <1>1, SameDriver DEF Served
  <2> QED
    BY <2>1, <2>2
<1>12. SafeOnceLoaded'
  BY <1>1 DEF FullInv, SafeOnceLoaded
<1> QED
  BY <1>4, <1>8, <1>9, <1>10, <1>11, <1>12 DEF FullInv

\* Stop: the exit gives back whatever the script may have acquired.
LEMMA StopStep ==
  ASSUME FullInv, ~crashed, NEW k \in Control, Stop(k)
  PROVE  FullInv'
<1>t. TypeOK /\ driver \in Driver /\ Kept /\ MiscLast /\ Served
  BY DEF FullInv, TypeOK
<1>1. /\ phase[k] = "live" /\ driver' = driver /\ held' = held
      /\ file' = file /\ stale' = stale /\ crashed' = crashed
      /\ phase' = [phase EXCEPT ![k] = "unloading"] /\ todo' = [todo EXCEPT ![k] = Exit(k)]
      /\ k = "module" => ~Busy
  BY DEF Stop, Enter, Exit
<1>2. Used(k) /\ Fits(k)
  BY <1>t, <1>1, InUse, AllFit
<1>3. phase'[k] = "unloading" /\ todo'[k] = Exit(k) /\ Exit(k) \in Seq(Resource)
  BY <1>t, <1>1, <1>2 DEF TypeOK, Fits
<1>4. TypeOK'
  BY <1>t, <1>1, <1>3 DEF TypeOK, Phases
<1>5. Progress(k)'
  <2>1. Own(k)' = Own(k) /\ Leak' = Leak
    BY <1>1, SameDriver
  <2>2. Covered(todo[k])' = Covered(todo'[k]) /\ ToSet(todo[k])' = ToSet(todo'[k])
    BY DEF Covered, ToSet, Gone
  <2> QED
    BY <2>1, <2>2, <1>2, <1>3 DEF Progress, Fits
<1>6. \A j \in Control \ {k} : phase'[j] = phase[j] /\ todo'[j] = todo[j]
  BY <1>t, <1>1 DEF TypeOK
<1>7. Partition' /\ \A j \in Control : Used(j)' => Progress(j)'
  BY <1>1, <1>2, <1>5, <1>6, OneMoves, PartitionStays
<1>8. Kept'
  <2>1. CASE k = "module"
    BY <2>1, <1>1 DEF Kept, Busy
  <2>2. CASE k # "module"
    BY <2>2, <1>t, <1>1, <1>6 DEF Kept, Control
  <2> QED
    BY <2>1, <2>2
<1>9. MiscLast'
  <2>1. CASE k = "device"
    BY <2>1, <1>t, <1>1, <1>3, PlatformScripts DEF MiscLast
  <2>2. CASE k # "device"
    <3>1. Leaves("device")' => Leaves("device") /\ todo'["device"] = todo["device"]
      BY <2>2, <1>6 DEF Leaves, Control
    <3> QED
      BY <3>1, <1>t, <1>1 DEF MiscLast
  <2> QED
    BY <2>1, <2>2
<1>10. Served'
  <2>1. phase["module"] = "loading" => phase'["module"] = "loading"
    BY <1>1, <1>6 DEF Control
  <2> QED
    BY <2>1, <1>t, <1>1, SameDriver DEF Served
<1>11. SafeOnceLoaded'
  BY <1>1 DEF FullInv, SafeOnceLoaded
<1> QED
  BY <1>4, <1>7, <1>8, <1>9, <1>10, <1>11 DEF FullInv

\* Out: what is left is covered by nothing, so nothing is.
LEMMA OutStep ==
  ASSUME FullInv, ~crashed, NEW k \in Control, Out(k)
  PROVE  FullInv'
<1>t. TypeOK /\ driver \in Driver /\ Kept /\ MiscLast /\ Served
  BY DEF FullInv, TypeOK
<1>1. /\ Leaves(k) /\ todo[k] = <<>> /\ driver' = driver /\ held' = held
      /\ file' = file /\ stale' = stale /\ crashed' = crashed
      /\ phase' = [phase EXCEPT ![k] = "out"] /\ todo' = [todo EXCEPT ![k] = <<>>]
  BY DEF Out, Enter, Leaves
<1>2. Used(k) /\ Progress(k)
  BY <1>1, InUse DEF FullInv, Leaves
<1>3. phase'[k] = "out" /\ todo' = todo
  BY <1>t, <1>1 DEF TypeOK
<1>4. TypeOK'
  BY <1>t, <1>1, <1>3 DEF TypeOK, Phases
<1>5. Progress(k)'
  <2>1. Own(k)' = Own(k) /\ Leak' = Leak
    BY <1>1, SameDriver
  <2>2. held \intersect Own(k) \subseteq Leak
    BY <1>1, <1>2, CoverNone DEF Progress
  <2> QED
    BY <2>1, <2>2, <1>1, <1>3 DEF Progress, Leaves
<1>6. \A j \in Control \ {k} : phase'[j] = phase[j] /\ todo'[j] = todo[j]
  BY <1>t, <1>1 DEF TypeOK
<1>7. Partition' /\ \A j \in Control : Used(j)' => Progress(j)'
  BY <1>1, <1>2, <1>5, <1>6, OneMoves, PartitionStays
<1>8. Kept'
  <2>1. k = "module" => phase["module"] \notin {"loading", "live"}
    BY <1>1 DEF Leaves
  <2>2. k # "module" => phase'["module"] = phase["module"]
    BY <1>6 DEF Control
  <2> QED
    BY <2>1, <2>2, <1>t, <1>1 DEF Kept
<1>9. MiscLast'
  <2>1. Leaves("device")' => Leaves("device") /\ todo'["device"] = todo["device"]
    BY <1>3, <1>6 DEF Leaves, Control
  <2> QED
    BY <2>1, <1>t, <1>1 DEF MiscLast
<1>10. Served'
  <2>1. phase["module"] = "loading" => phase'["module"] = "loading"
    BY <1>1, <1>6 DEF Control, Leaves
  <2> QED
    BY <2>1, <1>t, <1>1, SameDriver DEF Served
<1>11. SafeOnceLoaded'
  BY <1>1 DEF FullInv, SafeOnceLoaded
<1> QED
  BY <1>4, <1>7, <1>8, <1>9, <1>10, <1>11 DEF FullInv

\* GiveUp: what goes is covered no longer, and is not there any more.
LEMMA GiveUpStep ==
  ASSUME FullInv, ~crashed, NEW k \in Control, GiveUp(k)
  PROVE  FullInv'
<1> DEFINE x == Head(todo[k])
<1>t. TypeOK /\ driver \in Driver /\ Kept /\ MiscLast /\ Served /\ SafeOnceLoaded
  BY DEF FullInv, TypeOK
<1>1. /\ Leaves(k) /\ todo[k] # <<>> /\ driver' = driver /\ phase' = phase
      /\ held' = held \ Gone(x) /\ todo' = [todo EXCEPT ![k] = Tail(todo[k])]
      /\ stale' = IF x = "mem" THEN {t \in Task : file[t] # "closed"} ELSE stale
      /\ file' = file /\ crashed' = crashed
  BY DEF GiveUp, Leaves
<1>2. Used(k) /\ Progress(k)
  BY <1>1, InUse DEF FullInv, Leaves
<1>3. /\ todo'[k] = Tail(todo[k]) /\ Tail(todo[k]) \in Seq(Resource)
      /\ Covered(todo[k]) = Gone(x) \union Covered(Tail(todo[k]))
      /\ ToSet(todo[k]) = {x} \union ToSet(Tail(todo[k]))
  BY <1>t, <1>1, FirstAndRest, CoverRest DEF TypeOK
<1>4. x \in Own(k) /\ x \notin {"mutex", "queues"}
  BY <1>1, <1>2, <1>3 DEF Progress
<1>5. TypeOK'
  BY <1>t, <1>1, <1>3 DEF TypeOK
<1>6. Progress(k)'
  <2>1. Own(k)' = Own(k) /\ Leak' = Leak
    BY <1>1, SameDriver
  <2>2. Covered(todo[k])' = Covered(todo'[k]) /\ ToSet(todo[k])' = ToSet(todo'[k])
    BY DEF Covered, ToSet, Gone
  <2>3. /\ held' \intersect Own(k) \subseteq Covered(todo'[k]) \union Leak
        /\ ToSet(todo'[k]) \subseteq Own(k) \ {"mutex", "queues"}
        /\ phase[k] = "failing" /\ k = "module" => ToSet(todo'[k]) \subseteq {"region"}
    BY <1>1, <1>2, <1>3 DEF Progress
  <2> QED
    BY <2>1, <2>2, <2>3, <1>1 DEF Progress, Leaves
<1>7. \A j \in Control \ {k} : phase'[j] = phase[j] /\ todo'[j] = todo[j]
  BY <1>t, <1>1 DEF TypeOK
<1>8. \A j \in Control \ {k} : Used(j) =>
        held' \intersect Own(j) = held \intersect Own(j)
  BY <1>t, <1>1, <1>2, <1>4, OwnApart
<1>9. Partition' /\ \A j \in Control : Used(j)' => Progress(j)'
  BY <1>1, <1>2, <1>6, <1>7, <1>8, OneMoves, PartitionStays
<1>10. driver \in CharDriver => \A t \in Task : file[t] = "closed"
  <2>1. driver \in CharDriver => k = "module"
    BY <1>2, <1>t, CharFacts, OwnApart
  <2> QED
    BY <2>1, <1>t, <1>1, CharFacts DEF Kept, Leaves
<1>11. Kept'
  BY <1>10, <1>1, <1>t, Scripts DEF Kept
<1>12. MiscLast'
  <2>1. SUFFICES ASSUME driver = "ch12", "misc" \in held'
                 PROVE  /\ {"mem", "mutex", "queues"} \subseteq held'
                        /\ Leaves("device")' => /\ todo'["device"] # <<>>
                                                /\ Head(todo'["device"]) = "misc"
    BY <1>1 DEF MiscLast
  <2>2. "misc" \in held /\ {"mem", "mutex", "queues"} \subseteq held
        /\ (Leaves("device") => /\ todo["device"] # <<>>
                                /\ Head(todo["device"]) = "misc")
    BY <2>1, <1>1, <1>t DEF MiscLast
  <2>3. k # "device"
    <3>1. ASSUME k = "device" PROVE FALSE
      <4>1. x = "misc"
        BY <3>1, <2>2, <1>1
      <4> QED
        BY <4>1, <2>1, <1>1 DEF Gone
    <3> QED
      BY <3>1
  <2>4. "device" \in Control \ {k} /\ Used("device")
    BY <2>1, <2>3 DEF Control, Used
  <2>5. {"mem", "mutex", "queues"} \subseteq held'
    BY <2>1, <2>2, <2>4, <1>8, PlatformScripts
  <2> QED
    BY <2>2, <2>4, <2>5, <1>7 DEF Leaves
<1>13. Served'
  <2>1. CASE x = "mem"
    BY <2>1, <1>1 DEF Served
  <2>2. CASE x # "mem" /\ driver \in CharDriver
    BY <2>2, <1>10, <1>1 DEF Served
  <2>3. CASE x # "mem" /\ driver \notin CharDriver
    <3>1. Gone(x) = {x} /\ stale' = stale
      BY <2>3, <1>1 DEF Gone
    <3>2. Needs \subseteq {"mem", "mutex", "queues"} /\ driver \notin EarlyCdev
      BY <2>3, <1>t, Scripts, OtherFacts DEF EarlyCdev, CharDriver
    <3>3. x \notin Needs
      BY <3>2, <2>3, <1>4
    <3>4. \A t \in Task : file'[t] # "closed" /\ t \notin stale' => Needs \subseteq held'
      BY <3>1, <3>2, <3>3, <1>t, <1>1 DEF Served
    <3> QED
      BY <3>4, <1>1, SameDriver DEF Served
  <2> QED
    BY <2>1, <2>2, <2>3
<1>14. SafeOnceLoaded'
  <2>1. stale' # {} => driver = "ch12"
    <3>1. CASE x # "mem"
      BY <3>1, <1>1, <1>t DEF SafeOnceLoaded
    <3>2. CASE x = "mem" /\ driver \in CharDriver
      BY <3>2, <1>10, <1>1
    <3>3. CASE x = "mem" /\ driver = "proc"
      BY <3>3, <1>2, <1>4, <1>t, OtherFacts, OwnApart
    <3> QED
      BY <3>1, <3>2, <3>3, <1>t, Scripts
  <2> QED
    BY <2>1, <1>1 DEF SafeOnceLoaded
<1> QED
  BY <1>5, <1>9, <1>11, <1>12, <1>13, <1>14 DEF FullInv

\* What a task does changes nothing of the controls.
LEMMA TasksLeave ==
  ASSUME FullInv, UNCHANGED <<driver, ctrl, held>>
  PROVE  /\ Partition' /\ MiscLast'
         /\ \A j \in Control : Used(j)' => Progress(j)'
<1>1. driver' = driver /\ phase' = phase /\ todo' = todo /\ held' = held
  BY DEF ctrl
<1>2. \A j \in Control : /\ Own(j)' = Own(j) /\ Used(j)' = Used(j)
                         /\ Leaves(j)' = Leaves(j)
  BY <1>1, SameDriver DEF Leaves
<1>3. Partition' /\ MiscLast'
  BY <1>1, <1>2 DEF FullInv, Partition, MiscLast, Control
<1>4. \A j \in Control : Used(j) => Progress(j)'
  BY <1>1, OthersProgress
<1> QED
  BY <1>2, <1>3, <1>4

\* A device that can be found is complete, or still loading.
LEMMA OpenStep ==
  ASSUME FullInv, ~crashed, NEW t \in Task, Open(t)
  PROVE  FullInv'
<1>t. TypeOK /\ driver \in Driver /\ Partition /\ Kept /\ MiscLast /\ Served
  BY DEF FullInv, TypeOK
<1>1. /\ file[t] = "closed" /\ file' = [file EXCEPT ![t] = "open"]
      /\ UNCHANGED <<driver, ctrl, held>> /\ driver' = driver /\ phase' = phase
      /\ held' = held /\ stale' = stale /\ crashed' = crashed
      /\ phase["module"] # "unloading"
  BY DEF Open, ctrl
<1>2. TypeOK'
  BY <1>t, <1>1 DEF TypeOK, ctrl
<1>3. PICK y \in held : y \in Minor \union {"misc", "entry"}
  BY DEF Open
<1>4. driver \in CharDriver =>
        /\ "mem" \in held /\ phase["module"] \in {"loading", "live"}
        /\ Needs \subseteq held \/ (driver \in EarlyCdev /\ phase["module"] = "loading")
  <2>1. SUFFICES ASSUME driver \in CharDriver
                 PROVE  /\ "mem" \in held /\ phase["module"] \in {"loading", "live"}
                        /\ \/ Needs \subseteq held
                           \/ driver \in EarlyCdev /\ phase["module"] = "loading"
    OBVIOUS
  <2>2. y \in Own("module") /\ y \in Minor
    <3>1. y \in Own("module")
      BY <2>1, <1>3, <1>t, CharFacts DEF Partition, Used
    <3> QED
      BY <2>1, <3>1, <1>3, CharFacts, MinorsApart DEF Named
  <2>3. Used("module") /\ "module" \in Control /\ Progress("module")
    BY DEF Used, Control, FullInv
  <2>4. y \notin {"region", "mem", "mutex", "queues"} /\ "mem" \notin Minor
    BY <2>2, MinorsApart DEF Named
  <2>5. phase["module"] # "out"
    BY <2>1, <2>2, <2>3, <1>3, CharFacts DEF Progress
  <2>6. phase["module"] # "failing"
    <3>1. SUFFICES ASSUME phase["module"] = "failing" PROVE FALSE
      OBVIOUS
    <3>2. ToSet(todo["module"]) \subseteq {"region"}
      BY <3>1, <2>3 DEF Progress
    <3>3. Covered(todo["module"]) \subseteq {"region"}
      BY <3>2 DEF Covered, ToSet, Gone
    <3>4. y \in Covered(todo["module"])
      BY <3>1, <2>1, <2>2, <2>3, <1>3, CharFacts DEF Progress, Leaves
    <3> QED
      BY <3>3, <3>4, <2>4
  <2>7. CASE phase["module"] = "loading"
    <3>1. /\ y \in Acquired("module") /\ Passed("module") \in Nat
          /\ Acquired("module") \subseteq held \union Minor
      BY <2>1, <2>2, <2>3, <2>7, <1>3, CharFacts DEF Progress
    <3>2. PICK i \in 1 .. Passed("module") : Load("module")[i] = y
      BY <3>1 DEF Acquired
    <3>3. i # 1 /\ 2 \in 1 .. Passed("module")
      BY <3>1, <3>2, <2>1, <2>4, CharFacts
    <3>4. "mem" \in Acquired("module")
      BY <3>3, <2>1, CharFacts DEF Acquired
    <3>5. "mem" \in held
      BY <3>1, <3>4, <2>4
    <3> QED
      BY <3>5, <2>1, <2>7, CharFacts
  <2>8. CASE phase["module"] = "live"
    <3>1. Own("module") \subseteq held \union Minor
      BY <2>3, <2>8 DEF Progress
    <3>2. Needs \subseteq held /\ "mem" \in held
      BY <3>1, <2>1, <2>4, CharFacts, MinorsApart DEF Named
    <3> QED
      BY <3>2, <2>8
  <2>9. phase["module"] \in Phases
    BY <1>t, <2>3 DEF TypeOK
  <2> QED
    BY <2>5, <2>6, <2>7, <2>8, <2>9, <1>1 DEF Phases
<1>5. driver \notin CharDriver => Needs \subseteq held
  <2>1. CASE driver = "proc"
    BY <2>1, OtherFacts
  <2>2. CASE driver = "ch12"
    <3>1. y \in Own("module") \union Own("devmodule") \union Own("device")
      BY <1>3, <1>t DEF Partition, Control
    <3>2. y = "misc"
      BY <3>1, <2>2, <1>3, PlatformScripts, MinorsApart DEF Named
    <3> QED
      BY <3>2, <2>2, <1>t, OtherFacts DEF MiscLast
  <2> QED
    BY <2>1, <2>2, <1>t, Scripts
<1>6. Kept'
  BY <1>t, <1>1, <1>4, Scripts DEF Kept, TypeOK
<1>7. Served'
  <2>1. \/ Needs \subseteq held
        \/ driver \in EarlyCdev /\ phase["module"] = "loading"
    BY <1>4, <1>5
  <2>2. \A u \in Task : u # t => file'[u] = file[u]
    BY <1>1, <1>t DEF TypeOK
  <2>3. Needs' = Needs
    BY <1>1, SameDriver
  <2> QED
    BY <2>1, <2>2, <2>3, <1>t, <1>1 DEF Served
<1>8. SafeOnceLoaded'
  BY <1>1 DEF FullInv, SafeOnceLoaded
<1> QED
  BY <1>1, <1>2, <1>6, <1>7, <1>8, TasksLeave DEF FullInv

\* A handler or release that touches no more than handlers need.
LEMMA TouchStep ==
  ASSUME FullInv, ~crashed, NEW t \in Task, NEW what, what \subseteq Needs,
         NEW next \in {"closed", "open", "in"}, file[t] # "closed",
         Touch(t, what, next), UNCHANGED <<driver, ctrl, held>>
  PROVE  FullInv'
<1>t. TypeOK /\ Kept /\ Served /\ SafeOnceLoaded
  BY DEF FullInv
<1>1. driver' = driver /\ phase' = phase /\ todo' = todo /\ held' = held
  BY DEF ctrl
<1>2. Needs' = Needs
  BY <1>1, SameDriver
<1>3. CASE what \subseteq held /\ (t \in stale => what = {})
  <2>1. /\ file' = [file EXCEPT ![t] = next] /\ crashed' = crashed
        /\ stale' = IF next = "closed" THEN stale \ {t} ELSE stale
    BY <1>3 DEF Touch
  <2>2. TypeOK'
    BY <2>1, <1>t, <1>1 DEF TypeOK
  <2>3. \A u \in Task : file'[u] # "closed" => file[u] # "closed"
    BY <2>1, <1>t DEF TypeOK
  <2>4. \A u \in Task : file'[u] # "closed" /\ u \notin stale' => u \notin stale
    BY <2>1, <1>t DEF TypeOK
  <2>5. Kept' /\ Served'
    BY <2>3, <2>4, <1>t, <1>1, <1>2 DEF Kept, Served
  <2>6. SafeOnceLoaded'
    BY <2>1, <1>t, <1>1 DEF SafeOnceLoaded
  <2> QED
    BY <2>2, <2>5, <2>6, TasksLeave DEF FullInv
<1>4. CASE ~(what \subseteq held /\ (t \in stale => what = {}))
  <2>1. file' = file /\ stale' = stale /\ crashed' = TRUE
    BY <1>4 DEF Touch
  <2>2. TypeOK' /\ Kept' /\ Served'
    BY <2>1, <1>t, <1>1, <1>2 DEF TypeOK, Kept, Served
  <2>3. stale # {} \/ (driver \in EarlyCdev /\ phase["module"] = "loading")
    BY <1>4, <1>t DEF Served
  <2>4. SafeOnceLoaded'
    BY <2>1, <2>3, <1>t, <1>1 DEF SafeOnceLoaded
  <2> QED
    BY <2>2, <2>4, TasksLeave DEF FullInv
<1> QED
  BY <1>3, <1>4

\* What a task does with an open file.
LEMMA CallStep ==
  ASSUME FullInv, ~crashed, NEW t \in Task, Call(t) \/ Return(t) \/ Close(t)
  PROVE  FullInv'
<1>1. CASE Call(t)
  <2>1. file[t] # "closed" /\ Touch(t, Needs, "in") /\ UNCHANGED <<driver, ctrl, held>>
    BY <1>1 DEF Call
  <2> QED
    BY <2>1, TouchStep
<1>2. CASE Return(t)
  <2>1. file[t] # "closed" /\ Touch(t, Needs, "open")
        /\ UNCHANGED <<driver, ctrl, held>>
    BY <1>2 DEF Return
  <2> QED
    BY <2>1, TouchStep
<1>3. CASE Close(t)
  <2> DEFINE what == IF driver \in {"ch9", "ch12"} THEN {"mem"} ELSE {}
  <2>1. file[t] # "closed" /\ Touch(t, what, "closed")
        /\ UNCHANGED <<driver, ctrl, held>>
    BY <1>3 DEF Close
  <2>2. what \subseteq Needs
    BY DEF Needs
  <2> HIDE DEF what
  <2> QED
    BY <2>1, <2>2, TouchStep
<1> QED
  BY <1>1, <1>2, <1>3

\* Every step keeps the invariant.
LEMMA InvStep == FullInv /\ [Next]_vars => FullInv'
<1> SUFFICES ASSUME FullInv, [Next]_vars PROVE FullInv'
  OBVIOUS
<1>1. CASE Next
  BY <1>1, StartStep, AcquireStep, AcquireFailsStep, LoadedStep, StopStep,
     GiveUpStep,
     OutStep, OpenStep, CallStep DEF Next, KernelStep
<1>2. CASE UNCHANGED vars
  <2>1. /\ UNCHANGED <<driver, ctrl, held>> /\ phase' = phase /\ todo' = todo
        /\ file' = file /\ stale' = stale /\ crashed' = crashed
        /\ driver' = driver /\ held' = held
    BY <1>2 DEF vars, ctrl
  <2>2. TypeOK' /\ Kept' /\ Served' /\ SafeOnceLoaded'
    BY <2>1, SameDriver DEF FullInv, TypeOK, Kept, Served, SafeOnceLoaded
  <2> QED
    BY <2>1, <2>2, TasksLeave DEF FullInv
<1> QED
  BY <1>1, <1>2

\* The inductive invariant of the drivers.
LEMMA LifecycleInvariance == Spec => []FullInv
  BY InitInv, InvStep, PTL DEF Spec

\* Types, and that a load that failed and an unload leave nothing behind,
\* whichever step failed, except that proc.c keeps its directory when
\* proc_create_data fails.
THEOREM LifecycleLeavesNothing == Spec => []Inv
<1>1. FullInv => Inv
  <2> SUFFICES ASSUME FullInv, \A k \in Control : phase[k] = "out"
               PROVE  TypeOK /\ held \subseteq Leak
    BY DEF FullInv, Inv, NothingLeftBehind, Leak
  <2>1. ASSUME NEW x \in held
        PROVE  x \in Leak
    <3>1. PICK k \in Control : Used(k) /\ x \in Own(k)
      BY DEF FullInv, Partition
    <3>2. Progress(k)
      BY <3>1 DEF FullInv
    <3> QED
      BY <3>1, <3>2 DEF Progress
  <2> QED
    BY <2>1 DEF FullInv
<1> QED
  BY <1>1, LifecycleInvariance, PTL

\* Once its load is over no handler and no release of a driver meets memory
\* that is freed, or a mutex or queue that is not initialised, except in a
\* file of ch12 that outlives its device.
THEOREM LifecycleSafeOnceLoaded == Spec => []SafeOnceLoaded
<1>1. FullInv => SafeOnceLoaded
  BY DEF FullInv
<1> QED
  BY <1>1, LifecycleInvariance, PTL
==============================================================================
