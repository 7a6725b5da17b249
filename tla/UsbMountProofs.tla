--------------------------- MODULE UsbMountProofs ---------------------------
(***************************************************************************)
(* Proofs about UsbMount, for any set of partitions, labels and mount      *)
(* points.                                                                 *)
(***************************************************************************)
EXTENDS UsbMount, TLAPS

\* The script of a partition between taking the lock and giving it back.
Holding(p) ==
  script[p].op = "add" /\ script[p].pc \notin {"idle", "lock"}

\* Only an add passes these steps, and only with the lock.
Locked == \A p \in Partitions : Holding(p) => lock = p

\* What a remove can be at.
RemoveSteps ==
  \A p \in Partitions :
    script[p].op = "remove" => script[p].pc \in {"umount", "glob", "test", "rmdir"}
AddSteps ==
  \A p \in Partitions : script[p].pc = "umount" => script[p].op = "remove"

\* A partition that is being mounted is mounted nowhere, and nothing is mounted at
\* the place that was found for it.
NotYetMounted ==
  \A p \in Partitions :
    script[p].pc \in {"evict", "mkdir", "usage", "search", "mount"} =>
      \A m \in mounts : m[1] # p
PlaceIsFree ==
  \A p \in Partitions :
    script[p].pc = "mount" => \A m \in mounts : m[2] # script[p].place

\* A directory is made only for a label.
HasLabel ==
  \A p \in Partitions :
    script[p].pc \in {"evict", "mkdir"} => script[p].info.label # NoLabel

IndInv ==
  /\ TypeOK
  /\ HasLabel
  /\ Locked
  /\ RemoveSteps
  /\ AddSteps
  /\ NotYetMounted
  /\ PlaceIsFree
  /\ OnePerPlace

-----------------------------------------------------------------------------

LEMMA AbsentType == Absent \in Contents
BY DEF Absent, Contents

LEMMA IdleType == Idle \in ScriptState /\ Idle.pc = "idle" /\ Idle.op = "add"
BY AbsentType DEF Idle, ScriptState

LEMMA InitInv == Init => IndInv
<1> SUFFICES ASSUME Init PROVE IndInv  OBVIOUS
<1>1. TypeOK
  <2>1. events \in [Partitions -> Seq({"add", "remove"})]
    BY DEF Init
  <2>2. stick \in [Partitions -> Contents] /\ script \in [Partitions -> ScriptState]
    BY AbsentType, IdleType DEF Init
  <2> QED  BY <2>1, <2>2 DEF Init, TypeOK
<1>2. HasLabel /\ Locked /\ RemoveSteps /\ AddSteps /\ NotYetMounted /\ PlaceIsFree /\ OnePerPlace
  BY IdleType DEF Init, Locked, Holding, RemoveSteps, AddSteps, NotYetMounted, PlaceIsFree,
     OnePerPlace, HasLabel
<1> QED  BY <1>1, <1>2 DEF IndInv

-----------------------------------------------------------------------------

\* The user changes neither the mounts nor a script.
LEMMA UserStep ==
  ASSUME TypeOK, NEW p \in Partitions, User(p)
  PROVE  TypeOK' /\ UNCHANGED <<mounts, script, lock>>
<1>1. \A e \in {"add", "remove"} : Tell(p, e) => events' \in [Partitions -> Seq({"add", "remove"})]
  BY DEF Tell, TypeOK
<1>2. CASE Plug(p)
  <2>1. PICK c \in Contents : stick' = [stick EXCEPT ![p] = c]
    BY <1>2 DEF Plug
  <2>2. stick' \in [Partitions -> Contents]
    BY <2>1 DEF TypeOK
  <2> QED  BY <1>1, <1>2, <2>2 DEF Plug, conf, TypeOK
<1>3. CASE Unplug(p)
  <2>1. stick' \in [Partitions -> Contents]
    BY <1>3, AbsentType DEF Unplug, conf, TypeOK
  <2> QED  BY <1>1, <1>3, <2>1 DEF Unplug, conf, TypeOK
<1>4. CASE Trigger(p)
  BY <1>1, <1>4 DEF Trigger, conf, TypeOK
<1> QED  BY <1>2, <1>3, <1>4 DEF User, Plug, Unplug, Trigger

\* What a step of a script may do to the mounts, the lock and its own state, such
\* that the invariant survives; r is the script's next state.
Step(p, r) ==
  /\ r \in ScriptState
  /\ script' = [script EXCEPT ![p] = r]
  /\ r.op = "remove" => r.pc \in {"umount", "glob", "test", "rmdir"}
  /\ r.pc = "umount" => r.op = "remove"

\* A script that goes on without a mount keeps the invariant.
LEMMA StepKeeps ==
  ASSUME IndInv, TypeOK', NEW p \in Partitions, NEW r, Step(p, r),
         mounts' \subseteq mounts,
         lock' = lock,
         r.op = "add" /\ r.pc \notin {"idle", "lock"} => lock = p,
         r.pc \in {"evict", "mkdir", "usage", "search", "mount"} => \A m \in mounts' : m[1] # p,
         r.pc = "mount" => \A m \in mounts' : m[2] # r.place,
         r.pc \in {"evict", "mkdir"} => r.info.label # NoLabel
  PROVE  IndInv'
<1>1. script'[p] = r /\ \A q \in Partitions \ {p} : script'[q] = script[q]
  BY DEF Step, IndInv, TypeOK
<1>2. Locked'
  BY <1>1 DEF IndInv, Locked, Holding
<1>3. RemoveSteps' /\ AddSteps'
  BY <1>1 DEF IndInv, RemoveSteps, AddSteps, Step
<1>4. NotYetMounted'
  BY <1>1 DEF IndInv, NotYetMounted
<1>5. PlaceIsFree'
  BY <1>1 DEF IndInv, PlaceIsFree
<1>6. OnePerPlace'
  BY DEF IndInv, OnePerPlace
<1>7. HasLabel'
  BY <1>1 DEF IndInv, HasLabel
<1> QED  BY <1>2, <1>3, <1>4, <1>5, <1>6, <1>7 DEF IndInv

Pcs == {"idle", "lock", "umount", "glob", "test", "rmdir", "known", "evict", "mkdir",
        "usage", "search", "mount", "exit", "fail"}

\* Goto leaves the other fields alone.
LEMMA GotoStep ==
  ASSUME TypeOK, NEW p \in Partitions, NEW x \in Pcs, Goto(p, x),
         script[p].op = "remove" => x \in {"umount", "glob", "test", "rmdir"},
         x = "umount" => script[p].op = "remove"
  PROVE  LET r == [script[p] EXCEPT !.pc = x] IN
         Step(p, r) /\ r.pc = x /\ r.op = script[p].op /\ r.place = script[p].place
         /\ r.info = script[p].info
<1> DEFINE r == [script[p] EXCEPT !.pc = x]
<1>1. script[p] \in ScriptState
  BY DEF TypeOK
<1>2. /\ r \in ScriptState /\ r.pc = x /\ r.op = script[p].op
      /\ r.place = script[p].place /\ r.info = script[p].info
  BY <1>1 DEF ScriptState, Pcs
<1>3. script' = [script EXCEPT ![p] = r]
  BY DEF Goto
<1> QED  BY <1>2, <1>3 DEF Step

LEMMA MountPair ==
  ASSUME TypeOK, NEW m \in mounts
  PROVE  m[1] \in Partitions /\ m[2] \in Places /\ <<m[1], m[2]>> \in mounts
<1>1. m \in Partitions \X Places
  BY DEF TypeOK
<1>2. PICK q \in Partitions, d \in Places : m = <<q, d>>
  BY <1>1
<1> QED  BY <1>2

\* The type of the scripts after a step.
LEMMA StepType ==
  ASSUME TypeOK, NEW p \in Partitions, NEW r, Step(p, r)
  PROVE  script' \in [Partitions -> ScriptState]
BY DEF Step, TypeOK

LEMMA IdleStep ==
  ASSUME TypeOK, NEW p \in Partitions, script' = [script EXCEPT ![p] = Idle]
  PROVE  Step(p, Idle)
BY IdleType DEF Step

-----------------------------------------------------------------------------

LEMMA StartInv ==
  ASSUME IndInv, NEW p \in Partitions, Start(p)
  PROVE  IndInv'
<1> DEFINE e == Head(events[p])
           r == [Idle EXCEPT !.pc = IF e = "add" THEN "lock" ELSE "umount",
                             !.op = e, !.info = stick[p]]
<1>1. e \in {"add", "remove"} /\ events' \in [Partitions -> Seq({"add", "remove"})]
  BY DEF IndInv, TypeOK, Start, Handle
<1>2. stick[p] \in Contents
  BY DEF IndInv, TypeOK
<1>3. r \in ScriptState /\ r.pc = (IF e = "add" THEN "lock" ELSE "umount") /\ r.op = e
  BY <1>1, <1>2, IdleType DEF ScriptState
<1>4. Step(p, r)
  BY <1>1, <1>3 DEF Step, Start
<1>5. TypeOK'
  <2>1. unit' \in [Partitions -> {"inactive", "active", "failed"}]
    BY DEF IndInv, TypeOK, Start
  <2>2. UNCHANGED <<calm, systemd, stick, plugged, base, dirs, mounts, lock>>
    BY DEF Start, Handle, conf
  <2>3. script' \in [Partitions -> ScriptState]
    BY <1>4, StepType DEF IndInv
  <2> QED  BY <1>1, <2>1, <2>2, <2>3 DEF IndInv, TypeOK
<1>6. mounts' = mounts /\ lock' = lock
  BY DEF Start, Handle
<1> HIDE DEF r
<1> QED  BY <1>1, <1>3, <1>4, <1>5, <1>6, StepKeeps

\* An event that is passed changes no script.
LEMMA PassInv ==
  ASSUME IndInv, NEW p \in Partitions, Pass(p)
  PROVE  IndInv'
<1>1. events' \in [Partitions -> Seq({"add", "remove"})]
  BY DEF IndInv, TypeOK, Pass, Handle
<1>2. UNCHANGED <<calm, systemd, unit, stick, plugged, base, dirs, mounts, lock, script>>
  BY DEF Pass, Handle, conf
<1>3. TypeOK'
  BY <1>1, <1>2 DEF IndInv, TypeOK
<1> QED  BY <1>2, <1>3 DEF IndInv, HasLabel, Locked, Holding, RemoveSteps, AddSteps,
         NotYetMounted, PlaceIsFree, OnePerPlace

\* The end of an add may change what systemd knows of its unit.
LEMMA EndedType ==
  ASSUME TypeOK, NEW p \in Partitions, NEW s \in {"active", "failed"}, Ended(p, s)
  PROVE  unit' \in [Partitions -> {"inactive", "active", "failed"}]
BY DEF Ended, TypeOK

\* Nobody else holds the lock when it is taken.
LEMMA AcquireInv ==
  ASSUME IndInv, NEW p \in Partitions, Acquire(p)
  PROVE  IndInv'
<1>1. script[p].op = "add"
  BY DEF IndInv, TypeOK, RemoveSteps, Acquire, At, ScriptState
<1> DEFINE r == [script[p] EXCEPT !.pc = "glob"]
<1>2. Step(p, r) /\ r.pc = "glob" /\ r.op = "add"
  BY <1>1, GotoStep DEF IndInv, Acquire, Pcs
<1>3. TypeOK'
  BY <1>2, StepType DEF IndInv, Acquire, conf, disk, TypeOK
<1> HIDE DEF r
<1>4. script'[p] = r /\ \A q \in Partitions \ {p} : script'[q] = script[q]
  BY <1>2 DEF Step, IndInv, TypeOK
<1>5. \A q \in Partitions : ~Holding(q)
  BY NobodyAssumption DEF IndInv, Locked, Acquire, LockFree
<1>6. Locked'
  BY <1>4, <1>5 DEF Locked, Holding, Acquire
<1>7. RemoveSteps' /\ AddSteps' /\ HasLabel'
  BY <1>2, <1>4 DEF IndInv, RemoveSteps, AddSteps, HasLabel
<1>8. NotYetMounted' /\ PlaceIsFree' /\ OnePerPlace'
  BY <1>2, <1>4 DEF IndInv, NotYetMounted, PlaceIsFree, OnePerPlace, Acquire
<1> QED  BY <1>3, <1>6, <1>7, <1>8 DEF IndInv

\* An add that gives up leaves the lock to its holder.
LEMMA GiveUpInv ==
  ASSUME IndInv, NEW p \in Partitions, GiveUp(p)
  PROVE  IndInv'
<1>1. Step(p, Idle)
  BY IdleStep DEF IndInv, GiveUp
<1>2. TypeOK'
  <2>1. unit' \in [Partitions -> {"inactive", "active", "failed"}]
    BY EndedType DEF IndInv, GiveUp
  <2> QED  BY <1>1, <2>1, StepType DEF IndInv, GiveUp, conf, disk, KeepLock, TypeOK
<1>3. mounts' = mounts /\ lock' = lock
  BY DEF GiveUp, KeepLock
<1> QED  BY <1>1, <1>2, <1>3, IdleType, StepKeeps

LEMMA ExitInv ==
  ASSUME IndInv, NEW p \in Partitions, Exit(p)
  PROVE  IndInv'
<1>1. Step(p, Idle)
  BY IdleStep DEF IndInv, Exit
<1>2. TypeOK'
  <2>1. unit' \in [Partitions -> {"inactive", "active", "failed"}]
    BY EndedType DEF IndInv, Exit
  <2> QED  BY <1>1, <2>1, StepType DEF IndInv, Exit, conf, disk, TypeOK
<1>3. script'[p] = Idle /\ \A q \in Partitions \ {p} : script'[q] = script[q]
  BY <1>1 DEF Step, IndInv, TypeOK
<1>4. Holding(p)
  BY DEF IndInv, TypeOK, RemoveSteps, Exit, At, Holding, ScriptState
<1>5. \A q \in Partitions \ {p} : ~Holding(q)
  BY <1>4 DEF IndInv, Locked
<1>6. Locked'
  BY <1>3, <1>5, IdleType DEF Locked, Holding
<1>7. RemoveSteps' /\ AddSteps' /\ HasLabel'
  BY <1>3, IdleType DEF IndInv, RemoveSteps, AddSteps, HasLabel
<1>8. NotYetMounted' /\ PlaceIsFree' /\ OnePerPlace'
  BY <1>3, IdleType DEF IndInv, NotYetMounted, PlaceIsFree, OnePerPlace, Exit
<1> QED  BY <1>2, <1>6, <1>7, <1>8 DEF IndInv

LEMMA UmountInv ==
  ASSUME IndInv, NEW p \in Partitions, UmountDevice(p)
  PROVE  IndInv'
<1> DEFINE r == [script[p] EXCEPT !.pc = "glob"]
<1>1. script[p].op = "remove"
  BY DEF IndInv, AddSteps, UmountDevice, At
<1>2. Step(p, r) /\ r.pc = "glob" /\ r.op = "remove"
  BY <1>1, GotoStep DEF IndInv, UmountDevice, Pcs
<1>3. mounts' \subseteq mounts /\ lock' = lock
  BY DEF UmountDevice
<1>4. TypeOK'
  BY <1>2, <1>3, StepType DEF IndInv, UmountDevice, conf, disk, TypeOK
<1> HIDE DEF r
<1> QED  BY <1>2, <1>3, <1>4, StepKeeps

-----------------------------------------------------------------------------
(* clean_dynamic, in an add or in a remove *)

LEMMA CleanInv ==
  ASSUME IndInv, NEW p \in Partitions, Clean(p)
  PROVE  IndInv'
<1>1. script[p] \in ScriptState
  BY DEF IndInv, TypeOK
<1>2. mounts' = mounts /\ lock' = lock /\ UNCHANGED <<conf, unit, disk>>
  BY DEF Clean, Glob, Test, Rmdir, RmdirBase
<1>3. base' \in BOOLEAN /\ dirs' \subseteq Labels
  BY DEF IndInv, TypeOK, Clean, Glob, Test, Rmdir, RmdirBase
<1>4. script[p].op = "add" => lock = p
  BY DEF IndInv, Locked, Holding, Clean, Glob, Test, Rmdir, RmdirBase, At
<1>5. SUFFICES ASSUME NEW r, Step(p, r), r.op = "add" /\ r.pc # "idle" => script[p].op = "add",
                      r.pc \in {"idle", "glob", "test", "rmdir", "known"}
               PROVE  IndInv'
  <2>1. CASE Glob(p)
    <3> DEFINE r == [script[p] EXCEPT !.pc = "test", !.todo = dirs]
    <3>1. r \in ScriptState /\ r.pc = "test" /\ r.op = script[p].op
      BY <1>1 DEF IndInv, TypeOK, ScriptState
    <3>2. Step(p, r)
      BY <2>1, <3>1 DEF Step, Glob
    <3> QED  BY <3>1, <3>2, <1>5
  <2>2. CASE Test(p)
    <3>1. PICK d \in script[p].todo :
            script' = [script EXCEPT ![p].todo = @ \ {d},
                                     ![p].pc = IF Stale(d) THEN "rmdir" ELSE "test",
                                     ![p].place = IF Stale(d) THEN d ELSE NoLabel]
      BY <2>2 DEF Test
    <3> DEFINE x == IF Stale(d) THEN "rmdir" ELSE "test"
               y == IF Stale(d) THEN d ELSE NoLabel
               r == [script[p] EXCEPT !.todo = @ \ {d}, !.pc = x, !.place = y]
    <3>2. y \in Places \cup {NoLabel}
      BY <1>1 DEF ScriptState, Places
    <3>a. x \in {"rmdir", "test"}
      OBVIOUS
    <3> HIDE DEF x, y
    <3>3. r \in ScriptState /\ r.pc = x /\ r.op = script[p].op
      BY <1>1, <3>2, <3>a DEF ScriptState
    <3>4. script' = [script EXCEPT ![p] = r]
      BY <3>1 DEF x, y
    <3>5. x \in {"rmdir", "test"}
      BY <3>a
    <3> HIDE DEF r
    <3>6. Step(p, r)
      BY <3>3, <3>4, <3>5 DEF Step
    <3> QED  BY <3>3, <3>5, <3>6, <1>5
  <2>3. CASE Rmdir(p)
    <3> DEFINE r == [script[p] EXCEPT !.pc = "test", !.place = NoLabel]
    <3>1. r \in ScriptState /\ r.pc = "test" /\ r.op = script[p].op
      BY <1>1 DEF ScriptState
    <3>2. Step(p, r)
      BY <2>3, <3>1 DEF Step, Rmdir
    <3> QED  BY <1>5, <3>1, <3>2
  <2>4. CASE RmdirBase(p)
    <3>1. CASE script[p].op = "add"
      <4> DEFINE r == [script[p] EXCEPT !.pc = "known", !.place = NoLabel]
      <4>1. r \in ScriptState /\ r.pc = "known" /\ r.op = "add"
        BY <1>1, <3>1 DEF ScriptState
      <4>2. Step(p, r)
        BY <2>4, <3>1, <4>1 DEF Step, RmdirBase
      <4> QED  BY <3>1, <4>1, <4>2, <1>5
    <3>2. CASE script[p].op # "add"
      <4>1. script' = [script EXCEPT ![p] = Idle]
        BY <2>4, <3>2 DEF RmdirBase
      <4>2. Step(p, Idle)
        BY <4>1, IdleStep DEF IndInv
      <4> QED  BY <4>2, <1>1, IdleType, <1>5
    <3> QED  BY <3>1, <3>2
  <2> QED  BY <2>1, <2>2, <2>3, <2>4 DEF Clean
<1>6. TypeOK'
  BY <1>2, <1>3, <1>5, StepType DEF IndInv, TypeOK, conf, disk
<1>7. r.op = "add" /\ r.pc # "idle" => lock = p
  BY <1>4, <1>5
<1> QED  BY <1>2, <1>5, <1>6, <1>7, StepKeeps

-----------------------------------------------------------------------------
(* The steps of an add that holds the lock *)

AddPcs == {"known", "evict", "mkdir", "usage", "search", "mount", "exit", "fail"}

LEMMA AddHolds ==
  ASSUME IndInv, NEW p \in Partitions, script[p].pc \in AddPcs
  PROVE  script[p].op = "add" /\ lock = p
<1>1. script[p].op = "add"
  BY DEF IndInv, TypeOK, RemoveSteps, AddPcs, ScriptState
<1> QED  BY <1>1 DEF IndInv, Locked, Holding, AddPcs

\* A step of an add that only unmounts, if anything, and keeps what it knows.
LEMMA AddStepKeeps ==
  ASSUME IndInv, NEW p \in Partitions, script[p].pc \in AddPcs,
         NEW x \in AddPcs \ {"mount"}, Goto(p, x),
         mounts' \subseteq mounts, UNCHANGED <<conf, unit, disk, lock>>,
         base' \in BOOLEAN, dirs' \subseteq Labels,
         x \notin {"known", "exit"} => \A m \in mounts : m[1] # p,
         x \in {"evict", "mkdir"} => script[p].info.label # NoLabel
  PROVE  IndInv'
<1> DEFINE r == [script[p] EXCEPT !.pc = x]
<1>1. script[p].op = "add" /\ lock = p
  BY AddHolds
<1>a. x \in Pcs /\ x # "umount"
  BY DEF Pcs, AddPcs
<1>2. Step(p, r) /\ r.pc = x /\ r.op = "add" /\ r.info = script[p].info
  BY <1>1, <1>a, GotoStep DEF IndInv
<1>3. TypeOK'
  BY <1>2, StepType DEF IndInv, TypeOK, conf, disk
<1> HIDE DEF r
<1> QED  BY <1>1, <1>2, <1>3, StepKeeps DEF AddPcs

LEMMA KnownInv ==
  ASSUME IndInv, NEW p \in Partitions, Known(p)
  PROVE  IndInv'
<1> DEFINE x == IF Mounted(p) THEN "exit"
                ELSE IF script[p].info.label = NoLabel THEN "usage" ELSE "evict"
<1>1. x \in AddPcs \ {"mount"} /\ script[p].pc \in AddPcs /\ Goto(p, x)
  BY DEF Known, At, AddPcs
<1>2. x # "exit" => \A m \in mounts : m[1] # p
  <2>1. SUFFICES ASSUME ~Mounted(p) PROVE \A m \in mounts : m[1] # p
    OBVIOUS
  <2> QED  BY <2>1, MountPair DEF Mounted, IndInv
<1>3. UNCHANGED <<conf, unit, disk, lock, mounts, base, dirs>>
  BY DEF Known
<1>4. base' \in BOOLEAN /\ dirs' \subseteq Labels
  BY <1>3 DEF IndInv, TypeOK
<1>5. x \in {"evict", "mkdir"} => script[p].info.label # NoLabel
  OBVIOUS
<1> HIDE DEF x
<1> QED  BY <1>1, <1>2, <1>3, <1>4, <1>5, AddStepKeeps

LEMMA EvictInv ==
  ASSUME IndInv, NEW p \in Partitions, Evict(p)
  PROVE  IndInv'
<1>1. Goto(p, "mkdir") /\ script[p].pc \in AddPcs /\ mounts' \subseteq mounts
  BY DEF Evict, At, AddPcs
<1>2. \A m \in mounts : m[1] # p
  BY DEF IndInv, NotYetMounted, Evict, At
<1>3. UNCHANGED <<conf, unit, disk, lock, base, dirs>>
  BY DEF Evict
<1>4. base' \in BOOLEAN /\ dirs' \subseteq Labels
  BY <1>3 DEF IndInv, TypeOK
<1>5. script[p].info.label # NoLabel
  BY DEF IndInv, HasLabel, Evict, At
<1> QED  BY <1>1, <1>2, <1>3, <1>4, <1>5, AddStepKeeps DEF AddPcs

LEMMA MkdirInv ==
  ASSUME IndInv, NEW p \in Partitions, Mkdir(p)
  PROVE  IndInv'
<1>1. Goto(p, "usage") /\ script[p].pc \in AddPcs /\ mounts' = mounts
  BY DEF Mkdir, At, AddPcs
<1>2. \A m \in mounts : m[1] # p
  BY DEF IndInv, NotYetMounted, Mkdir, At
<1>3. UNCHANGED <<conf, unit, disk, lock>>
  BY DEF Mkdir
<1>4. base' \in BOOLEAN /\ dirs' \subseteq Labels
  BY DEF IndInv, HasLabel, TypeOK, Mkdir, At, ScriptState, Contents
<1> QED  BY <1>1, <1>2, <1>3, <1>4, AddStepKeeps DEF AddPcs

\* Where the add goes for each kind of content.
LEMMA UsageStep ==
  ASSUME TypeOK, NEW p \in Partitions, Usage(p)
  PROVE  \E x \in {"search", "exit", "fail"} :
           /\ Goto(p, x)
           /\ script[p].info.usage = "listed" <=> x = "search"
<1> DEFINE u == script[p].info.usage
<1>1. script[p] \in ScriptState
  BY DEF TypeOK
<1>2. u \in {"listed", "unlisted", "none"}
  BY <1>1 DEF ScriptState, Contents
<1> HIDE DEF u
<1>3. CASE u = "listed"
  BY <1>3 DEF Usage, u
<1>4. CASE u = "unlisted"
  BY <1>4 DEF Usage, u
<1>5. CASE u = "none"
  BY <1>5 DEF Usage, u
<1> QED  BY <1>2, <1>3, <1>4, <1>5 DEF u

LEMMA UsageInv ==
  ASSUME IndInv, NEW p \in Partitions, Usage(p)
  PROVE  IndInv'
<1>1. PICK x \in {"search", "exit", "fail"} : Goto(p, x) /\ script[p].pc \in AddPcs
  BY UsageStep DEF Usage, At, AddPcs, IndInv
<1>a. x \in AddPcs \ {"mount"}
  BY DEF AddPcs
<1>2. \A m \in mounts : m[1] # p
  BY DEF IndInv, NotYetMounted, Usage, At
<1>3. UNCHANGED <<conf, unit, disk, lock, mounts, base, dirs>>
  BY DEF Usage
<1>4. base' \in BOOLEAN /\ dirs' \subseteq Labels
  BY <1>3 DEF IndInv, TypeOK
<1>5. x \notin {"evict", "mkdir"}
  OBVIOUS
<1> QED  BY <1>1, <1>a, <1>2, <1>3, <1>4, <1>5, AddStepKeeps

\* The place that is chosen is free.
LEMMA SearchInv ==
  ASSUME IndInv, NEW p \in Partitions, Search(p)
  PROVE  IndInv'
<1>1. script[p].pc \in AddPcs /\ \A m \in mounts : m[1] # p
  BY DEF IndInv, NotYetMounted, Search, At, AddPcs
<1>2. UNCHANGED <<conf, unit, disk, lock, mounts, base, dirs>>
  BY DEF Search
<1>3. base' \in BOOLEAN /\ dirs' \subseteq Labels
  BY <1>2 DEF IndInv, TypeOK
<1>4. CASE Goto(p, "fail")
  BY <1>1, <1>2, <1>3, <1>4, AddStepKeeps DEF AddPcs
<1>5. ASSUME NEW d \in Preferred(p),
             script' = [script EXCEPT ![p].pc = "mount", ![p].place = d]
      PROVE  IndInv'
  <2> DEFINE r == [script[p] EXCEPT !.pc = "mount", !.place = d]
  <2>1. script[p] \in ScriptState
    BY DEF IndInv, TypeOK
  <2>2. d \in Available(p)
    BY <1>5 DEF Preferred
  <2>3. d \in Places \cup {NoLabel} /\ ~Occupied(d)
    BY <2>1, <2>2 DEF Available, ScriptState, Contents, Places
  <2>4. \A m \in mounts : m[2] # d
    BY <2>3, MountPair DEF Occupied, IndInv
  <2>5. r \in ScriptState /\ r.pc = "mount" /\ r.op = script[p].op /\ r.place = d
    BY <2>1, <2>3 DEF ScriptState
  <2>6. script[p].op = "add" /\ lock = p
    BY <1>1, AddHolds
  <2>7. script' = [script EXCEPT ![p] = r]
    BY <1>5
  <2> HIDE DEF r
  <2>8. Step(p, r)
    BY <2>5, <2>6, <2>7 DEF Step
  <2>9. TypeOK'
    BY <2>8, <1>2, <1>3, StepType DEF IndInv, TypeOK, conf, disk
  <2> QED  BY <1>1, <1>2, <2>4, <2>5, <2>6, <2>8, <2>9, StepKeeps
<1> QED  BY <1>4, <1>5 DEF Search

\* The only step that mounts anything.
LEMMA MountInv ==
  ASSUME IndInv, NEW p \in Partitions, Mount(p)
  PROVE  IndInv'
<1> DEFINE r == [script[p] EXCEPT !.pc = "exit"]
           d == script[p].place
<1>1. script[p].op = "add" /\ lock = p
  BY AddHolds DEF Mount, At, AddPcs
<1>2. Step(p, r) /\ r.pc = "exit" /\ r.op = "add"
  BY <1>1, GotoStep DEF IndInv, Mount, Pcs
<1>3. mounts' = mounts \/ (mounts' = mounts \cup {<<p, d>>} /\ Exists(d))
  BY DEF Mount
<1>4. UNCHANGED <<conf, unit, disk, lock, base, dirs>>
  BY DEF Mount
<1>5. TypeOK'
  <2>1. mounts' \subseteq Partitions \X Places
    BY <1>3 DEF IndInv, TypeOK, Exists, Places
  <2> QED  BY <1>2, <1>4, <2>1, StepType DEF IndInv, TypeOK, conf, disk
<1> HIDE DEF r
<1>6. script'[p] = r /\ \A q \in Partitions \ {p} : script'[q] = script[q]
  BY <1>2 DEF Step, IndInv, TypeOK
<1>7. \A m \in mounts : m[1] # p /\ m[2] # d
  BY DEF IndInv, NotYetMounted, PlaceIsFree, Mount, At
<1>8. Locked' /\ RemoveSteps' /\ AddSteps' /\ HasLabel'
  BY <1>1, <1>2, <1>4, <1>6 DEF IndInv, Locked, Holding, RemoveSteps, AddSteps, HasLabel
<1>9. ASSUME NEW q \in Partitions \ {p}
      PROVE  script[q].pc \notin {"evict", "mkdir", "usage", "search", "mount"}
  BY <1>1, AddHolds DEF AddPcs
<1>10. NotYetMounted' /\ PlaceIsFree'
  BY <1>2, <1>6, <1>9 DEF NotYetMounted, PlaceIsFree
<1>11. OnePerPlace'
  BY <1>3, <1>7 DEF IndInv, OnePerPlace
<1> QED  BY <1>5, <1>8, <1>10, <1>11 DEF IndInv

-----------------------------------------------------------------------------

LEMMA Inductive == IndInv /\ [Next]_vars => IndInv'
<1> SUFFICES ASSUME IndInv, [Next]_vars PROVE IndInv'  OBVIOUS
<1>1. CASE UNCHANGED vars
  BY <1>1 DEF IndInv, TypeOK, HasLabel, Locked, Holding, RemoveSteps, AddSteps, NotYetMounted,
     PlaceIsFree, OnePerPlace, vars, conf, disk
<1>2. ASSUME NEW p \in Partitions, User(p) PROVE IndInv'
  <2>1. TypeOK' /\ UNCHANGED <<mounts, script, lock>>
    BY <1>2, UserStep DEF IndInv
  <2> QED  BY <2>1 DEF IndInv, HasLabel, Locked, Holding, RemoveSteps, AddSteps,
           NotYetMounted, PlaceIsFree, OnePerPlace
<1>3. ASSUME NEW p \in Partitions, Script(p) PROVE IndInv'
  <2>1. CASE Start(p)  BY <2>1, StartInv
  <2>13. CASE Pass(p)  BY <2>13, PassInv
  <2>2. CASE Clean(p)  BY <2>2, CleanInv
  <2>3. CASE UmountDevice(p)  BY <2>3, UmountInv
  <2>4. CASE Acquire(p)  BY <2>4, AcquireInv
  <2>5. CASE GiveUp(p)  BY <2>5, GiveUpInv
  <2>6. CASE Known(p)  BY <2>6, KnownInv
  <2>7. CASE Evict(p)  BY <2>7, EvictInv
  <2>8. CASE Mkdir(p)  BY <2>8, MkdirInv
  <2>9. CASE Usage(p)  BY <2>9, UsageInv
  <2>10. CASE Search(p)  BY <2>10, SearchInv
  <2>11. CASE Mount(p)  BY <2>11, MountInv
  <2>12. CASE Exit(p)  BY <2>12, ExitInv
  <2> QED
    BY <1>3, <2>1, <2>2, <2>3, <2>4, <2>5, <2>6, <2>7, <2>8, <2>9, <2>10, <2>11, <2>12, <2>13
       DEF Script, Add
<1> QED  BY <1>1, <1>2, <1>3 DEF Next

THEOREM Invariant == Spec => []IndInv
<1> QED  BY InitInv, Inductive, PTL DEF Spec

\* TypeOK of the script usbmount holds for every set of partitions and labels.
THEOREM TypeCorrect == Spec => []TypeOK
<1>1. IndInv => TypeOK  BY DEF IndInv
<1> QED  BY <1>1, Invariant, PTL

\* OnePerPlace, that no two sticks share a mount point and none is mounted twice,
\* whatever udev runs together: removes that do not look at the lock (usbmount:290-316)
\* and adds that give it up cannot break what the lock is for.
THEOREM MountsExclusive == Spec => []OnePerPlace
<1>1. IndInv => OnePerPlace  BY DEF IndInv
<1> QED  BY <1>1, Invariant, PTL
-----------------------------------------------------------------------------
(* What is left behind *)

\* A remove waits in a queue of events; one of p is still to be handled.
Awaits(s) == \E k \in 1 .. Len(s) : s[k] = "remove"
Owed(p) == Awaits(events[p])

\* The last event udev has for a partition tells whether the stick is there, and nothing
\* is known of one that is gone.
LastEvent ==
  \A p \in Partitions :
    /\ events[p] # << >> => events[p][Len(events[p])] = IF p \in plugged THEN "add" ELSE "remove"
    /\ p \notin plugged => stick[p] = Absent

\* What is mounted is plugged in, or a remove will unmount it; an add that outlives its
\* stick is followed by a remove.
Followed ==
  \A p \in Partitions : p \notin plugged =>
    /\ Mounted(p) => Owed(p) \/ script[p].pc = "umount"
    /\ script[p].op = "add" /\ script[p].pc # "idle" => Owed(p)

\* Under systemd only a partition that is not mounted is worked on, what is mounted
\* has an active unit once its script has ended, and a unit that is active will be
\* stopped when its stick is gone.
Adding(p) == script[p].op = "add" /\ script[p].pc # "idle"
Units ==
  systemd => \A p \in Partitions :
    /\ Running(p) => unit[p] # "active"
    /\ Mounted(p) => unit[p] = "active" \/ script[p].pc \in {"exit", "umount"}
    /\ unit[p] = "active" => p \in plugged \/ Owed(p)

\* A remove will run: a stick is there or its remove is; under systemd a unit is up or
\* about to be.  A unit whose start has failed counts, though none will ever stop it.
ComingFor(p) ==
  \/ systemd = FALSE /\ (p \in plugged \/ Owed(p))
  \/ systemd = TRUE /\ (unit[p] # "inactive" \/ Adding(p))
Coming == \E p \in Partitions : ComingFor(p)

\* A script, a remove, still passes the directory d.
Passes(s, d) ==
  /\ s.op = "remove"
  /\ \/ s.pc \in {"umount", "glob"}
     \/ s.pc \in {"test", "rmdir"} /\ d \in s.todo
     \/ s.pc = "rmdir" /\ s.place = d
DirsCleaned == \A d \in dirs : Coming \/ \E p \in Partitions : Passes(script[p], d)
BaseCleaned == base => Coming \/ \E p \in Partitions : script[p].op = "remove"

Cleaned == LastEvent /\ Followed /\ Units /\ DirsCleaned /\ BaseCleaned

-----------------------------------------------------------------------------

LEMMA AwaitsAppend ==
  ASSUME NEW s \in Seq({"add", "remove"}), NEW e \in {"add", "remove"}
  PROVE  /\ Awaits(Append(s, e)) <=> Awaits(s) \/ e = "remove"
         /\ Append(s, e) # << >>
         /\ Append(s, e)[Len(Append(s, e))] = e
<1>1. Len(s) \in Nat /\ Len(Append(s, e)) = Len(s) + 1 /\ Append(s, e)[Len(s) + 1] = e
  OBVIOUS
<1>2. \A k \in 1 .. Len(s) : Append(s, e)[k] = s[k]
  OBVIOUS
<1>3. 1 .. Len(s) + 1 = 1 .. Len(s) \cup {Len(s) + 1}
  BY <1>1
<1>4. Append(s, e) # << >>
  BY <1>1
<1> QED  BY <1>1, <1>2, <1>3, <1>4 DEF Awaits

LEMMA EmptyLen ==
  ASSUME NEW S, NEW s \in Seq(S), s = << >>
  PROVE  Len(s) = 0
  OBVIOUS

LEMMA AwaitsTail ==
  ASSUME NEW s \in Seq({"add", "remove"}), s # << >>
  PROVE  /\ Awaits(s) <=> Awaits(Tail(s)) \/ Head(s) = "remove"
         /\ Head(s) \in {"add", "remove"}
         /\ Tail(s) = << >> => s[Len(s)] = Head(s)
         /\ Tail(s) # << >> => Tail(s)[Len(Tail(s))] = s[Len(s)]
<1>1. Len(s) \in Nat /\ Len(s) >= 1 /\ Len(Tail(s)) = Len(s) - 1 /\ Head(s) = s[1]
  OBVIOUS
<1>2. \A k \in 1 .. Len(s) - 1 : Tail(s)[k] = s[k + 1]
  OBVIOUS
<1>3. Awaits(s) => Awaits(Tail(s)) \/ Head(s) = "remove"
  <2>1. SUFFICES ASSUME NEW k \in 1 .. Len(s), s[k] = "remove", k # 1
                 PROVE  Awaits(Tail(s))
    BY <1>1 DEF Awaits
  <2>2. k - 1 \in 1 .. Len(Tail(s)) /\ (k - 1) + 1 = k
    BY <1>1, <2>1
  <2> QED  BY <1>1, <1>2, <2>1, <2>2 DEF Awaits
<1>4. Awaits(Tail(s)) => Awaits(s)
  <2>1. SUFFICES ASSUME NEW k \in 1 .. Len(Tail(s)), Tail(s)[k] = "remove"
                 PROVE  Awaits(s)
    BY DEF Awaits
  <2>2. k + 1 \in 1 .. Len(s) /\ s[k + 1] = "remove"
    BY <1>1, <1>2, <2>1
  <2> QED  BY <2>2 DEF Awaits
<1>5. Head(s) = "remove" => Awaits(s)
  BY <1>1 DEF Awaits
<1>6. Head(s) \in {"add", "remove"}
  OBVIOUS
<1>7. ASSUME Tail(s) = << >> PROVE Len(s) = 1
  <2>1. Tail(s) \in Seq({"add", "remove"})
    OBVIOUS
  <2>2. Len(Tail(s)) = 0
    BY <1>7, <2>1, EmptyLen
  <2> DEFINE n == Len(Tail(s))
             m == Len(s)
  <2>3. n = 0
    BY <2>2
  <2>4. m \in Nat /\ n = m - 1
    BY <1>1
  <2> HIDE DEF n, m
  <2>5. m = 1
    BY <2>3, <2>4
  <2> QED  BY <2>5 DEF m
<1>8. Tail(s) # << >> => Tail(s)[Len(Tail(s))] = s[Len(s)]
  OBVIOUS
<1> QED  BY <1>1, <1>3, <1>4, <1>5, <1>6, <1>7, <1>8

\* What an event does to the queues.
LEMMA TellQueues ==
  ASSUME TypeOK, NEW p \in Partitions, NEW e \in {"add", "remove"}, Tell(p, e)
  PROVE  /\ \A q \in Partitions \ {p} : events'[q] = events[q]
         /\ Owed(p)' <=> Owed(p) \/ e = "remove"
         /\ events'[p] # << >> /\ events'[p][Len(events'[p])] = e
<1>1. events[p] \in Seq({"add", "remove"})
  BY DEF TypeOK
<1>2. events'[p] = Append(events[p], e) /\ \A q \in Partitions \ {p} : events'[q] = events[q]
  BY DEF Tell, TypeOK
<1> QED  BY <1>1, <1>2, AwaitsAppend DEF Owed

LEMMA HandleQueues ==
  ASSUME TypeOK, NEW p \in Partitions, Handle(p)
  PROVE  LET e == Head(events[p]) IN
         /\ e \in {"add", "remove"}
         /\ \A q \in Partitions \ {p} : events'[q] = events[q]
         /\ Owed(p) <=> Owed(p)' \/ e = "remove"
         /\ events'[p] = << >> => events[p][Len(events[p])] = e
         /\ events'[p] # << >> => events'[p][Len(events'[p])] = events[p][Len(events[p])]
<1>1. events[p] \in Seq({"add", "remove"}) /\ events[p] # << >>
  BY DEF TypeOK, Handle
<1>2. events'[p] = Tail(events[p]) /\ \A q \in Partitions \ {p} : events'[q] = events[q]
  BY DEF Handle, TypeOK
<1> QED  BY <1>1, <1>2, AwaitsTail DEF Owed

\* A started script.
LEMMA StartScript ==
  ASSUME TypeOK, NEW p \in Partitions, Start(p)
  PROVE  LET e == Head(events[p]) IN
         /\ script'[p].pc = (IF e = "add" THEN "lock" ELSE "umount")
         /\ script'[p].op = e /\ script'[p].info = stick[p]
         /\ \A q \in Partitions \ {p} : script'[q] = script[q]
<1> DEFINE e == Head(events[p])
           r == [Idle EXCEPT !.pc = IF e = "add" THEN "lock" ELSE "umount",
                             !.op = e, !.info = stick[p]]
<1>1. script'[p] = r /\ \A q \in Partitions \ {p} : script'[q] = script[q]
  BY DEF Start, TypeOK
<1>2. r.pc = (IF e = "add" THEN "lock" ELSE "umount") /\ r.op = e /\ r.info = stick[p]
  BY DEF Idle
<1> QED  BY <1>1, <1>2

-----------------------------------------------------------------------------

LEMMA CleanedInit == Init => Cleaned
<1> SUFFICES ASSUME Init PROVE Cleaned  OBVIOUS
<1>1. LastEvent
  BY DEF Init, LastEvent
<1>2. \A p \in Partitions : ~Mounted(p) /\ script[p].pc = "idle"
  BY IdleType DEF Init, Mounted
<1>3. Followed /\ Units
  BY <1>2 DEF Followed, Units, Init, Running
<1>4. DirsCleaned /\ BaseCleaned
  BY DEF Init, DirsCleaned, BaseCleaned
<1> QED  BY <1>1, <1>3, <1>4 DEF Cleaned

\* The user's steps: a stick that goes leaves a remove behind.
LEMMA CleanedUser ==
  ASSUME IndInv, Cleaned, NEW p \in Partitions, User(p)
  PROVE  Cleaned'
<1>1. TypeOK /\ UNCHANGED <<mounts, script, base, dirs, systemd, unit>>
  BY UserStep DEF IndInv, User, Plug, Unplug, Trigger, conf
<1>2. PICK e \in {"add", "remove"} :
        /\ Tell(p, e)
        /\ \A q \in Partitions \ {p} : (q \in plugged' <=> q \in plugged) /\ stick'[q] = stick[q]
        /\ IF e = "add" THEN p \in plugged' ELSE p \notin plugged' /\ stick'[p] = Absent
        /\ e = "remove" => p \in plugged
  <2>1. stick \in [Partitions -> Contents]
    BY <1>1 DEF TypeOK
  <2>2. CASE Plug(p)
    BY <2>1, <2>2 DEF Plug
  <2>3. CASE Unplug(p)
    BY <2>1, <2>3 DEF Unplug
  <2>4. CASE Trigger(p)
    BY <2>4 DEF Trigger
  <2> QED  BY <2>2, <2>3, <2>4 DEF User
<1>3. /\ \A q \in Partitions \ {p} : events'[q] = events[q] /\ (Owed(q)' <=> Owed(q))
      /\ Owed(p)' <=> Owed(p) \/ e = "remove"
      /\ events'[p][Len(events'[p])] = e
  BY <1>1, <1>2, TellQueues DEF Owed
<1>4. LastEvent'
  <2>1. SUFFICES ASSUME NEW q \in Partitions
                 PROVE  /\ events'[q] # << >> =>
                             events'[q][Len(events'[q])] = IF q \in plugged' THEN "add" ELSE "remove"
                        /\ q \notin plugged' => stick'[q] = Absent
    BY DEF LastEvent
  <2>2. CASE q = p
    BY <1>2, <1>3, <2>2
  <2>3. CASE q # p
    BY <1>2, <1>3, <2>3 DEF Cleaned, LastEvent
  <2> QED  BY <2>2, <2>3
<1>5. Followed'
  <2>1. SUFFICES ASSUME NEW q \in Partitions, q \notin plugged'
                 PROVE  Owed(q)' \/ (q \notin plugged /\ (Owed(q) => Owed(q)'))
    BY <1>1 DEF Cleaned, Followed, Mounted
  <2> QED  BY <1>2, <1>3, <2>1
<1>6. Coming => Coming'
  <2>1. ASSUME NEW q \in Partitions, ComingFor(q) PROVE ComingFor(q)'
    <3>1. CASE q = p
      BY <1>1, <1>2, <1>3, <2>1, <3>1 DEF ComingFor, Adding
    <3>2. CASE q # p
      BY <1>1, <1>2, <1>3, <2>1, <3>2 DEF ComingFor, Adding
    <3> QED  BY <3>1, <3>2
  <2> QED  BY <2>1 DEF Coming
<1>7. Units'
  <2>1. \A q \in Partitions : q \in plugged \/ Owed(q) => q \in plugged' \/ Owed(q)'
    BY <1>2, <1>3
  <2> QED  BY <1>1, <2>1 DEF Cleaned, Units, Running, Mounted
<1>8. DirsCleaned' /\ BaseCleaned'
  BY <1>1, <1>6 DEF Cleaned, DirsCleaned, BaseCleaned
<1> QED  BY <1>4, <1>5, <1>7, <1>8 DEF Cleaned

\* An event that is taken from its queue: one that is followed leaves no remove that
\* would be needed.
LEMMA CleanedHandle ==
  ASSUME IndInv, Cleaned, NEW p \in Partitions, Handle(p), TypeOK',
         UNCHANGED <<stick, plugged, mounts>>,
         \A q \in Partitions \ {p} : script'[q] = script[q],
         Head(events[p]) = "remove" => ~Adding(p)' /\ (Mounted(p) => script'[p].pc = "umount")
  PROVE  LastEvent' /\ Followed'
<1> DEFINE e == Head(events[p])
<1>1. /\ e \in {"add", "remove"}
      /\ \A q \in Partitions \ {p} : events'[q] = events[q]
      /\ Owed(p) <=> Owed(p)' \/ e = "remove"
      /\ events'[p] = << >> => events[p][Len(events[p])] = e
      /\ events'[p] # << >> => events'[p][Len(events'[p])] = events[p][Len(events[p])]
  BY HandleQueues DEF IndInv
<1>2. events[p] # << >>
  BY DEF Handle
<1>a. e = "remove" => ~Adding(p)' /\ (Mounted(p) => script'[p].pc = "umount")
  OBVIOUS
<1> HIDE DEF e
<1>3. \A q \in Partitions \ {p} : Owed(q)' <=> Owed(q)
  BY <1>1 DEF Owed
<1>4. LastEvent'
  <2>1. SUFFICES ASSUME NEW q \in Partitions, events'[q] # << >>
                 PROVE  events'[q][Len(events'[q])] = IF q \in plugged THEN "add" ELSE "remove"
    BY DEF Cleaned, LastEvent
  <2> QED  BY <1>1, <1>2, <2>1 DEF Cleaned, LastEvent
<1>5. Followed'
  <2>1. SUFFICES ASSUME NEW q \in Partitions, q \notin plugged
                 PROVE  /\ Mounted(q) => Owed(q)' \/ script'[q].pc = "umount"
                        /\ Adding(q)' => Owed(q)'
    BY DEF Followed, Mounted, Adding
  <2>2. CASE q = p
    <3>1. events[p][Len(events[p])] = "remove"
      BY <1>2, <2>1, <2>2 DEF Cleaned, LastEvent
    <3>2. events'[p] \in Seq({"add", "remove"})
      BY DEF TypeOK
    <3>3. CASE e = "add"
      <4>1. events'[p] # << >> /\ events'[p][Len(events'[p])] = "remove"
        BY <1>1, <3>1, <3>3
      <4>2. Len(events'[p]) \in 1 .. Len(events'[p])
        BY <3>2, <4>1
      <4> QED  BY <2>2, <4>1, <4>2 DEF Owed, Awaits
    <3>4. CASE e = "remove"
      BY <1>a, <2>2, <3>4
    <3> QED  BY <1>1, <3>3, <3>4
  <2>3. CASE q # p
    BY <1>3, <2>1, <2>3 DEF Cleaned, Followed, Adding
  <2> QED  BY <2>2, <2>3
<1> QED  BY <1>4, <1>5

LEMMA CleanedStart ==
  ASSUME IndInv, Cleaned, NEW p \in Partitions, Start(p)
  PROVE  Cleaned'
<1> DEFINE e == Head(events[p])
<1>1. /\ TypeOK /\ UNCHANGED <<systemd, stick, plugged, mounts, base, dirs>>
      /\ script[p].pc = "idle" /\ Handle(p)
  BY DEF IndInv, Start, Handle, Running, conf
<1>2. /\ e \in {"add", "remove"}
      /\ \A q \in Partitions \ {p} : events'[q] = events[q]
      /\ Owed(p) <=> Owed(p)' \/ e = "remove"
  BY <1>1, HandleQueues
<1>3. /\ script'[p].pc = (IF e = "add" THEN "lock" ELSE "umount") /\ script'[p].op = e
      /\ \A q \in Partitions \ {p} : script'[q] = script[q]
  BY <1>1, StartScript
<1>4. /\ systemd => (e = "add" <=> unit[p] # "active")
      /\ e = "add" => unit' = unit
      /\ e = "remove" => unit'[p] = "inactive"
      /\ \A q \in Partitions \ {p} : unit'[q] = unit[q]
  BY <1>2 DEF Start, Runs, IndInv, TypeOK
<1>5. \A q \in Partitions \ {p} : Owed(q)' <=> Owed(q)
  BY <1>2 DEF Owed
<1>a. TypeOK'
  BY StartInv DEF IndInv
<1>6. LastEvent' /\ Followed'
  BY <1>1, <1>3, <1>a, CleanedHandle DEF Adding
<1> HIDE DEF e
<1>7. Units'
  <2>1. SUFFICES ASSUME systemd, NEW q \in Partitions
                 PROVE  /\ Running(q)' => unit'[q] # "active"
                        /\ Mounted(q) => unit'[q] = "active" \/ script'[q].pc \in {"exit", "umount"}
                        /\ unit'[q] = "active" => q \in plugged \/ Owed(q)'
    BY <1>1 DEF Units, Mounted
  <2>2. CASE q = p
    BY <1>1, <1>2, <1>3, <1>4, <2>1, <2>2 DEF Cleaned, Units
  <2>3. CASE q # p
    BY <1>3, <1>4, <1>5, <2>1, <2>3 DEF Cleaned, Units, Running
  <2> QED  BY <2>2, <2>3
<1>8. CASE e = "add"
  <2>1. Coming => Coming'
    <3>1. ASSUME NEW q \in Partitions, ComingFor(q) PROVE ComingFor(q)'
      <4>1. CASE q = p
        BY <1>1, <1>2, <1>3, <1>4, <1>8, <3>1, <4>1 DEF ComingFor, Adding
      <4>2. CASE q # p
        BY <1>1, <1>3, <1>4, <1>5, <1>8, <3>1, <4>2 DEF ComingFor, Adding
      <4> QED  BY <4>1, <4>2
    <3> QED  BY <3>1 DEF Coming
  <2>2. \A q \in Partitions : script[q].op = "remove" => script'[q] = script[q]
    BY <1>1, <1>3 DEF IndInv, RemoveSteps
  <2>3. \A q \in Partitions, d \in dirs : Passes(script[q], d) => Passes(script'[q], d)
    BY <2>2 DEF Passes
  <2>4. DirsCleaned'
    BY <1>1, <2>1, <2>3 DEF Cleaned, DirsCleaned
  <2>5. BaseCleaned'
    BY <1>1, <2>1, <2>2 DEF Cleaned, BaseCleaned
  <2> QED  BY <1>6, <1>7, <2>4, <2>5 DEF Cleaned
<1>9. CASE e = "remove"
  <2>1. script'[p].op = "remove" /\ \A d \in dirs' : Passes(script'[p], d)
    BY <1>3, <1>9 DEF Passes
  <2> QED  BY <1>6, <1>7, <2>1 DEF Cleaned, DirsCleaned, BaseCleaned
<1> QED  BY <1>2, <1>8, <1>9

\* An event that runs no script: a remove is passed only where nothing is mounted.
LEMMA CleanedPass ==
  ASSUME IndInv, Cleaned, NEW p \in Partitions, Pass(p)
  PROVE  Cleaned'
<1>1. /\ UNCHANGED <<systemd, unit, stick, plugged, mounts, base, dirs, script>>
      /\ script[p].pc = "idle" /\ Handle(p)
  BY DEF Pass, Handle, Running, conf
<1>2. /\ Head(events[p]) \in {"add", "remove"}
      /\ \A q \in Partitions \ {p} : events'[q] = events[q]
      /\ Owed(p) <=> Owed(p)' \/ Head(events[p]) = "remove"
  BY <1>1, HandleQueues DEF IndInv
<1>3. systemd = TRUE /\ (Head(events[p]) = "remove" => unit[p] # "active")
  BY <1>2 DEF Pass, Runs, IndInv, TypeOK
<1>4. TypeOK'
  BY PassInv DEF IndInv
<1>5. LastEvent' /\ Followed'
  <2>1. Head(events[p]) = "remove" => ~Mounted(p)
    BY <1>1, <1>3 DEF Cleaned, Units
  <2> QED  BY <1>1, <1>4, <2>1, CleanedHandle DEF Adding
<1>6. \A q \in Partitions \ {p} : Owed(q)' <=> Owed(q)
  BY <1>2 DEF Owed
<1>7. Units'
  <2>1. \A q \in Partitions : unit[q] = "active" /\ Owed(q) => Owed(q)'
    BY <1>2, <1>3, <1>6
  <2> QED  BY <1>1, <2>1 DEF Cleaned, Units, Running, Mounted
<1>8. Coming => Coming'
  BY <1>1, <1>3 DEF Coming, ComingFor, Adding
<1>9. DirsCleaned' /\ BaseCleaned'
  BY <1>1, <1>8 DEF Cleaned, DirsCleaned, BaseCleaned
<1> QED  BY <1>5, <1>7, <1>9 DEF Cleaned

\* A step of a script is no event; what is not about the scripts stays.
LEMMA SameQueues ==
  ASSUME UNCHANGED disk, Cleaned
  PROVE  /\ LastEvent'
         /\ \A q \in Partitions : (Owed(q)' <=> Owed(q)) /\ plugged' = plugged
BY DEF disk, Cleaned, LastEvent, Owed

\* A script that goes on, or a remove that ends, changes nothing of what will come.
LEMMA SameComing ==
  ASSUME UNCHANGED <<disk, conf, unit>>, Cleaned,
         \A q \in Partitions : Adding(q)' <=> Adding(q)
  PROVE  Coming' <=> Coming
<1>1. \A q \in Partitions : ComingFor(q)' <=> ComingFor(q)
  BY SameQueues DEF ComingFor, conf
<1> QED  BY <1>1 DEF Coming

\* What a script that runs may do without an end.
LEMMA UnitsOn ==
  ASSUME Cleaned, UNCHANGED <<disk, conf, unit>>, NEW p \in Partitions, Running(p),
         \A q \in Partitions \ {p} : script'[q] = script[q] /\ (Mounted(q)' => Mounted(q)),
         Mounted(p)' => script'[p].pc \in {"exit", "umount"}
  PROVE  Units'
<1>1. SUFFICES ASSUME systemd, NEW q \in Partitions
               PROVE  /\ Running(q)' => unit[q] # "active"
                      /\ Mounted(q)' => unit[q] = "active" \/ script'[q].pc \in {"exit", "umount"}
                      /\ unit[q] = "active" => q \in plugged' \/ Owed(q)'
  BY DEF Units, conf
<1>2. unit[q] = "active" => q \in plugged' \/ Owed(q)'
  BY <1>1, SameQueues DEF Cleaned, Units
<1> QED  BY <1>1, <1>2 DEF Cleaned, Units, Running

\* What is mounted is plugged in or will be unmounted by a remove, which passes every
\* directory.
LEMMA OccupiedIsFollowed ==
  ASSUME IndInv, Cleaned, NEW d, Occupied(d), ~Coming
  PROVE  \E q \in Partitions : script[q].pc = "umount" /\ Passes(script[q], d)
<1>1. PICK q \in Partitions : <<q, d>> \in mounts
  BY DEF Occupied
<1>2. d \in Places
  BY <1>1 DEF IndInv, TypeOK
<1>3. ~ComingFor(q) /\ Mounted(q)
  BY <1>1, <1>2 DEF Coming, Mounted
<1>4. script[q].pc = "umount"
  <2>1. CASE systemd = FALSE
    BY <1>3, <2>1 DEF ComingFor, Cleaned, Followed
  <2>2. CASE systemd = TRUE
    <3>1. script[q].pc \in {"exit", "umount"}
      BY <1>3, <2>2 DEF ComingFor, Cleaned, Units
    <3>2. script[q].pc = "exit" => Adding(q)
      BY AddHolds DEF Adding, AddPcs
    <3> QED  BY <1>3, <2>2, <3>1, <3>2 DEF ComingFor
  <2> QED  BY <2>1, <2>2 DEF IndInv, TypeOK
<1>5. script[q].op = "remove"
  BY <1>4 DEF IndInv, AddSteps
<1> QED  BY <1>4, <1>5 DEF Passes

\* A script that goes on or ends leaves the mounts to those that follow.
LEMMA FollowedOn ==
  ASSUME Cleaned, UNCHANGED disk, NEW p \in Partitions, mounts' \subseteq mounts,
         script[p].pc \notin {"idle", "umount"}, script' \in [Partitions -> ScriptState],
         script'[p].op = "add" /\ script'[p].pc # "idle" => script[p].op = "add",
         \A q \in Partitions \ {p} : script'[q] = script[q]
  PROVE  Followed'
<1>1. SUFFICES ASSUME NEW q \in Partitions, q \notin plugged
               PROVE  /\ Mounted(q)' => Owed(q) \/ script'[q].pc = "umount"
                      /\ script'[q].op = "add" /\ script'[q].pc # "idle" => Owed(q)
  BY SameQueues DEF Followed
<1>2. Mounted(q)' => Mounted(q)
  BY DEF Mounted
<1> QED  BY <1>1, <1>2 DEF Cleaned, Followed

\* What an add's step does to its unit: nothing while it runs.
LEMMA AddUnit ==
  ASSUME IndInv, NEW p \in Partitions, Add(p)
  PROVE  \/ Adding(p)' /\ unit' = unit /\ script[p].pc # "exit"
         \/ /\ script'[p].pc = "idle" /\ mounts' = mounts
            /\ \/ script[p].pc \in {"lock", "fail"} /\ Ended(p, "failed")
               \/ script[p].pc = "exit" /\ Ended(p, "active")
<1>1. script \in [Partitions -> ScriptState]
  BY DEF IndInv, TypeOK
<1>2. ASSUME NEW x \in Pcs, Goto(p, x), script[p].op = "add", x # "idle" PROVE Adding(p)'
  BY <1>1, <1>2 DEF Goto, Adding, ScriptState
<1>3. script[p].op = "add"
  <2>1. script[p].pc \in {"lock"} \cup AddPcs
    BY DEF Add, Acquire, GiveUp, Known, Evict, Mkdir, Usage, Search, Mount, Exit, At, AddPcs
  <2> QED  BY <2>1 DEF IndInv, TypeOK, RemoveSteps, AddPcs, ScriptState
<1>4. CASE GiveUp(p)
  <2>1. script'[p].pc = "idle"
    BY <1>1, <1>4, IdleType DEF GiveUp
  <2> QED  BY <1>4, <2>1 DEF GiveUp, At
<1>5. CASE Exit(p)
  <2>1. script'[p].pc = "idle" /\ mounts' = mounts
    BY <1>1, <1>5, IdleType DEF Exit
  <2> QED  BY <1>5, <2>1 DEF Exit, At
<1>6. CASE Usage(p)
  <2>1. PICK x \in {"search", "exit", "fail"} : Goto(p, x)
    BY <1>6, UsageStep DEF IndInv
  <2> QED  BY <1>2, <1>3, <1>6, <2>1 DEF Usage, At, Pcs
<1>7. CASE Search(p)
  <2>1. Adding(p)'
    <3>1. CASE Goto(p, "fail")
      BY <1>2, <1>3, <3>1 DEF Pcs
    <3>2. ASSUME NEW d, script' = [script EXCEPT ![p].pc = "mount", ![p].place = d]
          PROVE  Adding(p)'
      BY <1>1, <1>3, <3>2 DEF Adding, ScriptState
    <3> QED  BY <1>7, <3>1, <3>2 DEF Search
  <2> QED  BY <1>7, <2>1 DEF Search, At
<1>8. CASE Known(p)
  BY <1>2, <1>3, <1>8 DEF Known, At, Pcs
<1>9. CASE Acquire(p) \/ Evict(p) \/ Mkdir(p) \/ Mount(p)
  BY <1>2, <1>3, <1>9 DEF Acquire, Evict, Mkdir, Mount, At, Pcs
<1> QED  BY <1>4, <1>5, <1>6, <1>7, <1>8, <1>9 DEF Add

\* A step of an add: the directory it makes is cleaned since its stick is there or a
\* remove follows; under systemd its unit is up when it has ended, or has failed.
LEMMA CleanedAdd ==
  ASSUME IndInv, IndInv', Cleaned, NEW p \in Partitions, Add(p)
  PROVE  Cleaned'
<1>1. UNCHANGED <<disk, conf>> /\ Adding(p) /\ script[p].pc # "umount"
  <2>1. UNCHANGED <<disk, conf>> /\ script[p].pc \in {"lock"} \cup AddPcs
    BY DEF Add, Acquire, GiveUp, Known, Evict, Mkdir, Usage, Search, Mount, Exit, At, AddPcs
  <2>2. script[p].op = "add"
    BY <2>1 DEF IndInv, TypeOK, RemoveSteps, AddPcs, ScriptState
  <2> QED  BY <2>1, <2>2 DEF Adding, AddPcs
<1>2. /\ \A q \in Partitions \ {p} : script'[q] = script[q]
      /\ script' \in [Partitions -> ScriptState]
  BY DEF IndInv, TypeOK, Add, Acquire, GiveUp, Known, Evict, Mkdir, Usage, Search, Mount, Exit, Goto
<1>3. \/ Adding(p)' /\ unit' = unit /\ script[p].pc # "exit"
      \/ /\ script'[p].pc = "idle" /\ mounts' = mounts
         /\ \/ script[p].pc \in {"lock", "fail"} /\ Ended(p, "failed")
            \/ script[p].pc = "exit" /\ Ended(p, "active")
  BY AddUnit
<1>4. Coming'
  <2>1. ComingFor(p)'
    <3>1. CASE systemd = FALSE
      BY <1>1, <3>1, SameQueues DEF Cleaned, Followed, ComingFor, Adding, conf
    <3>2. CASE systemd = TRUE
      <4>1. Adding(p)' \/ unit'[p] # "inactive"
        BY <1>3, <3>2 DEF Ended, IndInv, TypeOK
      <4> QED  BY <1>1, <3>2, <4>1 DEF ComingFor, conf
    <3> QED  BY <3>1, <3>2 DEF IndInv, TypeOK
  <2> QED  BY <2>1 DEF Coming
\* Only a stick that is there is mounted.
<1>5. \/ mounts' \subseteq mounts
      \/ /\ p \in plugged /\ mounts' = mounts \cup {<<p, script[p].place>>}
         /\ script'[p].pc = "exit"
  <2>1. CASE Mount(p)
    <3>1. \/ mounts' = mounts
          \/ stick[p].usage = "listed" /\ mounts' = mounts \cup {<<p, script[p].place>>}
      BY <2>1 DEF Mount
    <3>2. stick[p].usage = "listed" => p \in plugged
      BY DEF Cleaned, LastEvent, Absent
    <3>3. script'[p].pc = "exit"
      BY <2>1 DEF Mount, Goto, IndInv, TypeOK, ScriptState
    <3> QED  BY <3>1, <3>2, <3>3
  <2>2. CASE ~Mount(p)
    BY <2>2 DEF Add, Acquire, GiveUp, Known, Evict, Mkdir, Usage, Search, Exit
  <2> QED  BY <2>1, <2>2
<1>6. \A q \in Partitions \ {p} : Mounted(q)' => Mounted(q)
  BY <1>5 DEF Mounted
<1>7. Followed'
  <2>1. CASE mounts' \subseteq mounts
    BY <1>1, <1>2, <2>1, FollowedOn DEF Adding
  <2>2. CASE p \in plugged
    BY <1>1, <1>2, <1>6, <2>2, SameQueues DEF Cleaned, Followed
  <2> QED  BY <1>5, <2>1, <2>2
<1>8. Units'
  <2>1. SUFFICES ASSUME systemd, NEW q \in Partitions
                 PROVE  /\ Running(q)' => unit'[q] # "active"
                        /\ Mounted(q)' => unit'[q] = "active" \/ script'[q].pc \in {"exit", "umount"}
                        /\ unit'[q] = "active" => q \in plugged' \/ Owed(q)'
    BY <1>1 DEF Units, conf
  <2>2. CASE q # p
    <3>1. unit'[q] = unit[q]
      BY <1>3, <2>2 DEF Ended, IndInv, TypeOK
    <3> QED  BY <1>1, <1>2, <1>6, <2>1, <2>2, <3>1, SameQueues DEF Cleaned, Units, Running
  <2>3. CASE q = p
    <3>1. unit[p] # "active" /\ (Mounted(p) => script[p].pc = "exit")
      BY <1>1, <2>1 DEF Cleaned, Units, Running, Adding
    <3>2. CASE Adding(p)' /\ unit' = unit /\ script[p].pc # "exit"
      <4>1. Mounted(p)' => script'[p].pc = "exit"
        BY <1>5, <3>1, <3>2 DEF Mounted
      <4> QED  BY <2>3, <3>1, <3>2, <4>1
    <3>3. CASE /\ script'[p].pc = "idle" /\ mounts' = mounts
               /\ script[p].pc \in {"lock", "fail"} /\ Ended(p, "failed")
      <4>1. unit'[p] = "failed"
        BY <2>1, <3>3 DEF Ended, IndInv, TypeOK
      <4>2. ~Mounted(p)'
        BY <3>1, <3>3 DEF Mounted
      <4> QED  BY <2>3, <4>1, <4>2
    <3>4. CASE /\ script'[p].pc = "idle" /\ mounts' = mounts
               /\ script[p].pc = "exit" /\ Ended(p, "active")
      <4>1. unit'[p] = "active"
        BY <2>1, <3>4 DEF Ended, IndInv, TypeOK
      <4>2. p \in plugged \/ Owed(p)
        BY <1>1 DEF Cleaned, Followed, Adding
      <4> QED  BY <1>1, <2>3, <3>4, <4>1, <4>2, SameQueues DEF Running
    <3> QED  BY <1>3, <3>2, <3>3, <3>4
  <2> QED  BY <2>2, <2>3
<1> QED  BY <1>1, <1>4, <1>7, <1>8, SameQueues DEF Cleaned, DirsCleaned, BaseCleaned

LEMMA CleanedUmount ==
  ASSUME IndInv, IndInv', Cleaned, NEW p \in Partitions, UmountDevice(p)
  PROVE  Cleaned'
<1>1. UNCHANGED <<conf, unit, disk, base, dirs>> /\ script[p].op = "remove" /\ Running(p)
  BY DEF UmountDevice, IndInv, AddSteps, At, Running
<1>2. /\ \A q \in Partitions \ {p} : script'[q] = script[q]
      /\ script'[p].op = "remove" /\ script'[p].pc = "glob"
  BY <1>1 DEF IndInv, TypeOK, UmountDevice, Goto, ScriptState
<1>3. ~Mounted(p)' /\ \A q \in Partitions : Mounted(q)' => Mounted(q)
  BY DEF UmountDevice, Maintained, Mounted
<1>4. Followed'
  BY <1>1, <1>2, <1>3, SameQueues DEF Cleaned, Followed
<1>5. \A d : Passes(script'[p], d)
  BY <1>2 DEF Passes
<1>6. Units'
  BY <1>1, <1>2, <1>3, UnitsOn
<1> QED  BY <1>1, <1>2, <1>4, <1>5, <1>6, SameQueues DEF Cleaned, DirsCleaned, BaseCleaned

-----------------------------------------------------------------------------
(* clean_dynamic *)

\* The fields of a script that is in clean_dynamic.
LEMMA CleanFields ==
  ASSUME IndInv, NEW p \in Partitions, Clean(p)
  PROVE  /\ script[p] \in ScriptState
         /\ script[p].pc \in {"glob", "test", "rmdir"}
         /\ \A q \in Partitions \ {p} : script'[q] = script[q]
         /\ Glob(p) => script'[p].op = script[p].op /\ script'[p].pc = "test" /\ script'[p].todo = dirs
         /\ Rmdir(p) => script'[p].op = script[p].op /\ script'[p].pc = "test"
                        /\ script'[p].todo = script[p].todo
         /\ RmdirBase(p) => script'[p].op = "add" /\ (script[p].op # "add" => script'[p].pc = "idle")
         /\ Test(p) => script'[p].op = script[p].op
<1>1. script[p] \in ScriptState /\ script \in [Partitions -> ScriptState]
  BY DEF IndInv, TypeOK
<1>2. script[p].pc \in {"glob", "test", "rmdir"}
  BY DEF Clean, Glob, Test, Rmdir, RmdirBase, At
<1>3. \A q \in Partitions \ {p} : script'[q] = script[q]
  BY <1>1 DEF Clean, Glob, Test, Rmdir, RmdirBase, Goto
<1>4. ASSUME Glob(p)
      PROVE  script'[p].op = script[p].op /\ script'[p].pc = "test" /\ script'[p].todo = dirs
  BY <1>1, <1>4 DEF Glob, ScriptState
<1>5. ASSUME Rmdir(p)
      PROVE  script'[p].op = script[p].op /\ script'[p].pc = "test"
             /\ script'[p].todo = script[p].todo
  BY <1>1, <1>5 DEF Rmdir, ScriptState
<1>6. ASSUME RmdirBase(p)
      PROVE  script'[p].op = "add" /\ (script[p].op # "add" => script'[p].pc = "idle")
  <2>1. script'[p] = IF script[p].op = "add" THEN [script[p] EXCEPT !.pc = "known", !.place = NoLabel]
                                             ELSE Idle
    BY <1>1, <1>6 DEF RmdirBase
  <2> QED  BY <1>1, <2>1, IdleType DEF ScriptState
<1>7. ASSUME Test(p)
      PROVE  script'[p].op = script[p].op
  <2>1. PICK d \in script[p].todo :
          script' = [script EXCEPT ![p].todo = @ \ {d},
                                   ![p].pc = IF Stale(d) THEN "rmdir" ELSE "test",
                                   ![p].place = IF Stale(d) THEN d ELSE NoLabel]
    BY <1>7 DEF Test
  <2> QED  BY <1>1, <2>1 DEF ScriptState
<1> QED  BY <1>1, <1>2, <1>3, <1>4, <1>5, <1>6, <1>7

\* An add goes on after clean_dynamic, and a remove never runs as an add.
LEMMA AddGoesOn ==
  ASSUME IndInv, NEW p \in Partitions, Clean(p)
  PROVE  Adding(p)' <=> Adding(p)
<1>1. script[p] \in ScriptState /\ script[p].pc \in {"glob", "test", "rmdir"}
  BY CleanFields
<1>2. CASE Glob(p)
  BY <1>1, <1>2, CleanFields DEF Adding
<1>3. CASE Rmdir(p)
  BY <1>1, <1>3, CleanFields DEF Adding
<1>4. CASE Test(p)
  <2>1. PICK d \in script[p].todo :
          script' = [script EXCEPT ![p].todo = @ \ {d},
                                   ![p].pc = IF Stale(d) THEN "rmdir" ELSE "test",
                                   ![p].place = IF Stale(d) THEN d ELSE NoLabel]
    BY <1>4 DEF Test
  <2>2. script'[p].pc \in {"rmdir", "test"} /\ script'[p].op = script[p].op
    BY <1>1, <2>1 DEF ScriptState, IndInv, TypeOK
  <2> QED  BY <1>1, <2>2 DEF Adding
<1>5. CASE RmdirBase(p) /\ script[p].op = "add"
  <2>1. script'[p] = [script[p] EXCEPT !.pc = "known", !.place = NoLabel]
    BY <1>5 DEF RmdirBase, IndInv, TypeOK
  <2> QED  BY <1>1, <1>5, <2>1 DEF Adding, ScriptState
<1>6. CASE RmdirBase(p) /\ script[p].op # "add"
  BY <1>6, CleanFields DEF Adding
<1> QED  BY <1>2, <1>3, <1>4, <1>5, <1>6 DEF Clean

LEMMA CleanedClean ==
  ASSUME IndInv, IndInv', Cleaned, NEW p \in Partitions, Clean(p)
  PROVE  Cleaned'
<1>1. /\ script[p] \in ScriptState
      /\ script[p].pc \in {"glob", "test", "rmdir"}
      /\ \A q \in Partitions \ {p} : script'[q] = script[q]
  BY CleanFields
<1>2. UNCHANGED <<conf, unit, disk>> /\ mounts' = mounts
  BY DEF Clean, Glob, Test, Rmdir, RmdirBase
<1>3. ~RmdirBase(p) => script'[p].op = script[p].op
  BY CleanFields DEF Clean
<1>4. RmdirBase(p) => script'[p].op = "add" /\ (script[p].op # "add" => script'[p].pc = "idle")
  BY CleanFields
<1>5. Followed'
  <2>1. script'[p].op = "add" /\ script'[p].pc # "idle" => script[p].op = "add"
    BY <1>3, <1>4
  <2>2. script' \in [Partitions -> ScriptState]
    BY DEF IndInv, TypeOK
  <2> QED  BY <1>1, <1>2, <2>1, <2>2, FollowedOn
<1>a. \A q \in Partitions : Adding(q)' <=> Adding(q)
  BY <1>1, AddGoesOn DEF Adding
<1>b. Coming' <=> Coming
  BY <1>2, <1>a, SameComing
<1>c. Units'
  <2>1. systemd => ~Mounted(p)
    BY <1>1 DEF Cleaned, Units, Running
  <2>2. Units' \/ systemd
    BY <1>2 DEF Units, conf
  <2> QED  BY <1>1, <1>2, <2>1, <2>2, UnitsOn DEF Running, Mounted
<1>6. SUFFICES ASSUME ~Coming PROVE DirsCleaned' /\ BaseCleaned'
  BY <1>2, <1>5, <1>b, <1>c, SameQueues DEF Cleaned, DirsCleaned, BaseCleaned
<1>7. dirs' \subseteq dirs /\ (base' => base)
  <2>1. dirs' \subseteq dirs
    BY DEF Clean, Glob, Test, Rmdir, RmdirBase
  <2>2. base' = base \/ base' = (base /\ dirs # {})
    BY DEF Clean, Glob, Test, Rmdir, RmdirBase
  <2>3. base' => base
    BY <2>2, Zenon
  <2> QED  BY <2>1, <2>3
\* Every directory that stays is still passed by this script or by another.
<1>8. ASSUME NEW d \in dirs'
      PROVE  \E q \in Partitions : Passes(script'[q], d) /\ (RmdirBase(p) => q # p)
  <2>1. PICK q \in Partitions : Passes(script[q], d)
    BY <1>6, <1>7, <1>8 DEF Cleaned, DirsCleaned
  <2>2. CASE q # p
    BY <1>1, <2>1, <2>2
  <2>3. CASE Occupied(d)
    BY <1>1, <1>6, <2>3, OccupiedIsFollowed
  <2>4. CASE q = p /\ ~Occupied(d)
    <3>1. script[p].op = "remove"
      BY <2>1, <2>4 DEF Passes
    <3>2. CASE Glob(p)
      BY <1>7, <1>8, <2>4, <3>1, <3>2, CleanFields DEF Passes, Glob
    <3>3. CASE Test(p)
      <4>1. script[p].pc = "test" /\ d \in script[p].todo /\ dirs' = dirs
        BY <2>1, <2>4, <3>3 DEF Passes, Test, At
      <4>2. PICK c \in script[p].todo :
              script' = [script EXCEPT ![p].todo = @ \ {c},
                                       ![p].pc = IF Stale(c) THEN "rmdir" ELSE "test",
                                       ![p].place = IF Stale(c) THEN c ELSE NoLabel]
        BY <3>3 DEF Test
      <4>3. /\ script'[p].op = "remove" /\ script'[p].todo = script[p].todo \ {c}
            /\ script'[p].pc = (IF Stale(c) THEN "rmdir" ELSE "test")
            /\ Stale(c) => script'[p].place = c
        BY <1>1, <3>1, <4>2 DEF ScriptState, IndInv, TypeOK
      <4>4. Passes(script'[p], d)
        BY <1>8, <2>4, <4>1, <4>3 DEF Passes, Stale
      <4>5. ~RmdirBase(p)
        BY <4>1 DEF RmdirBase
      <4> QED  BY <4>4, <4>5
    <3>4. CASE Rmdir(p)
      <4>1. script[p].pc = "rmdir" /\ d # script[p].place
        BY <1>8, <2>4, <3>4 DEF Rmdir, At
      <4>2. d \in script[p].todo
        BY <2>1, <2>4, <4>1 DEF Passes
      <4>3. Passes(script'[p], d)
        BY <3>1, <3>4, <4>2, CleanFields DEF Passes
      <4> QED  BY <4>1, <4>3 DEF RmdirBase, At
    <3>5. CASE RmdirBase(p)
      BY <2>1, <2>4, <3>5 DEF Passes, RmdirBase, At
    <3> QED  BY <3>2, <3>3, <3>4, <3>5 DEF Clean
  <2> QED  BY <2>2, <2>3, <2>4
<1>9. DirsCleaned'
  BY <1>8 DEF DirsCleaned
<1>10. BaseCleaned'
  <2>1. CASE RmdirBase(p)
    <3>1. base' => dirs' # {}
      BY <2>1 DEF RmdirBase
    <3>2. base' => \E q \in Partitions : script'[q].op = "remove"
      BY <1>8, <3>1 DEF Passes
    <3> QED  BY <3>2 DEF BaseCleaned
  <2>2. CASE ~RmdirBase(p)
    <3>1. base' => \E q \in Partitions : script[q].op = "remove"
      BY <1>6, <1>7 DEF Cleaned, BaseCleaned
    <3>2. base' => \E q \in Partitions : script'[q].op = "remove"
      BY <1>1, <1>3, <2>2, <3>1
    <3> QED  BY <3>2 DEF BaseCleaned
  <2> QED  BY <2>1, <2>2
<1> QED  BY <1>9, <1>10

LEMMA CleanedInductive == IndInv /\ IndInv' /\ Cleaned /\ [Next]_vars => Cleaned'
<1> SUFFICES ASSUME IndInv, IndInv', Cleaned, [Next]_vars PROVE Cleaned'  OBVIOUS
<1>1. CASE UNCHANGED vars
  BY <1>1 DEF Cleaned, LastEvent, Followed, Units, DirsCleaned, BaseCleaned, Coming, ComingFor,
     Adding, Running, Owed, Mounted, vars, conf, disk
<1>2. ASSUME NEW p \in Partitions, User(p) \/ Script(p) PROVE Cleaned'
  BY <1>2, CleanedUser, CleanedStart, CleanedPass, CleanedClean, CleanedUmount, CleanedAdd DEF Script
<1> QED  BY <1>1, <1>2 DEF Next

THEOREM CleanedInvariant == Spec => []Cleaned
<1> QED  BY CleanedInit, Invariant, CleanedInductive, PTL DEF Spec

\* AllGone, that nothing is left mounted once every stick is gone and udev is done, and
\* no directory either: what one script's clean_dynamic (usbmount:110-132) leaves, another
\* one's still has to pass.  Under systemd a unit that has failed is the only reason for a
\* directory to stay, since its stop runs no remove (usb-mount@.service:5-9).
THEOREM AllGoneHolds == Spec => []AllGone
<1>1. ASSUME IndInv, Cleaned, Quiet, plugged = {}
      PROVE  /\ mounts = {}
             /\ (systemd => \A p \in Partitions : unit[p] # "failed") => dirs = {} /\ ~base
  <2>1. \A p \in Partitions : script[p].pc = "idle" /\ ~Owed(p) /\ script[p].op # "remove"
    <3>1. ASSUME NEW p \in Partitions
          PROVE  script[p].pc = "idle" /\ events[p] = << >> /\ script[p].op # "remove"
      BY <1>1 DEF Quiet, Running, IndInv, RemoveSteps
    <3>2. ~Awaits(<< >>)
      BY DEF Awaits
    <3> QED  BY <3>1, <3>2 DEF Owed
  <2>2. ASSUME systemd => \A p \in Partitions : unit[p] # "failed"
        PROVE  dirs = {} /\ ~base
    <3>1. ~Coming
      <4>1. SUFFICES ASSUME NEW p \in Partitions, ComingFor(p) PROVE FALSE
        BY DEF Coming
      <4>2. systemd = TRUE /\ unit[p] # "inactive" /\ unit[p] # "failed"
        BY <1>1, <2>1, <2>2, <4>1 DEF ComingFor, Adding
      <4>3. unit[p] = "active"
        BY <1>1, <4>2 DEF IndInv, TypeOK
      <4> QED  BY <1>1, <2>1, <4>2, <4>3 DEF Cleaned, Units
    <3> QED  BY <1>1, <2>1, <3>1 DEF Cleaned, DirsCleaned, BaseCleaned, Passes
  <2>4. \A p \in Partitions : ~Mounted(p)
    BY <1>1, <2>1 DEF Cleaned, Followed
  <2>5. mounts = {}
    BY <1>1, <2>4, MountPair DEF Mounted, IndInv
  <2> QED  BY <2>2, <2>5
<1>2. IndInv /\ Cleaned => AllGone
  BY <1>1 DEF AllGone
<1> QED  BY <1>2, Invariant, CleanedInvariant, PTL

-----------------------------------------------------------------------------
(* A calm system *)

\* A remove runs alone.
Alone ==
  \A p, q \in Partitions : p # q /\ script[p].op = "remove" => script[q].pc = "idle"

\* Two sticks, or a stick and the script of another, do not have one label.
Unique ==
  \A p, q \in Partitions : p # q /\ stick[p].label # NoLabel =>
    stick[p].label \notin {stick[q].label, script[q].info.label}

\* After the last remove an add knows its stick, and what is mounted is in its place.
InPlace(p) == \A m \in mounts : m[1] = p => m[2] = stick[p].label
Fresh ==
  \A p \in Partitions : p \in plugged /\ ~Owed(p) =>
    /\ script[p].op = "add" /\ script[p].pc # "idle" => script[p].info = stick[p]
    /\ script[p].pc # "umount" /\ stick[p].label # NoLabel => InPlace(p)

\* udev still has to tell of a stick that came back while a remove runs.
ToldOf ==
  \A p \in Partitions : p \in plugged /\ script[p].op = "remove" => events[p] # << >>

\* The directory of the label waits for its add.
PlaceReady ==
  \A p \in Partitions : script[p].info.label # NoLabel =>
    /\ script[p].pc \in {"usage", "search", "mount"} => script[p].info.label \in dirs
    /\ script[p].pc \in {"mkdir", "usage", "search"} =>
         \A m \in mounts : m[2] # script[p].info.label
    /\ script[p].pc = "mount" => script[p].place = script[p].info.label

\* A stick that can be mounted is told of, on the way, or mounted.
Mountable(p) == stick[p].usage = "listed" /\ stick[p].label # NoLabel
OnTheWay(p) == script[p].pc \in {"lock"} \cup {"glob", "test", "rmdir"} \cup (AddPcs \ {"exit", "fail"})
Settling ==
  \A p \in Partitions : p \in plugged /\ Mountable(p) /\ events[p] = << >> =>
    OnTheWay(p) \/ <<p, stick[p].label>> \in mounts

\* An add that ends well, or has done so under systemd, has mounted its stick: systemctl
\* then starts nothing for another add, and none is needed.
Arriving(p) == script[p].pc = "exit" \/ (systemd = TRUE /\ unit[p] = "active")
Arrived ==
  \A p \in Partitions : p \in plugged /\ ~Owed(p) /\ Mountable(p) /\ Arriving(p) =>
    <<p, stick[p].label>> \in mounts

Settled == Alone /\ Unique /\ Fresh /\ ToldOf /\ PlaceReady /\ Settling /\ Arrived
CalmInv == calm => Settled

-----------------------------------------------------------------------------

LEMMA SettledInit == Init => Settled
<1> SUFFICES ASSUME Init PROVE Settled  OBVIOUS
<1>1. \A p \in Partitions : script[p] = Idle /\ stick[p] = Absent /\ p \notin plugged
  BY DEF Init
<1>2. Idle.pc = "idle" /\ Idle.op = "add" /\ Idle.info.label = NoLabel /\ Absent.label = NoLabel
  BY DEF Idle, Absent
<1> QED  BY <1>1, <1>2 DEF Settled, Alone, Unique, Fresh, ToldOf, PlaceReady, Settling,
         Arrived

\* While an add holds the lock no other script is at work: adds wait for the lock, and
\* a remove runs alone.
LEMMA OthersWait ==
  ASSUME IndInv, Alone, NEW p \in Partitions, NEW q \in Partitions, p # q, script[p].pc \in AddPcs
  PROVE  script[q].pc \in {"idle", "lock"}
<1>1. script[p].op = "add" /\ lock = p
  BY AddHolds
<1>2. script[q].op \in {"add", "remove"}
  BY DEF IndInv, TypeOK, ScriptState
<1>3. script[q].op = "add" => script[q].pc \in {"idle", "lock"}
  BY <1>1 DEF IndInv, Locked, Holding
<1>4. script[q].op # "remove"
  BY DEF Alone, AddPcs
<1> QED  BY <1>2, <1>3, <1>4

\* A script that runs when udev has nothing more to tell of a plugged stick.
LEMMA Knows ==
  ASSUME IndInv, Settled, NEW p \in Partitions, p \in plugged, events[p] = << >>,
         script[p].pc # "idle"
  PROVE  /\ ~Owed(p) /\ script[p].op = "add" /\ script[p].pc # "umount"
         /\ script[p].info = stick[p]
         /\ stick[p].label # NoLabel => InPlace(p)
<1>1. ~Owed(p)
  <2>1. ~Awaits(<< >>)
    BY DEF Awaits
  <2> QED  BY <2>1 DEF Owed
<1>2. script[p].op = "add"
  BY DEF IndInv, TypeOK, ScriptState, Settled, ToldOf
<1>3. script[p].pc # "umount"
  BY <1>2 DEF IndInv, AddSteps
<1> QED  BY <1>1, <1>2, <1>3 DEF Settled, Fresh

\* The scripts' labels and which of them may run.
LEMMA SettledOthers ==
  ASSUME Settled, UNCHANGED disk, NEW p \in Partitions, script[p].pc # "idle",
         \A q \in Partitions \ {p} : script'[q] = script[q],
         script'[p].op = "remove" => script[p].op = "remove",
         script'[p].info = script[p].info \/ script'[p].info.label = NoLabel
  PROVE  Alone' /\ Unique' /\ ToldOf'
<1>1. Alone'
  BY DEF Settled, Alone
<1>2. Unique'
  BY DEF Settled, Unique, disk
<1>3. ToldOf'
  BY DEF Settled, ToldOf, disk
<1> QED  BY <1>1, <1>2, <1>3

LEMMA FreshOn ==
  ASSUME Settled, UNCHANGED disk, NEW p \in Partitions,
         \A q \in Partitions \ {p} : script'[q] = script[q],
         \A m \in mounts' : m \in mounts \/ m[1] = p,
         script'[p].op = "add" /\ script'[p].pc # "idle" =>
           script[p].op = "add" /\ script[p].pc # "idle" /\ script'[p].info = script[p].info,
         p \in plugged /\ ~Owed(p) /\ stick[p].label # NoLabel /\ script'[p].pc # "umount" =>
           InPlace(p)'
  PROVE  Fresh'
<1>1. \A q \in Partitions : (Owed(q)' <=> Owed(q)) /\ plugged' = plugged /\ stick' = stick
  BY DEF Owed, disk
<1>2. \A q \in Partitions \ {p} : InPlace(q) => InPlace(q)'
  BY <1>1 DEF InPlace
<1> QED  BY <1>1, <1>2 DEF Settled, Fresh

LEMMA ReadyOn ==
  ASSUME IndInv, Settled, NEW p \in Partitions,
         \A q \in Partitions \ {p} : script'[q] = script[q],
         script[p].pc \notin {"idle", "lock"} \/ UNCHANGED <<dirs, mounts>>,
         LET l == script'[p].info.label IN l # NoLabel =>
           /\ script'[p].pc \in {"usage", "search", "mount"} => l \in dirs'
           /\ script'[p].pc \in {"mkdir", "usage", "search"} => \A m \in mounts' : m[2] # l
           /\ script'[p].pc = "mount" => script'[p].place = l
  PROVE  PlaceReady'
<1>1. ASSUME NEW q \in Partitions \ {p}, script[q].pc \in {"mkdir", "usage", "search", "mount"}
      PROVE  UNCHANGED <<dirs, mounts>>
  BY <1>1, OthersWait DEF Settled, AddPcs
<1> QED  BY <1>1 DEF Settled, PlaceReady

LEMMA ArrivedOn ==
  ASSUME Settled, UNCHANGED <<disk, conf>>, NEW p \in Partitions,
         \A q \in Partitions \ {p} : script'[q] = script[q] /\ unit'[q] = unit[q],
         \A m \in mounts : m[1] # p /\ m[2] # script[p].info.label => m \in mounts',
         p \in plugged /\ ~Owed(p) /\ Mountable(p) /\ Arriving(p)' =>
           <<p, stick[p].label>> \in mounts'
  PROVE  Arrived'
<1>1. \A q \in Partitions : (Owed(q)' <=> Owed(q)) /\ plugged' = plugged /\ stick' = stick
  BY DEF Owed, disk
<1>2. ASSUME NEW q \in Partitions \ {p}, Mountable(q), <<q, stick[q].label>> \in mounts
      PROVE  <<q, stick[q].label>> \in mounts'
  BY <1>2 DEF Settled, Unique, Mountable
<1>3. \A q \in Partitions \ {p} : Arriving(q)' <=> Arriving(q)
  BY DEF Arriving, conf
<1> QED  BY <1>1, <1>2, <1>3 DEF Settled, Arrived, Mountable

\* A script that goes on has not mounted anything yet.
LEMMA NotArriving ==
  ASSUME Cleaned, NEW p \in Partitions, script[p].pc # "idle", UNCHANGED <<conf, unit>>,
         script'[p].pc # "exit"
  PROVE  ~Arriving(p)'
BY DEF Cleaned, Units, Running, Arriving, conf

LEMMA SettlingOn ==
  ASSUME Settled, UNCHANGED disk, NEW p \in Partitions,
         \A q \in Partitions \ {p} : script'[q] = script[q],
         \A m \in mounts : m[1] # p /\ m[2] # script[p].info.label => m \in mounts',
         p \in plugged /\ Mountable(p) /\ events[p] = << >> =>
           OnTheWay(p)' \/ <<p, stick[p].label>> \in mounts'
  PROVE  Settling'
<1>1. ASSUME NEW q \in Partitions \ {p}, Mountable(q), <<q, stick[q].label>> \in mounts
      PROVE  <<q, stick[q].label>> \in mounts'
  BY <1>1 DEF Settled, Unique, Mountable
<1>2. \A q \in Partitions \ {p} : OnTheWay(q)' <=> OnTheWay(q)
  BY DEF OnTheWay
<1> QED  BY <1>1, <1>2 DEF Settled, Settling, disk, Mountable

-----------------------------------------------------------------------------

\* A step of a script that only moves on or ends.
LEMMA SettledOn ==
  ASSUME IndInv, Settled, UNCHANGED <<conf, disk, mounts>>, NEW p \in Partitions,
         \A q \in Partitions \ {p} : unit'[q] = unit[q],
         p \in plugged /\ ~Owed(p) /\ Mountable(p) /\ Arriving(p)' =>
           <<p, stick[p].label>> \in mounts,
         script[p].pc \notin {"idle", "umount"}, script'[p].pc # "umount",
         \A q \in Partitions \ {p} : script'[q] = script[q],
         script[p].pc # "lock" \/ dirs' = dirs,
         script'[p].op = "remove" => script[p].op = "remove",
         script'[p].op = "add" /\ script'[p].pc # "idle" => script[p].op = "add",
         IF script'[p].pc = "idle" THEN script'[p].info.label = NoLabel
                                   ELSE script'[p].info = script[p].info,
         LET l == script'[p].info.label IN l # NoLabel =>
           /\ script'[p].pc \in {"usage", "search", "mount"} => l \in dirs'
           /\ script'[p].pc \in {"mkdir", "usage", "search"} => \A m \in mounts : m[2] # l
           /\ script'[p].pc = "mount" => script'[p].place = l,
         p \in plugged /\ Mountable(p) /\ events[p] = << >> =>
           OnTheWay(p)' \/ <<p, stick[p].label>> \in mounts
  PROVE  Settled'
<1>1. Alone' /\ Unique' /\ ToldOf'
  BY SettledOthers
<1>2. Fresh'
  <2>1. p \in plugged /\ ~Owed(p) /\ stick[p].label # NoLabel => InPlace(p)'
    BY DEF Settled, Fresh, InPlace, disk
  <2> QED  BY <2>1, FreshOn
<1>3. PlaceReady'
  BY ReadyOn
<1>4. Settling'
  BY SettlingOn
<1>5. Arrived'
  BY ArrivedOn
<1> QED  BY <1>1, <1>2, <1>3, <1>4, <1>5 DEF Settled

\* Goto, and what the scripts of the others are after it.
LEMMA GotoFields ==
  ASSUME TypeOK, NEW p \in Partitions, NEW x, Goto(p, x)
  PROVE  /\ script'[p].pc = x /\ script'[p].op = script[p].op /\ script'[p].info = script[p].info
         /\ script'[p].place = script[p].place
         /\ \A q \in Partitions \ {p} : script'[q] = script[q]
BY DEF Goto, TypeOK, ScriptState

LEMMA IdleFields ==
  ASSUME TypeOK, NEW p \in Partitions, script' = [script EXCEPT ![p] = Idle]
  PROVE  /\ script'[p].pc = "idle" /\ script'[p].op = "add" /\ script'[p].info.label = NoLabel
         /\ \A q \in Partitions \ {p} : script'[q] = script[q]
BY DEF TypeOK, Idle, Absent

LEMMA SettledAcquire ==
  ASSUME IndInv, Settled, Cleaned, NEW p \in Partitions, Acquire(p)
  PROVE  Settled'
<1>1. /\ Goto(p, "glob") /\ UNCHANGED <<conf, unit, disk, mounts, dirs>> /\ script[p].pc = "lock"
  BY DEF Acquire, At
<1>2. /\ script'[p].pc = "glob" /\ script'[p].op = script[p].op /\ script'[p].info = script[p].info
      /\ \A q \in Partitions \ {p} : script'[q] = script[q]
  BY <1>1, GotoFields DEF IndInv
<1>3. OnTheWay(p)' /\ ~Arriving(p)'
  BY <1>1, <1>2, NotArriving DEF OnTheWay
<1> QED  BY <1>1, <1>2, <1>3, SettledOn

\* clean_dynamic leads an add that knows its stick to the rest.
LEMMA SettledClean ==
  ASSUME IndInv, Settled, Cleaned, NEW p \in Partitions, Clean(p)
  PROVE  Settled'
<1>1. /\ script[p].pc \in {"glob", "test", "rmdir"} /\ UNCHANGED <<conf, unit, disk, mounts>>
      /\ \A q \in Partitions \ {p} : script'[q] = script[q]
  BY CleanFields DEF Clean, Glob, Test, Rmdir, RmdirBase
<1>2. \/ /\ script'[p].pc \in {"test", "rmdir"} \/ (script[p].op = "add" /\ script'[p].pc = "known")
         /\ script'[p].op = script[p].op /\ script'[p].info = script[p].info
      \/ /\ script[p].op # "add"
         /\ script'[p].pc = "idle" /\ script'[p].op = "add" /\ script'[p].info.label = NoLabel
  <2>1. script[p] \in ScriptState /\ script \in [Partitions -> ScriptState]
    BY DEF IndInv, TypeOK
  <2>2. CASE Glob(p)
    BY <2>1, <2>2 DEF Glob, ScriptState
  <2>3. CASE Test(p)
    <3>1. PICK d \in script[p].todo :
            script' = [script EXCEPT ![p].todo = @ \ {d},
                                     ![p].pc = IF Stale(d) THEN "rmdir" ELSE "test",
                                     ![p].place = IF Stale(d) THEN d ELSE NoLabel]
      BY <2>3 DEF Test
    <3> QED  BY <2>1, <3>1 DEF ScriptState
  <2>4. CASE Rmdir(p)
    BY <2>1, <2>4 DEF Rmdir, ScriptState
  <2>5. CASE RmdirBase(p) /\ script[p].op = "add"
    <3>1. script'[p] = [script[p] EXCEPT !.pc = "known", !.place = NoLabel]
      BY <2>1, <2>5 DEF RmdirBase
    <3> QED  BY <2>1, <2>5, <3>1 DEF ScriptState
  <2>6. CASE RmdirBase(p) /\ script[p].op # "add"
    <3>1. script' = [script EXCEPT ![p] = Idle]
      BY <2>6 DEF RmdirBase
    <3> QED  BY <2>6, <3>1, IdleFields DEF IndInv
  <2> QED  BY <2>2, <2>3, <2>4, <2>5, <2>6 DEF Clean
<1>3. p \in plugged /\ events[p] = << >> => OnTheWay(p)'
  BY <1>1, <1>2, Knows DEF OnTheWay, AddPcs
<1>4. ~Arriving(p)'
  BY <1>1, <1>2, NotArriving
<1> QED  BY <1>1, <1>2, <1>3, <1>4, SettledOn

LEMMA SettledUmount ==
  ASSUME IndInv, IndInv', Settled, Cleaned, NEW p \in Partitions, UmountDevice(p)
  PROVE  Settled'
<1>1. /\ Goto(p, "glob") /\ UNCHANGED <<conf, unit, disk, dirs>> /\ script[p].pc = "umount"
      /\ script[p].op = "remove" /\ mounts' \subseteq mounts
  BY DEF UmountDevice, At, IndInv, AddSteps
<1>2. /\ script'[p].pc = "glob" /\ script'[p].op = script[p].op /\ script'[p].info = script[p].info
      /\ \A q \in Partitions \ {p} : script'[q] = script[q]
  BY <1>1, GotoFields DEF IndInv
<1>3. \A m \in mounts : m \in mounts' <=> m[1] # p
  <2>1. \A m \in mounts : Maintained(m[2])
    BY MountPair DEF IndInv, Maintained
  <2> QED  BY <2>1 DEF UmountDevice
<1>4. InPlace(p)'
  BY <1>1, <1>3 DEF InPlace
<1>5. p \in plugged => events[p] # << >>
  BY <1>1 DEF Settled, ToldOf
<1>6. Alone' /\ Unique' /\ ToldOf'
  BY <1>1, <1>2, SettledOthers
<1>7. Fresh'
  BY <1>1, <1>2, <1>4, FreshOn
<1>8. PlaceReady'
  BY <1>1, <1>2, ReadyOn
<1>9. Settling'
  BY <1>1, <1>2, <1>3, <1>5, SettlingOn
<1>10. Arrived'
  <2>1. ~Arriving(p)'
    BY <1>1, <1>2, NotArriving
  <2> QED  BY <1>1, <1>2, <1>3, <2>1, ArrivedOn
<1> QED  BY <1>6, <1>7, <1>8, <1>9, <1>10 DEF Settled

LEMMA SettledKnown ==
  ASSUME IndInv, Settled, Cleaned, NEW p \in Partitions, Known(p)
  PROVE  Settled'
<1> DEFINE x == IF Mounted(p) THEN "exit"
                ELSE IF script[p].info.label = NoLabel THEN "usage" ELSE "evict"
<1>1. Goto(p, x) /\ UNCHANGED <<conf, unit, disk, mounts, dirs>> /\ script[p].pc = "known"
  BY DEF Known, At
<1>2. /\ script'[p].pc = x /\ script'[p].op = script[p].op /\ script'[p].info = script[p].info
      /\ \A q \in Partitions \ {p} : script'[q] = script[q]
  BY <1>1, GotoFields DEF IndInv
<1>3. /\ x \in {"exit", "usage", "evict"}
      /\ x = "usage" => script[p].info.label = NoLabel
      /\ x = "exit" => Mounted(p)
  OBVIOUS
<1> HIDE DEF x
\* What is mounted already is in its place.
<1>4. ASSUME p \in plugged, ~Owed(p), Mountable(p), x = "exit"
      PROVE  <<p, stick[p].label>> \in mounts
  <2>1. PICK d \in Places : <<p, d>> \in mounts
    BY <1>3, <1>4 DEF Mounted
  <2>2. InPlace(p)
    BY <1>1, <1>4 DEF Settled, Fresh, Mountable
  <2> QED  BY <2>1, <2>2 DEF InPlace
<1>5. p \in plugged /\ Mountable(p) /\ events[p] = << >> =>
        OnTheWay(p)' \/ <<p, stick[p].label>> \in mounts
  <2>1. CASE x = "exit"
    BY <1>1, <1>4, <2>1, Knows
  <2>2. CASE x # "exit"
    BY <1>2, <1>3, <2>2 DEF OnTheWay, AddPcs
  <2> QED  BY <2>1, <2>2
<1>6. p \in plugged /\ ~Owed(p) /\ Mountable(p) /\ Arriving(p)' =>
        <<p, stick[p].label>> \in mounts
  BY <1>1, <1>2, <1>4, NotArriving
<1> QED  BY <1>1, <1>2, <1>3, <1>5, <1>6, SettledOn

\* In a calm system whatever was at the place of the label is unmounted.
LEMMA SettledEvict ==
  ASSUME IndInv, Settled, calm, Cleaned, NEW p \in Partitions, Evict(p)
  PROVE  Settled'
<1> DEFINE l == script[p].info.label
<1>1. /\ Goto(p, "mkdir") /\ UNCHANGED <<conf, unit, disk, dirs>> /\ script[p].pc = "evict"
      /\ mounts' = {m \in mounts : m[2] # l}
  BY DEF Evict, At
<1>2. /\ script'[p].pc = "mkdir" /\ script'[p].op = script[p].op /\ script'[p].info = script[p].info
      /\ \A q \in Partitions \ {p} : script'[q] = script[q]
  BY <1>1, GotoFields DEF IndInv
<1>3. Alone' /\ Unique' /\ ToldOf'
  BY <1>1, <1>2, SettledOthers
<1>4. Fresh'
  <2>1. p \in plugged /\ ~Owed(p) /\ stick[p].label # NoLabel => InPlace(p)'
    BY <1>1 DEF Settled, Fresh, InPlace, disk
  <2> QED  BY <1>1, <1>2, <2>1, FreshOn
<1>5. PlaceReady'
  BY <1>1, <1>2, ReadyOn
<1>6. OnTheWay(p)'
  BY <1>2 DEF OnTheWay, AddPcs
<1>7. Settling'
  BY <1>1, <1>2, <1>6, SettlingOn
<1>8. Arrived'
  <2>1. ~Arriving(p)'
    BY <1>1, <1>2, NotArriving
  <2> QED  BY <1>1, <1>2, <2>1, ArrivedOn
<1> QED  BY <1>3, <1>4, <1>5, <1>7, <1>8 DEF Settled

LEMMA SettledMkdir ==
  ASSUME IndInv, Settled, Cleaned, NEW p \in Partitions, Mkdir(p)
  PROVE  Settled'
<1>1. /\ Goto(p, "usage") /\ UNCHANGED <<conf, unit, disk, mounts>> /\ script[p].pc = "mkdir"
      /\ script[p].info.label \in dirs'
  BY DEF Mkdir, At
<1>2. /\ script'[p].pc = "usage" /\ script'[p].op = script[p].op /\ script'[p].info = script[p].info
      /\ \A q \in Partitions \ {p} : script'[q] = script[q]
  BY <1>1, GotoFields DEF IndInv
<1>3. OnTheWay(p)' /\ ~Arriving(p)'
  BY <1>1, <1>2, NotArriving DEF OnTheWay, AddPcs
<1>4. \A m \in mounts : m[2] # script[p].info.label
  BY <1>1 DEF Settled, PlaceReady, IndInv, HasLabel
<1> QED  BY <1>1, <1>2, <1>3, <1>4, SettledOn

LEMMA SettledUsage ==
  ASSUME IndInv, Settled, Cleaned, NEW p \in Partitions, Usage(p)
  PROVE  Settled'
<1>a. PICK x \in {"search", "exit", "fail"} :
        Goto(p, x) /\ (script[p].info.usage = "listed" <=> x = "search")
  BY UsageStep DEF IndInv
<1>1. UNCHANGED <<conf, unit, disk, mounts, dirs>> /\ script[p].pc = "usage"
  BY DEF Usage, At
<1>2. /\ script'[p].pc = x /\ script'[p].op = script[p].op /\ script'[p].info = script[p].info
      /\ \A q \in Partitions \ {p} : script'[q] = script[q]
  BY <1>a, GotoFields DEF IndInv
<1>3. ASSUME p \in plugged, Mountable(p), ~Owed(p)
      PROVE  x = "search"
  <2>1. script[p].op = "add"
    BY <1>1, AddHolds DEF AddPcs
  <2> QED  BY <1>1, <1>3, <1>a, <2>1 DEF Settled, Fresh, Mountable
<1>4. p \in plugged /\ Mountable(p) /\ events[p] = << >> => OnTheWay(p)'
  BY <1>1, <1>2, <1>3, Knows DEF OnTheWay, AddPcs
<1>6. p \in plugged /\ ~Owed(p) /\ Mountable(p) => ~Arriving(p)'
  BY <1>1, <1>2, <1>3, NotArriving
<1>5. script[p].info.label # NoLabel =>
        script[p].info.label \in dirs /\ \A m \in mounts : m[2] # script[p].info.label
  BY <1>1 DEF Settled, PlaceReady
<1>7. script'[p].pc \notin {"idle", "umount", "mkdir", "mount", "evict"}
  BY <1>2
<1> QED  BY <1>1, <1>2, <1>4, <1>5, <1>6, <1>7, SettledOn

\* The place of the label is found.
LEMMA SettledSearch ==
  ASSUME IndInv, Settled, Cleaned, NEW p \in Partitions, Search(p)
  PROVE  Settled'
<1> DEFINE l == script[p].info.label
<1>1. /\ UNCHANGED <<conf, unit, disk, mounts, dirs>> /\ script[p].pc = "search"
      /\ script[p] \in ScriptState
  BY DEF Search, At, IndInv, TypeOK
<1>2. l # NoLabel => Preferred(p) = {l}
  <2>1. SUFFICES ASSUME l # NoLabel PROVE l \in Available(p)
    BY DEF Preferred
  <2>2. l \in dirs /\ \A m \in mounts : m[2] # l
    BY <1>1, <2>1 DEF Settled, PlaceReady
  <2> QED  BY <2>2 DEF Available, Exists, Occupied
<1>3. \/ /\ script'[p].pc = "mount" /\ (l # NoLabel => script'[p].place = l)
      \/ script'[p].pc = "fail" /\ l = NoLabel
  <2>1. CASE Preferred(p) = {} /\ Goto(p, "fail")
    BY <1>2, <2>1, GotoFields DEF IndInv
  <2>2. ASSUME NEW d \in Preferred(p),
               script' = [script EXCEPT ![p].pc = "mount", ![p].place = d]
        PROVE  script'[p].pc = "mount" /\ (l # NoLabel => script'[p].place = l)
    BY <1>1, <1>2, <2>2 DEF IndInv, TypeOK, ScriptState
  <2> QED  BY <2>1, <2>2 DEF Search
<1>4. /\ script'[p].op = script[p].op /\ script'[p].info = script[p].info
      /\ \A q \in Partitions \ {p} : script'[q] = script[q]
  BY <1>1, GotoFields DEF Search, IndInv, TypeOK, ScriptState
<1>5. p \in plugged /\ Mountable(p) /\ events[p] = << >> => OnTheWay(p)'
  BY <1>1, <1>3, Knows DEF OnTheWay, AddPcs, Mountable
<1>6. l # NoLabel => l \in dirs
  BY <1>1 DEF Settled, PlaceReady
<1>8. ~Arriving(p)'
  BY <1>1, <1>3, NotArriving
<1> HIDE DEF l
<1>7. script[p].info.label = l /\ script'[p].info.label = l
  BY <1>4 DEF l
<1> QED  BY <1>1, <1>3, <1>4, <1>5, <1>6, <1>7, <1>8, SettledOn

\* In a calm system a stick that is there is mounted, at the place of its label.
LEMMA SettledMount ==
  ASSUME IndInv, Settled, Cleaned, calm, NEW p \in Partitions, Mount(p)
  PROVE  Settled'
<1> DEFINE d == script[p].place
<1>1. /\ Goto(p, "exit") /\ UNCHANGED <<conf, unit, disk, dirs>> /\ script[p].pc = "mount"
      /\ IF stick[p].usage = "listed" /\ Exists(d) THEN mounts' = mounts \cup {<<p, d>>}
                                                   ELSE mounts' = mounts
  BY DEF Mount, At
<1>2. /\ script'[p].pc = "exit" /\ script'[p].op = script[p].op /\ script'[p].info = script[p].info
      /\ \A q \in Partitions \ {p} : script'[q] = script[q]
  BY <1>1, GotoFields DEF IndInv
<1>3. script[p].op = "add"
  BY <1>1, AddHolds DEF AddPcs
<1>4. script[p].info.label # NoLabel => d = script[p].info.label /\ d \in dirs
  BY <1>1 DEF Settled, PlaceReady
<1> HIDE DEF d
<1>5. ASSUME p \in plugged, ~Owed(p), stick[p].label # NoLabel
      PROVE  InPlace(p)' /\ d = stick[p].label /\ d \in dirs
  <2>1. script[p].info = stick[p] /\ InPlace(p)
    BY <1>1, <1>3, <1>5 DEF Settled, Fresh
  <2>2. d = stick[p].label /\ d \in dirs
    BY <1>4, <1>5, <2>1
  <2> QED  BY <1>1, <2>1, <2>2 DEF InPlace, disk
<1>6. Alone' /\ Unique' /\ ToldOf'
  BY <1>1, <1>2, SettledOthers
<1>7. Fresh'
  <2>1. \A m \in mounts' : m \in mounts \/ m[1] = p
    BY <1>1
  <2> QED  BY <1>1, <1>2, <1>3, <1>5, <2>1, FreshOn
<1>8. PlaceReady'
  BY <1>1, <1>2, ReadyOn
<1>9. Settling'
  <2>1. ASSUME p \in plugged, Mountable(p), events[p] = << >>
        PROVE  <<p, stick[p].label>> \in mounts'
    <3>1. d = stick[p].label /\ d \in dirs
      BY <1>1, <1>5, <2>1, Knows DEF Mountable
    <3> QED  BY <1>1, <2>1, <3>1 DEF Mountable, Exists
  <2>2. mounts \subseteq mounts'
    BY <1>1
  <2> QED  BY <1>1, <1>2, <2>1, <2>2, SettlingOn
<1>10. Arrived'
  <2>1. p \in plugged /\ ~Owed(p) /\ Mountable(p) => <<p, stick[p].label>> \in mounts'
    BY <1>1, <1>5 DEF Mountable, Exists
  <2>2. mounts \subseteq mounts'
    BY <1>1
  <2> QED  BY <1>1, <1>2, <2>1, <2>2, ArrivedOn
<1> QED  BY <1>6, <1>7, <1>8, <1>9, <1>10 DEF Settled

LEMMA SettledExit ==
  ASSUME IndInv, Settled, NEW p \in Partitions, Exit(p)
  PROVE  Settled'
<1>1. UNCHANGED <<conf, disk, mounts, dirs>> /\ script[p].pc \in {"exit", "fail"}
  BY DEF Exit, At
<1>2. /\ script'[p].pc = "idle" /\ script'[p].op = "add" /\ script'[p].info.label = NoLabel
      /\ \A q \in Partitions \ {p} : script'[q] = script[q]
  BY IdleFields DEF Exit, IndInv
<1>3. ~OnTheWay(p)
  BY <1>1 DEF OnTheWay, AddPcs
<1>4. p \in plugged /\ Mountable(p) /\ events[p] = << >> => <<p, stick[p].label>> \in mounts
  BY <1>3 DEF Settled, Settling
<1>5. Arriving(p)' => script[p].pc = "exit"
  BY <1>1, <1>2 DEF Exit, At, Ended, Arriving, conf, IndInv, TypeOK
<1>6. p \in plugged /\ ~Owed(p) /\ Mountable(p) /\ Arriving(p)' => <<p, stick[p].label>> \in mounts
  BY <1>5 DEF Settled, Arrived, Arriving
<1>7. \A q \in Partitions \ {p} : unit'[q] = unit[q]
  BY DEF Exit, Ended, IndInv, TypeOK
<1> QED  BY <1>1, <1>2, <1>4, <1>6, <1>7, SettledOn

-----------------------------------------------------------------------------

\* A script starts with what blkid says now; a remove starts alone.
LEMMA SettledStart ==
  ASSUME IndInv, Settled, Cleaned, calm, NEW p \in Partitions, Start(p)
  PROVE  Settled'
<1> DEFINE e == Head(events[p])
<1>1. /\ UNCHANGED <<systemd, stick, plugged, mounts, dirs>> /\ script[p].pc = "idle"
      /\ script[p].op = "add" /\ events[p] # << >> /\ Handle(p)
  BY DEF IndInv, TypeOK, RemoveSteps, ScriptState, Start, Handle, Running, conf
<1>2. /\ e \in {"add", "remove"}
      /\ \A q \in Partitions \ {p} : events'[q] = events[q]
      /\ Owed(p) <=> Owed(p)' \/ e = "remove"
      /\ events'[p] = << >> => events[p][Len(events[p])] = e
  BY <1>1, HandleQueues DEF IndInv
<1>3. /\ script'[p].pc = (IF e = "add" THEN "lock" ELSE "umount") /\ script'[p].op = e
      /\ script'[p].info = stick[p]
      /\ \A q \in Partitions \ {p} : script'[q] = script[q]
  BY StartScript DEF IndInv
<1>4. \A q \in Partitions : script[q].pc # "idle" => script[q].op = "add" /\ e = "add"
  BY DEF Start, Running
<1>13. /\ systemd => (e = "add" <=> unit[p] # "active")
       /\ e = "add" => unit' = unit
       /\ e = "remove" => unit'[p] = "inactive"
       /\ \A q \in Partitions \ {p} : unit'[q] = unit[q]
  BY <1>2 DEF Start, Runs, IndInv, TypeOK
<1> HIDE DEF e
<1>5. \A q \in Partitions \ {p} : Owed(q)' <=> Owed(q)
  BY <1>2 DEF Owed
<1>6. Alone'
  <2>1. \A q \in Partitions : script[q].op = "remove" => script[q].pc # "idle"
    BY DEF IndInv, RemoveSteps
  <2> QED  BY <1>2, <1>3, <1>4, <2>1 DEF Settled, Alone
<1>7. Unique'
  BY <1>1, <1>3 DEF Settled, Unique
<1>8. Fresh'
  <2>1. \A q \in Partitions : InPlace(q)' <=> InPlace(q)
    BY <1>1 DEF InPlace
  <2>2. ASSUME NEW q \in Partitions, q \in plugged, ~Owed(q)'
        PROVE  /\ script'[q].op = "add" /\ script'[q].pc # "idle" => script'[q].info = stick[q]
               /\ script'[q].pc # "umount" /\ stick[q].label # NoLabel => InPlace(q)
    <3>1. CASE q = p
      BY <1>1, <1>2, <1>3, <2>2, <3>1 DEF Settled, Fresh
    <3>2. CASE q # p
      BY <1>3, <1>5, <2>2, <3>2 DEF Settled, Fresh
    <3> QED  BY <3>1, <3>2
  <2> QED  BY <1>1, <2>1, <2>2 DEF Fresh
<1>9. ASSUME p \in plugged, events'[p] = << >> PROVE e = "add"
  BY <1>1, <1>2, <1>9 DEF Cleaned, LastEvent
<1>10. ToldOf'
  BY <1>1, <1>2, <1>3, <1>9 DEF Settled, ToldOf
<1>11. PlaceReady'
  BY <1>1, <1>3, ReadyOn
<1>12. Settling'
  <2>1. ASSUME NEW q \in Partitions, q \in plugged, Mountable(q), events'[q] = << >>
        PROVE  OnTheWay(q)' \/ <<q, stick[q].label>> \in mounts
    <3>1. CASE q = p
      BY <1>3, <1>9, <2>1, <3>1 DEF OnTheWay
    <3>2. CASE q # p
      BY <1>2, <1>3, <2>1, <3>2 DEF Settled, Settling, OnTheWay
    <3> QED  BY <3>1, <3>2
  <2> QED  BY <1>1, <2>1 DEF Settling, Mountable
<1>14. Arrived'
  <2>1. ~Arriving(p)'
    BY <1>1, <1>2, <1>3, <1>13 DEF Arriving
  <2>2. \A q \in Partitions \ {p} : Arriving(q)' <=> Arriving(q)
    BY <1>1, <1>3, <1>13 DEF Arriving
  <2> QED  BY <1>1, <1>5, <2>1, <2>2 DEF Settled, Arrived, Mountable
<1> QED  BY <1>6, <1>7, <1>8, <1>10, <1>11, <1>12, <1>14 DEF Settled

\* What is passed is not needed: another add of a stick that is mounted, or the remove of
\* one that is not.
LEMMA SettledPass ==
  ASSUME IndInv, Settled, Cleaned, NEW p \in Partitions, Pass(p)
  PROVE  Settled'
<1> DEFINE e == Head(events[p])
<1>1. /\ UNCHANGED <<systemd, unit, stick, plugged, mounts, dirs, script>>
      /\ script[p].pc = "idle" /\ events[p] # << >> /\ Handle(p)
  BY DEF Pass, Handle, Running, conf
<1>2. /\ e \in {"add", "remove"}
      /\ \A q \in Partitions \ {p} : events'[q] = events[q]
      /\ Owed(p) <=> Owed(p)' \/ e = "remove"
      /\ events'[p] = << >> => events[p][Len(events[p])] = e
  BY <1>1, HandleQueues DEF IndInv
<1>3. systemd = TRUE /\ (e = "add" <=> unit[p] = "active")
  BY <1>2 DEF Pass, Runs, IndInv, TypeOK
<1> HIDE DEF e
<1>4. \A q \in Partitions \ {p} : Owed(q)' <=> Owed(q)
  BY <1>2 DEF Owed
<1>5. Alone' /\ Unique' /\ PlaceReady'
  BY <1>1 DEF Settled, Alone, Unique, PlaceReady
<1>6. ToldOf'
  BY <1>1, <1>2 DEF Settled, ToldOf, IndInv, RemoveSteps
<1>7. e = "remove" => InPlace(p)
  <2>1. e = "remove" => ~Mounted(p)
    BY <1>1, <1>2, <1>3 DEF Cleaned, Units
  <2> QED  BY <2>1, MountPair DEF Mounted, InPlace, IndInv
<1>8. Fresh'
  <2>1. SUFFICES ASSUME NEW q \in Partitions, q \in plugged, ~Owed(q)'
                 PROVE  /\ script[q].op = "add" /\ script[q].pc # "idle" => script[q].info = stick[q]
                        /\ script[q].pc # "umount" /\ stick[q].label # NoLabel => InPlace(q)
    BY <1>1 DEF Fresh, InPlace
  <2>2. CASE q = p
    BY <1>1, <1>2, <1>7, <2>1, <2>2 DEF Settled, Fresh
  <2>3. CASE q # p
    BY <1>4, <2>1, <2>3 DEF Settled, Fresh
  <2> QED  BY <2>2, <2>3
<1>9. Arrived'
  <2>1. SUFFICES ASSUME NEW q \in Partitions, q \in plugged, ~Owed(q)', Mountable(q), Arriving(q)
                 PROVE  <<q, stick[q].label>> \in mounts
    BY <1>1 DEF Arrived, Mountable, Arriving
  <2>2. CASE q = p
    BY <1>1, <1>2, <1>3, <2>1, <2>2 DEF Settled, Arrived, Arriving
  <2>3. CASE q # p
    BY <1>4, <2>1, <2>3 DEF Settled, Arrived
  <2> QED  BY <2>2, <2>3
<1>10. Settling'
  <2>1. SUFFICES ASSUME NEW q \in Partitions, q \in plugged, Mountable(q), events'[q] = << >>
                 PROVE  OnTheWay(q) \/ <<q, stick[q].label>> \in mounts
    BY <1>1 DEF Settling, Mountable, OnTheWay
  <2>2. CASE q = p
    <3>1. e = "add"
      BY <1>1, <1>2, <2>1, <2>2 DEF Cleaned, LastEvent
    <3>2. ~Owed(p)'
      <4>1. ~Awaits(<< >>)
        BY DEF Awaits
      <4> QED  BY <2>1, <2>2, <4>1 DEF Owed
    <3>3. ~Owed(p) /\ Arriving(p)
      BY <1>2, <1>3, <3>1, <3>2 DEF Arriving
    <3> QED  BY <2>1, <2>2, <3>3 DEF Settled, Arrived
  <2>3. CASE q # p
    BY <1>2, <2>1, <2>3 DEF Settled, Settling
  <2> QED  BY <2>2, <2>3
<1> QED  BY <1>5, <1>6, <1>8, <1>9, <1>10 DEF Settled

\* A stick comes or goes: udev tells of it, and no two have one label.
LEMMA SettledUser ==
  ASSUME IndInv, Settled, Cleaned, calm, NEW p \in Partitions, User(p)
  PROVE  Settled'
<1>1. TypeOK /\ UNCHANGED <<systemd, unit, mounts, script, dirs>>
  BY UserStep DEF IndInv, User, Plug, Unplug, Trigger, conf
<1>2. PICK e \in {"add", "remove"} :
        /\ Tell(p, e)
        /\ \A q \in Partitions \ {p} : (q \in plugged' <=> q \in plugged) /\ stick'[q] = stick[q]
        /\ e = "remove" => p \notin plugged' /\ stick'[p].label = NoLabel
        /\ e = "add" /\ p \in plugged => stick'[p] = stick[p]
        /\ e = "add" /\ stick'[p] # stick[p] =>
             \A q \in Partitions \ {p} :
               stick'[p].label \notin {stick[q].label, script[q].info.label} \ {NoLabel}
  <2>1. stick \in [Partitions -> Contents]
    BY <1>1 DEF TypeOK
  <2>2. CASE Plug(p)
    <3>1. PICK c \in Contents :
            /\ \A q \in Partitions \ {p} :
                 c.label \notin {stick[q].label, script[q].info.label} \ {NoLabel}
            /\ stick' = [stick EXCEPT ![p] = c]
      BY <2>2 DEF Plug
    <3>2. stick'[p] = c /\ \A q \in Partitions \ {p} : stick'[q] = stick[q]
      BY <2>1, <3>1
    <3>3. Tell(p, "add") /\ plugged' = plugged \cup {p} /\ p \notin plugged
      BY <2>2 DEF Plug
    <3> QED  BY <3>1, <3>2, <3>3
  <2>3. CASE Unplug(p)
    BY <2>1, <2>3 DEF Unplug, Absent
  <2>4. CASE Trigger(p)
    BY <2>4 DEF Trigger
  <2> QED  BY <2>2, <2>3, <2>4 DEF User
<1>3. /\ \A q \in Partitions \ {p} : events'[q] = events[q] /\ (Owed(q)' <=> Owed(q))
      /\ Owed(p)' <=> Owed(p) \/ e = "remove"
      /\ events'[p] # << >>
  BY <1>1, <1>2, TellQueues DEF Owed
<1>4. Alone' /\ PlaceReady'
  BY <1>1 DEF Settled, Alone, PlaceReady
<1>5. Unique'
  <2>1. SUFFICES ASSUME NEW q \in Partitions, NEW r \in Partitions, q # r, stick'[q].label # NoLabel
                 PROVE  stick'[q].label \notin {stick'[r].label, script[r].info.label}
    BY <1>1 DEF Unique
  <2>2. CASE stick'[p] = stick[p]
    BY <1>2, <2>1, <2>2 DEF Settled, Unique
  <2>3. CASE stick'[p] # stick[p]
    <3>1. CASE q = p
      BY <1>2, <2>1, <2>3, <3>1
    <3>2. CASE r = p
      BY <1>2, <2>1, <2>3, <3>2 DEF Settled, Unique
    <3>3. CASE q # p /\ r # p
      BY <1>2, <2>1, <3>3 DEF Settled, Unique
    <3> QED  BY <3>1, <3>2, <3>3
  <2> QED  BY <2>2, <2>3
\* A stick that comes is not mounted, or a remove is about to unmount what is there.
<1>6. Fresh'
  <2>1. SUFFICES ASSUME NEW q \in Partitions, q \in plugged', ~Owed(q)'
                 PROVE  /\ script[q].op = "add" /\ script[q].pc # "idle" => script[q].info = stick'[q]
                        /\ script[q].pc # "umount" /\ stick'[q].label # NoLabel => InPlace(q)'
    BY <1>1 DEF Fresh
  <2>2. CASE q \in plugged
    <3>1. stick'[q] = stick[q] /\ ~Owed(q)
      BY <1>2, <1>3, <2>1, <2>2
    <3>2. InPlace(q) => InPlace(q)'
      BY <1>1, <3>1 DEF InPlace
    <3> QED  BY <2>2, <3>1, <3>2 DEF Settled, Fresh
  <2>3. CASE q \notin plugged
    <3>1. ~Owed(q)
      BY <1>2, <1>3, <2>1, <2>3
    <3>2. (Mounted(q) => script[q].pc = "umount") /\ ~(script[q].op = "add" /\ script[q].pc # "idle")
      BY <2>3, <3>1 DEF Cleaned, Followed
    <3>3. ~Mounted(q) => InPlace(q)'
      BY <1>1, MountPair DEF InPlace, Mounted
    <3> QED  BY <3>2, <3>3
  <2> QED  BY <2>2, <2>3
<1>7. ToldOf'
  BY <1>1, <1>2, <1>3 DEF Settled, ToldOf
<1>8. Settling'
  BY <1>1, <1>2, <1>3 DEF Settled, Settling, Mountable, OnTheWay
\* A stick that comes has no unit that is up and no add, or its remove is still to come.
<1>9. Arrived'
  <2>1. SUFFICES ASSUME NEW q \in Partitions, q \in plugged', ~Owed(q)', Mountable(q)', Arriving(q)
                 PROVE  <<q, stick'[q].label>> \in mounts
    BY <1>1 DEF Arrived, Arriving
  <2>2. CASE q \in plugged
    <3>1. stick'[q] = stick[q] /\ ~Owed(q)
      BY <1>2, <1>3, <2>1, <2>2
    <3> QED  BY <2>1, <2>2, <3>1 DEF Settled, Arrived, Mountable
  <2>3. CASE q \notin plugged
    <3>1. ~Owed(q)
      BY <1>2, <1>3, <2>1, <2>3
    <3>2. script[q].pc = "exit" => script[q].op = "add"
      BY AddHolds DEF AddPcs
    <3> QED  BY <2>1, <2>3, <3>1, <3>2 DEF Cleaned, Followed, Units, Arriving
  <2> QED  BY <2>2, <2>3
<1> QED  BY <1>4, <1>5, <1>6, <1>7, <1>8, <1>9 DEF Settled

LEMMA CalmInductive ==
  IndInv /\ IndInv' /\ Cleaned /\ CalmInv /\ [Next]_vars => CalmInv'
<1> SUFFICES ASSUME IndInv, IndInv', Cleaned, CalmInv, [Next]_vars, calm' PROVE Settled'
  BY DEF CalmInv
<1>1. calm
  BY DEF Next, User, Plug, Unplug, Trigger, Script, Start, Pass, Handle, conf, Clean, Glob, Test, Rmdir, RmdirBase,
     UmountDevice, Add, Acquire, GiveUp, Known, Evict, Mkdir, Usage, Search, Mount, Exit, vars
<1>2. Settled
  BY <1>1 DEF CalmInv
<1>3. CASE UNCHANGED vars
  BY <1>2, <1>3 DEF Settled, Alone, Unique, Fresh, InPlace, ToldOf, PlaceReady, Settling, Mountable,
     OnTheWay, Owed, Arrived, Arriving, vars, conf, disk
<1>4. ASSUME NEW p \in Partitions, User(p) PROVE Settled'
  BY <1>1, <1>2, <1>4, SettledUser
<1>5. ASSUME NEW p \in Partitions, Script(p) PROVE Settled'
  <2>1. CASE Start(p)  BY <1>1, <1>2, <2>1, SettledStart
  <2>13. CASE Pass(p)  BY <1>2, <2>13, SettledPass
  <2>2. CASE Clean(p)  BY <1>2, <2>2, SettledClean
  <2>3. CASE UmountDevice(p)  BY <1>2, <2>3, SettledUmount
  <2>4. CASE Acquire(p)  BY <1>2, <2>4, SettledAcquire
  <2>5. CASE GiveUp(p)  BY <1>1, <2>5 DEF GiveUp
  <2>6. CASE Known(p)  BY <1>2, <2>6, SettledKnown
  <2>7. CASE Evict(p)  BY <1>1, <1>2, <2>7, SettledEvict
  <2>8. CASE Mkdir(p)  BY <1>2, <2>8, SettledMkdir
  <2>9. CASE Usage(p)  BY <1>2, <2>9, SettledUsage
  <2>10. CASE Search(p)  BY <1>2, <2>10, SettledSearch
  <2>11. CASE Mount(p)  BY <1>1, <1>2, <2>11, SettledMount
  <2>12. CASE Exit(p)  BY <1>2, <2>12, SettledExit
  <2> QED
    BY <1>5, <2>1, <2>2, <2>3, <2>4, <2>5, <2>6, <2>7, <2>8, <2>9, <2>10, <2>11, <2>12, <2>13
       DEF Script, Add
<1> QED  BY <1>3, <1>4, <1>5 DEF Next

\* SettledMounted, that a calm system mounts every stick at its label: an add's directory
\* is not lost to another's clean_dynamic, since adds wait for the lock (usbmount:136-141)
\* and no remove runs at that time, and the place is nobody else's.
THEOREM SettledMountedHolds == Spec => []SettledMounted
<1>1. Init => CalmInv
  BY SettledInit DEF CalmInv
<1>2. Spec => []CalmInv
  BY <1>1, Invariant, CleanedInvariant, CalmInductive, PTL DEF Spec
<1>3. IndInv /\ CalmInv => SettledMounted
  <2>1. SUFFICES ASSUME Settled, Quiet, NEW p \in Partitions, p \in plugged, Mountable(p)
                 PROVE  <<p, stick[p].label>> \in mounts
    BY DEF CalmInv, SettledMounted, Mountable, IndInv, TypeOK
  <2>2. ~OnTheWay(p) /\ events[p] = << >>
    BY <2>1 DEF Quiet, Running, OnTheWay, AddPcs
  <2> QED  BY <2>1, <2>2 DEF Settled, Settling
<1> QED  BY <1>2, <1>3, Invariant, PTL
=============================================================================
