------------------------------ MODULE UsbMount ------------------------------
(***************************************************************************)
(* Mounting of USB sticks: the script usbmount, which is run with "add"    *)
(* and "remove" for each partition of a disk.  Where there is no systemd   *)
(* udev's rules run it for every event.  Where there is one they run       *)
(* systemctl, and the script leaves when udev calls it: only the unit      *)
(* usb-mount@ of the partition runs it, add to start and remove to stop,   *)
(* and systemd stops no unit whose start has failed.                       *)
(*                                                                         *)
(* The partitions of one disk share a directory, MOUNTDIR (/media/sda),    *)
(* with one directory for each label under it; "place" is such a directory *)
(* or one of MOUNTPOINTS.  Events of one partition come one after the      *)
(* other, those of two partitions may be handled together.  An add holds   *)
(* a lock; a remove does not.  A command of the script is one step.        *)
(*                                                                         *)
(* calm, fixed for a behaviour, says that the system makes it easy: a      *)
(* remove does not run together with anything else, a mount does not take  *)
(* longer than the others' patience for the lock, mount and umount work,   *)
(* and no two sticks have one label.                                       *)
(***************************************************************************)
EXTENDS Naturals, Sequences

CONSTANTS Partitions,    \* the partitions a disk may have, by device name
          Labels,        \* labels, or UUIDs of partitions without one
          Mountpoints,   \* the MOUNTPOINTS of usbmount.conf that exist
          NoLabel,       \* blkid reports neither
          Nobody,        \* holds the lock when nobody does
          MaxEvents      \* bound on the events udev has queued for a partition

ASSUME PlacesAssumption == Labels \cap Mountpoints = {} /\ NoLabel \notin Labels \cup Mountpoints
ASSUME NobodyAssumption == Nobody \notin Partitions
ASSUME MaxEventsAssumption == MaxEvents \in Nat \ {0}

Places == Labels \cup Mountpoints

\* What blkid says: a label, and whether there is a file system of one of the
\* FILESYSTEMS, another one, or none.
Contents == [label : Labels \cup {NoLabel}, usage : {"listed", "unlisted", "none"}]
Absent == [label |-> NoLabel, usage |-> "none"]

VARIABLES calm,
          systemd,   \* /bin/systemd exists, fixed for a behaviour
          unit,      \* what systemd knows of usb-mount@ of each partition
          stick,     \* the content of each partition that is plugged in
          plugged,   \* those partitions
          events,    \* udev's events for a partition, the oldest first
          base,      \* MOUNTDIR exists
          dirs,      \* the directories in it
          mounts,    \* /proc/mounts: pairs of a partition and a place
          lock,      \* the holder of .mount.lock
          script     \* the script that runs for each partition

conf == <<calm, systemd>>
disk == <<stick, plugged, events>>
vars == <<conf, unit, disk, base, dirs, mounts, lock, script>>

Idle == [pc |-> "idle", op |-> "add", info |-> Absent, todo |-> {}, place |-> NoLabel]

Init ==
  /\ calm \in BOOLEAN
  /\ systemd \in BOOLEAN
  /\ unit = [p \in Partitions |-> "inactive"]
  /\ stick = [p \in Partitions |-> Absent]
  /\ plugged = {}
  /\ events = [p \in Partitions |-> << >>]
  /\ base = FALSE
  /\ dirs = {}
  /\ mounts = {}
  /\ lock = Nobody
  /\ script = [p \in Partitions |-> Idle]

Mounted(p) == \E d \in Places : <<p, d>> \in mounts
Occupied(d) == \E p \in Partitions : <<p, d>> \in mounts
Exists(d) == d \in dirs \cup Mountpoints
Running(p) == script[p].pc # "idle"

-----------------------------------------------------------------------------
(* Sticks and udev *)

Tell(p, event) ==
  /\ Len(events[p]) < MaxEvents
  /\ events' = [events EXCEPT ![p] = Append(@, event)]

Plug(p) ==
  /\ p \notin plugged
  /\ Tell(p, "add")
  /\ plugged' = plugged \cup {p}
  /\ \E c \in Contents :
       /\ calm => \A q \in Partitions \ {p} :
                    c.label \notin {stick[q].label, script[q].info.label} \ {NoLabel}
       /\ stick' = [stick EXCEPT ![p] = c]
  /\ UNCHANGED <<conf, unit, base, dirs, mounts, lock, script>>

Unplug(p) ==
  /\ p \in plugged
  /\ Tell(p, "remove")
  /\ plugged' = plugged \ {p}
  /\ stick' = [stick EXCEPT ![p] = Absent]
  /\ UNCHANGED <<conf, unit, base, dirs, mounts, lock, script>>

\* "add may be called multiple times on insertion", and "udevadm trigger".
Trigger(p) ==
  /\ p \in plugged
  /\ Tell(p, "add")
  /\ UNCHANGED <<conf, unit, stick, plugged, base, dirs, mounts, lock, script>>

\* Whether an event runs the script: systemctl does nothing to start a unit that
\* is active or to stop one that is not.
Runs(p, event) == systemd => (event = "add" <=> unit[p] # "active")

Handle(p) ==
  /\ ~Running(p)
  /\ events[p] # << >>
  /\ events' = [events EXCEPT ![p] = Tail(@)]
  /\ UNCHANGED <<conf, stick, plugged, base, dirs, mounts, lock>>

\* The script starts and runs blkid, which finds nothing when the stick is gone.
Start(p) ==
  /\ Handle(p)
  /\ Runs(p, Head(events[p]))
  /\ calm => \A q \in Partitions : Running(q) => script[q].op = "add" /\ Head(events[p]) = "add"
  /\ unit' = IF Head(events[p]) = "add" THEN unit ELSE [unit EXCEPT ![p] = "inactive"]
  /\ script' = [script EXCEPT ![p] =
       [Idle EXCEPT !.pc = IF Head(events[p]) = "add" THEN "lock" ELSE "umount",
                    !.op = Head(events[p]),
                    !.info = stick[p]]]

Pass(p) ==
  /\ Handle(p)
  /\ ~Runs(p, Head(events[p]))
  /\ UNCHANGED <<unit, script>>

\* Slip: without RemainAfterExit a unit is inactive again once it has started.
NotRemembered(p, state) ==
  unit' = IF systemd /\ state = "failed" THEN [unit EXCEPT ![p] = state] ELSE unit

\* What systemd makes of the script's exit status; a udev that runs the script
\* itself does not ask.
Ended(p, state) == unit' = IF systemd THEN [unit EXCEPT ![p] = state] ELSE unit

-----------------------------------------------------------------------------
(* Steps of the script *)

At(p, pc) == script[p].pc = pc
Goto(p, pc) == script' = [script EXCEPT ![p].pc = pc]

LockFree == lock = Nobody

Acquire(p) ==
  /\ At(p, "lock")
  /\ LockFree
  /\ lock' = p
  /\ Goto(p, "glob")
  /\ UNCHANGED <<conf, unit, disk, base, dirs, mounts>>

\* Slip: the trap that removes the lock is set before the lock is taken.
UnlockAnyway == Nobody
KeepLock == lock

\* lockfile-create --retry 3: exit 1.
GiveUp(p) ==
  /\ At(p, "lock")
  /\ lock # Nobody
  /\ ~calm
  /\ lock' = KeepLock
  /\ script' = [script EXCEPT ![p] = Idle]
  /\ Ended(p, "failed")
  /\ UNCHANGED <<conf, disk, base, dirs, mounts>>

\* Slip: the test of the mount point that is commented out at line 301 is there.
Listed(d) == d \in Mountpoints
\* The file system of everything that is mounted is in the list.
Maintained(d) == d \in Places

\* remove: "umount -l" of the device if it is mounted.
UmountDevice(p) ==
  /\ At(p, "umount")
  /\ mounts' = {m \in mounts : m[1] # p \/ ~Maintained(m[2])}
  /\ Goto(p, "glob")
  /\ UNCHANGED <<conf, unit, disk, base, dirs, lock>>

(* clean_dynamic *)

\* The shell expands $MOUNTDIR/*.
Glob(p) ==
  /\ At(p, "glob")
  /\ script' = [script EXCEPT ![p].pc = "test", ![p].todo = dirs]
  /\ UNCHANGED <<conf, unit, disk, base, dirs, mounts, lock>>

\* The next directory is skipped if it is gone or in use.
Stale(d) == d \in dirs /\ ~Occupied(d)

Test(p) ==
  /\ At(p, "test")
  /\ \E d \in script[p].todo :
       script' = [script EXCEPT ![p].todo = @ \ {d},
                                ![p].pc = IF Stale(d) THEN "rmdir" ELSE "test",
                                ![p].place = IF Stale(d) THEN d ELSE NoLabel]
  /\ UNCHANGED <<conf, unit, disk, base, dirs, mounts, lock>>

\* The kernel refuses to remove a directory something is mounted on.
Rmdir(p) ==
  /\ At(p, "rmdir")
  /\ dirs' = IF Occupied(script[p].place) THEN dirs ELSE dirs \ {script[p].place}
  /\ script' = [script EXCEPT ![p].pc = "test", ![p].place = NoLabel]
  /\ UNCHANGED <<conf, unit, disk, base, mounts, lock>>

\* rmdir $MOUNTDIR fails unless it is empty.  A remove ends here.
RmdirBase(p) ==
  /\ At(p, "test")
  /\ script[p].todo = {}
  /\ base' = (base /\ dirs # {})
  /\ script' = [script EXCEPT ![p] =
       IF @.op = "add" THEN [@ EXCEPT !.pc = "known", !.place = NoLabel] ELSE Idle]
  /\ UNCHANGED <<conf, unit, disk, dirs, mounts, lock>>

(* The rest of add *)

\* A device that is mounted already is left alone.
Known(p) ==
  /\ At(p, "known")
  /\ Goto(p, IF Mounted(p) THEN "exit"
             ELSE IF script[p].info.label = NoLabel THEN "usage" ELSE "evict")
  /\ UNCHANGED <<conf, unit, disk, base, dirs, mounts, lock>>

\* Whatever is mounted at the place of the label is unmounted, if it is not busy.
Evict(p) ==
  /\ At(p, "evict")
  /\ \/ mounts' = {m \in mounts : m[2] # script[p].info.label}
     \/ ~calm /\ UNCHANGED mounts
  /\ Goto(p, "mkdir")
  /\ UNCHANGED <<conf, unit, disk, base, dirs, lock>>

\* mkdir -p
Mkdir(p) ==
  /\ At(p, "mkdir")
  /\ base' = TRUE
  /\ dirs' = dirs \cup {script[p].info.label}
  /\ Goto(p, "usage")
  /\ UNCHANGED <<conf, unit, disk, mounts, lock>>

\* Without a file system: exit 1, and the directory made for the label stays.
Usage(p) ==
  /\ At(p, "usage")
  /\ Goto(p, CASE script[p].info.usage = "listed" -> "search"
               [] script[p].info.usage = "unlisted" -> "exit"
               [] script[p].info.usage = "none" -> "fail")
  /\ UNCHANGED <<conf, unit, disk, base, dirs, mounts, lock>>

\* The places that exist and are free.
Available(p) == {d \in Mountpoints \cup {script[p].info.label} : Exists(d) /\ ~Occupied(d)}
\* MOUNTPOINTS starts with the directory made for the label.
Preferred(p) ==
  IF script[p].info.label \in Available(p) THEN {script[p].info.label} ELSE Available(p)

Search(p) ==
  /\ At(p, "search")
  /\ \/ \E d \in Preferred(p) :
          script' = [script EXCEPT ![p].pc = "mount", ![p].place = d]
     \/ Preferred(p) = {} /\ Goto(p, "fail")
  /\ UNCHANGED <<conf, unit, disk, base, dirs, mounts, lock>>

\* mount fails when the stick or the directory is gone, and may fail otherwise;
\* the script ends well in any case.
Mount(p) ==
  /\ At(p, "mount")
  /\ \/ /\ stick[p].usage = "listed"
        /\ Exists(script[p].place)
        /\ mounts' = mounts \cup {<<p, script[p].place>>}
     \/ /\ ~calm \/ stick[p].usage # "listed" \/ ~Exists(script[p].place)
        /\ UNCHANGED mounts
  /\ Goto(p, "exit")
  /\ UNCHANGED <<conf, unit, disk, base, dirs, lock>>

\* The trap removes the lock.
Exit(p) ==
  /\ \/ At(p, "exit") /\ Ended(p, "active")
     \/ At(p, "fail") /\ Ended(p, "failed")
  /\ lock' = Nobody
  /\ script' = [script EXCEPT ![p] = Idle]
  /\ UNCHANGED <<conf, disk, base, dirs, mounts>>

-----------------------------------------------------------------------------

Clean(p) == Glob(p) \/ Test(p) \/ Rmdir(p) \/ RmdirBase(p)

Add(p) ==
  \/ Acquire(p) \/ GiveUp(p) \/ Known(p) \/ Evict(p) \/ Mkdir(p)
  \/ Usage(p) \/ Search(p) \/ Mount(p) \/ Exit(p)

Script(p) == Start(p) \/ Pass(p) \/ Clean(p) \/ UmountDevice(p) \/ Add(p)

User(p) == Plug(p) \/ Unplug(p) \/ Trigger(p)

Next == \E p \in Partitions : User(p) \/ Script(p)

Spec == Init /\ [][Next]_vars

-----------------------------------------------------------------------------
(* Properties *)

ScriptState ==
  [pc : {"idle", "lock", "umount", "glob", "test", "rmdir", "known", "evict", "mkdir",
         "usage", "search", "mount", "exit", "fail"},
   op : {"add", "remove"}, info : Contents, todo : SUBSET Labels,
   place : Places \cup {NoLabel}]

\* Every variable has its type.
TypeOK ==
  /\ calm \in BOOLEAN
  /\ systemd \in BOOLEAN
  /\ unit \in [Partitions -> {"inactive", "active", "failed"}]
  /\ stick \in [Partitions -> Contents]
  /\ plugged \subseteq Partitions
  /\ events \in [Partitions -> Seq({"add", "remove"})]
  /\ base \in BOOLEAN
  /\ dirs \subseteq Labels
  /\ mounts \subseteq Partitions \X Places
  /\ lock \in Partitions \cup {Nobody}
  /\ script \in [Partitions -> ScriptState]

Quiet == \A p \in Partitions : ~Running(p) /\ events[p] = << >>

\* A place holds one stick and a stick is in one place, however adds, removes and
\* adds that gave up the lock are interleaved ("a newly plugged in device is mounted
\* on the first directory in this list that exists and on which nothing is mounted
\* yet", usbmount.conf:10-12).
OnePerPlace ==
  \A m, n \in mounts : m[1] = n[1] \/ m[2] = n[2] => m = n

\* When every stick is gone and udev is done, nothing is left mounted, and the
\* directories are gone too: the removes, which clean up without the lock, may all
\* run together and with adds.  Under systemd the directories are gone unless the
\* start of a unit has failed last: its stop runs no remove (exit 1 after the mkdir
\* at 169 leaves the directory, for a LUKS or swap partition for example).
AllGone ==
  Quiet /\ plugged = {} =>
    /\ mounts = {}
    /\ (systemd => \A p \in Partitions : unit[p] # "failed") => dirs = {} /\ ~base

\* In a calm system every stick with a label and a file system of the list ends up
\* mounted at its label: no add loses its directory to another add's clean_dynamic.
SettledMounted ==
  calm /\ Quiet =>
    \A p \in plugged : stick[p].usage = "listed" /\ stick[p].label # NoLabel =>
      <<p, stick[p].label>> \in mounts
=============================================================================
