---------------------------- MODULE GadgetEnable ----------------------------
(***************************************************************************)
(* Adding and removing USB functions of the running gadget: the commands   *)
(* "letux-gadget.sh add" and "remove" and the debounced reconfiguration of *)
(* core/etc/gadget/core/libgadget.sh behind them.                          *)
(*                                                                         *)
(* Every service that brings a function (tty, storage, network, video)     *)
(* runs the script on its own.  A call unbinds the gadget, changes the     *)
(* functions and leaves a background shell that sleeps, links the          *)
(* functions into the configuration, writes its name and binds the gadget  *)
(* again.  /tmp/gadget_enable_device_debounce.pid names that shell, and    *)
(* the next call kills it.  A command of the shell is one step.            *)
(*                                                                         *)
(* sysvinit starts the services one after the other                        *)
(* (core/etc/init.d/letux-gadget@usb0:39), systemd starts them together:   *)
(* the constant Concurrent.  The gadget has been set up with one           *)
(* configuration, c.1, by "letux-gadget.sh start".                         *)
(***************************************************************************)
EXTENDS Naturals, Sequences, FiniteSets

CONSTANTS Calls,        \* the calls of the script, one each; also the shell it leaves
          Kinds,        \* the kind of each function directory, in the order of a glob
          Concurrent    \* whether calls may overlap

ASSUME KindsAssumption == Kinds \in Seq({"acm", "ecm", "ncm", "rndis", "uvc"}) /\ Kinds # << >>
ASSUME ConcurrentAssumption == Concurrent \in BOOLEAN
ASSUME CallsAssumption == "no pid" \notin Calls

Dirs == 1 .. Len(Kinds)
Kind == {Kinds[d] : d \in Dirs}
DirsOf(kind) == {d \in Dirs : Kinds[d] = kind}
Lowest(S) == CHOOSE d \in S : \A e \in S : d <= e
Highest(S) == CHOOSE d \in S : \A e \in S : e <= d

NoPid == "no pid"

VARIABLES functions,      \* the directories under functions/
          linked,         \* the functions linked into the configuration
          configuration,  \* the kinds its "configuration" string names
          udc,            \* whether UDC names a controller: the gadget is bound
          pidfile,        \* the debounce file
          call,           \* the calls of letux-gadget.sh
          shell           \* the background shells

vars == <<functions, linked, configuration, udc, pidfile, call, shell>>

\* A process that has not begun, or has ended, and its shell variables.
NoCall(pc) == [pc |-> pc, op |-> "add", kind |-> Kinds[1], dir |-> 1, old |-> NoPid]
NoShell(pc) == [pc |-> pc, todo |-> {}]

Init ==
  /\ functions = {}
  /\ linked = {}
  /\ configuration = {}
  /\ udc = FALSE
  /\ pidfile = NoPid
  /\ call = [c \in Calls |-> NoCall("idle")]
  /\ shell = [c \in Calls |-> NoShell("none")]

Active(c) == call[c].pc \notin {"idle", "done"}
Alive(c) == shell[c].pc \notin {"none", "done", "killed"}
\* The shell has woken up and runs gadget_enable_device_raw.
Reconfiguring(c) == Alive(c) /\ shell[c].pc \notin {"sleep", "rm"}

-----------------------------------------------------------------------------
(* letux-gadget.sh add, remove *)

Goto(c, pc) == call' = [call EXCEPT ![c].pc = pc]

Begin(c) ==
  /\ call[c].pc = "idle"
  /\ Concurrent \/ \A d \in Calls : ~Active(d)
  /\ \E op \in {"add", "remove"}, kind \in Kind :
       call' = [call EXCEPT ![c].pc = "unbind", ![c].op = op, ![c].kind = kind]
  /\ UNCHANGED <<functions, linked, configuration, udc, pidfile, shell>>

\* gadget_unbind_device.
CallUnbind(c) ==
  /\ call[c].pc = "unbind"
  /\ udc' = FALSE
  /\ Goto(c, IF call[c].op = "add" THEN "scan" ELSE "unlink")
  /\ UNCHANGED <<functions, linked, configuration, pidfile, shell>>

\* The first free number of the kind; the last one when none is free.
FreeNumber(kind) ==
  IF DirsOf(kind) \subseteq functions THEN Highest(DirsOf(kind))
                                      ELSE Lowest(DirsOf(kind) \ functions)

Scan(c) ==
  /\ call[c].pc = "scan"
  /\ call' = [call EXCEPT ![c].pc = "mkdir", ![c].dir = FreeNumber(call[c].kind)]
  /\ UNCHANGED <<functions, linked, configuration, udc, pidfile, shell>>

\* mkdir -p: a directory that exists is no error.
Mkdir(c) ==
  /\ call[c].pc = "mkdir"
  /\ functions' = functions \cup {call[c].dir}
  /\ Goto(c, "readpid")
  /\ UNCHANGED <<linked, configuration, udc, pidfile, shell>>

\* The kernel unbinds a gadget that loses a function.
Unlink(c) ==
  /\ call[c].pc = "unlink"
  /\ linked' = linked \ DirsOf(call[c].kind)
  /\ udc' = (udc /\ linked' = linked)
  /\ Goto(c, "rmdir")
  /\ UNCHANGED <<functions, configuration, pidfile, shell>>

\* The kernel refuses to remove a function that is linked.
Rmdir(c) ==
  /\ call[c].pc = "rmdir"
  /\ functions' = functions \ (DirsOf(call[c].kind) \ linked)
  /\ Goto(c, "readpid")
  /\ UNCHANGED <<linked, configuration, udc, pidfile, shell>>

-----------------------------------------------------------------------------
(* gadget_enable_device *)

ReadPid(c) ==
  /\ call[c].pc = "readpid"
  /\ call' = [call EXCEPT ![c].old = pidfile,
                          ![c].pc = IF pidfile = NoPid THEN "fork" ELSE "kill"]
  /\ UNCHANGED <<functions, linked, configuration, udc, pidfile, shell>>

\* Slip: a shell that is reconfiguring already is left alone.
KillSleeping(c) ==
  IF Alive(c) /\ ~Reconfiguring(c) THEN [shell EXCEPT ![c] = NoShell("killed")] ELSE shell

Killed(c) == IF Alive(c) THEN [shell EXCEPT ![c] = NoShell("killed")] ELSE shell

KillOld(c) ==
  /\ call[c].pc = "kill"
  /\ shell' = Killed(call[c].old)
  /\ Goto(c, "fork")
  /\ UNCHANGED <<functions, linked, configuration, udc, pidfile>>

Fork(c) ==
  /\ call[c].pc = "fork"
  /\ shell' = [shell EXCEPT ![c].pc = "sleep"]
  /\ Goto(c, "writepid")
  /\ UNCHANGED <<functions, linked, configuration, udc, pidfile>>

\* Only now does the file name the new shell.
WritePid(c) ==
  /\ call[c].pc = "writepid"
  /\ pidfile' = c
  /\ call' = [call EXCEPT ![c] = NoCall("done")]
  /\ UNCHANGED <<functions, linked, configuration, udc, shell>>

Call(c) ==
  \/ CallUnbind(c) \/ Scan(c) \/ Mkdir(c) \/ Unlink(c) \/ Rmdir(c)
  \/ ReadPid(c) \/ KillOld(c) \/ Fork(c) \/ WritePid(c)

-----------------------------------------------------------------------------
(* The background shell: gadget_link_functions *)

ShellGoto(c, pc) == shell' = [shell EXCEPT ![c].pc = pc]

\* The sleep is over, and the shell expands functions/*.usb0.
Wake(c) ==
  /\ shell[c].pc = "sleep"
  /\ shell' = [shell EXCEPT ![c] = [pc |-> "check", todo |-> functions]]
  /\ UNCHANGED <<functions, linked, configuration, udc, pidfile, call>>

\* RNDIS and ECM are not mixed in a configuration.
Mixes(d) ==
  \/ Kinds[d] = "ecm" /\ \E e \in linked : Kinds[e] = "rndis"
  \/ Kinds[d] = "rndis" /\ \E e \in linked : Kinds[e] = "ecm"

Check(c) ==
  /\ shell[c].pc = "check"
  /\ shell[c].todo # {}
  /\ LET d == Lowest(shell[c].todo) IN
     IF d \in functions \ linked /\ ~Mixes(d)
     THEN ShellGoto(c, "unbind to link")
     ELSE shell' = [shell EXCEPT ![c].todo = @ \ {d}]
  /\ UNCHANGED <<functions, linked, configuration, udc, pidfile, call>>

\* Slip: the gadget stays bound.
LeaveBound == udc
Unbound == FALSE

UnbindToLink(c) ==
  /\ shell[c].pc = "unbind to link"
  /\ udc' = Unbound
  /\ ShellGoto(c, "link")
  /\ UNCHANGED <<functions, linked, configuration, pidfile, call>>

\* The kernel refuses a link while the gadget is bound; ln's result is ignored.
Link(c) ==
  /\ shell[c].pc = "link"
  /\ LET d == Lowest(shell[c].todo) IN
       /\ linked' = IF ~udc /\ d \in functions THEN linked \cup {d} ELSE linked
       /\ shell' = [shell EXCEPT ![c] = [pc |-> "check", todo |-> @.todo \ {d}]]
  /\ UNCHANGED <<functions, configuration, udc, pidfile, call>>

-----------------------------------------------------------------------------
(* gadget_update_configuration *)

UnbindToUpdate(c) ==
  /\ shell[c].pc = "check"
  /\ shell[c].todo = {}
  /\ udc' = FALSE
  /\ ShellGoto(c, "write")
  /\ UNCHANGED <<functions, linked, configuration, pidfile, call>>

Write(c) ==
  /\ shell[c].pc = "write"
  /\ configuration' = {Kinds[d] : d \in linked}
  /\ ShellGoto(c, "bind")
  /\ UNCHANGED <<functions, linked, udc, pidfile, call>>

\* Slip: the gadget is bound only if it was bound before.
BindIfBound == udc

\* gadget_bind_device; the kernel refuses a configuration without functions.
BindDevice == udc \/ linked # {}

Bind(c) ==
  /\ shell[c].pc = "bind"
  /\ udc' = BindDevice
  /\ ShellGoto(c, "rm")
  /\ UNCHANGED <<functions, linked, configuration, pidfile, call>>

\* Whatever shell the file names by now.
RemovePid(c) ==
  /\ shell[c].pc = "rm"
  /\ pidfile' = NoPid
  /\ ShellGoto(c, "done")
  /\ UNCHANGED <<functions, linked, configuration, udc, call>>

Shell(c) ==
  \/ Wake(c) \/ Check(c) \/ UnbindToLink(c) \/ Link(c)
  \/ UnbindToUpdate(c) \/ Write(c) \/ Bind(c) \/ RemovePid(c)

Next == \E c \in Calls : Begin(c) \/ Call(c) \/ Shell(c)

Safety == Init /\ [][Next]_vars

\* A call that has begun and a shell that is alive keep running.
Spec == Safety /\ \A c \in Calls : WF_vars(Call(c)) /\ WF_vars(Shell(c))

-----------------------------------------------------------------------------
(* Properties *)

CallState ==
  [pc : {"idle", "unbind", "scan", "mkdir", "unlink", "rmdir", "readpid", "kill", "fork",
         "writepid", "done"},
   op : {"add", "remove"}, kind : Kind, dir : Dirs, old : Calls \cup {NoPid}]
ShellState ==
  [pc : {"none", "sleep", "check", "unbind to link", "link", "write", "bind", "rm", "done",
         "killed"},
   todo : SUBSET Dirs]

\* Every variable has its type; a linked function exists.
TypeOK ==
  /\ functions \subseteq Dirs
  /\ linked \subseteq functions
  /\ configuration \subseteq Kind
  /\ udc \in BOOLEAN
  /\ pidfile \in Calls \cup {NoPid}
  /\ call \in [Calls -> CallState]
  /\ shell \in [Calls -> ShellState]

\* "do not mix RNDIS and ECM in a configuration" (libgadget.sh:120 and 127).
NoMixing == ~ \E d, e \in linked : Kinds[d] = "ecm" /\ Kinds[e] = "rndis"

\* The configuration is what the functions call for: each one is linked (or left
\* out for its network rival), the string names them and the gadget is bound.
UpToDate ==
  /\ NoMixing
  /\ \A d \in functions : d \in linked \/ Mixes(d)
  /\ configuration = {Kinds[d] : d \in linked}
  /\ udc = (linked # {})

Quiet == \A c \in Calls : ~Active(c) /\ ~Alive(c)

\* When the last call and the last shell are gone the gadget is up to date,
\* whichever shells were killed and wherever (letux-gadget.sh:48-57).
SettledUpToDate == Quiet => UpToDate

\* Two shells never reconfigure at the same time: "coalesce multiple quick
\* calls into single gadget_update_configuration" (libgadget.sh:175).
OneUpdate == \A c, d \in Calls : Reconfiguring(c) /\ Reconfiguring(d) => c = d

\* Every series of calls ends with the gadget up to date, and it stays so.
Converges == <>[]UpToDate
=============================================================================
