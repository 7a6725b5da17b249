------------------------- MODULE GadgetEnableProofs -------------------------
(***************************************************************************)
(* Proofs about GadgetEnable, for any set of calls and any list of         *)
(* functions.  What the debouncing promises holds for calls that come one  *)
(* after the other (~Concurrent).                                          *)
(***************************************************************************)
EXTENDS GadgetEnable, WellFoundedInduction, TLAPS

CallPcs == {"idle", "unbind", "scan", "mkdir", "unlink", "rmdir", "readpid", "kill", "fork",
            "writepid", "done"}
ShellPcs == {"none", "sleep", "check", "unbind to link", "link", "write", "bind", "rm", "done",
             "killed"}

(* Who runs *)

\* Calls come one after the other.
Serial == \A c, d \in Calls : Active(c) /\ Active(d) => c = d

\* A living shell is named by the debounce file or is about to be.
Named == \A c \in Calls : Alive(c) => pidfile = c \/ call[c].pc = "writepid"

\* A call that kills, kills the only living shell.
KillsIt ==
  \A d \in Calls : call[d].pc = "kill" =>
    call[d].old \in Calls /\ \A c \in Calls : Alive(c) => call[d].old = c

NoneAtFork == \A d \in Calls : call[d].pc = "fork" => \A c \in Calls : ~Alive(c)
OwnAtWrite == \A d \in Calls : call[d].pc = "writepid" => \A c \in Calls : Alive(c) => c = d

OneAlive == \A c, d \in Calls : Alive(c) /\ Alive(d) => c = d

Control == Serial /\ Named /\ KillsIt /\ NoneAtFork /\ OwnAtWrite

(* How far the reconfiguration is *)

\* No call is between its unbind and its fork: the functions stay as they are.
AtRest == \A c \in Calls : call[c].pc \in {"idle", "writepid", "done"}

Settled(d) == d \in linked \/ Mixes(d)

\* What shell c has done so far.
Stage(c) ==
  /\ shell[c].pc \in {"check", "unbind to link", "link"} =>
       \A d \in functions \ shell[c].todo : Settled(d)
  /\ shell[c].pc \in {"unbind to link", "link"} => Lowest(shell[c].todo) \in functions
  /\ shell[c].pc \in {"link", "write", "bind"} => ~udc
  /\ shell[c].pc \in {"write", "bind"} => \A d \in functions : Settled(d)
  /\ shell[c].pc = "bind" => configuration = {Kinds[d] : d \in linked}
  /\ shell[c].pc = "rm" => UpToDate

\* A shell links only what it has checked.
Checked ==
  \A c \in Calls : shell[c].pc \in {"unbind to link", "link"} =>
    shell[c].todo # {} /\ ~Mixes(Lowest(shell[c].todo))

Progress == AtRest => \A c \in Calls : Stage(c)
Rest == AtRest /\ (\A c \in Calls : ~Alive(c)) => UpToDate

Content == NoMixing /\ Checked /\ Progress /\ Rest

IndInv == TypeOK /\ (~Concurrent => Control /\ Content)

-----------------------------------------------------------------------------
(* The numbers of functions *)

LEMMA NatHasLeast ==
  ASSUME NEW S \in SUBSET Nat, S # {}
  PROVE  \E k \in S : \A j \in S : k <= j
<1> DEFINE R == OpToRel(<, Nat)
<1>1. IsWellFoundedOn(R, Nat)
  BY NatLessThanWellFounded
<1>2. \A i, j \in Nat : i < j => <<i, j>> \in R
  BY DEF OpToRel
<1> HIDE DEF R
<1>3. PICK k \in S : \A j \in S : ~ (<<j, k>> \in R)
  BY <1>1, WFMin
<1>4. ASSUME NEW j \in S PROVE k <= j
  <2>1. j \in Nat /\ k \in Nat /\ ~ (j < k)
    BY <1>2, <1>3
  <2> QED  BY <2>1
<1> QED  BY <1>4

LEMMA Extremes ==
  ASSUME NEW S \in SUBSET Dirs, S # {}
  PROVE  Lowest(S) \in S /\ Highest(S) \in S
<1>1. Len(Kinds) \in Nat /\ S \in SUBSET (1 .. Len(Kinds))
  BY KindsAssumption DEF Dirs
<1>2. S \in SUBSET Nat
  BY <1>1
<1>3. Lowest(S) \in S
  BY <1>2, NatHasLeast DEF Lowest
<1> DEFINE T == {Len(Kinds) - d : d \in S}
<1>4. T \in SUBSET Nat
  <2> SUFFICES ASSUME NEW d \in S PROVE Len(Kinds) - d \in Nat  OBVIOUS
  <2>1. d \in 1 .. Len(Kinds)
    BY <1>1
  <2> QED  BY <2>1, <1>1
<1>5. T # {}
  OBVIOUS
<1>6. PICK m \in T : \A j \in T : m <= j
  <2> HIDE DEF T
  <2> QED  BY <1>4, <1>5, NatHasLeast
<1>7. PICK h \in S : m = Len(Kinds) - h
  OBVIOUS
<1>8. \A j \in S : j <= h
  <2> SUFFICES ASSUME NEW j \in S PROVE j <= h  OBVIOUS
  <2>1. Len(Kinds) - h <= Len(Kinds) - j
    BY <1>6, <1>7
  <2>2. j \in Nat /\ h \in Nat
    BY <1>2
  <2> QED  BY <2>1, <2>2, <1>1
<1>9. Highest(S) \in S
  BY <1>8 DEF Highest
<1> QED  BY <1>3, <1>9

LEMMA FreeNumberType ==
  ASSUME NEW kind \in Kind
  PROVE  FreeNumber(kind) \in Dirs
<1>1. DirsOf(kind) \subseteq Dirs /\ DirsOf(kind) # {}
  BY DEF DirsOf, Kind
<1>2. CASE DirsOf(kind) \subseteq functions
  BY <1>1, <1>2, Extremes DEF FreeNumber
<1>3. CASE ~ (DirsOf(kind) \subseteq functions)
  <2>1. Lowest(DirsOf(kind) \ functions) \in DirsOf(kind) \ functions
    BY <1>1, <1>3, Extremes
  <2> QED  BY <2>1, <1>1, <1>3 DEF FreeNumber
<1> QED  BY <1>2, <1>3

LEMMA FirstKind == Kinds[1] \in Kind /\ 1 \in Dirs
<1>1. 1 \in Dirs
  BY KindsAssumption DEF Dirs
<1> QED  BY <1>1 DEF Kind

-----------------------------------------------------------------------------
(* A call or a shell goes on *)

LEMMA CallGoes ==
  ASSUME TypeOK, NEW c \in Calls, NEW pc \in CallPcs, Goto(c, pc)
  PROVE  /\ call' \in [Calls -> CallState]
         /\ call'[c].pc = pc /\ call'[c].old = call[c].old
         /\ \A d \in Calls : d # c => call'[d] = call[d]
<1>1. call[c] \in CallState
  BY DEF TypeOK
<1>2. [call[c] EXCEPT !.pc = pc] \in CallState
  BY <1>1 DEF CallState, CallPcs
<1>3. call' = [call EXCEPT ![c] = [call[c] EXCEPT !.pc = pc]]
  BY DEF Goto
<1>4. [call[c] EXCEPT !.pc = pc].pc = pc /\ [call[c] EXCEPT !.pc = pc].old = call[c].old
  BY <1>1 DEF CallState
<1>5. call'[c] = [call[c] EXCEPT !.pc = pc] /\ \A d \in Calls : d # c => call'[d] = call[d]
  BY <1>3 DEF TypeOK
<1> QED  BY <1>2, <1>3, <1>4, <1>5 DEF TypeOK

LEMMA ShellGoes ==
  ASSUME TypeOK, NEW c \in Calls, NEW pc \in ShellPcs, ShellGoto(c, pc)
  PROVE  /\ shell' \in [Calls -> ShellState]
         /\ shell'[c].pc = pc /\ shell'[c].todo = shell[c].todo
         /\ \A d \in Calls : d # c => shell'[d] = shell[d]
<1>1. shell[c] \in ShellState
  BY DEF TypeOK
<1>2. [shell[c] EXCEPT !.pc = pc] \in ShellState
  BY <1>1 DEF ShellState, ShellPcs
<1>3. shell' = [shell EXCEPT ![c] = [shell[c] EXCEPT !.pc = pc]]
  BY DEF ShellGoto
<1>4. [shell[c] EXCEPT !.pc = pc].pc = pc /\ [shell[c] EXCEPT !.pc = pc].todo = shell[c].todo
  BY <1>1 DEF ShellState
<1>5. shell'[c] = [shell[c] EXCEPT !.pc = pc] /\ \A d \in Calls : d # c => shell'[d] = shell[d]
  BY <1>3 DEF TypeOK
<1> QED  BY <1>2, <1>3, <1>4, <1>5 DEF TypeOK

\* Setting the state of a shell.
LEMMA ShellSet ==
  ASSUME TypeOK, NEW c \in Calls, NEW s \in ShellState, shell' = [shell EXCEPT ![c] = s]
  PROVE  /\ shell' \in [Calls -> ShellState] /\ shell'[c] = s
         /\ \A d \in Calls : d # c => shell'[d] = shell[d]
BY DEF TypeOK

-----------------------------------------------------------------------------
(* Types *)

LEMMA IdleTypes ==
  /\ \A pc \in CallPcs : NoCall(pc) \in CallState /\ NoCall(pc).pc = pc
  /\ \A pc \in ShellPcs : NoShell(pc) \in ShellState /\ NoShell(pc).pc = pc
BY FirstKind DEF NoCall, NoShell, CallState, ShellState, CallPcs, ShellPcs

LEMMA InitType == Init => TypeOK
<1> SUFFICES ASSUME Init PROVE TypeOK  OBVIOUS
<1>1. NoCall("idle") \in CallState /\ NoShell("none") \in ShellState
  BY IdleTypes DEF CallPcs, ShellPcs
<1> QED  BY <1>1 DEF Init, TypeOK

LEMMA CallType ==
  ASSUME TypeOK, NEW c \in Calls, Begin(c) \/ Call(c)
  PROVE  TypeOK'
<1>1. call[c] \in CallState
  BY DEF TypeOK
<1>2. CASE Begin(c)
  <2>1. PICK op \in {"add", "remove"}, kind \in Kind :
          call' = [call EXCEPT ![c].pc = "unbind", ![c].op = op, ![c].kind = kind]
    BY <1>2 DEF Begin
  <2>2. [call[c] EXCEPT !.pc = "unbind", !.op = op, !.kind = kind] \in CallState
    BY <1>1 DEF CallState
  <2>3. call' \in [Calls -> CallState]
    BY <2>1, <2>2 DEF TypeOK
  <2> QED  BY <1>2, <2>3 DEF Begin, TypeOK
<1>3. CASE CallUnbind(c)
  <2>1. \E pc \in CallPcs : Goto(c, pc)
    BY <1>3 DEF CallUnbind, CallPcs
  <2>2. call' \in [Calls -> CallState]
    BY <2>1, CallGoes
  <2> QED  BY <1>3, <2>2 DEF CallUnbind, TypeOK
<1>4. CASE Scan(c)
  <2>1. call[c].kind \in Kind
    BY <1>1 DEF CallState
  <2>2. FreeNumber(call[c].kind) \in Dirs
    BY <2>1, FreeNumberType
  <2>3. [call[c] EXCEPT !.pc = "mkdir", !.dir = FreeNumber(call[c].kind)] \in CallState
    BY <1>1, <2>2 DEF CallState
  <2>4. call' \in [Calls -> CallState]
    BY <1>4, <2>3 DEF Scan, TypeOK
  <2> QED  BY <1>4, <2>4 DEF Scan, TypeOK
<1>5. CASE Mkdir(c)
  <2>1. Goto(c, "readpid") /\ "readpid" \in CallPcs
    BY <1>5 DEF Mkdir, CallPcs
  <2>2. call' \in [Calls -> CallState]
    BY <2>1, CallGoes
  <2>3. call[c].dir \in Dirs
    BY <1>1 DEF CallState
  <2> QED  BY <1>5, <2>2, <2>3 DEF Mkdir, TypeOK
<1>6. CASE Unlink(c)
  <2>1. Goto(c, "rmdir") /\ "rmdir" \in CallPcs
    BY <1>6 DEF Unlink, CallPcs
  <2>2. call' \in [Calls -> CallState]
    BY <2>1, CallGoes
  <2>3. linked' \subseteq functions
    BY <1>6 DEF Unlink, TypeOK
  <2> QED  BY <1>6, <2>2, <2>3 DEF Unlink, TypeOK
<1>7. CASE Rmdir(c)
  <2>1. Goto(c, "readpid") /\ "readpid" \in CallPcs
    BY <1>7 DEF Rmdir, CallPcs
  <2>2. call' \in [Calls -> CallState]
    BY <2>1, CallGoes
  <2> QED  BY <1>7, <2>2 DEF Rmdir, TypeOK
<1>8. CASE ReadPid(c)
  <2> DEFINE pc == IF pidfile = NoPid THEN "fork" ELSE "kill"
  <2>1. [call[c] EXCEPT !.old = pidfile, !.pc = pc] \in CallState
    BY <1>1 DEF CallState, TypeOK
  <2>2. call' \in [Calls -> CallState]
    BY <1>8, <2>1 DEF ReadPid, TypeOK
  <2> QED  BY <1>8, <2>2 DEF ReadPid, TypeOK
<1>9. CASE KillOld(c)
  <2>1. Goto(c, "fork") /\ "fork" \in CallPcs
    BY <1>9 DEF KillOld, CallPcs
  <2>2. call' \in [Calls -> CallState]
    BY <2>1, CallGoes
  <2>3. NoShell("killed") \in ShellState
    BY IdleTypes DEF ShellPcs
  <2>4. shell' \in [Calls -> ShellState]
    BY <1>9, <2>3 DEF KillOld, Killed, TypeOK
  <2> QED  BY <1>9, <2>2, <2>4 DEF KillOld, TypeOK
<1>10. CASE Fork(c)
  <2>1. Goto(c, "writepid") /\ "writepid" \in CallPcs
    BY <1>10 DEF Fork, CallPcs
  <2>2. call' \in [Calls -> CallState]
    BY <2>1, CallGoes
  <2>3. ShellGoto(c, "sleep") /\ "sleep" \in ShellPcs
    BY <1>10 DEF Fork, ShellGoto, ShellPcs
  <2>4. shell' \in [Calls -> ShellState]
    BY <2>3, ShellGoes
  <2> QED  BY <1>10, <2>2, <2>4 DEF Fork, TypeOK
<1>11. CASE WritePid(c)
  <2>1. NoCall("done") \in CallState
    BY IdleTypes DEF CallPcs
  <2>2. call' \in [Calls -> CallState]
    BY <1>11, <2>1 DEF WritePid, TypeOK
  <2> QED  BY <1>11, <2>2 DEF WritePid, TypeOK
<1> QED
  BY <1>2, <1>3, <1>4, <1>5, <1>6, <1>7, <1>8, <1>9, <1>10, <1>11 DEF Call

LEMMA ShellType ==
  ASSUME TypeOK, NEW c \in Calls, Shell(c)
  PROVE  TypeOK'
<1>1. shell[c] \in ShellState /\ shell[c].todo \subseteq Dirs
  BY DEF TypeOK, ShellState
<1>2. CASE Wake(c)
  <2>1. [pc |-> "check", todo |-> functions] \in ShellState
    BY DEF TypeOK, ShellState
  <2>2. shell' \in [Calls -> ShellState]
    BY <1>2, <2>1, ShellSet DEF Wake
  <2> QED  BY <1>2, <2>2 DEF Wake, TypeOK
<1>3. CASE Check(c)
  <2> DEFINE d == Lowest(shell[c].todo)
             s == [shell[c] EXCEPT !.todo = @ \ {d}]
  <2>1. s \in ShellState
    BY <1>1 DEF ShellState
  <2>2. "unbind to link" \in ShellPcs
    BY DEF ShellPcs
  <2>3. ShellGoto(c, "unbind to link") \/ shell' = [shell EXCEPT ![c] = s]
    BY <1>3 DEF Check
  <2>4. shell' \in [Calls -> ShellState]
    <3> HIDE DEF s
    <3> QED  BY <2>1, <2>2, <2>3, ShellGoes, ShellSet
  <2> QED  BY <1>3, <2>4 DEF Check, TypeOK
<1>4. CASE UnbindToLink(c)
  <2>1. ShellGoto(c, "link") /\ "link" \in ShellPcs
    BY <1>4 DEF UnbindToLink, ShellPcs
  <2>2. shell' \in [Calls -> ShellState]
    BY <2>1, ShellGoes
  <2> QED  BY <1>4, <2>2 DEF UnbindToLink, Unbound, TypeOK
<1>5. CASE Link(c)
  <2> DEFINE d == Lowest(shell[c].todo)
             s == [pc |-> "check", todo |-> shell[c].todo \ {d}]
  <2>1. s \in ShellState
    BY <1>1 DEF ShellState
  <2>2. shell' = [shell EXCEPT ![c] = s]
    BY <1>5 DEF Link
  <2>3. shell' \in [Calls -> ShellState]
    <3> HIDE DEF s
    <3> QED  BY <2>1, <2>2, ShellSet
  <2>4. linked' \subseteq functions
    BY <1>5 DEF Link, TypeOK
  <2> QED  BY <1>5, <2>3, <2>4 DEF Link, TypeOK
<1>6. CASE UnbindToUpdate(c)
  <2>1. ShellGoto(c, "write") /\ "write" \in ShellPcs
    BY <1>6 DEF UnbindToUpdate, ShellPcs
  <2>2. shell' \in [Calls -> ShellState]
    BY <2>1, ShellGoes
  <2> QED  BY <1>6, <2>2 DEF UnbindToUpdate, TypeOK
<1>7. CASE Write(c)
  <2>1. ShellGoto(c, "bind") /\ "bind" \in ShellPcs
    BY <1>7 DEF Write, ShellPcs
  <2>2. shell' \in [Calls -> ShellState]
    BY <2>1, ShellGoes
  <2>3. configuration' \subseteq Kind
    BY <1>7 DEF Write, TypeOK, Kind
  <2> QED  BY <1>7, <2>2, <2>3 DEF Write, TypeOK
<1>8. CASE Bind(c)
  <2>1. ShellGoto(c, "rm") /\ "rm" \in ShellPcs
    BY <1>8 DEF Bind, ShellPcs
  <2>2. shell' \in [Calls -> ShellState]
    BY <2>1, ShellGoes
  <2>3. udc' \in BOOLEAN
    BY <1>8 DEF Bind, BindDevice, TypeOK
  <2> QED  BY <1>8, <2>2, <2>3 DEF Bind, TypeOK
<1>9. CASE RemovePid(c)
  <2>1. ShellGoto(c, "done") /\ "done" \in ShellPcs
    BY <1>9 DEF RemovePid, ShellPcs
  <2>2. shell' \in [Calls -> ShellState]
    BY <2>1, ShellGoes
  <2> QED  BY <1>9, <2>2 DEF RemovePid, TypeOK
<1> QED
  BY <1>2, <1>3, <1>4, <1>5, <1>6, <1>7, <1>8, <1>9 DEF Shell

LEMMA TypeStep == TypeOK /\ [Next]_vars => TypeOK'
<1>1. TypeOK /\ Next => TypeOK'
  BY CallType, ShellType DEF Next
<1>2. TypeOK /\ UNCHANGED vars => TypeOK'
  BY DEF TypeOK, vars
<1> QED  BY <1>1, <1>2

-----------------------------------------------------------------------------
(* Who runs *)

LEMMA ControlGivesOne == Control => OneAlive
BY DEF Control, OneAlive, Named, OwnAtWrite

\* After a step of call c of a series, in which only c can be active.
LEMMA OnlyCall ==
  ASSUME NEW c \in Calls,
         \A d \in Calls : d # c => call'[d].pc \in {"idle", "done"},
         \A e \in Calls : Alive(e)' => pidfile' = e \/ call'[e].pc = "writepid",
         call'[c].pc = "kill" => call'[c].old \in Calls /\ \A e \in Calls : Alive(e)' => call'[c].old = e,
         call'[c].pc = "fork" => \A e \in Calls : ~Alive(e)',
         call'[c].pc = "writepid" => \A e \in Calls : Alive(e)' => e = c
  PROVE  Control'
<1>1. Serial'
  BY DEF Serial, Active
<1>2. Named'
  BY DEF Named
<1>3. KillsIt'
  BY DEF KillsIt
<1>4. NoneAtFork'
  BY DEF NoneAtFork
<1>5. OwnAtWrite'
  BY DEF OwnAtWrite
<1> QED  BY <1>1, <1>2, <1>3, <1>4, <1>5 DEF Control

\* A step of a call changes only its own place; while it runs, a living shell is
\* named by the file until the call has forked.
LEMMA CallMoves ==
  ASSUME TypeOK, ~Concurrent, Control, NEW c \in Calls, Begin(c) \/ Call(c)
  PROVE  /\ \A d \in Calls : d # c => call'[d] = call[d] /\ call[d].pc \in {"idle", "done"}
         /\ call[c].pc # "writepid" => \A e \in Calls : Alive(e) => pidfile = e
<1>1. ASSUME NEW d \in Calls, d # c PROVE call'[d] = call[d]
  BY <1>1 DEF Begin, Call, CallUnbind, Scan, Mkdir, Unlink, Rmdir, ReadPid, KillOld, Fork, WritePid,
         Goto, TypeOK
<1>2. ASSUME NEW d \in Calls, d # c PROVE call[d].pc \in {"idle", "done"}
  <2>1. CASE Begin(c)
    BY <2>1, <1>2 DEF Begin, Active
  <2>2. CASE Call(c)
    <3>1. Active(c)
      BY <2>2 DEF Active, Call, CallUnbind, Scan, Mkdir, Unlink, Rmdir, ReadPid, KillOld, Fork, WritePid
    <3> QED  BY <3>1, <1>2 DEF Control, Serial, Active
  <2> QED  BY <2>1, <2>2
<1>3. ASSUME call[c].pc # "writepid", NEW e \in Calls, Alive(e) PROVE pidfile = e
  <2>1. call[e].pc # "writepid"
    BY <1>2, <1>3
  <2> QED  BY <2>1, <1>3 DEF Control, Named
<1> QED  BY <1>1, <1>2, <1>3

LEMMA CallControl ==
  ASSUME TypeOK, ~Concurrent, Control, NEW c \in Calls, Begin(c) \/ Call(c)
  PROVE  Control'
<1> USE CallMoves
<1>0. \A d \in Calls : d # c => call'[d].pc \in {"idle", "done"}
  OBVIOUS
<1>1. ASSUME call[c].pc # "writepid", UNCHANGED <<pidfile, shell>>,
             call'[c].pc \notin {"kill", "fork", "writepid"}
      PROVE  Control'
  <2>1. \A e \in Calls : Alive(e)' => pidfile' = e
    BY <1>1 DEF Alive
  <2> QED  BY <2>1, <1>0, <1>1, OnlyCall
<1>2. CASE Begin(c)
  <2>1. call[c] \in CallState /\ call[c].pc = "idle" /\ UNCHANGED <<pidfile, shell>>
    BY <1>2 DEF Begin, TypeOK
  <2>2. PICK op \in {"add", "remove"}, kind \in Kind :
          call' = [call EXCEPT ![c].pc = "unbind", ![c].op = op, ![c].kind = kind]
    BY <1>2 DEF Begin
  <2>3. [call[c] EXCEPT !.pc = "unbind", !.op = op, !.kind = kind].pc = "unbind"
    BY <2>1 DEF CallState
  <2>4. call'[c].pc = "unbind"
    BY <2>2, <2>3 DEF TypeOK
  <2> QED  BY <2>1, <2>4, <1>1
<1>3. CASE CallUnbind(c) \/ Mkdir(c) \/ Unlink(c) \/ Rmdir(c)
  <2>1. \E pc \in {"scan", "unlink", "readpid", "rmdir"} : Goto(c, pc)
    BY <1>3 DEF CallUnbind, Mkdir, Unlink, Rmdir
  <2>2. call'[c].pc \in {"scan", "unlink", "readpid", "rmdir"}
    BY <2>1, CallGoes DEF CallPcs
  <2>3. call[c].pc # "writepid" /\ UNCHANGED <<pidfile, shell>>
    BY <1>3 DEF CallUnbind, Mkdir, Unlink, Rmdir
  <2> QED  BY <2>2, <2>3, <1>1
<1>4. CASE Scan(c)
  <2>1. call[c] \in CallState
    BY DEF TypeOK
  <2>2. [call[c] EXCEPT !.pc = "mkdir", !.dir = FreeNumber(call[c].kind)].pc = "mkdir"
    BY <2>1 DEF CallState
  <2>3. call'[c].pc = "mkdir"
    BY <1>4, <2>2 DEF Scan, TypeOK
  <2>4. call[c].pc # "writepid" /\ UNCHANGED <<pidfile, shell>>
    BY <1>4 DEF Scan
  <2> QED  BY <2>3, <2>4, <1>1
<1>5. CASE ReadPid(c)
  <2> DEFINE next == IF pidfile = NoPid THEN "fork" ELSE "kill"
             read == [call[c] EXCEPT !.old = pidfile, !.pc = next]
  <2>1. call[c] \in CallState
    BY DEF TypeOK
  <2>2. read.old = pidfile /\ read.pc = next
    BY <2>1 DEF CallState
  <2>3. call'[c] = read
    BY <1>5 DEF ReadPid, TypeOK
  <2>4. call'[c].old = pidfile /\ call'[c].pc = next
    BY <2>2, <2>3
  <2>5. \A e \in Calls : Alive(e)' => pidfile' = e
    BY <1>5 DEF ReadPid, Alive
  <2>6. next = "fork" => \A e \in Calls : ~Alive(e)'
    BY <2>5, <1>5, CallsAssumption DEF NoPid, ReadPid
  <2>7. next = "kill" => pidfile \in Calls /\ pidfile' = pidfile
    BY <1>5 DEF ReadPid, TypeOK
  <2>8. next \in {"fork", "kill"}
    OBVIOUS
  <2> HIDE DEF next, read
  <2> QED  BY <2>4, <2>5, <2>6, <2>7, <2>8, <1>0, OnlyCall
<1>6. CASE KillOld(c)
  <2>1. call'[c].pc = "fork"
    BY <1>6, CallGoes DEF KillOld, CallPcs
  <2>2. call[c].pc = "kill" /\ call[c].old \in Calls /\ \A e \in Calls : Alive(e) => e = call[c].old
    BY <1>6 DEF KillOld, Control, KillsIt
  <2>3. NoShell("killed").pc = "killed"
    BY DEF NoShell
  <2>4. \A e \in Calls : ~Alive(e)'
    <3>1. CASE Alive(call[c].old)
      <4>1. shell' = [shell EXCEPT ![call[c].old] = NoShell("killed")]
        BY <1>6, <3>1 DEF KillOld, Killed
      <4>2. shell'[call[c].old].pc = "killed"
        BY <4>1, <2>2, <2>3 DEF TypeOK
      <4>3. \A e \in Calls : e # call[c].old => shell'[e] = shell[e]
        BY <4>1 DEF TypeOK
      <4> QED  BY <4>2, <4>3, <2>2 DEF Alive
    <3>2. CASE ~Alive(call[c].old)
      <4>1. shell' = shell
        BY <1>6, <3>2 DEF KillOld, Killed
      <4> QED  BY <4>1, <2>2, <3>2 DEF Alive
    <3> QED  BY <3>1, <3>2
  <2> QED  BY <2>1, <2>4, <1>0, OnlyCall
<1>7. CASE Fork(c)
  <2>1. call'[c].pc = "writepid"
    BY <1>7, CallGoes DEF Fork, CallPcs
  <2>2. ShellGoto(c, "sleep")
    BY <1>7 DEF Fork, ShellGoto
  <2>3. \A e \in Calls : e # c => shell'[e] = shell[e] /\ ~Alive(e)
    BY <2>2, <1>7, ShellGoes DEF ShellPcs, Control, NoneAtFork, Fork
  <2>4. \A e \in Calls : Alive(e)' => e = c
    BY <2>3 DEF Alive
  <2> QED  BY <2>1, <2>4, <1>0, OnlyCall
<1>8. CASE WritePid(c)
  <2>1. call'[c].pc = "done"
    BY <1>8, IdleTypes DEF WritePid, TypeOK, CallPcs
  <2>2. \A e \in Calls : Alive(e)' => pidfile' = e
    BY <1>8 DEF WritePid, Alive, Control, OwnAtWrite
  <2> QED  BY <2>1, <2>2, <1>0, OnlyCall
<1> QED  BY <1>2, <1>3, <1>4, <1>5, <1>6, <1>7, <1>8 DEF Call

\* A step of a shell changes only that shell, which was alive.
LEMMA ShellMoves ==
  ASSUME TypeOK, NEW c \in Calls, Shell(c)
  PROVE  /\ Alive(c) /\ call' = call
         /\ \A d \in Calls : d # c => shell'[d] = shell[d]
         /\ pidfile' = pidfile \/ (pidfile' = NoPid /\ shell'[c].pc = "done")
<1>1. Alive(c) /\ call' = call
  BY DEF Alive, Shell, Wake, Check, UnbindToLink, Link, UnbindToUpdate, Write, Bind, RemovePid
<1>2. ASSUME NEW d \in Calls, d # c PROVE shell'[d] = shell[d]
  BY <1>2 DEF Shell, Wake, Check, UnbindToLink, Link, UnbindToUpdate, Write, Bind, RemovePid,
         ShellGoto, TypeOK
<1>3. CASE RemovePid(c)
  BY <1>1, <1>2, <1>3, ShellGoes DEF RemovePid, ShellPcs
<1>4. CASE ~RemovePid(c)
  <2>1. pidfile' = pidfile
    BY <1>4 DEF Shell, Wake, Check, UnbindToLink, Link, UnbindToUpdate, Write, Bind
  <2> QED  BY <2>1, <1>1, <1>2
<1> QED  BY <1>3, <1>4

LEMMA ShellControl ==
  ASSUME TypeOK, Control, NEW c \in Calls, Shell(c)
  PROVE  Control'
<1>1. \A e \in Calls : Alive(e)' => Alive(e)
  BY ShellMoves DEF Alive
<1>2. call' = call /\ \A e \in Calls : Alive(e)' => pidfile' = pidfile
  <2>1. OneAlive
    BY ControlGivesOne
  <2>2. shell'[c].pc = "done" => ~Alive(c)'
    BY DEF Alive
  <2> QED  BY <1>1, <2>1, <2>2, ShellMoves DEF OneAlive
<1>3. Serial'
  BY <1>2 DEF Control, Serial, Active
<1>4. Named'
  BY <1>1, <1>2 DEF Control, Named
<1>5. KillsIt' /\ NoneAtFork' /\ OwnAtWrite'
  BY <1>1, <1>2 DEF Control, KillsIt, NoneAtFork, OwnAtWrite
<1> QED  BY <1>3, <1>4, <1>5 DEF Control

-----------------------------------------------------------------------------
(* How far the reconfiguration is *)

\* The last step of a shell or the first of the next one; only c may be alive.
LEMMA OnlyShell ==
  ASSUME NEW c \in Calls, \A d \in Calls : d # c => ~Alive(d)', NoMixing',
         shell'[c].pc \in {"unbind to link", "link"} =>
           shell'[c].todo # {} /\ ~Mixes(Lowest(shell[c].todo))',
         AtRest' => Stage(c)',
         AtRest' /\ ~Alive(c)' => UpToDate'
  PROVE  Content'
<1>1. Checked'
  BY DEF Checked, Alive
<1>2. Progress'
  BY DEF Progress, Stage, Alive
<1>3. Rest'
  BY DEF Rest
<1> QED  BY <1>1, <1>2, <1>3 DEF Content

\* What is out of the functions' way stays so when more of them are linked.
LEMMA MixesStays ==
  ASSUME linked \subseteq linked'
  PROVE  \A d : Settled(d) => Settled(d)'
BY DEF Settled, Mixes

LEMMA ShellContent ==
  ASSUME TypeOK, Control, Content, NEW c \in Calls, Shell(c)
  PROVE  Content'
<1> DEFINE d == Lowest(shell[c].todo)
<1>1. shell[c] \in ShellState /\ shell[c].todo \in SUBSET Dirs /\ shell \in [Calls -> ShellState]
  BY DEF TypeOK, ShellState
<1>2. \A e \in Calls : e # c => ~Alive(e)'
  BY ShellMoves, ControlGivesOne DEF OneAlive, Alive
<1>3. AtRest' <=> AtRest
  BY ShellMoves DEF AtRest
<1>4. AtRest => Stage(c)
  BY DEF Content, Progress
<1>5. NoMixing
  BY DEF Content
<1>6. CASE Wake(c)
  <2>1. [pc |-> "check", todo |-> functions] \in ShellState
    BY DEF TypeOK, ShellState
  <2>2. shell'[c].pc = "check" /\ shell'[c].todo = functions
    BY <1>6, <2>1, ShellSet DEF Wake
  <2>3. NoMixing' /\ functions' = functions
    BY <1>6, <1>5 DEF Wake, NoMixing
  <2>4. Stage(c)' /\ Alive(c)'
    BY <2>2, <2>3 DEF Stage, Alive
  <2> QED  BY <1>2, <2>2, <2>3, <2>4, OnlyShell
<1>7. CASE Check(c)
  <2>1. shell[c].pc = "check" /\ d \in shell[c].todo
    BY <1>7, <1>1, Extremes DEF Check
  <2>2. UNCHANGED <<functions, linked, configuration, udc>>
    BY <1>7 DEF Check
  <2>3. NoMixing' /\ \A f : (Settled(f)' <=> Settled(f)) /\ (Mixes(f)' <=> Mixes(f))
    BY <2>2, <1>5 DEF NoMixing, Settled, Mixes
  <2>4. CASE d \in functions \ linked /\ ~Mixes(d)
    <3>1. shell'[c].pc = "unbind to link" /\ shell'[c].todo = shell[c].todo
      BY <1>7, <2>4, ShellGoes DEF Check, ShellPcs
    <3>2. AtRest' => Stage(c)'
      BY <3>1, <2>1, <2>2, <2>3, <2>4, <1>3, <1>4 DEF Stage
    <3>3. Alive(c)' /\ ~Mixes(Lowest(shell[c].todo))'
      BY <3>1, <2>3, <2>4 DEF Alive
    <3> QED  BY <3>1, <3>2, <3>3, <2>1, <2>3, <1>2, OnlyShell
  <2>5. CASE ~ (d \in functions \ linked /\ ~Mixes(d))
    <3> DEFINE s == [shell[c] EXCEPT !.todo = @ \ {d}]
    <3>1. s.pc = "check" /\ s.todo = shell[c].todo \ {d} /\ s \in ShellState
      BY <1>1, <2>1 DEF ShellState
    <3>2. shell' = [shell EXCEPT ![c] = s]
      BY <1>7, <2>5 DEF Check
    <3>3. shell'[c] = s
      BY <3>2, <1>1
    <3>4. shell'[c].pc = "check" /\ shell'[c].todo = shell[c].todo \ {d}
      BY <3>1, <3>3
    <3>5. d \in functions => Settled(d)
      BY <2>5 DEF Settled
    <3> HIDE DEF s, d
    <3>6. ASSUME AtRest PROVE \A f \in functions \ (shell[c].todo \ {d}) : Settled(f)
      BY <3>5, <3>6, <1>4, <2>1 DEF Stage
    <3>7. AtRest' => Stage(c)'
      BY <3>4, <3>6, <2>2, <2>3, <1>3 DEF Stage
    <3>8. Alive(c)'
      BY <3>4 DEF Alive
    <3> QED  BY <3>4, <3>7, <3>8, <2>3, <1>2, OnlyShell
  <2> QED  BY <2>4, <2>5
<1>8. CASE UnbindToLink(c)
  <2>1. shell'[c].pc = "link" /\ shell'[c].todo = shell[c].todo
    BY <1>8, ShellGoes DEF UnbindToLink, ShellPcs
  <2>2. UNCHANGED <<functions, linked, configuration>> /\ ~udc' /\ shell[c].pc = "unbind to link"
    BY <1>8 DEF UnbindToLink, Unbound
  <2>3. NoMixing' /\ \A f : (Settled(f)' <=> Settled(f)) /\ (Mixes(f)' <=> Mixes(f))
    BY <2>2, <1>5 DEF NoMixing, Settled, Mixes
  <2>4. shell[c].todo # {} /\ ~Mixes(d)
    BY <2>2 DEF Content, Checked
  <2>5. AtRest' => Stage(c)'
    BY <2>1, <2>2, <2>3, <1>3, <1>4 DEF Stage
  <2>6. Alive(c)' /\ ~Mixes(Lowest(shell[c].todo))'
    BY <2>1, <2>3, <2>4 DEF Alive
  <2> QED  BY <2>1, <2>3, <2>4, <2>5, <2>6, <1>2, OnlyShell
<1>9. CASE Link(c)
  <2>1. shell[c].pc = "link" /\ shell[c].todo # {} /\ ~Mixes(d)
    BY <1>9 DEF Link, Content, Checked
  <2>2. [pc |-> "check", todo |-> shell[c].todo \ {d}] \in ShellState
    BY <1>1 DEF ShellState
  <2>3. shell' = [shell EXCEPT ![c] = [pc |-> "check", todo |-> shell[c].todo \ {d}]]
    BY <1>9 DEF Link
  <2>4. shell'[c].pc = "check" /\ shell'[c].todo = shell[c].todo \ {d}
    BY <2>3, <1>1
  <2>5. linked' = (IF ~udc /\ d \in functions THEN linked \cup {d} ELSE linked) /\ functions' = functions
    BY <1>9 DEF Link
  <2> HIDE DEF d
  <2>6. linked \subseteq linked' /\ linked' \subseteq linked \cup {d}
    BY <2>5
  <2>7. NoMixing'
    BY <1>5, <2>1, <2>6 DEF NoMixing, Mixes
  <2> PICK k : k = d
    OBVIOUS
  <2>8. ASSUME AtRest PROVE \A f \in functions \ (shell[c].todo \ {k}) : Settled(f)'
    <3>1. ~udc /\ k \in functions /\ \A f \in functions \ shell[c].todo : Settled(f)
      BY <2>8, <2>1, <1>4 DEF Stage, d
    <3>2. Settled(k)'
      BY <3>1, <2>5 DEF Settled
    <3>3. \A f : Settled(f) => Settled(f)'
      BY <2>6, MixesStays
    <3> QED  BY <3>1, <3>2, <3>3
  <2>9. AtRest' => Stage(c)'
    BY <2>4, <2>5, <2>8, <1>3 DEF Stage
  <2>10. Alive(c)'
    BY <2>4 DEF Alive
  <2> QED  BY <2>4, <2>7, <2>9, <2>10, <1>2, OnlyShell
<1>10. CASE UnbindToUpdate(c)
  <2>1. shell'[c].pc = "write"
    BY <1>10, ShellGoes DEF UnbindToUpdate, ShellPcs
  <2>2. UNCHANGED <<functions, linked, configuration>> /\ ~udc' /\ shell[c].pc = "check" /\ shell[c].todo = {}
    BY <1>10 DEF UnbindToUpdate
  <2>3. NoMixing' /\ \A f : Settled(f)' <=> Settled(f)
    BY <2>2, <1>5 DEF NoMixing, Settled, Mixes
  <2>4. AtRest' => Stage(c)'
    BY <2>1, <2>2, <2>3, <1>3, <1>4 DEF Stage
  <2>5. Alive(c)'
    BY <2>1 DEF Alive
  <2> QED  BY <2>1, <2>3, <2>4, <2>5, <1>2, OnlyShell
<1>11. CASE Write(c)
  <2>1. shell'[c].pc = "bind"
    BY <1>11, ShellGoes DEF Write, ShellPcs
  <2>2. /\ UNCHANGED <<functions, linked, udc>> /\ shell[c].pc = "write"
        /\ configuration' = {Kinds[f] : f \in linked}
    BY <1>11 DEF Write
  <2>3. NoMixing' /\ \A f : Settled(f)' <=> Settled(f)
    BY <2>2, <1>5 DEF NoMixing, Settled, Mixes
  <2>4. AtRest' => Stage(c)'
    BY <2>1, <2>2, <2>3, <1>3, <1>4 DEF Stage
  <2>5. Alive(c)'
    BY <2>1 DEF Alive
  <2> QED  BY <2>1, <2>3, <2>4, <2>5, <1>2, OnlyShell
<1>12. CASE Bind(c)
  <2>1. shell'[c].pc = "rm"
    BY <1>12, ShellGoes DEF Bind, ShellPcs
  <2>2. /\ UNCHANGED <<functions, linked, configuration>> /\ shell[c].pc = "bind"
        /\ udc' = (udc \/ linked # {})
    BY <1>12 DEF Bind, BindDevice
  <2>3. NoMixing' /\ \A f : Settled(f)' <=> Settled(f)
    BY <2>2, <1>5 DEF NoMixing, Settled, Mixes
  <2>4. ASSUME AtRest PROVE UpToDate'
    <3>1. ~udc /\ configuration = {Kinds[f] : f \in linked} /\ \A f \in functions : Settled(f)
      BY <2>2, <2>4, <1>4 DEF Stage
    <3>2. udc' = (linked # {})
      BY <3>1, <2>2
    <3> QED  BY <3>1, <3>2, <2>2, <2>3 DEF UpToDate, Settled
  <2>5. AtRest' => Stage(c)'
    BY <2>1, <2>4, <1>3 DEF Stage
  <2>6. Alive(c)'
    BY <2>1 DEF Alive
  <2> QED  BY <2>1, <2>3, <2>5, <2>6, <1>2, OnlyShell
<1>13. CASE RemovePid(c)
  <2>1. shell'[c].pc = "done"
    BY <1>13, ShellGoes DEF RemovePid, ShellPcs
  <2>2. UNCHANGED <<functions, linked, configuration, udc>> /\ shell[c].pc = "rm"
    BY <1>13 DEF RemovePid
  <2>3. NoMixing' /\ (UpToDate' <=> UpToDate)
    BY <2>2, <1>5 DEF NoMixing, UpToDate, Mixes
  <2>4. AtRest' => UpToDate'
    BY <2>2, <2>3, <1>3, <1>4 DEF Stage
  <2>5. Stage(c)'
    BY <2>1 DEF Stage
  <2> QED  BY <2>1, <2>3, <2>4, <2>5, <1>2, OnlyShell
<1> QED
  BY <1>6, <1>7, <1>8, <1>9, <1>10, <1>11, <1>12, <1>13 DEF Shell

-----------------------------------------------------------------------------

\* A call before its fork: nothing is claimed of the functions.
LEMMA Restless ==
  ASSUME Content, linked' \subseteq linked, ~AtRest',
         \A e \in Calls : shell'[e] = shell[e] \/ shell'[e].pc = "killed"
  PROVE  Content'
<1>1. NoMixing'
  BY DEF Content, NoMixing
<1>2. \A f : Mixes(f)' => Mixes(f)
  BY DEF Mixes
<1>3. Checked'
  BY <1>2 DEF Content, Checked
<1> QED  BY <1>1, <1>3 DEF Content, Progress, Rest

LEMMA CallContent ==
  ASSUME TypeOK, ~Concurrent, Control, Content, NEW c \in Calls, Begin(c) \/ Call(c)
  PROVE  Content'
<1>1. CASE Begin(c) \/ Scan(c)
  <2>1. call' = [call EXCEPT ![c] = call'[c]] /\ call'[c].pc \in {"unbind", "mkdir"}
    BY <1>1 DEF Begin, Scan, TypeOK, CallState
  <2>2. ~AtRest' /\ linked' = linked /\ shell' = shell
    BY <1>1, <2>1 DEF Begin, Scan, AtRest
  <2> QED  BY <2>2, Restless
<1>2. CASE CallUnbind(c) \/ Mkdir(c) \/ Unlink(c) \/ Rmdir(c)
  <2>1. \E pc \in {"scan", "unlink", "readpid", "rmdir"} : Goto(c, pc)
    BY <1>2 DEF CallUnbind, Mkdir, Unlink, Rmdir
  <2>2. call'[c].pc \in {"scan", "unlink", "readpid", "rmdir"}
    BY <2>1, CallGoes DEF CallPcs
  <2>3. ~AtRest' /\ linked' \subseteq linked /\ shell' = shell
    BY <1>2, <2>2 DEF CallUnbind, Mkdir, Unlink, Rmdir, AtRest
  <2> QED  BY <2>3, Restless
<1>3. CASE ReadPid(c)
  <2>1. call'[c].pc \in {"fork", "kill"}
    BY <1>3 DEF ReadPid, TypeOK, CallState
  <2>2. ~AtRest' /\ linked' = linked /\ shell' = shell
    BY <1>3, <2>1 DEF ReadPid, AtRest
  <2> QED  BY <2>2, Restless
<1>4. CASE KillOld(c)
  <2>1. call'[c].pc = "fork"
    BY <1>4, CallGoes DEF KillOld, CallPcs
  <2>2. ~AtRest' /\ linked' = linked
    BY <1>4, <2>1 DEF KillOld, AtRest
  <2>3. \A e \in Calls : shell'[e] = shell[e] \/ shell'[e].pc = "killed"
    BY <1>4 DEF KillOld, Killed, NoShell, TypeOK
  <2> QED  BY <2>2, <2>3, Restless
<1>5. CASE Fork(c)
  <2>1. ShellGoto(c, "sleep") /\ "sleep" \in ShellPcs
    BY <1>5 DEF Fork, ShellGoto, ShellPcs
  <2>2. shell'[c].pc = "sleep" /\ \A e \in Calls : e # c => shell'[e] = shell[e]
    BY <2>1, ShellGoes
  <2>3. \A e \in Calls : e # c => ~Alive(e)'
    BY <2>2, <1>5 DEF Fork, Control, NoneAtFork, Alive
  <2>4. NoMixing'
    BY <1>5 DEF Fork, Content, NoMixing
  <2>5. Stage(c)' /\ Alive(c)'
    BY <2>2 DEF Stage, Alive
  <2> QED  BY <2>2, <2>3, <2>4, <2>5, OnlyShell
<1>6. CASE WritePid(c)
  <2>1. UNCHANGED <<functions, linked, configuration, udc, shell>>
    BY <1>6 DEF WritePid
  <2>2. call[c].pc = "writepid" /\ \A d \in Calls : d # c => call'[d] = call[d]
    BY <1>6, CallMoves DEF WritePid
  <2>3. AtRest' => AtRest
    BY <2>2 DEF AtRest
  <2>4. (NoMixing' <=> NoMixing) /\ (Checked' <=> Checked)
    BY <2>1 DEF NoMixing, Checked, Mixes
  <2>5. UpToDate' <=> UpToDate
    BY <2>1, <2>4 DEF UpToDate, Mixes
  <2>6. \A e \in Calls : (Stage(e)' <=> Stage(e)) /\ (Alive(e)' <=> Alive(e))
    BY <2>1, <2>5 DEF Stage, Settled, Mixes, Alive
  <2> QED  BY <2>3, <2>4, <2>5, <2>6 DEF Content, Progress, Rest
<1> QED  BY <1>1, <1>2, <1>3, <1>4, <1>5, <1>6 DEF Call

-----------------------------------------------------------------------------

LEMMA InitInv == Init => IndInv
<1> SUFFICES ASSUME Init PROVE IndInv  OBVIOUS
<1>1. \A c \in Calls : call[c].pc = "idle" /\ shell[c].pc = "none"
  BY DEF Init, NoCall, NoShell
<1>2. Control
  BY <1>1 DEF Control, Serial, Named, KillsIt, NoneAtFork, OwnAtWrite, Active, Alive
<1>3. NoMixing /\ UpToDate
  BY DEF Init, NoMixing, UpToDate
<1>4. Content
  BY <1>1, <1>3 DEF Content, Checked, Progress, Stage, Rest
<1> QED  BY <1>2, <1>4, InitType DEF IndInv

LEMMA Inductive == IndInv /\ [Next]_vars => IndInv'
<1> SUFFICES ASSUME IndInv, [Next]_vars PROVE IndInv'  OBVIOUS
<1>1. TypeOK'
  BY TypeStep DEF IndInv
<1>2. CASE Concurrent
  BY <1>1, <1>2 DEF IndInv
<1>3. CASE ~Concurrent
  <2>1. TypeOK /\ Control /\ Content
    BY <1>3 DEF IndInv
  <2>2. CASE UNCHANGED vars
    <3>1. Control'
      BY <2>1, <2>2 DEF Control, Serial, Named, KillsIt, NoneAtFork, OwnAtWrite, Active, Alive, vars
    <3>2. Content'
      BY <2>1, <2>2 DEF Content, NoMixing, Checked, Progress, Rest, AtRest, Stage, Settled, Mixes,
         UpToDate, Alive, vars
    <3> QED  BY <3>1, <3>2, <1>1 DEF IndInv
  <2>3. ASSUME NEW c \in Calls, Begin(c) \/ Call(c) PROVE IndInv'
    BY <2>1, <2>3, <1>1, <1>3, CallControl, CallContent DEF IndInv
  <2>4. ASSUME NEW c \in Calls, Shell(c) PROVE IndInv'
    BY <2>1, <2>4, <1>1, ShellControl, ShellContent DEF IndInv
  <2> QED  BY <2>2, <2>3, <2>4 DEF Next
<1> QED  BY <1>2, <1>3

THEOREM Invariant == Safety => []IndInv
<1> QED  BY InitInv, Inductive, PTL DEF Safety

\* The state of the gadget, of the calls and of their shells keeps its type for any
\* calls, also for calls that overlap (libgadget.sh).
THEOREM TypeCorrect == Safety => []TypeOK
<1>1. IndInv => TypeOK  BY DEF IndInv
<1> QED  BY <1>1, Invariant, PTL

\* OneUpdate for calls in a row: two shells never reconfigure the gadget together
\* (libgadget.sh:175-191).
THEOREM OneAtATime == Safety => [](~Concurrent => OneUpdate)
<1>1. IndInv => (~Concurrent => OneUpdate)
  BY ControlGivesOne DEF IndInv, OneAlive, OneUpdate, Reconfiguring
<1> QED  BY <1>1, Invariant, PTL

\* SettledUpToDate for calls in a row: when the last call and the last shell are
\* gone every function is linked, the string names them and the gadget is bound,
\* wherever the shells before were killed (libgadget.sh:108-191).
THEOREM Settles == Safety => [](~Concurrent => SettledUpToDate)
<1>1. IndInv => (~Concurrent => SettledUpToDate)
  <2> SUFFICES ASSUME Control, Content, Quiet PROVE UpToDate
    BY DEF IndInv, SettledUpToDate
  <2>1. AtRest /\ \A c \in Calls : ~Alive(c)
    BY DEF Quiet, AtRest, Active
  <2> QED  BY <2>1 DEF Content, Rest
<1> QED  BY <1>1, Invariant, PTL
=============================================================================
