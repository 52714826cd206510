-------------------------- MODULE NpuSuspendProofs --------------------------
(***************************************************************************)
(* TypeOK, WriteAhead, ExternalPreserved and AwakeRestored of NpuSuspend   *)
(* for every set of nodes, paths and shells and every bound.  WriteAhead   *)
(* is not inductive: IInv adds to it the exclusion of the flock and what   *)
(* each step knows of the record and of the nodes.  AwakeInv does the same *)
(* for AwakeRestored.                                                      *)
(***************************************************************************)
EXTENDS NpuSuspend, TLAPS

\* TypeOK in two parts: what Quit, Goto and Spawn touch, and the rest.
ProcType ==
  /\ lock \in Procs \cup {Free}
  /\ pc \in [Procs -> Steps]
  /\ job \in [Procs -> Jobs]
  /\ \A p \in Procs : AtNode(p) => job[p].node \in Nodes

HostType ==
  /\ gov \in [Nodes -> {"performance", "powersave", "other"}]
  /\ cur \in [Nodes -> {"zero", "max"}]
  /\ tuned \in [Nodes -> BOOLEAN]
  /\ bound \in [Nodes -> Paths]
  /\ record \in {"none", "partial", "valid"}
  /\ recPath \in [Nodes -> Paths]
  /\ unit \in {"idle", "pre", "post", "stopping"}
  /\ optIn \in BOOLEAN /\ busy \in BOOLEAN
  /\ faults \in Nat /\ externals \in Nat

LEMMA TypeParts == TypeOK <=> ProcType /\ HostType
BY DEF TypeOK, ProcType, HostType

LEMMA AnyPathType == AnyPath \in [Nodes -> Paths]
BY NodeAssumption DEF AnyPath

LEMMA NoJobType == NoJob \in Jobs
BY AnyPathType DEF NoJob, Jobs, Modes

\* The control of a process stays well typed when it goes on, ends or starts.
LEMMA GotoType ==
  ASSUME ProcType, NEW p \in Procs, NEW step \in Steps, NEW locals \in Jobs,
         Goto(p, step, locals),
         step \in {"rewrite", "confirm", "zero"} => locals.node \in Nodes
  PROVE  ProcType'
BY DEF Goto, ProcType, AtNode

LEMMA QuitType ==
  ASSUME ProcType, NEW p \in Procs, Quit(p)
  PROVE  ProcType'
BY NoJobType DEF Quit, ProcType, AtNode, Steps

LEMMA SpawnType ==
  ASSUME ProcType, NEW p \in Procs, NEW m \in Modes, Spawn(p, m)
  PROVE  ProcType'
<1>1. [NoJob EXCEPT !.mode = m] \in Jobs
  BY NoJobType DEF Jobs
<1>2. QED
  BY <1>1 DEF Spawn, ProcType, AtNode, Steps

LEMMA DoneType ==
  ASSUME ProcType, NEW p \in Procs, NEW n \in Nodes, NEW failed \in BOOLEAN,
         Done(p, n, failed)
  PROVE  ProcType'
<1> DEFINE j == [job[p] EXCEPT !.todo = @ \ {n}, !.node = Free, !.failed = @ \/ failed]
<1>1. j \in Jobs
  BY DEF ProcType, Jobs
<1>2. Goto(p, "restore", j)
  BY DEF Done
<1>3. QED
  BY <1>1, <1>2, GotoType DEF Steps

LEMMA UndoType ==
  ASSUME ProcType, NEW p \in Procs, Undo(p)
  PROVE  ProcType'
<1> DEFINE j == [job[p] EXCEPT !.todo = Nodes, !.node = Free, !.undo = TRUE]
<1>1. j \in Jobs
  BY DEF ProcType, Jobs
<1>2. Goto(p, "restore", j)
  BY DEF Undo
<1>3. QED
  BY <1>1, <1>2, GotoType DEF Steps

LEMMA FaultType ==
  ASSUME NEW kind, faults \in Nat, Fault(kind)
  PROVE  faults' \in Nat
BY DEF Fault

\* What a write, good or bad, leaves on the nodes.
LEMMA WriteType ==
  ASSUME HostType, NEW n \in Nodes, NEW g \in {"performance", "powersave"},
         \/ WriteGovernor(n, g) /\ UNCHANGED faults
         \/ FailedWrite(n, g),
         UNCHANGED <<recVars, hostVars, externals>>
  PROVE  HostType'
BY DEF HostType, WriteGovernor, FailedWrite, WriteUnapplied, Fault, devVars, recVars, hostVars

LEMMA TypeInit == Init => TypeOK
<1> SUFFICES ASSUME Init PROVE TypeOK
  OBVIOUS
<1>1. ProcType
  BY NoJobType DEF Init, ProcType, Steps, AtNode
<1>2. HostType
  BY AnyPathType DEF Init, HostType
<1>3. QED
  BY <1>1, <1>2, TypeParts

LEMMA TypeRun ==
  ASSUME TypeOK, NEW p \in Procs, Run(p)
  PROVE  TypeOK'
<1> USE DEF HostType, devVars, recVars, hostVars
<1>0. ProcType /\ HostType /\ job[p] \in Jobs
  BY TypeParts DEF TypeOK
<1>1. CASE Enter(p)
  <2>1. ProcType'
    BY <1>0, <1>1, QuitType DEF Enter, ProcType, Steps, AtNode
  <2>2. HostType'
    BY <1>0, <1>1 DEF Enter
  <2>3. QED
    BY <2>1, <2>2, TypeParts, PTL
<1>2. CASE Admit(p)
  <2> DEFINE a == job[p].mode = "pre" /\ optIn /\ ~busy
             j == [job[p] EXCEPT !.allowed = a, !.path = bound]
  <2>1. j \in Jobs
    BY <1>0 DEF Jobs
  <2>2. Quit(p) \/ Goto(p, "load", j)
    BY <1>2 DEF Admit
  <2>3. ProcType'
    BY <1>0, <2>1, <2>2, QuitType, GotoType DEF Steps
  <2>4. HostType'
    BY <1>0, <1>2 DEF Admit
  <2>5. QED
    BY <2>3, <2>4, TypeParts, PTL
<1>3. CASE Load(p)
  <2> DEFINE j == [job[p] EXCEPT !.todo = Nodes]
  <2>1. j \in Jobs
    BY <1>0 DEF Jobs
  <2>2. Quit(p) \/ Goto(p, "inspect", job[p]) \/ Goto(p, "restore", j)
    BY <1>3 DEF Load
  <2>3. ProcType'
    BY <1>0, <2>1, <2>2, QuitType, GotoType DEF Steps
  <2>4. HostType'
    BY <1>0, <1>3 DEF Load
  <2>5. QED
    BY <2>3, <2>4, TypeParts, PTL
<1>4. ASSUME NEW n \in Nodes, RestoreRead(p, n)
      PROVE  TypeOK'
  <2> DEFINE j == [job[p] EXCEPT !.node = n]
             s == IF gov[n] = "performance" THEN "confirm" ELSE "rewrite"
  <2>1. j \in Jobs /\ j.node = n /\ s \in Steps
    BY <1>0 DEF Jobs, Steps
  <2>2. Done(p, n, TRUE) \/ Goto(p, s, j)
    BY <1>4 DEF RestoreRead
  <2>3. ProcType'
    BY <1>0, <2>1, <2>2, DoneType, GotoType
  <2>4. HostType'
    BY <1>0, <1>4 DEF RestoreRead
  <2>5. QED
    BY <2>3, <2>4, TypeParts, PTL
<1>5. CASE RestoreWrite(p)
  <2> DEFINE n == job[p].node
  <2>1. n \in Nodes
    BY <1>0, <1>5 DEF RestoreWrite, ProcType, AtNode
  <2>2. Done(p, n, TRUE) \/ Goto(p, "confirm", job[p])
    BY <1>5 DEF RestoreWrite
  <2>3. ProcType'
    BY <1>0, <2>1, <2>2, DoneType, GotoType DEF Steps
  <2>4. HostType'
    BY <1>0, <1>5, <2>1, WriteType DEF RestoreWrite, NoFault
  <2>5. QED
    BY <2>3, <2>4, TypeParts, PTL
<1>6. CASE RestoreConfirm(p)
  <2> DEFINE n == job[p].node
             f == ~(Fresh(p, n) /\ gov[n] = "performance" /\ cur[n] = "max")
  <2>1. n \in Nodes
    BY <1>0, <1>6 DEF RestoreConfirm, ProcType, AtNode
  <2>2. Done(p, n, f) /\ f \in BOOLEAN
    BY <1>6 DEF RestoreConfirm
  <2>3. ProcType'
    BY <1>0, <2>1, <2>2, DoneType
  <2>4. HostType'
    BY <1>0, <1>6 DEF RestoreConfirm
  <2>5. QED
    BY <2>3, <2>4, TypeParts, PTL
<1>7. CASE RestoreEnd(p)
  <2>1. ProcType'
    BY <1>0, <1>7, QuitType, GotoType DEF RestoreEnd, Steps
  <2>2. HostType'
    BY <1>0, <1>7 DEF RestoreEnd
  <2>3. QED
    BY <2>1, <2>2, TypeParts, PTL
<1>8. CASE Unlink(p)
  <2>1. ProcType'
    BY <1>0, <1>8, QuitType, GotoType DEF Unlink, Steps
  <2>2. HostType'
    BY <1>0, <1>8 DEF Unlink
  <2>3. QED
    BY <2>1, <2>2, TypeParts, PTL
<1>9. CASE Inspect(p)
  <2>1. ProcType'
    BY <1>0, <1>9, QuitType, GotoType DEF Inspect, Steps
  <2>2. HostType'
    BY <1>0, <1>9 DEF Inspect
  <2>3. QED
    BY <2>1, <2>2, TypeParts, PTL
<1>10. CASE Create(p)
  <2>1. ProcType'
    BY <1>0, <1>10, GotoType DEF Create, Steps
  <2>2. HostType'
    BY <1>0, <1>10 DEF Create
  <2>3. QED
    BY <2>1, <2>2, TypeParts, PTL
<1>11. CASE Save(p)
  <2> DEFINE j == [job[p] EXCEPT !.todo = Nodes]
  <2>1. j \in Jobs /\ job[p].path \in [Nodes -> Paths]
    BY <1>0 DEF Jobs
  <2>2. Quit(p) \/ Goto(p, "apply", j)
    BY <1>11 DEF Save
  <2>3. ProcType'
    BY <1>0, <2>1, <2>2, QuitType, GotoType DEF Steps
  <2>4. HostType'
    BY <1>0, <1>11, <2>1 DEF Save, NoFault, Fault
  <2>5. QED
    BY <2>3, <2>4, TypeParts, PTL
<1>12. ASSUME NEW n \in Nodes, ApplyWrite(p, n)
       PROVE  TypeOK'
  <2> DEFINE j == [job[p] EXCEPT !.node = n]
  <2>1. j \in Jobs /\ j.node = n
    BY <1>0 DEF Jobs
  <2>2. Undo(p) \/ Goto(p, "zero", j)
    BY <1>12 DEF ApplyWrite
  <2>3. ProcType'
    BY <1>0, <2>1, <2>2, UndoType, GotoType DEF Steps
  <2>4. HostType'
    BY <1>0, <1>12, WriteType DEF ApplyWrite, NoFault
  <2>5. QED
    BY <2>3, <2>4, TypeParts, PTL
<1>13. CASE ApplyConfirm(p)
  <2> DEFINE n == job[p].node
             j == [job[p] EXCEPT !.todo = @ \ {n}, !.node = Free]
  <2>1. j \in Jobs
    BY <1>0 DEF Jobs
  <2>2. Undo(p) \/ Goto(p, "apply", j)
    BY <1>13 DEF ApplyConfirm
  <2>3. ProcType'
    BY <1>0, <2>1, <2>2, UndoType, GotoType DEF Steps
  <2>4. HostType'
    BY <1>0, <1>13 DEF ApplyConfirm
  <2>5. QED
    BY <2>3, <2>4, TypeParts, PTL
<1>14. CASE ApplyEnd(p)
  <2>1. ProcType'
    BY <1>0, <1>14, QuitType DEF ApplyEnd
  <2>2. HostType'
    BY <1>0, <1>14 DEF ApplyEnd
  <2>3. QED
    BY <2>1, <2>2, TypeParts, PTL
<1>15. QED
  BY <1>1, <1>2, <1>3, <1>4, <1>5, <1>6, <1>7, <1>8, <1>9, <1>10, <1>11, <1>12,
     <1>13, <1>14 DEF Run

LEMMA TypeNext == TypeOK /\ [Next]_vars => TypeOK'
<1> SUFFICES ASSUME TypeOK, [Next]_vars PROVE TypeOK'
  OBVIOUS
<1> USE DEF HostType, devVars, recVars, hostVars
<1>0. ProcType /\ HostType /\ Service \in Procs /\ Shells \subseteq Procs
  BY TypeParts DEF Procs
<1>1. ASSUME NEW p \in Procs, Run(p) PROVE TypeOK'
  BY <1>1, TypeRun
<1>2. ASSUME NEW p \in Procs, Kill(p) PROVE TypeOK'
  <2>1. ProcType'
    BY <1>0, <1>2, QuitType DEF Kill
  <2>2. HostType'
    BY <1>0, <1>2 DEF Kill, Fault
  <2>3. QED
    BY <2>1, <2>2, TypeParts, PTL
<1>3. ASSUME NEW p \in Shells, Shell(p) PROVE TypeOK'
  <2>1. ProcType'
    BY <1>0, <1>3, SpawnType, ModeAssumption DEF Shell
  <2>2. HostType'
    BY <1>0, <1>3 DEF Shell
  <2>3. QED
    BY <2>1, <2>2, TypeParts, PTL
<1>4. ASSUME Suspend \/ Resume \/ StopPost PROVE TypeOK'
  <2>1. ProcType'
    BY <1>0, <1>4, SpawnType DEF Suspend, Resume, StopPost, UnitStep, Modes
  <2>2. HostType'
    BY <1>0, <1>4 DEF Suspend, Resume, StopPost, UnitStep
  <2>3. QED
    BY <2>1, <2>2, TypeParts, PTL
<1>5. CASE UnitDone
  <2>1. ProcType'
    BY <1>0, <1>5 DEF UnitDone, procVars, ProcType, AtNode
  <2>2. HostType'
    BY <1>0, <1>5 DEF UnitDone
  <2>3. QED
    BY <2>1, <2>2, TypeParts, PTL
<1>6. CASE StopUnit
  <2> DEFINE j == [NoJob EXCEPT !.mode = "recover"]
  <2>1. j \in Jobs
    BY NoJobType DEF Jobs, Modes
  <2>2. ProcType'
    BY <1>0, <1>6, <2>1 DEF StopUnit, ProcType, AtNode, Steps
  <2>3. HostType'
    BY <1>0, <1>6 DEF StopUnit, Fault
  <2>4. QED
    BY <2>2, <2>3, TypeParts, PTL
<1>7. CASE HostChange
  <2>1. ProcType'
    BY <1>0, <1>7 DEF HostChange, procVars, ProcType, AtNode
  <2>2. HostType'
    BY <1>0, <1>7 DEF HostChange
  <2>3. QED
    BY <2>1, <2>2, TypeParts, PTL
<1>8. CASE Reboot
  <2>1. ProcType'
    BY <1>0, <1>8, NoJobType DEF Reboot, ProcType, AtNode, Steps
  <2>2. HostType'
    BY <1>0, <1>8, AnyPathType DEF Reboot
  <2>3. QED
    BY <2>1, <2>2, TypeParts, PTL
<1>9. ASSUME NEW n \in Nodes, External(n) PROVE TypeOK'
  <2>1. ProcType'
    BY <1>0, <1>9 DEF External, procVars, ProcType, AtNode
  <2>2. (gov' \in [Nodes -> {"performance", "powersave", "other"}])
        /\ (cur' \in [Nodes -> {"zero", "max"}])
    BY <1>0, <1>9 DEF External
  <2>3. tuned' \in [Nodes -> BOOLEAN]
    BY <1>0, <1>9 DEF External
  <2>4. (bound' \in [Nodes -> Paths]) /\ externals' \in Nat
    BY <1>0, <1>9 DEF External
  <2>5. HostType'
    BY <1>0, <1>9, <2>2, <2>3, <2>4 DEF External
  <2>6. QED
    BY <2>1, <2>5, TypeParts, PTL
<1>10. CASE UNCHANGED vars
  <2>1. ProcType'
    BY <1>0, <1>10 DEF vars, procVars, ProcType, AtNode
  <2>2. HostType'
    BY <1>0, <1>10 DEF vars
  <2>3. QED
    BY <2>1, <2>2, TypeParts, PTL
<1>11. QED
  BY <1>1, <1>2, <1>3, <1>4, <1>5, <1>6, <1>7, <1>8, <1>9, <1>10 DEF Next

\* Every variable of the policy keeps a value of its kind (TypeOK), and a run
\* of lmi-npu-suspend that works on a node has one.
THEOREM TypeCorrect == Spec => []TypeOK
BY TypeInit, TypeNext, PTL DEF Spec

----------------------------------------------------------------------------
(* WriteAhead *)

\* What IInv says of one process.
StepOK(p) ==
  /\ lock = p <=> pc[p] \notin {"idle", "start"}
  /\ pc[p] \in {"inspect", "create"} => record = "none"
  /\ pc[p] = "save" => record = "partial"
  /\ pc[p] \in {"apply", "zero"} => record = "valid" /\ recPath = job[p].path
  /\ pc[p] \in {"restore", "rewrite", "confirm"} /\ ~job[p].failed /\ ~job[p].undo
       => Clean(Nodes \ job[p].todo)
  /\ pc[p] = "unlink" => Clean(Nodes)

LEMMA IInvParts == IInv <=> WriteAhead /\ \A p \in Procs : StepOK(p)
BY DEF IInv, LockInv, StepInv, StepOK

\* p holds the flock, and its step moves no other process.
Framed(p) ==
  /\ lock = p /\ lock' \in {p, Free}
  /\ \A q \in Procs \ {p} : pc'[q] = pc[q]

LEMMA GotoFramed ==
  ASSUME TypeOK, NEW p \in Procs, NEW step, NEW locals, lock = p, Goto(p, step, locals)
  PROVE  Framed(p) /\ lock' = p /\ pc'[p] = step /\ job'[p] = locals
BY DEF Goto, Framed, TypeOK

LEMMA QuitFramed ==
  ASSUME TypeOK, NEW p \in Procs, lock = p, Quit(p)
  PROVE  Framed(p) /\ pc'[p] = "idle" /\ lock' = Free
BY DEF Quit, Framed, TypeOK

LEMMA DoneFramed ==
  ASSUME TypeOK, NEW p \in Procs, NEW n \in Nodes, NEW failed \in BOOLEAN, lock = p,
         Done(p, n, failed)
  PROVE  /\ Framed(p) /\ lock' = p /\ pc'[p] = "restore"
         /\ job'[p].todo = job[p].todo \ {n}
         /\ job'[p].undo = job[p].undo
         /\ job'[p].failed <=> (job[p].failed \/ failed)
<1> DEFINE j == [job[p] EXCEPT !.todo = @ \ {n}, !.node = Free, !.failed = @ \/ failed]
<1>1. job[p] \in Jobs
  BY DEF TypeOK
<1>2. /\ j.todo = job[p].todo \ {n} /\ j.undo = job[p].undo
      /\ j.failed = (job[p].failed \/ failed)
  BY <1>1 DEF Jobs
<1>3. Goto(p, "restore", j)
  BY DEF Done
<1>4. QED
  BY <1>2, <1>3, GotoFramed

LEMMA UndoFramed ==
  ASSUME TypeOK, NEW p \in Procs, lock = p, Undo(p)
  PROVE  Framed(p) /\ lock' = p /\ pc'[p] = "restore" /\ job'[p].todo = Nodes
<1> DEFINE j == [job[p] EXCEPT !.todo = Nodes, !.node = Free, !.undo = TRUE]
<1>1. job[p] \in Jobs
  BY DEF TypeOK
<1>2. j.todo = Nodes
  BY <1>1 DEF Jobs
<1>3. Goto(p, "restore", j)
  BY DEF Undo
<1>4. QED
  BY <1>2, <1>3, GotoFramed

\* It is enough to look at the process that moves: the others are not past "start".
LEMMA FramedStep ==
  ASSUME TypeOK, IInv, NEW p \in Procs, Framed(p), StepOK(p)', WriteAhead'
  PROVE  IInv'
<1>1. ASSUME NEW q \in Procs \ {p} PROVE StepOK(q)'
  <2>1. pc[q] \in {"idle", "start"}
    BY DEF IInv, LockInv, Framed
  <2>2. QED
    BY <2>1, ProcAssumption DEF StepOK, Framed
<1>2. \A q \in Procs : StepOK(q)'
  BY <1>1
<1>3. QED
  BY <1>2 DEF IInv, LockInv, StepInv, StepOK

LEMMA QuitOK ==
  ASSUME TypeOK, NEW p \in Procs, lock = p, Quit(p)
  PROVE  StepOK(p)'
BY QuitFramed, ProcAssumption DEF StepOK

LEMMA HoldsLock ==
  ASSUME IInv, NEW p \in Procs, pc[p] \notin {"idle", "start"}
  PROVE  lock = p
BY DEF IInv, LockInv

\* A step that leaves the governors, the paths and the record alone.
LEMMA QuietStep ==
  ASSUME IInv, UNCHANGED <<gov, bound, record, recPath>>
  PROVE  WriteAhead'
BY DEF IInv, WriteAhead

LEMMA IInvRun ==
  ASSUME TypeOK, IInv, NEW p \in Procs, Run(p)
  PROVE  IInv'
<1> USE DEF devVars, recVars
<1>0. StepOK(p) /\ WriteAhead /\ job[p] \in Jobs
  BY IInvParts DEF TypeOK
<1>1. CASE Enter(p)
  <2>1. WriteAhead'
    BY <1>1, QuietStep DEF Enter
  <2>2. CASE lock = Free
    <3>1. lock' = p /\ pc'[p] = "admit" /\ \A q \in Procs \ {p} : pc'[q] = pc[q]
      BY <1>1, <2>2 DEF Enter, TypeOK
    <3>2. \A q \in Procs : pc[q] \in {"idle", "start"}
      BY <2>2, ProcAssumption DEF IInv, LockInv
    <3>3. \A q \in Procs : StepOK(q)'
      BY <3>1, <3>2 DEF StepOK
    <3>4. QED
      BY <2>1, <3>3 DEF IInv, LockInv, StepInv, StepOK
  <2>3. CASE lock # Free
    <3>1. Quit(p) /\ lock # p /\ UNCHANGED <<gov, record, recPath>>
      BY <1>1, <2>3 DEF Enter, IInv, LockInv
    <3>2. \A q \in Procs : StepOK(q)'
      BY <1>0, <3>1, IInvParts DEF Quit, StepOK, TypeOK, Clean
    <3>3. QED
      BY <2>1, <3>2 DEF IInv, LockInv, StepInv, StepOK
  <2>4. QED
    BY <2>2, <2>3
<1>2. CASE Admit(p)
  <2>1. lock = p
    BY <1>2, HoldsLock DEF Admit
  <2>2. WriteAhead'
    BY <1>2, QuietStep DEF Admit
  <2>3. \/ Quit(p)
        \/ \E j : Goto(p, "load", j)
    BY <1>2 DEF Admit
  <2>4. Framed(p) /\ StepOK(p)'
    BY <2>1, <2>3, QuitFramed, GotoFramed, QuitOK DEF StepOK, Framed
  <2>5. QED
    BY <2>2, <2>4, FramedStep
<1>3. CASE Load(p)
  <2> DEFINE j == [job[p] EXCEPT !.todo = Nodes]
  <2>1. lock = p /\ j.todo = Nodes
    BY <1>0, <1>3, HoldsLock DEF Load, Jobs
  <2>2. WriteAhead'
    BY <1>3, QuietStep DEF Load
  <2>3. CASE Quit(p)
    BY <2>1, <2>2, <2>3, QuitFramed, QuitOK, FramedStep
  <2>4. CASE record = "none" /\ Goto(p, "inspect", job[p])
    <3>1. Framed(p) /\ StepOK(p)'
      BY <1>3, <2>1, <2>4, GotoFramed DEF StepOK, Load
    <3>2. QED
      BY <2>2, <3>1, FramedStep
  <2>5. CASE Goto(p, "restore", j)
    <3>1. Framed(p) /\ lock' = p /\ pc'[p] = "restore" /\ job'[p].todo = Nodes
      BY <2>1, <2>5, GotoFramed
    <3>2. StepOK(p)'
      BY <3>1 DEF StepOK, Clean
    <3>3. QED
      BY <2>2, <3>1, <3>2, FramedStep
  <2>6. QED
    BY <1>3, <2>3, <2>4, <2>5 DEF Load
<1>4. ASSUME NEW n \in Nodes, RestoreRead(p, n)
      PROVE  IInv'
  <2> DEFINE j == [job[p] EXCEPT !.node = n]
  <2>1. lock = p /\ UNCHANGED gov
    BY <1>4, HoldsLock DEF RestoreRead
  <2>2. WriteAhead'
    BY <1>4, QuietStep DEF RestoreRead
  <2>3. CASE Done(p, n, TRUE)
    <3>1. Framed(p) /\ StepOK(p)'
      BY <2>1, <2>3, DoneFramed DEF StepOK
    <3>2. QED
      BY <2>2, <3>1, FramedStep
  <2>4. CASE \E s \in {"confirm", "rewrite"} : Goto(p, s, j)
    <3>1. j.todo = job[p].todo /\ j.failed = job[p].failed /\ j.undo = job[p].undo
      BY <1>0 DEF Jobs
    <3>2. /\ Framed(p) /\ lock' = p /\ pc'[p] \in {"confirm", "rewrite"}
          /\ job'[p] = j
      BY <2>1, <2>4, GotoFramed
    <3>3. pc[p] = "restore"
      BY <1>4 DEF RestoreRead
    <3>4. StepOK(p)'
      BY <1>0, <2>1, <3>1, <3>2, <3>3 DEF StepOK, Clean
    <3>5. QED
      BY <2>2, <3>2, <3>4, FramedStep
  <2>5. QED
    BY <1>4, <2>3, <2>4 DEF RestoreRead
<1>7. CASE RestoreEnd(p)
  <2>1. lock = p /\ UNCHANGED gov
    BY <1>7, HoldsLock DEF RestoreEnd
  <2>2. WriteAhead'
    BY <1>7, QuietStep DEF RestoreEnd
  <2>3. CASE Quit(p)
    BY <2>1, <2>2, <2>3, QuitFramed, QuitOK, FramedStep
  <2>4. CASE ~(job[p].failed \/ job[p].undo) /\ Goto(p, "unlink", job[p])
    <3>1. Framed(p) /\ StepOK(p)'
      BY <1>0, <1>7, <2>1, <2>4, GotoFramed DEF StepOK, Clean, RestoreEnd
    <3>2. QED
      BY <2>2, <3>1, FramedStep
  <2>5. QED
    BY <1>7, <2>3, <2>4 DEF RestoreEnd
<1>5. CASE RestoreWrite(p)
  <2> DEFINE n == job[p].node
  <2>1. lock = p /\ n \in Nodes /\ UNCHANGED <<bound, record, recPath>>
    BY <1>5, HoldsLock DEF RestoreWrite, TypeOK, AtNode, WriteGovernor, FailedWrite,
                           WriteUnapplied
  <2>2. \A m \in Nodes : gov'[m] = "powersave" => gov[m] = "powersave"
    BY <1>5, <2>1 DEF RestoreWrite, WriteGovernor, FailedWrite, WriteUnapplied, TypeOK
  <2>3. WriteAhead'
    BY <1>0, <2>1, <2>2 DEF WriteAhead
  <2>4. CASE Done(p, n, TRUE)
    <3>1. Framed(p) /\ StepOK(p)'
      BY <2>1, <2>4, DoneFramed DEF StepOK
    <3>2. QED
      BY <2>3, <3>1, FramedStep
  <2>5. CASE Goto(p, "confirm", job[p])
    <3>1. /\ Framed(p) /\ lock' = p /\ pc'[p] = "confirm" /\ job'[p] = job[p]
      BY <2>1, <2>5, GotoFramed
    <3>2. pc[p] = "rewrite"
      BY <1>5 DEF RestoreWrite
    <3>3. StepOK(p)'
      BY <1>0, <2>2, <3>1, <3>2 DEF StepOK, Clean
    <3>4. QED
      BY <2>3, <3>1, <3>3, FramedStep
  <2>6. QED
    BY <1>5, <2>4, <2>5 DEF RestoreWrite
<1>6. CASE RestoreConfirm(p)
  <2> DEFINE n == job[p].node
             f == ~(Fresh(p, n) /\ gov[n] = "performance" /\ cur[n] = "max")
  <2>1. lock = p /\ n \in Nodes /\ UNCHANGED gov /\ f \in BOOLEAN /\ pc[p] = "confirm"
    BY <1>6, HoldsLock DEF RestoreConfirm, TypeOK, AtNode
  <2>2. WriteAhead'
    BY <1>6, QuietStep DEF RestoreConfirm
  <2>3. /\ Framed(p) /\ lock' = p /\ pc'[p] = "restore"
        /\ job'[p].todo = job[p].todo \ {n}
        /\ job'[p].undo = job[p].undo
        /\ job'[p].failed <=> (job[p].failed \/ f)
    BY <1>6, <2>1, DoneFramed DEF RestoreConfirm
  <2>4. ~f => gov[n] # "powersave"
    BY DEF Fresh
  <2> HIDE DEF n, f
  <2>5. ASSUME ~job'[p].failed, ~job'[p].undo
        PROVE  \A m \in Nodes \ job'[p].todo : gov'[m] # "powersave"
    <3>1. ~job[p].failed /\ ~job[p].undo /\ ~f
      BY <2>3, <2>5, Zenon
    <3>2. Clean(Nodes \ job[p].todo)
      BY <1>0, <2>1, <3>1 DEF StepOK
    <3>3. QED
      BY <2>1, <2>3, <2>4, <3>1, <3>2 DEF Clean
  <2>6. StepOK(p)'
    BY <2>3, <2>5 DEF StepOK, Clean
  <2>7. QED
    BY <2>2, <2>3, <2>6, FramedStep
<1>8. CASE Unlink(p)
  <2>1. lock = p /\ UNCHANGED gov /\ Clean(Nodes) /\ record' = "none"
    BY <1>0, <1>8, HoldsLock DEF Unlink, StepOK
  <2>2. WriteAhead'
    BY <2>1 DEF WriteAhead, Clean
  <2>3. CASE Quit(p)
    BY <2>1, <2>2, <2>3, QuitFramed, QuitOK, FramedStep
  <2>4. CASE Goto(p, "inspect", job[p])
    <3>1. Framed(p) /\ StepOK(p)'
      BY <2>1, <2>4, GotoFramed DEF StepOK
    <3>2. QED
      BY <2>2, <3>1, FramedStep
  <2>5. QED
    BY <1>8, <2>3, <2>4 DEF Unlink
<1>9. CASE Inspect(p)
  <2>1. lock = p /\ record = "none" /\ UNCHANGED record
    BY <1>0, <1>9, HoldsLock DEF Inspect, StepOK
  <2>2. WriteAhead'
    BY <1>9, QuietStep DEF Inspect
  <2>3. CASE Quit(p)
    BY <2>1, <2>2, <2>3, QuitFramed, QuitOK, FramedStep
  <2>4. CASE Goto(p, "create", job[p])
    <3>1. Framed(p) /\ StepOK(p)'
      BY <2>1, <2>4, GotoFramed DEF StepOK
    <3>2. QED
      BY <2>2, <3>1, FramedStep
  <2>5. QED
    BY <1>9, <2>3, <2>4 DEF Inspect
<1>10. CASE Create(p)
  <2>1. lock = p /\ record = "none" /\ record' = "partial" /\ UNCHANGED gov
    BY <1>0, <1>10, HoldsLock DEF Create, StepOK
  <2>2. WriteAhead'
    BY <1>0, <2>1 DEF WriteAhead
  <2>3. Framed(p) /\ StepOK(p)'
    BY <1>10, <2>1, GotoFramed DEF StepOK, Create
  <2>4. QED
    BY <2>2, <2>3, FramedStep
<1>11. CASE Save(p)
  <2> DEFINE j == [job[p] EXCEPT !.todo = Nodes]
  <2>1. lock = p /\ record = "partial" /\ UNCHANGED gov
    BY <1>0, <1>11, HoldsLock DEF Save, StepOK
  <2>2. WriteAhead'
    BY <1>0, <2>1 DEF WriteAhead
  <2>3. CASE Quit(p)
    BY <2>1, <2>2, <2>3, QuitFramed, QuitOK, FramedStep
  <2>4. CASE record' = "valid" /\ recPath' = job[p].path /\ Goto(p, "apply", j)
    <3>1. Framed(p) /\ lock' = p /\ pc'[p] = "apply" /\ job'[p].path = job[p].path
      BY <1>0, <2>1, <2>4, GotoFramed DEF Jobs
    <3>2. StepOK(p)'
      BY <2>4, <3>1 DEF StepOK
    <3>3. QED
      BY <2>2, <3>1, <3>2, FramedStep
  <2>5. QED
    BY <1>11, <2>3, <2>4 DEF Save
<1>12. ASSUME NEW n \in Nodes, ApplyWrite(p, n)
       PROVE  IInv'
  <2> DEFINE j == [job[p] EXCEPT !.node = n]
  <2>1. /\ lock = p /\ record = "valid" /\ recPath = job[p].path
        /\ UNCHANGED <<bound, record, recPath>>
    BY <1>0, <1>12, HoldsLock DEF ApplyWrite, StepOK, WriteGovernor, FailedWrite,
                                  WriteUnapplied
  <2>2. \A m \in Nodes : gov'[m] = "powersave" => gov[m] = "powersave" \/ (m = n /\ Fresh(p, n))
    BY <1>12 DEF ApplyWrite, WriteGovernor, FailedWrite, WriteUnapplied, TypeOK
  <2>3. WriteAhead'
    BY <1>0, <2>1, <2>2 DEF WriteAhead, Fresh
  <2>4. CASE Undo(p)
    <3>1. Framed(p) /\ StepOK(p)'
      BY <2>1, <2>4, UndoFramed DEF StepOK, Clean
    <3>2. QED
      BY <2>3, <3>1, FramedStep
  <2>5. CASE Goto(p, "zero", j)
    <3>1. Framed(p) /\ lock' = p /\ pc'[p] = "zero" /\ job'[p].path = job[p].path
      BY <1>0, <2>1, <2>5, GotoFramed DEF Jobs
    <3>2. StepOK(p)'
      BY <2>1, <3>1 DEF StepOK
    <3>3. QED
      BY <2>3, <3>1, <3>2, FramedStep
  <2>6. QED
    BY <1>12, <2>4, <2>5 DEF ApplyWrite
<1>13. CASE ApplyConfirm(p)
  <2> DEFINE n == job[p].node
             j == [job[p] EXCEPT !.todo = @ \ {n}, !.node = Free]
  <2>1. lock = p /\ record = "valid" /\ recPath = job[p].path /\ UNCHANGED <<record, recPath>>
    BY <1>0, <1>13, HoldsLock DEF ApplyConfirm, StepOK
  <2>2. WriteAhead'
    BY <1>13, QuietStep DEF ApplyConfirm
  <2>3. CASE Undo(p)
    <3>1. Framed(p) /\ StepOK(p)'
      BY <2>1, <2>3, UndoFramed DEF StepOK, Clean
    <3>2. QED
      BY <2>2, <3>1, FramedStep
  <2>4. CASE Goto(p, "apply", j)
    <3>1. j.path = job[p].path
      BY <1>0 DEF Jobs
    <3>2. Framed(p) /\ lock' = p /\ pc'[p] = "apply" /\ job'[p].path = job[p].path
      BY <2>1, <2>4, <3>1, GotoFramed
    <3>3. StepOK(p)'
      BY <2>1, <3>2 DEF StepOK
    <3>4. QED
      BY <2>2, <3>2, <3>3, FramedStep
  <2>5. QED
    BY <1>13, <2>3, <2>4 DEF ApplyConfirm
<1>14. CASE ApplyEnd(p)
  <2>1. lock = p /\ Quit(p)
    BY <1>14, HoldsLock DEF ApplyEnd
  <2>2. WriteAhead'
    BY <1>14, QuietStep DEF ApplyEnd
  <2>3. QED
    BY <2>1, <2>2, QuitFramed, QuitOK, FramedStep
<1>15. QED
  BY <1>1, <1>2, <1>3, <1>4, <1>5, <1>6, <1>7, <1>8, <1>9, <1>10, <1>11, <1>12,
     <1>13, <1>14 DEF Run

LEMMA IInvInit == Init => IInv
BY ProcAssumption DEF Init, IInv, LockInv, StepInv, WriteAhead

LEMMA IInvFromParts ==
  ASSUME WriteAhead', \A p \in Procs : StepOK(p)'
  PROVE  IInv'
BY DEF IInv, LockInv, StepInv, StepOK

LEMMA IInvNext == TypeOK /\ IInv /\ [Next]_vars => IInv'
<1> SUFFICES ASSUME TypeOK, IInv, [Next]_vars PROVE IInv'
  OBVIOUS
<1> USE DEF devVars, recVars, procVars
<1>0. WriteAhead /\ \A p \in Procs : StepOK(p)
  BY IInvParts
<1>1. ASSUME NEW p \in Procs, Run(p) PROVE IInv'
  BY <1>1, IInvRun
<1>2. ASSUME NEW p \in Procs, Quit(p), UNCHANGED <<devVars, recVars>> PROVE IInv'
  <2>1. WriteAhead'
    BY <1>2, QuietStep
  <2>2. \A q \in Procs : StepOK(q)'
    BY <1>0, <1>2, ProcAssumption DEF Quit, StepOK, TypeOK, Clean
  <2>3. QED
    BY <2>1, <2>2, IInvFromParts
<1>3. ASSUME NEW p \in Procs, NEW m, Spawn(p, m), UNCHANGED <<devVars, recVars>>
      PROVE  IInv'
  <2>1. WriteAhead'
    BY <1>3, QuietStep
  <2>2. \A q \in Procs : StepOK(q)'
    BY <1>0, <1>3 DEF Spawn, StepOK, TypeOK, Clean
  <2>3. QED
    BY <2>1, <2>2, IInvFromParts
<1>4. CASE StopUnit
  <2>1. WriteAhead'
    BY <1>4, QuietStep DEF StopUnit
  <2>2. \A q \in Procs : StepOK(q)'
    BY <1>0, <1>4, ProcAssumption DEF StopUnit, StepOK, TypeOK, Clean
  <2>3. QED
    BY <2>1, <2>2, IInvFromParts
<1>5. ASSUME UNCHANGED <<devVars, recVars, procVars>> PROVE IInv'
  BY <1>5 DEF IInv, LockInv, StepInv, WriteAhead, Clean
<1>6. CASE Reboot
  <2>1. WriteAhead'
    BY <1>6 DEF Reboot, WriteAhead
  <2>2. \A q \in Procs : StepOK(q)'
    BY <1>6, ProcAssumption DEF Reboot, StepOK
  <2>3. QED
    BY <2>1, <2>2, IInvFromParts
<1>7. ASSUME NEW n \in Nodes, External(n) PROVE IInv'
  <2>1. \A m \in Nodes : gov'[m] = "powersave" => gov[m] = "powersave" /\ bound'[m] = bound[m]
    BY <1>7 DEF External, TypeOK
  <2>2. WriteAhead'
    BY <1>0, <1>7, <2>1 DEF External, WriteAhead
  <2>3. \A q \in Procs : StepOK(q)'
    BY <1>0, <1>7, <2>1 DEF External, StepOK, Clean
  <2>4. QED
    BY <2>2, <2>3, IInvFromParts
<1>8. ASSUME NEW p \in Procs, Kill(p) PROVE IInv'
  BY <1>2, <1>8 DEF Kill
<1>9. ASSUME NEW p \in Shells, Shell(p) PROVE IInv'
  BY <1>3, <1>9 DEF Shell, Procs
<1>10. CASE Suspend \/ Resume \/ StopPost
  BY <1>3, <1>10 DEF Suspend, Resume, StopPost, UnitStep, Procs
<1>11. CASE UnitDone \/ HostChange \/ UNCHANGED vars
  BY <1>5, <1>11 DEF UnitDone, HostChange, vars
<1>12. QED
  BY <1>1, <1>4, <1>6, <1>7, <1>8, <1>9, <1>10, <1>11 DEF Next

\* While the powersave governor is on a node a complete recovery record names the
\* device it is on: save_state() comes before the first write of apply_all(), and
\* recover() unlinks the record only after restore_all() has confirmed every node.
THEOREM WriteAheadHolds == Spec => []WriteAhead
<1>1. Spec => []IInv
  BY IInvInit, IInvNext, TypeCorrect, PTL DEF Spec
<1>2. IInv => WriteAhead
  BY DEF IInv
<1>3. QED
  BY <1>1, <1>2, PTL

----------------------------------------------------------------------------
(* ExternalPreserved *)

PreservedStep(n) ==
  gov[n] = "other" /\ gov'[n] # "other" =>
    \/ \E p \in Procs : Racing(p, n)
    \/ Reboot
    \/ bound'[n] # bound[n]

LookedStep(n) ==
  gov[n] = "other" => \A p \in Procs : Racing(p, n)' => Racing(p, n)

LEMMA RunPreserves ==
  ASSUME TypeOK, NEW p \in Procs, Run(p), NEW n \in Nodes
  PROVE  PreservedStep(n)
<1> USE DEF PreservedStep, devVars
<1>1. CASE RestoreWrite(p)
  <2>1. gov'[n] # gov[n] => job[p].node = n
    BY <1>1 DEF RestoreWrite, WriteGovernor, FailedWrite, WriteUnapplied, TypeOK
  <2>2. QED
    BY <1>1, <2>1 DEF RestoreWrite, Racing, RacingAt
<1>2. ASSUME NEW m \in Nodes, ApplyWrite(p, m) PROVE PreservedStep(n)
  <2>1. gov'[n] # gov[n] => m = n
    BY <1>2 DEF ApplyWrite, WriteGovernor, FailedWrite, WriteUnapplied, TypeOK
  <2>2. QED
    BY <1>2, <2>1 DEF ApplyWrite, Racing, RacingAt
<1>3. CASE UNCHANGED gov
  BY <1>3
<1>4. Enter(p) \/ Admit(p) \/ Load(p) => UNCHANGED gov
  BY DEF Enter, Admit, Load
<1>5. (\E m \in Nodes : RestoreRead(p, m)) \/ RestoreConfirm(p) \/ RestoreEnd(p)
        => UNCHANGED gov
  BY DEF RestoreRead, RestoreConfirm, RestoreEnd
<1>6. Unlink(p) \/ Inspect(p) \/ Create(p) => UNCHANGED gov
  BY DEF Unlink, Inspect, Create
<1>7. Save(p) \/ ApplyConfirm(p) \/ ApplyEnd(p) => UNCHANGED gov
  BY DEF Save, ApplyConfirm, ApplyEnd
<1>8. QED
  BY <1>1, <1>2, <1>3, <1>4, <1>5, <1>6, <1>7 DEF Run

\* A process that starts to race does so by its own step to a racing one.
LEMMA GotoRaces ==
  ASSUME TypeOK, NEW p \in Procs, NEW step, NEW locals, Goto(p, step, locals),
         NEW q \in Procs, NEW n \in Nodes, Racing(q, n)'
  PROVE  Racing(q, n) \/ (q = p /\ RacingAt(step, locals, n))
<1>1. CASE q = p
  <2>1. pc'[p] = step /\ job'[p] = locals
    BY DEF Goto, TypeOK
  <2>2. QED
    BY <1>1, <2>1 DEF Racing
<1>2. CASE q # p
  <2>1. pc'[q] = pc[q] /\ job'[q] = job[q]
    BY <1>2 DEF Goto, TypeOK
  <2>2. QED
    BY <2>1 DEF Racing
<1>3. QED
  BY <1>1, <1>2

LEMMA QuitRaces ==
  ASSUME TypeOK, NEW p \in Procs, Quit(p), NEW q \in Procs, NEW n \in Nodes, Racing(q, n)'
  PROVE  Racing(q, n)
<1>1. CASE q = p
  <2>1. pc'[p] = "idle"
    BY DEF Quit, TypeOK
  <2>2. QED
    BY <1>1, <2>1 DEF Racing, RacingAt
<1>2. CASE q # p
  <2>1. pc'[q] = pc[q] /\ job'[q] = job[q]
    BY <1>2 DEF Quit, TypeOK
  <2>2. QED
    BY <2>1 DEF Racing
<1>3. QED
  BY <1>1, <1>2

LEMMA SpawnRaces ==
  ASSUME TypeOK, NEW p \in Procs, NEW m, Spawn(p, m),
         NEW q \in Procs, NEW n \in Nodes, Racing(q, n)'
  PROVE  Racing(q, n)
<1>1. CASE q = p
  <2>1. pc'[p] = "start"
    BY DEF Spawn, TypeOK
  <2>2. QED
    BY <1>1, <2>1 DEF Racing, RacingAt
<1>2. CASE q # p
  <2>1. pc'[q] = pc[q] /\ job'[q] = job[q]
    BY <1>2 DEF Spawn, TypeOK
  <2>2. QED
    BY <2>1 DEF Racing
<1>3. QED
  BY <1>1, <1>2

\* The steps at which a process has not looked yet.
LEMMA NoRace ==
  ASSUME NEW step \in {"load", "restore", "confirm", "unlink", "inspect"}, NEW locals, NEW n
  PROVE  ~RacingAt(step, locals, n)
BY DEF RacingAt

LEMMA DoneUndoRace ==
  ASSUME TypeOK, NEW p \in Procs, NEW q \in Procs, NEW n \in Nodes, Racing(q, n)'
  PROVE  /\ \A m \in Nodes, failed \in BOOLEAN : Done(p, m, failed) => Racing(q, n)
         /\ Undo(p) => Racing(q, n)
<1>1. ASSUME NEW m \in Nodes, NEW failed \in BOOLEAN, Done(p, m, failed)
      PROVE  Racing(q, n)
  <2> DEFINE j == [job[p] EXCEPT !.todo = @ \ {m}, !.node = Free, !.failed = @ \/ failed]
  <2>1. Goto(p, "restore", j)
    BY <1>1 DEF Done
  <2> HIDE DEF j
  <2>2. QED
    BY <2>1, GotoRaces, NoRace
<1>2. ASSUME Undo(p) PROVE Racing(q, n)
  <2> DEFINE j == [job[p] EXCEPT !.todo = Nodes, !.node = Free, !.undo = TRUE]
  <2>1. Goto(p, "restore", j)
    BY <1>2 DEF Undo
  <2> HIDE DEF j
  <2>2. QED
    BY <2>1, GotoRaces, NoRace
<1>3. QED
  BY <1>1, <1>2

LEMMA RunLooks ==
  ASSUME TypeOK, NEW p \in Procs, Run(p), NEW n \in Nodes, gov[n] = "other",
         NEW q \in Procs, Racing(q, n)'
  PROVE  Racing(q, n)
<1>0. job[p] \in Jobs
  BY DEF TypeOK
<1>1. CASE Enter(p)
  <2>1. CASE Quit(p)
    BY <2>1, QuitRaces
  <2>2. CASE pc' = [pc EXCEPT ![p] = "admit"] /\ UNCHANGED job
    <3>1. CASE q = p
      <4>1. pc'[p] = "admit"
        BY <2>2 DEF TypeOK
      <4>2. QED
        BY <3>1, <4>1 DEF Racing, RacingAt
    <3>2. CASE q # p
      <4>1. pc'[q] = pc[q] /\ job'[q] = job[q]
        BY <2>2, <3>2 DEF TypeOK
      <4>2. QED
        BY <4>1 DEF Racing
    <3>3. QED
      BY <3>1, <3>2
  <2>3. QED
    BY <1>1, <2>1, <2>2 DEF Enter
<1>2. CASE Admit(p)
  <2> DEFINE a == job[p].mode = "pre" /\ optIn /\ ~busy
             j == [job[p] EXCEPT !.allowed = a, !.path = bound]
  <2>1. Quit(p) \/ Goto(p, "load", j)
    BY <1>2 DEF Admit
  <2> HIDE DEF j
  <2>2. QED
    BY <2>1, QuitRaces, GotoRaces, NoRace
<1>3. CASE Load(p)
  <2> DEFINE j == [job[p] EXCEPT !.todo = Nodes]
  <2>1. Goto(p, "inspect", job[p]) \/ Quit(p) \/ Goto(p, "restore", j)
    BY <1>3 DEF Load
  <2> HIDE DEF j
  <2>2. QED
    BY <2>1, QuitRaces, GotoRaces, NoRace
<1>4. ASSUME NEW m \in Nodes, RestoreRead(p, m) PROVE Racing(q, n)
  <2>1. CASE Done(p, m, TRUE)
    BY <2>1, DoneUndoRace
  <2>2. CASE Ours(p, m) /\ Goto(p, IF gov[m] = "performance" THEN "confirm" ELSE "rewrite",
                                 [job[p] EXCEPT !.node = m])
    <3> DEFINE j == [job[p] EXCEPT !.node = m]
               step == IF gov[m] = "performance" THEN "confirm" ELSE "rewrite"
    <3>1. Goto(p, step, j)
      BY <2>2
    <3>2. j.node = m
      BY <1>0 DEF Jobs
    <3>3. m # n
      BY <2>2 DEF Ours
    <3>4. step \in {"confirm", "rewrite"}
      OBVIOUS
    <3> HIDE DEF j, step
    <3>5. ~RacingAt(step, j, n)
      BY <3>2, <3>3, <3>4 DEF RacingAt
    <3>6. QED
      BY <3>1, <3>5, GotoRaces
  <2>3. QED
    BY <1>4, <2>1, <2>2 DEF RestoreRead
<1>5. CASE RestoreWrite(p)
  <2>1. job[p].node \in Nodes
    BY <1>5 DEF RestoreWrite, TypeOK, AtNode
  <2>2. Done(p, job[p].node, TRUE) \/ Goto(p, "confirm", job[p])
    BY <1>5 DEF RestoreWrite
  <2>3. CASE Done(p, job[p].node, TRUE)
    BY <2>1, <2>3, DoneUndoRace
  <2>4. CASE Goto(p, "confirm", job[p])
    BY <2>4, GotoRaces, NoRace
  <2>5. QED
    BY <2>2, <2>3, <2>4
<1>6. CASE RestoreConfirm(p)
  <2>1. job[p].node \in Nodes
    BY <1>6 DEF RestoreConfirm, TypeOK, AtNode
  <2>2. \E failed \in BOOLEAN : Done(p, job[p].node, failed)
    BY <1>6 DEF RestoreConfirm
  <2>3. QED
    BY <2>1, <2>2, DoneUndoRace
<1>7. CASE RestoreEnd(p) \/ Unlink(p) \/ ApplyEnd(p)
  <2>1. Quit(p) \/ Goto(p, "unlink", job[p]) \/ Goto(p, "inspect", job[p])
    BY <1>7 DEF RestoreEnd, Unlink, ApplyEnd
  <2>2. QED
    BY <2>1, QuitRaces, GotoRaces, NoRace
<1>8. CASE Inspect(p)
  <2>1. \A m \in Nodes : Baseline(p, m) => gov[m] = "performance"
    BY DEF Baseline
  <2>2. Quit(p)
    BY <1>8, <2>1 DEF Inspect
  <2>3. QED
    BY <2>2, QuitRaces
<1>9. CASE Create(p)
  <2>1. Goto(p, "save", job[p]) /\ Racing(p, n)
    BY <1>9 DEF Create, Racing, RacingAt
  <2>2. QED
    BY <2>1, GotoRaces
<1>10. CASE Save(p)
  <2> DEFINE j == [job[p] EXCEPT !.todo = Nodes]
  <2>1. Racing(p, n)
    BY <1>10 DEF Save, Racing, RacingAt
  <2>2. Quit(p) \/ Goto(p, "apply", j)
    BY <1>10 DEF Save
  <2> HIDE DEF j
  <2>3. QED
    BY <2>1, <2>2, QuitRaces, GotoRaces
<1>11. ASSUME NEW m \in Nodes, ApplyWrite(p, m) PROVE Racing(q, n)
  <2> DEFINE j == [job[p] EXCEPT !.node = m]
  <2>1. Undo(p) \/ Goto(p, "zero", j)
    BY <1>11 DEF ApplyWrite
  <2>2. j.todo = job[p].todo
    BY <1>0 DEF Jobs
  <2> HIDE DEF j
  <2>3. RacingAt("zero", j, n) => Racing(p, n)
    BY <1>11, <2>2 DEF ApplyWrite, Racing, RacingAt
  <2>4. QED
    BY <2>1, <2>3, DoneUndoRace, GotoRaces
<1>12. CASE ApplyConfirm(p)
  <2> DEFINE m == job[p].node
             j == [job[p] EXCEPT !.todo = @ \ {m}, !.node = Free]
  <2>1. Undo(p) \/ Goto(p, "apply", j)
    BY <1>12 DEF ApplyConfirm
  <2>2. j.todo = job[p].todo \ {m}
    BY <1>0 DEF Jobs
  <2> HIDE DEF j
  <2>3. RacingAt("apply", j, n) => Racing(p, n)
    BY <1>12, <2>2 DEF ApplyConfirm, Racing, RacingAt
  <2>4. QED
    BY <2>1, <2>3, DoneUndoRace, GotoRaces
<1>13. QED
  BY <1>1, <1>2, <1>3, <1>4, <1>5, <1>6, <1>7, <1>8, <1>9, <1>10, <1>11, <1>12 DEF Run

\* The steps that are not the script's.
LEMMA OthersLook ==
  ASSUME TypeOK, NEW n \in Nodes, NEW q \in Procs, Racing(q, n)',
         \/ \E p \in Procs : Kill(p)
         \/ \E p \in Shells : Shell(p)
         \/ Suspend \/ Resume \/ StopPost \/ UnitDone \/ StopUnit \/ HostChange \/ Reboot
         \/ \E m \in Nodes : External(m)
  PROVE  Racing(q, n)
<1>1. ASSUME NEW p \in Procs, Quit(p) \/ \E m \in Modes : Spawn(p, m) PROVE Racing(q, n)
  BY <1>1, QuitRaces, SpawnRaces
<1>2. Service \in Procs /\ Shells \subseteq Procs
  BY DEF Procs
<1>3. ASSUME NEW p \in Procs, Kill(p) PROVE Racing(q, n)
  BY <1>1, <1>3 DEF Kill
<1>4. ASSUME NEW p \in Shells, Shell(p) PROVE Racing(q, n)
  BY <1>1, <1>2, <1>4, ModeAssumption DEF Shell
<1>5. CASE Suspend \/ Resume \/ StopPost
  BY <1>1, <1>2, <1>5 DEF Suspend, Resume, StopPost, UnitStep, Modes
<1>6. CASE StopUnit
  <2>1. CASE q = Service
    <3>1. pc'[q] = "start"
      BY <1>2, <1>6, <2>1 DEF StopUnit, TypeOK
    <3>2. QED
      BY <3>1 DEF Racing, RacingAt
  <2>2. CASE q # Service
    <3>1. pc'[q] = pc[q] /\ job'[q] = job[q]
      BY <1>6, <2>2 DEF StopUnit, TypeOK
    <3>2. QED
      BY <3>1 DEF Racing
  <2>3. QED
    BY <2>1, <2>2
<1>7. CASE UnitDone \/ HostChange \/ \E m \in Nodes : External(m)
  <2>1. UNCHANGED <<pc, job>>
    BY <1>7 DEF UnitDone, HostChange, External, procVars
  <2>2. QED
    BY <2>1 DEF Racing
<1>8. CASE Reboot
  <2>1. pc'[q] = "idle"
    BY <1>8 DEF Reboot
  <2>2. QED
    BY <2>1 DEF Racing, RacingAt
<1>9. QED
  BY <1>3, <1>4, <1>5, <1>6, <1>7, <1>8

\* restore_all() and apply_all() replace a governor that someone else selected
\* only when the selection fell between their look at the node and their write,
\* and no look at such a governor is followed by a write.
THEOREM ExternalGovernorPreserved == Spec => ExternalPreserved
<1>1. TypeOK /\ [Next]_vars => [\A n \in Nodes : PreservedStep(n)]_vars
  <2> SUFFICES ASSUME TypeOK, Next, NEW n \in Nodes PROVE PreservedStep(n)
    OBVIOUS
  <2>1. ASSUME NEW p \in Procs, Run(p) PROVE PreservedStep(n)
    BY <2>1, RunPreserves
  <2>2. ASSUME UNCHANGED gov PROVE PreservedStep(n)
    BY <2>2 DEF PreservedStep
  <2>3. ASSUME NEW m \in Nodes, External(m) PROVE PreservedStep(n)
    BY <2>3 DEF External, PreservedStep, TypeOK
  <2>4. ASSUME NEW p \in Procs, Kill(p) PROVE UNCHANGED gov
    BY <2>4 DEF Kill, devVars
  <2>5. ASSUME NEW p \in Shells, Shell(p) PROVE UNCHANGED gov
    BY <2>5 DEF Shell, devVars
  <2>6. Suspend \/ Resume \/ StopPost \/ UnitDone \/ StopUnit \/ HostChange => UNCHANGED gov
    BY DEF Suspend, Resume, StopPost, UnitStep, UnitDone, StopUnit, HostChange, devVars
  <2>7. Reboot => PreservedStep(n)
    BY DEF PreservedStep
  <2>8. QED
    BY <2>1, <2>2, <2>3, <2>4, <2>5, <2>6, <2>7 DEF Next
<1>2. TypeOK /\ [Next]_vars => [\A n \in Nodes : LookedStep(n)]_vars
  <2> SUFFICES ASSUME TypeOK, Next, NEW n \in Nodes, gov[n] = "other",
                      NEW q \in Procs, Racing(q, n)'
               PROVE  Racing(q, n)
    BY DEF LookedStep
  <2>1. ASSUME NEW p \in Procs, Run(p) PROVE Racing(q, n)
    BY <2>1, RunLooks
  <2>2. QED
    BY <2>1, OthersLook DEF Next
<1>3. [\A n \in Nodes : PreservedStep(n)]_vars /\ [\A n \in Nodes : LookedStep(n)]_vars
        => [\A n \in Nodes :
              gov[n] = "other" =>
                /\ \A p \in Procs : Racing(p, n)' => Racing(p, n)
                /\ \/ gov'[n] = "other"
                   \/ \E p \in Procs : Racing(p, n)
                   \/ Reboot
                   \/ bound'[n] # bound[n]]_vars
  BY DEF PreservedStep, LookedStep
<1>4. QED
  BY <1>1, <1>2, <1>3, TypeCorrect, PTL DEF Spec, ExternalPreserved

----------------------------------------------------------------------------
(* AwakeRestored *)

LEMMA ServiceProc == Service \in Procs
BY DEF Procs

LEMMA ServiceGoes ==
  ASSUME TypeOK, NEW step, NEW locals, Goto(Service, step, locals)
  PROVE  pc'[Service] = step /\ job'[Service] = locals
BY ServiceProc DEF Goto, TypeOK

LEMMA ServiceQuits ==
  ASSUME TypeOK, Quit(Service)
  PROVE  /\ pc'[Service] = "idle" /\ ~job'[Service].allowed
         /\ job'[Service].mode = "post"
BY ServiceProc DEF Quit, TypeOK, NoJob

LEMMA ServiceDone ==
  ASSUME TypeOK, NEW n \in Nodes, NEW failed \in BOOLEAN, Done(Service, n, failed)
  PROVE  /\ pc'[Service] = "restore" /\ job'[Service].todo = job[Service].todo \ {n}
         /\ job'[Service].allowed = job[Service].allowed
         /\ job'[Service].mode = job[Service].mode
         /\ job'[Service].path = job[Service].path
<1> DEFINE j == [job[Service] EXCEPT !.todo = @ \ {n}, !.node = Free,
                                     !.failed = @ \/ failed]
<1>1. Goto(Service, "restore", j)
  BY DEF Done
<1>2. job[Service] \in Jobs
  BY ServiceProc DEF TypeOK
<1>3. /\ j.todo = job[Service].todo \ {n} /\ j.allowed = job[Service].allowed
      /\ j.mode = job[Service].mode /\ j.path = job[Service].path
  BY <1>2 DEF Jobs
<1> QED
  BY <1>1, <1>3, ServiceGoes

\* A run goes back on what it applied only before the sleep.
LEMMA ServiceUndoes ==
  ASSUME TypeOK, Undo(Service)
  PROVE  /\ pc'[Service] = "restore"
         /\ job'[Service].allowed = job[Service].allowed
         /\ job'[Service].mode = job[Service].mode
         /\ job'[Service].path = job[Service].path
<1> DEFINE j == [job[Service] EXCEPT !.todo = Nodes, !.node = Free, !.undo = TRUE]
<1>1. Goto(Service, "restore", j)
  BY DEF Undo
<1>2. job[Service] \in Jobs
  BY ServiceProc DEF TypeOK
<1>3. /\ j.allowed = job[Service].allowed
      /\ j.mode = job[Service].mode /\ j.path = job[Service].path
  BY <1>2 DEF Jobs
<1> QED
  BY <1>1, <1>3, ServiceGoes

\* While no record is complete no node is left with the governor of the sleep.
LEMMA NoRecordClean ==
  ASSUME IInv, record # "valid"
  PROVE  Clean(Nodes)
BY DEF IInv, WriteAhead, Clean

\* Governors, limits, record and unit stay.
AwakeStill == UNCHANGED <<gov, tuned, bound, record, recPath, unit, faults>>

LEMMA AwakeQuits ==
  ASSUME TypeOK, AwakeOK, Quit(Service), AwakeStill, unit # "idle",
         unit # "pre" => Clean(Nodes)
  PROVE  AwakeOK'
BY ServiceQuits DEF AwakeOK, AwakeStill, Undone, Clean

\* Before the sleep nothing has to be clean: what is left to show of a step.
LEMMA AwakeBefore ==
  ASSUME unit' = "pre", \A n \in Nodes : ~tuned'[n] /\ gov'[n] # "other",
         record' = "valid" => recPath' = bound',
         pc'[Service] \notin {"idle", "start", "admit"} => job'[Service].path = bound',
         pc'[Service] \in {"inspect", "create", "save", "apply", "zero"}
           => job'[Service].allowed,
         pc'[Service] # "load", job'[Service].allowed => job'[Service].mode = "pre"
  PROVE  AwakeOK'
BY DEF AwakeOK

LEMMA AwakeRun ==
  ASSUME TypeOK, IInv, AwakeOK, Run(Service), Alone, Alone'
  PROVE  AwakeOK'
<1> USE DEF devVars, recVars, hostVars
<1> DEFINE p == Service
<1>0. job[p] \in Jobs /\ StepOK(p) /\ pc[p] # "idle" /\ unit # "idle"
  BY IInvParts, ServiceProc DEF TypeOK, AwakeOK, Run, Enter, Admit, Load, RestoreRead,
     RestoreWrite, RestoreConfirm, RestoreEnd, Unlink, Inspect, Create, Save, ApplyWrite,
     ApplyConfirm, ApplyEnd
<1>1. CASE Enter(p)
  <2>1. AwakeStill /\ pc[p] = "start" /\ lock = Free
    BY <1>0, <1>1 DEF Enter, AwakeStill, TypeOK, Procs, Alone, StepOK
  <2>2. pc'[p] = "admit" /\ job' = job
    BY <1>1, <2>1, ServiceProc DEF Enter, TypeOK
  <2> QED
    BY <1>0, <2>1, <2>2 DEF AwakeOK, AwakeStill, Undone, Clean
<1>2. CASE Admit(p)
  <2> DEFINE a == job[p].mode = "pre" /\ optIn /\ ~busy
             j == [job[p] EXCEPT !.allowed = a, !.path = bound]
  <2>1. AwakeStill /\ pc[p] = "admit"
    BY <1>2 DEF Admit, AwakeStill
  <2>2. \/ Quit(p) /\ (job[p].mode = "pre" \/ record = "none")
        \/ Goto(p, "load", j) /\ (a \/ record # "none")
    BY <1>2 DEF Admit
  <2>3. CASE Quit(p) /\ (job[p].mode = "pre" \/ record = "none")
    <3>1. unit # "pre" => Clean(Nodes)
      BY <2>3, NoRecordClean DEF AwakeOK
    <3> QED
      BY <1>0, <2>1, <2>3, <3>1, AwakeQuits
  <2>4. CASE Goto(p, "load", j) /\ (a \/ record # "none")
    <3>1. j.allowed = a /\ j.path = bound /\ j.mode = job[p].mode
      BY <1>0 DEF Jobs
    <3>2. pc'[p] = "load" /\ job'[p] = j
      BY <2>4, ServiceGoes
    <3> HIDE DEF j
    <3> QED
      BY <1>0, <2>1, <2>4, <3>1, <3>2 DEF AwakeOK, AwakeStill, Undone, Clean
  <2> QED
    BY <2>2, <2>3, <2>4
<1>3. CASE Load(p)
  <2> DEFINE j == [job[p] EXCEPT !.todo = Nodes]
  <2>1. AwakeStill /\ pc[p] = "load" /\ job[p].path = bound
    BY <1>3 DEF Load, AwakeStill, AwakeOK
  <2>2. CASE record = "none" /\ Goto(p, "inspect", job[p])
    <3>1. pc'[p] = "inspect" /\ job'[p] = job[p]
      BY <2>2, ServiceGoes
    <3> QED
      BY <1>0, <2>1, <2>2, <3>1 DEF AwakeOK, AwakeStill, Undone, Clean
  <2>3. CASE record # "none" /\ ~Loadable(p) /\ Quit(p)
    <3>1. Clean(Nodes)
      BY <2>1, <2>3, NoRecordClean DEF Loadable, AwakeOK
    <3> QED
      BY <1>0, <2>1, <2>3, <3>1, AwakeQuits
  <2>4. CASE Goto(p, "restore", j)
    <3>1. /\ j.allowed = job[p].allowed /\ j.path = job[p].path
          /\ j.mode = job[p].mode /\ j.todo = Nodes
      BY <1>0 DEF Jobs
    <3>2. pc'[p] = "restore" /\ job'[p] = j
      BY <2>4, ServiceGoes
    <3> HIDE DEF j
    <3> QED
      BY <1>0, <2>1, <2>4, <3>1, <3>2 DEF AwakeOK, AwakeStill, Undone, Clean
  <2> QED
    BY <1>3, <2>2, <2>3, <2>4 DEF Load
<1>4. ASSUME NEW n \in Nodes, RestoreRead(p, n)
      PROVE  AwakeOK'
  <2> DEFINE j == [job[p] EXCEPT !.node = n]
  <2>1. /\ AwakeStill /\ pc[p] = "restore" /\ job[p].path = bound /\ n \in job[p].todo
        /\ Ours(p, n)
    BY <1>4 DEF RestoreRead, AwakeStill, AwakeOK, Ours, Fresh, TypeOK
  <2>2. /\ j.allowed = job[p].allowed /\ j.path = job[p].path
        /\ j.mode = job[p].mode /\ j.todo = job[p].todo /\ j.node = n
    BY <1>0 DEF Jobs
  <2>3. /\ pc'[p] = IF gov[n] = "performance" THEN "confirm" ELSE "rewrite"
        /\ job'[p] = j
    BY <1>4, <2>1, ServiceGoes DEF RestoreRead
  <2> HIDE DEF j
  <2> QED
    BY <1>0, <2>1, <2>2, <2>3 DEF AwakeOK, AwakeStill, Undone, Clean
<1>5. CASE RestoreWrite(p)
  <2> DEFINE n == job[p].node
  <2>1. /\ n \in Nodes /\ pc[p] = "rewrite" /\ job[p].path = bound /\ Fresh(p, n)
        /\ UNCHANGED <<tuned, bound, record, recPath, unit>>
    BY <1>5, ServiceProc DEF RestoreWrite, TypeOK, AtNode, WriteGovernor, FailedWrite,
       WriteUnapplied, AwakeOK, Fresh
  <2>2. /\ gov' \in [Nodes -> {"performance", "powersave", "other"}]
        /\ \A m \in Nodes : gov'[m] \in {gov[m], "performance"}
    BY <1>5, <2>1 DEF RestoreWrite, WriteGovernor, FailedWrite, WriteUnapplied, TypeOK
  <2>3. CASE Goto(p, "confirm", job[p]) /\ WriteGovernor(n, "performance") /\ NoFault
    <3>1. pc'[p] = "confirm" /\ job'[p] = job[p]
      BY <2>3, ServiceGoes
    <3>2. gov'[n] = "performance" /\ faults' = faults
      BY <2>1, <2>3 DEF WriteGovernor, TypeOK, NoFault
    <3> QED
      BY <1>0, <2>1, <2>2, <3>1, <3>2 DEF AwakeOK, Undone, Clean
  <2>4. CASE FailedWrite(n, "performance") /\ Done(p, n, TRUE)
    <3>1. faults = 0 /\ faults' = 1
      BY <2>4 DEF FailedWrite, Fault, Alone, TypeOK
    <3>2. /\ pc'[p] = "restore" /\ job'[p].todo = job[p].todo \ {n}
          /\ job'[p].allowed = job[p].allowed /\ job'[p].mode = job[p].mode
          /\ job'[p].path = job[p].path
      BY <2>1, <2>4, ServiceDone
    <3> QED
      BY <1>0, <2>1, <2>2, <3>1, <3>2 DEF AwakeOK, Undone, Clean
  <2> QED
    BY <1>5, <2>1, <2>3, <2>4 DEF RestoreWrite
<1>6. CASE RestoreConfirm(p)
  <2> DEFINE n == job[p].node
             f == ~(Fresh(p, n) /\ gov[n] = "performance" /\ cur[n] = "max")
  <2>1. /\ n \in Nodes /\ pc[p] = "confirm" /\ job[p].path = bound /\ AwakeStill
        /\ f \in BOOLEAN /\ Done(p, n, f)
    BY <1>6, ServiceProc DEF RestoreConfirm, TypeOK, AtNode, AwakeOK, AwakeStill
  <2>2. /\ pc'[p] = "restore" /\ job'[p].todo = job[p].todo \ {n}
        /\ job'[p].allowed = job[p].allowed /\ job'[p].mode = job[p].mode
        /\ job'[p].path = job[p].path
    BY <2>1, ServiceDone
  <2> QED
    BY <1>0, <2>1, <2>2 DEF AwakeOK, AwakeStill, Undone, Clean
<1>7. CASE RestoreEnd(p)
  <2>1. AwakeStill /\ pc[p] = "restore" /\ job[p].path = bound /\ job[p].todo = {}
    BY <1>7 DEF RestoreEnd, AwakeStill, AwakeOK
  <2>2. CASE Quit(p)
    <3>1. \/ unit = "pre"
          \/ unit = "post" /\ faults # 0
          \/ Clean(Nodes)
      BY <1>0, <2>1 DEF AwakeOK, Undone, TypeOK
    <3>2. /\ pc'[p] = "idle" /\ ~job'[p].allowed /\ job'[p].mode = "post"
      BY <2>2, ServiceQuits
    <3> QED
      BY <1>0, <2>1, <3>1, <3>2 DEF AwakeOK, AwakeStill, Undone, Clean
  <2>3. CASE Goto(p, "unlink", job[p]) /\ ~job[p].failed /\ ~job[p].undo
    <3>1. pc'[p] = "unlink" /\ job'[p] = job[p]
      BY <2>3, ServiceGoes
    <3>2. Clean(Nodes)
      BY <1>0, <2>1, <2>3 DEF StepOK
    <3> QED
      BY <1>0, <2>1, <3>1, <3>2 DEF AwakeOK, AwakeStill, Undone, Clean
  <2> QED
    BY <1>7, <2>2, <2>3 DEF RestoreEnd
<1>8. CASE Unlink(p)
  <2>1. /\ UNCHANGED <<gov, tuned, bound, unit, faults>> /\ record' = "none"
        /\ pc[p] = "unlink" /\ job[p].path = bound /\ Clean(Nodes)
    BY <1>0, <1>8 DEF Unlink, AwakeOK, StepOK
  <2>2. CASE job[p].allowed /\ Goto(p, "inspect", job[p])
    <3>1. pc'[p] = "inspect" /\ job'[p] = job[p]
      BY <2>2, ServiceGoes
    <3> QED
      BY <1>0, <2>1, <2>2, <3>1 DEF AwakeOK, Undone, Clean
  <2>3. CASE Quit(p)
    <3>1. /\ pc'[p] = "idle" /\ ~job'[p].allowed /\ job'[p].mode = "post"
      BY <2>3, ServiceQuits
    <3> QED
      BY <1>0, <2>1, <3>1 DEF AwakeOK, Undone, Clean
  <2> QED
    BY <1>8, <2>2, <2>3 DEF Unlink
<1>9. CASE pc[p] \in {"inspect", "create", "save", "apply", "zero"}
  <2>1. unit = "pre" /\ job[p].allowed /\ job[p].mode = "pre" /\ job[p].path = bound
    BY <1>0, <1>9 DEF AwakeOK, TypeOK
  <2>2. /\ \A n \in Nodes : ~tuned'[n] /\ gov'[n] # "other"
        /\ UNCHANGED <<bound, unit>>
        /\ record' = "valid" => recPath' = bound
    <3>1. CASE Inspect(p) \/ Create(p) \/ Save(p) \/ ApplyConfirm(p) \/ ApplyEnd(p)
      BY <2>1, <3>1 DEF Inspect, Create, Save, ApplyConfirm, ApplyEnd, AwakeOK
    <3>2. ASSUME NEW n \in Nodes, ApplyWrite(p, n)
          PROVE  /\ \A m \in Nodes : ~tuned'[m] /\ gov'[m] # "other"
                 /\ UNCHANGED <<bound, unit>>
                 /\ record' = "valid" => recPath' = bound
      BY <3>2 DEF ApplyWrite, WriteGovernor, FailedWrite, WriteUnapplied, AwakeOK, TypeOK
    <3> QED
      BY <1>9, <3>1, <3>2 DEF Run, Enter, Admit, Load, RestoreRead, RestoreWrite,
         RestoreConfirm, RestoreEnd, Unlink
  <2>3. \/ pc'[p] = "idle" /\ ~job'[p].allowed
        \/ /\ pc'[p] \notin {"idle", "load"} /\ job'[p].allowed = job[p].allowed
           /\ job'[p].mode = job[p].mode /\ job'[p].path = job[p].path
    <3>1. CASE Quit(p)
      BY <3>1, ServiceQuits
    <3>2. CASE Undo(p)
      BY <3>2, ServiceUndoes
    <3>3. ASSUME NEW step \in {"create", "save"}, Goto(p, step, job[p])
          PROVE  pc'[p] = step /\ job'[p] = job[p]
      BY <3>3, ServiceGoes
    <3>4. ASSUME NEW n \in Nodes, NEW step \in {"apply", "zero"}, NEW locals,
                 Goto(p, step, locals),
                 locals \in {[job[p] EXCEPT !.todo = Nodes], [job[p] EXCEPT !.node = n],
                             [job[p] EXCEPT !.todo = @ \ {n}, !.node = Free]}
          PROVE  /\ pc'[p] = step /\ job'[p].allowed = job[p].allowed
                 /\ job'[p].mode = job[p].mode /\ job'[p].path = job[p].path
      <4>1. /\ locals.allowed = job[p].allowed
            /\ locals.mode = job[p].mode /\ locals.path = job[p].path
        BY <1>0, <3>4 DEF Jobs
      <4> QED
        BY <3>4, <4>1, ServiceGoes
    <3>5. CASE Inspect(p) \/ Create(p) \/ ApplyEnd(p)
      BY <3>1, <3>3, <3>5 DEF Inspect, Create, ApplyEnd
    <3>6. CASE Save(p)
      <4>1. CASE Goto(p, "apply", [job[p] EXCEPT !.todo = Nodes])
        BY <1>0, <4>1, ServiceGoes DEF Jobs
      <4> QED
        BY <3>1, <3>6, <4>1 DEF Save
    <3>7. ASSUME NEW n \in Nodes, ApplyWrite(p, n)
          PROVE  Undo(p) \/ Goto(p, "zero", [job[p] EXCEPT !.node = n])
      BY <3>7 DEF ApplyWrite
    <3>8. CASE ApplyConfirm(p)
      <4>1. job[p].node \in Nodes
        BY <3>8, ServiceProc DEF ApplyConfirm, TypeOK, AtNode
      <4>2. Undo(p) \/ Goto(p, "apply", [job[p] EXCEPT !.todo = @ \ {job[p].node},
                                                       !.node = Free])
        BY <3>8 DEF ApplyConfirm
      <4> QED
        BY <3>2, <3>4, <4>1, <4>2
    <3>9. CASE \E n \in Nodes : ApplyWrite(p, n)
      BY <3>2, <3>4, <3>7, <3>9
    <3> QED
      BY <1>9, <3>5, <3>6, <3>8, <3>9 DEF Run, Enter, Admit, Load, RestoreRead,
         RestoreWrite, RestoreConfirm, RestoreEnd, Unlink
  <2> QED
    BY <2>1, <2>2, <2>3, AwakeBefore
<1> QED
  BY <1>1, <1>2, <1>3, <1>4, <1>5, <1>6, <1>7, <1>8, <1>9
  DEF Run, Inspect, Create, Save, ApplyWrite, ApplyConfirm, ApplyEnd

LEMMA AwakeInit == Init => AwakeInv
BY ServiceProc DEF Init, AwakeInv, AwakeOK, NoJob, Clean

LEMMA AwakeSpawn ==
  ASSUME TypeOK, NEW m \in Modes, Spawn(Service, m)
  PROVE  /\ pc[Service] = "idle" /\ pc'[Service] = "start"
         /\ job'[Service].mode = m /\ ~job'[Service].allowed
BY ServiceProc, NoJobType DEF Spawn, TypeOK, NoJob, Jobs

\* Faults and the acts of others are counted, one at a time.
LEMMA CountsGrow ==
  ASSUME [Next]_vars
  PROVE  faults' \in {faults, faults + 1} /\ externals' \in {externals, externals + 1}
<1>1. ASSUME NEW p \in Procs, Run(p)
      PROVE  faults' \in {faults, faults + 1} /\ externals' = externals
  <2>1. Enter(p) \/ Admit(p) \/ Load(p) => UNCHANGED <<faults, externals>>
    BY DEF Enter, Admit, Load
  <2>2. (\E n \in Nodes : RestoreRead(p, n)) \/ RestoreConfirm(p) \/ RestoreEnd(p)
          => UNCHANGED <<faults, externals>>
    BY DEF RestoreRead, RestoreConfirm, RestoreEnd
  <2>3. Unlink(p) \/ Inspect(p) \/ Create(p) \/ ApplyConfirm(p) \/ ApplyEnd(p)
          => UNCHANGED <<faults, externals>>
    BY DEF Unlink, Inspect, Create, ApplyConfirm, ApplyEnd
  <2>4. RestoreWrite(p) \/ Save(p) \/ (\E n \in Nodes : ApplyWrite(p, n))
          => faults' \in {faults, faults + 1} /\ externals' = externals
    BY DEF RestoreWrite, Save, ApplyWrite, FailedWrite, Fault, NoFault
  <2> QED
    BY <1>1, <2>1, <2>2, <2>3, <2>4 DEF Run
<1>2. ASSUME NEW p \in Procs, Kill(p)
      PROVE  faults' = faults + 1 /\ externals' = externals
  BY <1>2 DEF Kill, Fault
<1>3. ASSUME NEW p \in Shells, Shell(p)
      PROVE  UNCHANGED <<faults, externals>>
  BY <1>3 DEF Shell
<1>4. Suspend \/ Resume \/ StopPost \/ UnitDone \/ HostChange \/ Reboot
        => UNCHANGED <<faults, externals>>
  BY DEF Suspend, Resume, StopPost, UnitStep, UnitDone, HostChange, Reboot
<1>5. StopUnit => faults' = faults + 1 /\ externals' = externals
  BY DEF StopUnit, Fault
<1>6. (\E n \in Nodes : External(n)) => faults' = faults /\ externals' = externals + 1
  BY DEF External
<1> QED
  BY <1>1, <1>2, <1>3, <1>4, <1>5, <1>6 DEF Next, vars

LEMMA AwakeNext == TypeOK /\ IInv /\ AwakeInv /\ [Next]_vars => AwakeInv'
<1> SUFFICES ASSUME TypeOK, IInv, AwakeInv, [Next]_vars, Alone'
             PROVE  AwakeOK'
  BY DEF AwakeInv
<1> USE DEF devVars, recVars, procVars
<1>1. UNCHANGED externals /\ (faults' = faults \/ (faults = 0 /\ faults' = 1))
  BY CountsGrow DEF Alone, TypeOK
<1>2. Alone /\ AwakeOK /\ Procs = {Service}
  BY <1>1 DEF Alone, AwakeInv, Procs, TypeOK
<1>3. CASE Run(Service)
  BY <1>2, <1>3, AwakeRun
<1>4. CASE Kill(Service)
  <2>1. faults = 0 /\ faults' = 1 /\ UNCHANGED <<gov, tuned, bound, record, recPath, unit>>
    BY <1>1, <1>4 DEF Kill, Fault, hostVars, TypeOK
  <2>2. pc'[Service] = "idle" /\ ~job'[Service].allowed /\ job'[Service].mode = "post"
    BY <1>4, ServiceQuits DEF Kill
  <2> QED
    BY <1>2, <2>1, <2>2 DEF AwakeOK, Undone, Clean
<1>5. CASE Suspend \/ Resume \/ StopPost
  <2>1. UNCHANGED <<gov, tuned, bound, record, recPath, faults>>
    BY <1>5 DEF Suspend, Resume, StopPost, UnitStep
  <2>2. /\ pc[Service] = "idle" /\ pc'[Service] = "start" /\ ~job'[Service].allowed
        /\ \/ unit' = "pre"
           \/ unit' = "post" /\ job'[Service].mode = "post"
           \/ unit = "post" /\ unit' = "stopping" /\ job'[Service].mode = "recover"
    BY <1>5, AwakeSpawn DEF Suspend, Resume, StopPost, UnitStep, Modes
  <2> QED
    BY <1>2, <2>1, <2>2 DEF AwakeOK, Undone, Clean
<1>6. CASE UnitDone
  BY <1>2, <1>6 DEF UnitDone, AwakeOK, Undone, Clean
<1>7. CASE StopUnit
  <2>1. /\ faults' = 1 /\ UNCHANGED <<gov, tuned, bound, record, recPath>>
        /\ unit' = "stopping"
    BY <1>1, <1>7 DEF StopUnit, Fault, TypeOK
  <2>2. /\ pc'[Service] = "start" /\ ~job'[Service].allowed
        /\ job'[Service].mode = "recover"
    BY <1>7, ServiceProc, NoJobType DEF StopUnit, TypeOK, NoJob, Jobs
  <2> QED
    BY <1>2, <2>1, <2>2 DEF AwakeOK, Undone, Clean
<1>8. CASE HostChange \/ UNCHANGED vars
  <2>1. UNCHANGED <<gov, tuned, bound, record, recPath, unit, pc, job, faults>>
    BY <1>8 DEF HostChange, vars, hostVars
  <2> QED
    BY <1>2, <2>1 DEF AwakeOK, Undone, Clean
<1>9. CASE Reboot
  BY <1>9, ServiceProc DEF Reboot, AwakeOK, NoJob, Clean
<1>10. ~(\E n \in Nodes : External(n)) /\ ~(\E p \in Shells : Shell(p))
  BY <1>1, <1>2 DEF External, Alone, TypeOK
<1> QED
  BY <1>2, <1>3, <1>4, <1>5, <1>6, <1>7, <1>8, <1>9, <1>10 DEF Next

\* With systemd alone and nobody else at the nodes, one refused or unapplied write or
\* one killed process is made good before the unit is inactive again, wherever it
\* falls in the runs before and after the sleep and at the stop of the unit.
THEOREM AwakeHolds == Spec => []AwakeRestored
<1>1. Spec => []AwakeInv
  <2>1. Spec => []IInv
    BY IInvInit, IInvNext, TypeCorrect, PTL DEF Spec
  <2> QED
    BY <2>1, AwakeInit, AwakeNext, TypeCorrect, PTL DEF Spec
<1>2. AwakeInv => AwakeRestored
  BY DEF AwakeInv, AwakeOK, Alone, Clean, AwakeRestored
<1>3. QED
  BY <1>1, <1>2, PTL
=============================================================================
