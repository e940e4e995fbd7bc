------------------------------ MODULE TshProof ------------------------------
(***************************************************************************)
(* Proofs about the shell, for every number of slots, every set of process *)
(* IDs and every bound on job IDs.                                         *)
(***************************************************************************)
EXTENDS Tsh, Lemmas

-----------------------------------------------------------------------------
(***************************************************************************)
(* The inductive invariant.                                                *)
(***************************************************************************)

\* An unused slot is cleared, a used one is in a state of its own.
SlotsWellFormed ==
  \A i \in Slots : IF jobs[i].pid = NoPid THEN jobs[i] = clearedjob
                                          ELSE jobs[i].state # UNDEF

\* The job that eval is adding is a child that is not in the list yet; the
\* signals are blocked, so it is not reaped before it gets there.
CurrentIsUnlisted ==
  pc = "add" /\ current # NoPid =>
    /\ proc[current] # "free"
    /\ \A i \in Slots : jobs[i].pid # current

\* A handler runs on top of the command loop or of sigsuspend only.
HandlerReturns == pc \in Forwarding \cup {"reap"} => resume \in {"read", "check"}

UntoldAreStopped == \A p \in untold : proc[p] = "stopped"

IInv == /\ TypeOK
        /\ SlotsWellFormed
        /\ JobsAreChildren
        /\ StoppedIsStopped
        /\ UntoldAreStopped
        /\ Up => /\ ForegroundIsWaitedFor
                 /\ CurrentIsUnlisted
                 /\ HandlerReturns
                 /\ TargetIsForeground
                 /\ MaskFollowsFlow

-----------------------------------------------------------------------------
(***************************************************************************)
(* What the lookups of the job list return.                                *)
(***************************************************************************)

\* A slot that getjobpid returns is a slot with that pid.
LEMMA GetjobpidIsSlot ==
  ASSUME NEW js, NEW p, NEW i \in getjobpid(js, p)
  PROVE  i \in Slots /\ p # NoPid /\ js[i].pid = p
BY DEF getjobpid, First

\* When one slot only has that pid, getjobpid returns it.
LEMMA GetjobpidFinds ==
  ASSUME NEW js, NEW p, p # NoPid,
         NEW i \in Slots, js[i].pid = p,
         \A k \in Slots : js[k].pid = p => k = i
  PROVE  getjobpid(js, p) = {i}
<1> DEFINE P == {k \in Slots : p # NoPid /\ js[k].pid = p}
<1>1. P = {i}
  OBVIOUS
<1>2. i <= i
  BY MAXJOBSAssumption DEF Slots
<1>3. First(P) = {i}
  BY <1>1, <1>2 DEF First
<1> QED BY <1>3 DEF getjobpid

\* A slot that addjob takes is unused.
LEMMA FreeslotIsFree ==
  ASSUME NEW js, NEW i \in freeslot(js)
  PROVE  i \in Slots /\ js[i].pid = NoPid
BY DEF freeslot, First

\* fgpid returns the pid of a job in the foreground.
LEMMA FgpidIsForeground ==
  ASSUME NEW js, NEW p \in fgpid(js)
  PROVE  \E i \in Slots : js[i].state = FG /\ js[i].pid = p
BY DEF fgpid, First

\* An argument of fg or bg names a used slot.
LEMMA NamedIsUsed ==
  ASSUME SlotsWellFormed, NEW i \in Named
  PROVE  i \in Slots /\ jobs[i].pid # NoPid
<1>1. CASE \E p \in Pid : i \in getjobpid(jobs, p)
  BY <1>1, GetjobpidIsSlot
<1>2. CASE \E k \in Slots : i \in getjobjid(jobs, jobs[k].jid)
  <2>1. i \in Slots /\ jobs[i].jid >= 1
    BY <1>2 DEF getjobjid, First
  <2>2. jobs[i].pid = NoPid => jobs[i].jid = 0
    BY <2>1 DEF SlotsWellFormed, clearedjob
  <2> QED BY <2>1, <2>2
<1> QED BY <1>1, <1>2 DEF Named

-----------------------------------------------------------------------------
(***************************************************************************)
(* The invariant holds initially and is kept by every action.              *)
(***************************************************************************)
LEMMA InitIInv == Init => IInv
<1> SUFFICES ASSUME Init PROVE IInv
  OBVIOUS
<1> USE DEF Init, TableInit, initjobs, clearedjob, UNDEF, FG, BG, ST
<1>1. TypeOK
  <2>1. clearedjob \in job_t
    BY DEF job_t, JobState
  <2>2. TableTypeOK
    BY <2>1 DEF TableTypeOK
  <2>3. /\ pc \in Place /\ resume \in FlowPlace
        /\ target \in Pid \cup {NoPid} /\ proc \in [Pid -> ProcState]
    BY DEF FlowPlace, Place, ProcState
  <2> QED BY <2>2, <2>3 DEF TypeOK
<1>2. SlotsWellFormed /\ JobsAreChildren /\ StoppedIsStopped /\ UntoldAreStopped
  BY DEF SlotsWellFormed, JobsAreChildren, StoppedIsStopped, UntoldAreStopped
<1>3. /\ ForegroundIsWaitedFor /\ CurrentIsUnlisted /\ HandlerReturns
     /\ TargetIsForeground /\ MaskFollowsFlow
  BY DEF ForegroundIsWaitedFor, CurrentIsUnlisted, HandlerReturns, TargetIsForeground, InForeground,
         MaskFollowsFlow, FlowPlace, Forwarding, SIGINT, SIGTSTP
<1> QED BY <1>1, <1>2, <1>3 DEF IInv

\* eval forks: the new process is live and not yet in the list.
LEMMA EvalForkIInv == IInv /\ EvalFork => IInv'
<1> SUFFICES ASSUME IInv, EvalFork PROVE IInv'
  OBVIOUS
<1> USE DEF EvalFork, parseline, Become, BlockAll, FG, BG, tableVars
<1>1. TypeOK'
  BY DEF IInv, TypeOK, TableTypeOK, FlowPlace, Place, ProcState
<1>2. SlotsWellFormed'
  BY DEF IInv, SlotsWellFormed
<1>3. \A p \in Pid : proc[p] # "free" => proc'[p] = proc[p]
  BY DEF IInv, TypeOK
<1>4. JobsAreChildren'
  BY <1>3 DEF IInv, JobsAreChildren, TypeOK, TableTypeOK, job_t
<1>5. StoppedIsStopped' /\ UntoldAreStopped'
  <2>1. \A p \in Pid : proc[p] = "stopped" => proc'[p] = "stopped"
    BY <1>3
  <2>2. \A i \in Slots : jobs[i].state = ST => jobs[i].pid \in Pid
    BY DEF IInv, SlotsWellFormed, TypeOK, TableTypeOK, job_t, clearedjob, UNDEF, ST
  <2> QED BY <2>1, <2>2 DEF IInv, TypeOK, StoppedIsStopped, UntoldAreStopped
<1>6. Up
  BY DEF Up
<1>7. CurrentIsUnlisted'
  <2>1. \A p \in Pid : proc[p] = "free" => \A i \in Slots : jobs[i].pid # p
    BY NoPidAssumption DEF IInv, JobsAreChildren
  <2> QED BY <2>1 DEF IInv, TypeOK, CurrentIsUnlisted
<1>8. ForegroundIsWaitedFor' /\ HandlerReturns' /\ TargetIsForeground' /\ MaskFollowsFlow'
  BY <1>6 DEF IInv, ForegroundIsWaitedFor, HandlerReturns, TargetIsForeground, InForeground,
         MaskFollowsFlow, FlowPlace, Forwarding, SIGINT, SIGTSTP, Up
<1> QED BY <1>1, <1>2, <1>4, <1>5, <1>7, <1>8 DEF IInv

\* A used slot holds a child's pid.
LEMMA UsedSlots ==
  ASSUME TypeOK, SlotsWellFormed, NEW i \in Slots
  PROVE  /\ jobs[i] \in job_t
         /\ jobs[i].state # UNDEF => jobs[i].pid \in Pid
         /\ jobs[i].pid # NoPid <=> jobs[i].state # UNDEF
BY DEF TypeOK, TableTypeOK, SlotsWellFormed, job_t, clearedjob

\* What the kernel's part of a step leaves alone: it neither creates nor removes
\* a child, and keeps the processes of Q stopped.
ProcsKept(Q) ==
  /\ proc' \in [Pid -> ProcState]
  /\ untold' \subseteq Pid /\ intpend' \subseteq Pid
  /\ \A q \in Pid : proc'[q] = "free" <=> proc[q] = "free"
  /\ \A q \in Q : proc[q] = "stopped" => proc'[q] = "stopped"
  /\ UntoldAreStopped'

\* SIGINT for a process: it dies, or the signal waits until it goes on.
LEMMA SendIntKeeps ==
  ASSUME TypeOK, UntoldAreStopped, NEW p \in Pid, NEW rest \in SUBSET Signals,
         SendInt(p, rest)
  PROVE  ProcsKept(Pid) /\ pending' \subseteq Signals
<1> USE DEF TypeOK, UntoldAreStopped, ProcsKept, procVars, Signals, ProcState
<1>1. CASE proc[p] = "running" /\ Die(p) /\ pending' = rest \cup {SIGCHLD}
  BY <1>1 DEF Die, Become
<1>2. CASE proc[p] = "stopped" /\ UNCHANGED <<proc, untold>>
                               /\ intpend' = intpend \cup {p} /\ pending' = rest
  BY <1>2
<1>3. CASE UNCHANGED procVars /\ pending' = rest
  BY <1>3
<1> QED BY <1>1, <1>2, <1>3 DEF SendInt

\* The same of SIGTSTP.
LEMMA SendTstpKeeps ==
  ASSUME TypeOK, UntoldAreStopped, NEW p \in Pid, NEW rest \in SUBSET Signals,
         SendTstp(p, rest)
  PROVE  ProcsKept(Pid) /\ pending' \subseteq Signals
<1> USE DEF TypeOK, UntoldAreStopped, ProcsKept, procVars, Signals, ProcState
<1>1. CASE /\ proc[p] = "running" /\ Become(p, "stopped")
           /\ untold' = untold \cup {p}
           /\ pending' = rest \cup {SIGCHLD} /\ UNCHANGED intpend
  BY <1>1 DEF Become
<1>2. CASE UNCHANGED procVars /\ pending' = rest
  BY <1>2
<1> QED BY <1>1, <1>2 DEF SendTstp

\* The same of SIGCONT.
LEMMA SendContKeeps ==
  ASSUME TypeOK, UntoldAreStopped, NEW p \in Pid, SendCont(p)
  PROVE  ProcsKept(Pid \ {p}) /\ pending' \subseteq Signals
<1> USE DEF TypeOK, UntoldAreStopped, ProcsKept, procVars, Signals, ProcState
<1>1. CASE /\ proc[p] = "stopped"
           /\ Become(p, IF p \in intpend THEN "zombie" ELSE "running")
           /\ untold' = untold \ {p}
           /\ intpend' = intpend \ {p}
           /\ Notify(SIGCHLD)
  BY <1>1 DEF Become, Notify
<1>2. CASE UNCHANGED <<procVars, pending>>
  BY <1>2
<1> QED BY <1>1, <1>2 DEF SendCont

\* The invariant survives a step that leaves the list alone and does no more to
\* the processes than ProcsKept says, as long as the flow stays in step.
LEMMA ProcsKeptIInv ==
  ASSUME IInv, ProcsKept(Pid), pending' \subseteq Signals,
         UNCHANGED <<tableVars, blocked, evalVars, waitjob>>,
         waitarg' \in Pid \cup {AnyChild, ShellGroup},
         pc' \in Place, resume' \in FlowPlace /\ target' \in Pid \cup {NoPid},
         Up, Up' => ForegroundIsWaitedFor' /\ HandlerReturns' /\ TargetIsForeground' /\ MaskFollowsFlow',
         pc' = "add" => pc = "add"
  PROVE  IInv'
<1> USE DEF tableVars, evalVars
<1>1. TypeOK'
  BY DEF IInv, TypeOK, TableTypeOK, ProcsKept
<1>2. SlotsWellFormed'
  BY DEF IInv, SlotsWellFormed
<1>3. \A i \in Slots : jobs[i].pid # NoPid => jobs[i].pid \in Pid
  BY UsedSlots DEF IInv
<1>4. JobsAreChildren'
  BY <1>3 DEF IInv, JobsAreChildren, ProcsKept
<1>5. StoppedIsStopped' /\ UntoldAreStopped'
  <2>1. \A i \in Slots : jobs[i].state = ST => jobs[i].pid \in Pid
    BY UsedSlots DEF IInv, ST, UNDEF
  <2> QED BY <2>1 DEF IInv, StoppedIsStopped, ProcsKept
<1>6. CurrentIsUnlisted'
  BY DEF IInv, TypeOK, CurrentIsUnlisted, ProcsKept
<1> QED BY <1>1, <1>2, <1>4, <1>5, <1>6 DEF IInv

\* A step of the shell's flow that leaves the list and the processes alone.
LEMMA FlowIInv ==
  ASSUME IInv, UNCHANGED <<tableVars, current, procVars>>,
         pending' \subseteq Signals, mode' \in {FG, BG},
         waitjob' \subseteq Slots, blocked' \in BOOLEAN,
         waitarg' \in Pid \cup {AnyChild, ShellGroup},
         pc' \in Place, resume' \in FlowPlace /\ target' \in Pid \cup {NoPid},
         Up' => ForegroundIsWaitedFor' /\ HandlerReturns' /\ TargetIsForeground' /\ MaskFollowsFlow',
         pc' = "add" => pc = "add"
  PROVE  IInv'
<1> USE DEF tableVars, procVars
<1>1. TypeOK'
  BY DEF IInv, TypeOK, TableTypeOK
<1>2. SlotsWellFormed' /\ JobsAreChildren' /\ StoppedIsStopped' /\ UntoldAreStopped'
  BY DEF IInv, SlotsWellFormed, JobsAreChildren, StoppedIsStopped, UntoldAreStopped
<1>3. CurrentIsUnlisted'
  BY DEF IInv, CurrentIsUnlisted, Up
<1> QED BY <1>1, <1>2, <1>3 DEF IInv

\* waitfg looks at the foreground job.
LEMMA WaitfgCheckIInv == IInv /\ WaitfgCheck => IInv'
<1> SUFFICES ASSUME IInv, WaitfgCheck PROVE IInv'
  OBVIOUS
<1> USE DEF WaitfgCheck, tableVars, procVars, evalVars
<1>1. Up
  BY DEF Up
<1>2. ForegroundIsWaitedFor' /\ HandlerReturns' /\ TargetIsForeground' /\ MaskFollowsFlow'
  <2>1. CASE StillForeground
    BY <1>1, <2>1 DEF IInv, ForegroundIsWaitedFor, HandlerReturns, TargetIsForeground, InForeground,
         MaskFollowsFlow, FlowPlace, Forwarding, SIGINT, SIGTSTP, Up
  <2>2. CASE ~StillForeground
    <3>1. \A i \in Slots : jobs[i].state # FG
      BY <1>1, <2>2 DEF IInv, ForegroundIsWaitedFor, StillForeground
    <3> QED BY <2>2, <3>1 DEF ForegroundIsWaitedFor, HandlerReturns, TargetIsForeground, InForeground,
         MaskFollowsFlow, FlowPlace, Forwarding, SIGINT, SIGTSTP
  <2> QED BY <2>1, <2>2
<1>3. pc' \in Place /\ blocked' \in BOOLEAN /\ waitjob' \subseteq Slots
  BY DEF IInv, TypeOK, Place, FlowPlace
<1>4. /\ pending' \subseteq Signals /\ mode' \in {FG, BG}
      /\ waitarg' \in Pid \cup {AnyChild, ShellGroup}
      /\ resume' \in FlowPlace /\ target' \in Pid \cup {NoPid}
  BY DEF IInv, TypeOK
<1>5. pc' # "add"
  OBVIOUS
<1> QED BY <1>2, <1>3, <1>4, <1>5, FlowIInv

\* The shell exits.
LEMMA QuitIInv == IInv /\ Quit => IInv'
<1> SUFFICES ASSUME IInv, Quit PROVE IInv'
  OBVIOUS
<1> USE DEF Quit, tableVars, procVars, evalVars
<1>1. ~Up'
  BY DEF Up
<1>2. /\ pending' \subseteq Signals /\ mode' \in {FG, BG}
      /\ waitjob' \subseteq Slots /\ blocked' \in BOOLEAN
      /\ waitarg' \in Pid \cup {AnyChild, ShellGroup}
      /\ pc' \in Place /\ resume' \in FlowPlace /\ target' \in Pid \cup {NoPid}
  BY DEF IInv, TypeOK, Place
<1> QED BY <1>1, <1>2, FlowIInv

\* A handler returns to where it interrupted the shell.
LEMMA AfterHandlerPlace ==
  ASSUME IInv, NEW sig, Deliverable(sig)
  PROVE  /\ Up /\ AfterHandler \in {"read", "check"}
         /\ AfterHandler = "read" => pc = "read"
         /\ AfterHandler = "check" => pc = "suspend"
BY DEF IInv, MaskFollowsFlow, Deliverable, AfterHandler, FlowPlace, Up

\* The pid that the handlers look up is that of a job in the foreground.
LEMMA ForegroundPid == IInv => \A p \in fgpid(jobs) : p \in Pid /\ InForeground(p)
<1> SUFFICES ASSUME IInv, NEW p \in fgpid(jobs) PROVE p \in Pid /\ InForeground(p)
  OBVIOUS
<1>1. PICK i \in Slots : jobs[i].state = FG /\ jobs[i].pid = p
  BY FgpidIsForeground
<1>2. p \in Pid
  BY <1>1, UsedSlots DEF IInv, FG, UNDEF
<1> QED BY <1>1, <1>2 DEF InForeground

\* The process of a job is a child that is not reaped.
LEMMA ForegroundIsChild ==
  ASSUME JobsAreChildren, NEW p \in Pid, InForeground(p)
  PROVE  proc[p] # "free"
BY NoPidAssumption DEF InForeground, JobsAreChildren

\* The handlers of SIGINT and SIGTSTP look up the foreground job.
LEMMA ForwardIInv == ASSUME NEW sig \in Forwarding PROVE IInv /\ Forward(sig) => IInv'
<1> SUFFICES ASSUME IInv, Forward(sig) PROVE IInv'
  OBVIOUS
<1> USE DEF tableVars, procVars, evalVars
<1>1. /\ Deliverable(sig) /\ pending' = pending \ {sig}
      /\ UNCHANGED <<tableVars, blocked, evalVars, waitjob, waitarg, procVars>>
      /\ \/ /\ target' \in fgpid(jobs)
            /\ pc' = sig /\ resume' = AfterHandler
         \/ /\ pc' = AfterHandler
            /\ UNCHANGED <<resume, target>>
  BY DEF Forward
<1>2. /\ Up /\ AfterHandler \in {"read", "check"}
      /\ AfterHandler = "read" => pc = "read"
      /\ AfterHandler = "check" => pc = "suspend"
  BY <1>1, AfterHandlerPlace
<1>3. sig \in {"SIGINT", "SIGTSTP"}
  BY DEF Forwarding, SIGINT, SIGTSTP
<1>4. /\ pending' \subseteq Signals /\ mode' \in {FG, BG}
      /\ waitjob' \subseteq Slots /\ blocked' \in BOOLEAN
      /\ waitarg' \in Pid \cup {AnyChild, ShellGroup}
  BY <1>1 DEF IInv, TypeOK
<1>5. CASE /\ target' \in fgpid(jobs)
           /\ pc' = sig /\ resume' = AfterHandler
  <2>1. ForegroundIsWaitedFor'
    BY <1>1, <1>2, <1>3, <1>5 DEF IInv, ForegroundIsWaitedFor, FlowPlace
  <2>2. HandlerReturns' /\ MaskFollowsFlow'
    BY <1>1, <1>2, <1>3, <1>5 DEF IInv, HandlerReturns, MaskFollowsFlow, FlowPlace
  <2>3. target' \in Pid /\ InForeground(target')
    BY <1>5, ForegroundPid
  <2>4. proc[target'] # "free"
    BY <2>3, ForegroundIsChild DEF IInv
  <2>5. TargetIsForeground'
    BY <1>1, <2>3, <2>4 DEF TargetIsForeground, InForeground
  <2>6. /\ pc' \in Place /\ resume' \in FlowPlace /\ target' \in Pid \cup {NoPid}
        /\ pc' # "add"
    BY <1>2, <1>3, <1>5, <2>3 DEF Place, FlowPlace, Forwarding
  <2> QED BY <1>1, <1>4, <2>1, <2>2, <2>5, <2>6, FlowIInv
<1>6. CASE pc' = AfterHandler /\ UNCHANGED <<resume, target>>
  <2>1. ForegroundIsWaitedFor'
    BY <1>1, <1>2, <1>6 DEF IInv, ForegroundIsWaitedFor, FlowPlace
  <2>2. HandlerReturns' /\ TargetIsForeground' /\ MaskFollowsFlow'
    BY <1>1, <1>2, <1>6
    DEF IInv, HandlerReturns, TargetIsForeground, MaskFollowsFlow, FlowPlace, Forwarding,
        SIGINT, SIGTSTP
  <2>3. /\ pc' \in Place /\ resume' \in FlowPlace /\ target' \in Pid \cup {NoPid}
        /\ pc' # "add"
    BY <1>2, <1>6 DEF IInv, TypeOK, Place, FlowPlace
  <2> QED BY <1>1, <1>4, <2>1, <2>2, <2>3, FlowIInv
<1> QED BY <1>1, <1>5, <1>6

\* What the kill does: a signal is sent to the foreground job, which is a process.
LEMMA KillSends ==
  ASSUME IInv, Kill
  PROVE  /\ pc \in Forwarding /\ target \in Pid /\ ProcsKept(Pid) /\ pending' \subseteq Signals
         /\ SendInt(target, pending) \/ SendTstp(target, pending)
<1>1. /\ pc \in Forwarding
      /\ SendInt(target, pending) \/ SendTstp(target, pending)
  BY DEF Kill, Forwarding
<1>2. InForeground(target)
  BY <1>1 DEF IInv, TargetIsForeground, Up, Forwarding, SIGINT, SIGTSTP
<1>3. target \in Pid
  BY <1>2, UsedSlots DEF InForeground, IInv, FG, UNDEF
<1>4. pending \in SUBSET Signals
  BY DEF IInv, TypeOK
<1> QED BY <1>1, <1>3, <1>4, SendIntKeeps, SendTstpKeeps DEF IInv

\* The kill, and the return of the handler.
LEMMA KillIInv == IInv /\ Kill => IInv'
<1> SUFFICES ASSUME IInv, Kill PROVE IInv'
  OBVIOUS
<1> USE DEF tableVars, evalVars
<1>1. /\ pc' = resume /\ resume' = "read" /\ target' = NoPid
      /\ UNCHANGED <<tableVars, blocked, evalVars, waitjob, waitarg>>
  BY DEF Kill
<1>2. pc \in Forwarding /\ ProcsKept(Pid) /\ pending' \subseteq Signals
  BY KillSends
<1>3. Up /\ pc \notin FlowPlace
  BY <1>2 DEF Up, Forwarding, FlowPlace, SIGINT, SIGTSTP
<1>4. pc' \in {"read", "check"} /\ pc' = resume
  BY <1>1, <1>2, <1>3 DEF IInv, HandlerReturns
<1>5. ForegroundIsWaitedFor'
  BY <1>1, <1>3, <1>4 DEF IInv, ForegroundIsWaitedFor, FlowPlace
<1>6. HandlerReturns' /\ TargetIsForeground' /\ MaskFollowsFlow'
  BY <1>1, <1>3, <1>4
  DEF IInv, HandlerReturns, TargetIsForeground, MaskFollowsFlow, FlowPlace, Forwarding,
      SIGINT, SIGTSTP, Up
<1>7. /\ pc' \in Place /\ resume' \in FlowPlace /\ target' \in Pid \cup {NoPid}
      /\ waitarg' \in Pid \cup {AnyChild, ShellGroup}
  BY <1>1, <1>4 DEF IInv, TypeOK, Place, FlowPlace
<1> QED BY <1>1, <1>2, <1>3, <1>4, <1>5, <1>6, <1>7, ProcsKeptIInv

\* The handler of SIGCHLD begins.
LEMMA SigchldIInv == IInv /\ sigchld_handler => IInv'
<1> SUFFICES ASSUME IInv, sigchld_handler PROVE IInv'
  OBVIOUS
<1> USE DEF sigchld_handler, tableVars, procVars, evalVars
<1>1. /\ Up /\ resume' \in {"read", "check"}
      /\ resume' = "read" => pc = "read"
      /\ resume' = "check" => pc = "suspend"
  BY AfterHandlerPlace
<1>2. ForegroundIsWaitedFor'
  BY <1>1 DEF IInv, ForegroundIsWaitedFor, FlowPlace
<1>3. HandlerReturns' /\ TargetIsForeground' /\ MaskFollowsFlow'
  BY <1>1 DEF IInv, HandlerReturns, TargetIsForeground, InForeground,
         MaskFollowsFlow, FlowPlace, Forwarding, SIGINT, SIGTSTP
<1>4. /\ pending' \subseteq Signals /\ mode' \in {FG, BG}
      /\ waitjob' \subseteq Slots /\ blocked' \in BOOLEAN
      /\ waitarg' \in Pid \cup {AnyChild, ShellGroup}
      /\ pc' \in Place /\ resume' \in FlowPlace /\ target' \in Pid \cup {NoPid} /\ pc' # "add"
  BY <1>1 DEF IInv, TypeOK, Place, FlowPlace
<1> QED BY <1>2, <1>3, <1>4, FlowIInv

\* It returns when no child is left to report on.
LEMMA ChldReturnIInv == IInv /\ ChldReturn => IInv'
<1> SUFFICES ASSUME IInv, ChldReturn PROVE IInv'
  OBVIOUS
<1> USE DEF ChldReturn, tableVars, procVars, evalVars
<1>1. Up /\ pc' \in {"read", "check"} /\ pc' = resume
  BY DEF IInv, HandlerReturns, FlowPlace, Up
<1>2. ForegroundIsWaitedFor'
  BY <1>1 DEF IInv, ForegroundIsWaitedFor, FG
<1>3. HandlerReturns' /\ TargetIsForeground' /\ MaskFollowsFlow'
  BY <1>1 DEF IInv, HandlerReturns, TargetIsForeground, InForeground,
         MaskFollowsFlow, FlowPlace, Forwarding, SIGINT, SIGTSTP
<1>4. /\ pending' \subseteq Signals /\ mode' \in {FG, BG}
      /\ waitjob' \subseteq Slots /\ blocked' \in BOOLEAN
      /\ waitarg' \in Pid \cup {AnyChild, ShellGroup}
      /\ pc' \in Place /\ resume' \in FlowPlace /\ target' \in Pid \cup {NoPid} /\ pc' # "add"
  BY <1>1 DEF IInv, TypeOK, Place, FlowPlace
<1> QED BY <1>2, <1>3, <1>4, FlowIInv

\* A step of a child process.
LEMMA ChildIInv == ASSUME NEW p \in Pid PROVE IInv /\ Child(p) => IInv'
<1> SUFFICES ASSUME IInv, Child(p) PROVE IInv'
  OBVIOUS
<1> USE DEF shellVars, flowVars
<1>1. /\ Up /\ UNCHANGED shellVars
      /\ Setpgid(p) \/ Execve(p) \/ Exit(p) \/ StopsItself(p)
  BY DEF Child
<1>2. ProcsKept(Pid) /\ pending' \subseteq Signals
  <2>1. CASE Setpgid(p) \/ Execve(p)
    BY <2>1 DEF Setpgid, Execve, Become, IInv, TypeOK, UntoldAreStopped, ProcsKept, ProcState
  <2>2. CASE Exit(p)
    BY <2>2 DEF Exit, Die, Notify, Become, IInv, TypeOK, UntoldAreStopped, ProcsKept,
                ProcState, Signals
  <2>3. CASE StopsItself(p)
    <3>1. pending \in SUBSET Signals
      BY DEF IInv, TypeOK
    <3> QED BY <2>3, <3>1, SendTstpKeeps DEF StopsItself, IInv
  <2> QED BY <1>1, <2>1, <2>2, <2>3
<1>3. ForegroundIsWaitedFor' /\ HandlerReturns' /\ MaskFollowsFlow'
  BY <1>1 DEF IInv, ForegroundIsWaitedFor, HandlerReturns, MaskFollowsFlow, Up, tableVars
<1>4. TargetIsForeground'
  <2>1. pc \in Forwarding => InForeground(target) /\ target \in Pid
    BY <1>1, UsedSlots DEF IInv, TargetIsForeground, InForeground, FG, UNDEF
  <2> QED BY <1>1, <1>2, <2>1 DEF IInv, TargetIsForeground, InForeground, ProcsKept, tableVars
<1>5. /\ pc' \in Place /\ resume' \in FlowPlace
     /\ target' \in Pid \cup {NoPid} /\ waitarg' \in Pid \cup {AnyChild, ShellGroup}
  BY <1>1 DEF IInv, TypeOK
<1> QED BY <1>1, <1>2, <1>3, <1>4, <1>5, ProcsKeptIInv

\* A key of the terminal.
LEMMA KeyboardIInv == IInv /\ Keyboard => IInv'
<1> SUFFICES ASSUME IInv, Keyboard PROVE IInv'
  OBVIOUS
<1> USE DEF Keyboard, Notify, shellVars, flowVars, tableVars, evalVars, procVars
<1>1. pending' \subseteq Signals
  BY DEF IInv, TypeOK, Signals
<1>2. ForegroundIsWaitedFor' /\ HandlerReturns' /\ TargetIsForeground' /\ MaskFollowsFlow'
  BY DEF IInv, ForegroundIsWaitedFor, HandlerReturns, TargetIsForeground, InForeground,
         MaskFollowsFlow, FlowPlace, Forwarding, SIGINT, SIGTSTP, Up
<1>3. /\ mode' \in {FG, BG} /\ waitjob' \subseteq Slots /\ blocked' \in BOOLEAN
      /\ waitarg' \in Pid \cup {AnyChild, ShellGroup}
      /\ pc' \in Place /\ resume' \in FlowPlace /\ target' \in Pid \cup {NoPid}
  BY DEF IInv, TypeOK
<1> QED BY <1>1, <1>2, <1>3, FlowIInv

\* addjob puts the job in an unused slot, or leaves the list alone.
LEMMA AddjobEffect ==
  ASSUME TypeOK, NEW p \in Pid \cup {NoPid}, NEW s \in {FG, BG}, addjob(p, s)
  PROVE  /\ TableTypeOK'
         /\ \/ UNCHANGED tableVars
            \/ /\ p \in Pid
               /\ \E i \in Slots :
                    /\ jobs[i].pid = NoPid
                    /\ jobs' = [jobs EXCEPT ![i] = [pid |-> p, jid |-> nextjid, state |-> s]]
<1>1. CASE UNCHANGED tableVars
  BY <1>1 DEF TypeOK, TableTypeOK, tableVars
<1>2. CASE /\ p # NoPid
           /\ \E i \in freeslot(jobs) :
                jobs' = [jobs EXCEPT ![i] = [pid |-> p, jid |-> nextjid, state |-> s]]
           /\ nextjid' = afterjid(nextjid)
  <2>1. PICK i \in freeslot(jobs) :
               jobs' = [jobs EXCEPT ![i] = [pid |-> p, jid |-> nextjid, state |-> s]]
    BY <1>2
  <2>2. i \in Slots /\ jobs[i].pid = NoPid
    BY FreeslotIsFree
  <2>3. [pid |-> p, jid |-> nextjid, state |-> s] \in job_t
    BY <1>2 DEF TypeOK, TableTypeOK, job_t, JobState, FG, BG
  <2>4. nextjid' \in Nat \ {0}
    BY <1>2 DEF TypeOK, TableTypeOK, afterjid
  <2> QED BY <1>2, <2>1, <2>2, <2>3, <2>4 DEF TypeOK, TableTypeOK
<1> QED BY <1>1, <1>2 DEF addjob

\* eval adds the job, to the first free place.
LEMMA EvalAddIInv == IInv /\ EvalAdd => IInv'
<1> SUFFICES ASSUME IInv, EvalAdd PROVE IInv'
  OBVIOUS
<1>1. /\ pc = "add" /\ addjob(current, mode)
      /\ current' = NoPid /\ mode' = BG
      /\ UNCHANGED <<resume, target, pending, waitarg, procVars>>
  BY DEF EvalAdd
<1>2. \/ /\ mode = BG /\ pc' = "read" /\ blocked' = FALSE /\ waitjob' = waitjob
      \/ /\ mode = BG /\ pc' = "crashed" /\ UNCHANGED <<blocked, waitjob>>
      \/ /\ mode = FG /\ waitfg(current) /\ UNCHANGED blocked
  BY DEF EvalAdd
<1>3. Up /\ blocked = TRUE
  BY <1>1 DEF IInv, TypeOK, MaskFollowsFlow, FlowPlace, Up
<1>4. \A i \in Slots : jobs[i].state # FG
  BY <1>1, <1>3 DEF IInv, ForegroundIsWaitedFor, FlowPlace
<1>5. current \in Pid \cup {NoPid} /\ mode \in {FG, BG}
  BY DEF IInv, TypeOK
<1>6. /\ TableTypeOK'
      /\ \/ UNCHANGED tableVars
         \/ /\ current \in Pid
            /\ \E i \in Slots :
                 /\ jobs[i].pid = NoPid
                 /\ jobs' = [jobs EXCEPT ![i] = [pid |-> current, jid |-> nextjid,
                                                 state |-> mode]]
  BY <1>1, <1>5, AddjobEffect DEF IInv
<1>7. TypeOK'
  <2>1. pc' \in Place /\ blocked' \in BOOLEAN
    BY <1>2 DEF waitfg, Place, FlowPlace, IInv, TypeOK
  <2>2. waitjob' \subseteq Slots
    BY <1>2, GetjobpidIsSlot DEF waitfg, IInv, TypeOK
  <2> QED BY <1>1, <1>6, <2>1, <2>2 DEF IInv, TypeOK, procVars
<1>8. HandlerReturns' /\ TargetIsForeground' /\ MaskFollowsFlow' /\ CurrentIsUnlisted'
  BY <1>1, <1>2, <1>3 DEF waitfg, HandlerReturns, TargetIsForeground, InForeground,
         MaskFollowsFlow, FlowPlace, Forwarding, SIGINT, SIGTSTP, CurrentIsUnlisted, Up
<1>9. UntoldAreStopped'
  BY <1>1 DEF IInv, UntoldAreStopped, procVars
<1>10. CASE UNCHANGED tableVars
  <2> USE <1>10 DEF tableVars
  <2>1. SlotsWellFormed' /\ JobsAreChildren' /\ StoppedIsStopped'
    BY <1>1 DEF IInv, SlotsWellFormed, JobsAreChildren, StoppedIsStopped, procVars
  <2>2. ForegroundIsWaitedFor'
    BY <1>4 DEF ForegroundIsWaitedFor
  <2> QED BY <1>7, <1>8, <1>9, <2>1, <2>2 DEF IInv
<1>11. ASSUME NEW i \in Slots, current \in Pid, jobs[i].pid = NoPid,
              jobs' = [jobs EXCEPT ![i] = [pid |-> current, jid |-> nextjid, state |-> mode]]
       PROVE  IInv'
  <2>0. current # NoPid
    BY <1>11, NoPidAssumption
  <2>1. /\ jobs'[i].pid = current /\ jobs'[i].state = mode
        /\ \A k \in Slots : k # i => jobs'[k] = jobs[k]
    BY <1>11 DEF IInv, TypeOK, TableTypeOK
  <2>2. SlotsWellFormed'
    BY <1>5, <2>0, <2>1 DEF IInv, SlotsWellFormed, FG, BG, UNDEF
  <2>3. proc[current] # "free" /\ \A k \in Slots : jobs[k].pid # current
    BY <1>1, <1>3, <2>0 DEF IInv, CurrentIsUnlisted
  <2>4. JobsAreChildren'
    BY <1>1, <2>1, <2>3 DEF IInv, JobsAreChildren, procVars
  <2>5. StoppedIsStopped'
    BY <1>1, <1>5, <2>1 DEF IInv, StoppedIsStopped, procVars, FG, BG, ST
  <2>6. ForegroundIsWaitedFor'
    <3>1. CASE mode = BG
      BY <1>4, <2>1, <3>1 DEF ForegroundIsWaitedFor, FG, BG
    <3>2. CASE mode = FG
      <4>1. pc' = "suspend" /\ waitjob' = getjobpid(jobs', current)
        BY <1>2, <3>2 DEF waitfg, FG, BG
      <4>2. \A k \in Slots : jobs'[k].pid = current => k = i
        BY <2>1, <2>3
      <4>3. getjobpid(jobs', current) = {i}
        BY <2>0, <2>1, <4>2, GetjobpidFinds
      <4>4. \A k \in Slots : jobs'[k].state = FG => k = i
        BY <1>4, <2>1
      <4> QED BY <4>1, <4>3, <4>4 DEF ForegroundIsWaitedFor
    <3> QED BY <1>5, <3>1, <3>2
  <2> QED BY <1>7, <1>8, <1>9, <2>2, <2>4, <2>5, <2>6 DEF IInv
<1> QED BY <1>6, <1>10, <1>11

\* bg and fg: the job in slot i is given state s and its process continued.
LEMMA BgFgKeeps ==
  ASSUME IInv, pc = "read", NEW i \in Named, NEW s \in {FG, BG},
         jobs' = [jobs EXCEPT ![i].state = s], nextjid' = nextjid,
         SendCont(jobs[i].pid)
  PROVE  /\ i \in Slots /\ jobs[i].pid \in Pid
         /\ jobs' = [jobs EXCEPT ![i] = [pid |-> jobs[i].pid, jid |-> jobs[i].jid,
                                         state |-> s]]
         /\ TableTypeOK' /\ SlotsWellFormed' /\ JobsAreChildren'
         /\ StoppedIsStopped'
         /\ ProcsKept(Pid \ {jobs[i].pid}) /\ pending' \subseteq Signals
         /\ \A k \in Slots : jobs[k].state # FG
<1>1. i \in Slots /\ jobs[i].pid # NoPid
  BY NamedIsUsed DEF IInv
<1>2. jobs[i] \in job_t /\ jobs[i].pid \in Pid
  BY <1>1, UsedSlots DEF IInv
<1>3. /\ jobs' = [jobs EXCEPT ![i] = [pid |-> jobs[i].pid, jid |-> jobs[i].jid, state |-> s]]
      /\ jobs'[i] = [pid |-> jobs[i].pid, jid |-> jobs[i].jid, state |-> s]
      /\ \A k \in Slots : k # i => jobs'[k] = jobs[k]
  <2>1. [jobs[i] EXCEPT !.state = s] = [pid |-> jobs[i].pid, jid |-> jobs[i].jid, state |-> s]
    BY <1>2 DEF job_t
  <2>2. jobs' = [jobs EXCEPT ![i] = [jobs[i] EXCEPT !.state = s]]
    OBVIOUS
  <2>3. jobs' = [jobs EXCEPT ![i] = [pid |-> jobs[i].pid, jid |-> jobs[i].jid, state |-> s]]
    BY <2>1, <2>2
  <2> QED BY <1>1, <2>3 DEF IInv, TypeOK, TableTypeOK
<1>4. ProcsKept(Pid \ {jobs[i].pid}) /\ pending' \subseteq Signals
  BY <1>2, SendContKeeps DEF IInv
<1>5. TableTypeOK'
  <2>1. [pid |-> jobs[i].pid, jid |-> jobs[i].jid, state |-> s] \in job_t
    BY <1>2 DEF job_t, JobState, FG, BG
  <2> QED BY <1>1, <1>3, <2>1 DEF IInv, TypeOK, TableTypeOK
<1>6. SlotsWellFormed'
  BY <1>1, <1>3 DEF IInv, SlotsWellFormed, FG, BG, UNDEF
<1>7. \A k \in Slots : jobs'[k].pid = jobs[k].pid
  BY <1>3
<1>8. \A k \in Slots : jobs[k].pid # NoPid => jobs[k].pid \in Pid
  BY UsedSlots DEF IInv
<1>9. JobsAreChildren'
  BY <1>4, <1>7, <1>8 DEF IInv, JobsAreChildren, ProcsKept
<1>10. StoppedIsStopped'
  <2> SUFFICES ASSUME NEW k \in Slots, jobs'[k].state = ST
               PROVE  proc'[jobs'[k].pid] = "stopped"
    BY DEF StoppedIsStopped
  <2>1. k # i
    BY <1>3 DEF FG, BG, ST
  <2>2. jobs[k].state = ST /\ jobs[k].pid \in Pid
    BY <1>3, <2>1, UsedSlots DEF IInv, ST, UNDEF
  <2>3. jobs[k].pid # jobs[i].pid
    BY <1>1, <2>1 DEF IInv, JobsAreChildren
  <2> QED BY <1>4, <1>7, <2>2, <2>3 DEF IInv, StoppedIsStopped, ProcsKept
<1>11. \A k \in Slots : jobs[k].state # FG
  BY DEF IInv, ForegroundIsWaitedFor, FlowPlace, Up
<1> QED BY <1>1, <1>2, <1>3, <1>4, <1>5, <1>6, <1>9, <1>10, <1>11

\* The builtin bg.
LEMMA BgIInv == IInv /\ do_bg => IInv'
<1> SUFFICES ASSUME IInv, do_bg PROVE IInv'
  OBVIOUS
<1> USE DEF flowVars, evalVars
<1>1. PICK i \in Named : jobs' = [jobs EXCEPT ![i].state = BG] /\ SendCont(jobs[i].pid)
  BY DEF do_bg
<1>2. pc = "read" /\ UNCHANGED <<nextjid, flowVars, evalVars, waitjob, waitarg>>
  BY DEF do_bg
<1>3. /\ i \in Slots /\ jobs[i].pid \in Pid
      /\ jobs' = [jobs EXCEPT ![i] = [pid |-> jobs[i].pid, jid |-> jobs[i].jid,
                                      state |-> BG]]
      /\ TableTypeOK' /\ SlotsWellFormed' /\ JobsAreChildren' /\ StoppedIsStopped'
      /\ ProcsKept(Pid \ {jobs[i].pid}) /\ pending' \subseteq Signals
      /\ \A k \in Slots : jobs[k].state # FG
  BY <1>1, <1>2, BgFgKeeps
<1>4. ForegroundIsWaitedFor'
  <2>1. \A k \in Slots : jobs'[k].state # FG
    BY <1>3 DEF FG, BG, IInv, TypeOK, TableTypeOK
  <2> QED BY <2>1 DEF ForegroundIsWaitedFor
<1>5. TypeOK' /\ UntoldAreStopped'
  BY <1>2, <1>3 DEF IInv, TypeOK, ProcsKept
<1>6. HandlerReturns' /\ TargetIsForeground' /\ MaskFollowsFlow' /\ CurrentIsUnlisted'
  BY <1>2 DEF IInv, HandlerReturns, TargetIsForeground, InForeground,
         MaskFollowsFlow, FlowPlace, Forwarding, SIGINT, SIGTSTP, CurrentIsUnlisted, Up
<1> QED BY <1>3, <1>4, <1>5, <1>6 DEF IInv

\* The builtin fg.
LEMMA FgIInv == IInv /\ do_fg => IInv'
<1> SUFFICES ASSUME IInv, do_fg PROVE IInv'
  OBVIOUS
<1> USE DEF evalVars, BlockAll
<1>1. PICK i \in Named : /\ jobs' = [jobs EXCEPT ![i].state = FG]
                         /\ SendCont(jobs[i].pid)
                         /\ waitfg(jobs[i].pid)
  BY DEF do_fg
<1>2. /\ pc = "read" /\ blocked' = TRUE
      /\ UNCHANGED <<nextjid, resume, target, evalVars, waitarg>>
  BY DEF do_fg
<1>3. /\ i \in Slots /\ jobs[i].pid \in Pid
      /\ jobs' = [jobs EXCEPT ![i] = [pid |-> jobs[i].pid, jid |-> jobs[i].jid,
                                      state |-> FG]]
      /\ TableTypeOK' /\ SlotsWellFormed' /\ JobsAreChildren' /\ StoppedIsStopped'
      /\ ProcsKept(Pid \ {jobs[i].pid}) /\ pending' \subseteq Signals
      /\ \A k \in Slots : jobs[k].state # FG
  BY <1>1, <1>2, BgFgKeeps
<1>4. jobs[i].pid # NoPid
  BY <1>3, NoPidAssumption
<1>5. /\ jobs'[i].pid = jobs[i].pid
      /\ \A k \in Slots : k # i => jobs'[k] = jobs[k]
  BY <1>3 DEF IInv, TypeOK, TableTypeOK
<1>6. waitjob' = {i} /\ pc' = "suspend"
  <2>1. \A k \in Slots : jobs'[k].pid = jobs[i].pid => k = i
    BY <1>3, <1>4, <1>5 DEF IInv, JobsAreChildren
  <2>2. i \in Slots /\ jobs'[i].pid = jobs[i].pid
    BY <1>3, <1>5
  <2>3. getjobpid(jobs', jobs[i].pid) = {i}
    BY <1>4, <2>1, <2>2, GetjobpidFinds
  <2> QED BY <1>1, <2>3 DEF waitfg
<1>7. ForegroundIsWaitedFor'
  BY <1>3, <1>5, <1>6 DEF ForegroundIsWaitedFor
<1>8. TypeOK' /\ UntoldAreStopped'
  BY <1>2, <1>3, <1>6 DEF IInv, TypeOK, ProcsKept, Place, FlowPlace
<1>9. HandlerReturns' /\ TargetIsForeground' /\ MaskFollowsFlow' /\ CurrentIsUnlisted'
  BY <1>2, <1>6 DEF HandlerReturns, TargetIsForeground, InForeground,
         MaskFollowsFlow, FlowPlace, Forwarding, SIGINT, SIGTSTP, CurrentIsUnlisted
<1> QED BY <1>3, <1>7, <1>8, <1>9 DEF IInv

\* deletejob clears the slot of p.
LEMMA DeletejobEffect ==
  ASSUME TypeOK, NEW p \in Pid, deletejob(p)
  PROVE  \E i \in getjobpid(jobs, p) : /\ i \in Slots /\ jobs[i].pid = p
                                       /\ jobs' = [jobs EXCEPT ![i] = clearedjob]
                                       /\ TableTypeOK'
<1>1. PICK i \in getjobpid(jobs, p) :
             /\ jobs' = [jobs EXCEPT ![i] = clearedjob]
             /\ \E k \in Slots : nextjid' = jobs'[k].jid + 1
  BY DEF deletejob
<1>2. i \in Slots /\ jobs[i].pid = p
  BY GetjobpidIsSlot
<1>3. clearedjob \in job_t
  BY DEF clearedjob, job_t, JobState
<1>4. jobs' \in [Slots -> job_t]
  BY <1>1, <1>2, <1>3 DEF TypeOK, TableTypeOK
<1>5. PICK k \in Slots : nextjid' = jobs'[k].jid + 1
  BY <1>1
<1>6. jobs'[k].jid \in Nat
  BY <1>4 DEF job_t
<1>7. TableTypeOK'
  BY <1>4, <1>5, <1>6 DEF TableTypeOK
<1> QED BY <1>1, <1>2, <1>7

\* A round of the handler of SIGCHLD: a child is reaped or seen stopped.
LEMMA ChldRoundIInv == IInv /\ ChldRound => IInv'
<1> SUFFICES ASSUME IInv, ChldRound PROVE IInv'
  OBVIOUS
<1> USE DEF evalVars
<1>1. /\ pc = "reap"
      /\ UNCHANGED <<resume, target, blocked, pending, evalVars, waitjob, intpend>>
  BY DEF ChldRound
<1>2. PICK p \in Waitable(waitarg) : ReapZombie(p) \/ NoteStop(p) \/ ReapUnlisted(p)
  BY DEF ChldRound
<1>3. p \in Pid
  BY <1>2 DEF Waitable
<1>4. Up
  BY <1>1 DEF Up
<1>5. pc' \in Place /\ (pc' = pc => HandlerReturns' /\ TargetIsForeground' /\ MaskFollowsFlow')
  <2>1. pc' = pc => HandlerReturns' /\ TargetIsForeground' /\ MaskFollowsFlow'
    BY <1>1, <1>4 DEF IInv, HandlerReturns, TargetIsForeground, InForeground,
         MaskFollowsFlow, FlowPlace, Forwarding, SIGINT, SIGTSTP, Up
  <2>2. pc' = pc \/ pc' = "crashed"
    BY <1>2 DEF ReapZombie, NoteStop, ReapUnlisted
  <2> QED BY <2>1, <2>2 DEF IInv, TypeOK, Place
<1>6. CASE ReapUnlisted(p)
  <2>1. /\ UNCHANGED <<tableVars, current, procVars>>
        /\ pc' = "crashed" /\ waitarg' = waitarg
    BY <1>1, <1>6 DEF ReapUnlisted, procVars
  <2>2. /\ pending' \subseteq Signals /\ mode' \in {FG, BG}
        /\ waitjob' \subseteq Slots /\ blocked' \in BOOLEAN
        /\ waitarg' \in Pid \cup {AnyChild, ShellGroup}
        /\ pc' \in Place /\ resume' \in FlowPlace /\ target' \in Pid \cup {NoPid}
    BY <1>1, <1>5, <2>1 DEF IInv, TypeOK
  <2>3. ~Up' /\ pc' # "add"
    BY <2>1 DEF Up
  <2> QED BY <2>1, <2>2, <2>3, FlowIInv
<1>7. CASE NoteStop(p)
  <2>1. PICK i \in getjobpid(jobs, p) : jobs' = [jobs EXCEPT ![i].state = ST]
    BY <1>7 DEF NoteStop
  <2>2. i \in Slots /\ jobs[i].pid = p
    BY GetjobpidIsSlot
  <2>3. /\ p \in untold /\ untold' = untold \ {p} /\ waitarg' = p
        /\ UNCHANGED <<nextjid, pc, proc>>
    BY <1>7 DEF NoteStop
  <2>4. jobs[i] \in job_t
    BY <2>2, UsedSlots DEF IInv
  <2>5. /\ jobs'[i].pid = p /\ jobs'[i].state = ST /\ jobs'[i].jid = jobs[i].jid
        /\ \A k \in Slots : k # i => jobs'[k] = jobs[k]
    BY <2>1, <2>2, <2>4 DEF IInv, TypeOK, TableTypeOK, job_t
  <2>6. TypeOK'
    <3>1. [jobs[i] EXCEPT !.state = ST] \in job_t
      BY <2>4 DEF job_t, JobState
    <3>2. jobs' \in [Slots -> job_t]
      BY <2>1, <2>2, <3>1 DEF IInv, TypeOK, TableTypeOK
    <3> QED BY <1>1, <1>3, <2>3, <3>2 DEF IInv, TypeOK, TableTypeOK
  <2>7. SlotsWellFormed'
    BY <1>3, <2>5, NoPidAssumption DEF IInv, SlotsWellFormed, ST, UNDEF
  <2>8. \A k \in Slots : jobs'[k].pid = jobs[k].pid
    BY <2>2, <2>5
  <2>9. JobsAreChildren'
    BY <2>3, <2>8 DEF IInv, JobsAreChildren
  <2>10. proc[p] = "stopped"
    BY <2>3 DEF IInv, UntoldAreStopped
  <2>11. StoppedIsStopped' /\ UntoldAreStopped'
    BY <2>3, <2>5, <2>10 DEF IInv, StoppedIsStopped, UntoldAreStopped
  <2>12. ForegroundIsWaitedFor'
    BY <1>1, <1>4, <2>3, <2>5 DEF IInv, ForegroundIsWaitedFor, ST, FG
  <2>13. CurrentIsUnlisted'
    BY <1>1, <2>3 DEF CurrentIsUnlisted
  <2> QED BY <1>5, <2>3, <2>6, <2>7, <2>9, <2>11, <2>12, <2>13 DEF IInv
<1>8. CASE ReapZombie(p)
  <2>1. /\ proc[p] = "zombie" /\ proc' = [proc EXCEPT ![p] = "free"]
        /\ deletejob(p) /\ UNCHANGED <<pc, untold>>
    BY <1>8 DEF ReapZombie, Become
  <2>2. PICK i \in getjobpid(jobs, p) :
               /\ i \in Slots /\ jobs[i].pid = p
               /\ jobs' = [jobs EXCEPT ![i] = clearedjob]
               /\ TableTypeOK'
    BY <1>3, <2>1, DeletejobEffect DEF IInv
  <2>3. waitarg' \in Pid \cup {AnyChild, ShellGroup}
    <3>1. PICK j \in getjobpid(jobs, p) : waitarg' = jobs'[j].pid
      BY <1>8 DEF ReapZombie
    <3>2. j \in Slots
      BY GetjobpidIsSlot
    <3> QED BY <2>2, <3>1, <3>2 DEF TableTypeOK, job_t, ShellGroup
  <2>4. /\ jobs'[i] = clearedjob
        /\ \A k \in Slots : k # i => jobs'[k] = jobs[k]
    BY <2>2 DEF IInv, TypeOK, TableTypeOK
  <2>5. TypeOK'
    BY <1>1, <1>3, <2>1, <2>2, <2>3 DEF IInv, TypeOK, ProcState
  <2>6. SlotsWellFormed'
    BY <2>4 DEF IInv, SlotsWellFormed, clearedjob
  <2>7. \A k \in Slots : k # i => jobs[k].pid # p
    BY <1>3, <2>2, NoPidAssumption DEF IInv, JobsAreChildren
  <2>8. \A k \in Slots : jobs[k].pid # NoPid => jobs[k].pid \in Pid
    BY UsedSlots DEF IInv
  <2>9. \A q \in Pid : q # p => proc'[q] = proc[q]
    BY <2>1 DEF IInv, TypeOK
  <2>10. JobsAreChildren'
    <3> SUFFICES ASSUME NEW k \in Slots, jobs'[k].pid # NoPid
                 PROVE  /\ proc'[jobs'[k].pid] # "free"
                        /\ \A l \in Slots : jobs'[l].pid = jobs'[k].pid => l = k
      BY DEF JobsAreChildren
    <3>1. k # i /\ jobs'[k] = jobs[k]
      BY <2>4 DEF clearedjob
    <3>2. proc[jobs[k].pid] # "free" /\ \A l \in Slots : jobs[l].pid = jobs[k].pid => l = k
      BY <3>1 DEF IInv, JobsAreChildren
    <3>3. proc'[jobs[k].pid] = proc[jobs[k].pid]
      BY <2>7, <2>8, <2>9, <3>1
    <3>4. \A l \in Slots : jobs'[l].pid = jobs'[k].pid => jobs[l].pid = jobs[k].pid
      BY <2>4, <3>1 DEF clearedjob
    <3> QED BY <3>1, <3>2, <3>3, <3>4
  <2>11. StoppedIsStopped'
    <3> SUFFICES ASSUME NEW k \in Slots, jobs'[k].state = ST
                 PROVE  proc'[jobs'[k].pid] = "stopped"
      BY DEF StoppedIsStopped
    <3>1. k # i /\ jobs'[k] = jobs[k]
      BY <2>4 DEF clearedjob, ST, UNDEF
    <3>2. jobs[k].pid \in Pid
      BY <3>1, UsedSlots DEF IInv, ST, UNDEF
    <3> QED BY <2>7, <2>9, <3>1, <3>2 DEF IInv, StoppedIsStopped
  <2>12. UntoldAreStopped'
    BY <2>1, <2>9 DEF IInv, TypeOK, UntoldAreStopped
  <2>13. ForegroundIsWaitedFor'
    BY <1>1, <1>4, <2>1, <2>4 DEF IInv, ForegroundIsWaitedFor, clearedjob, UNDEF, FG
  <2>14. CurrentIsUnlisted'
    BY <1>1, <2>1 DEF CurrentIsUnlisted
  <2> QED BY <1>5, <2>1, <2>5, <2>6, <2>10, <2>11, <2>12, <2>13, <2>14 DEF IInv
<1> QED BY <1>2, <1>6, <1>7, <1>8

-----------------------------------------------------------------------------
(***************************************************************************)
(* The theorems.                                                           *)
(***************************************************************************)
LEMMA NextIInv == IInv /\ [Next]_vars => IInv'
<1> SUFFICES ASSUME IInv, [Next]_vars PROVE IInv'
  OBVIOUS
<1>1. CASE Command
  BY <1>1, EvalForkIInv, BgIInv, FgIInv, QuitIInv DEF Command
<1>2. CASE Flow
  BY <1>2, EvalAddIInv, WaitfgCheckIInv DEF Flow
<1>3. CASE Handlers
  BY <1>3, ForwardIInv, KillIInv, SigchldIInv, ChldRoundIInv, ChldReturnIInv
  DEF Handlers, sigint_handler, sigtstp_handler, Forwarding
<1>4. CASE \E p \in Pid : Child(p)
  BY <1>4, ChildIInv
<1>5. CASE Keyboard
  BY <1>5, KeyboardIInv
<1>6. CASE UNCHANGED vars
  <2> USE <1>6 DEF vars, flowVars, evalVars, procVars
  <2>1. /\ pending' \subseteq Signals /\ mode' \in {FG, BG}
        /\ waitjob' \subseteq Slots /\ blocked' \in BOOLEAN
        /\ waitarg' \in Pid \cup {AnyChild, ShellGroup}
        /\ pc' \in Place /\ resume' \in FlowPlace /\ target' \in Pid \cup {NoPid}
    BY DEF IInv, TypeOK
  <2>2. Up' => ForegroundIsWaitedFor' /\ HandlerReturns' /\ TargetIsForeground' /\ MaskFollowsFlow'
    BY DEF IInv, ForegroundIsWaitedFor, HandlerReturns, TargetIsForeground, InForeground,
         MaskFollowsFlow, FlowPlace, Forwarding, SIGINT, SIGTSTP, Up, tableVars
  <2> QED BY <2>1, <2>2, FlowIInv
<1> QED BY <1>1, <1>2, <1>3, <1>4, <1>5, <1>6 DEF Next

\* The inductive invariant holds in every reachable state of the shell.
THEOREM Invariant == Spec => []IInv
<1>1. Init => IInv
  BY InitIInv
<1>2. IInv /\ [Next]_vars => IInv'
  BY NextIInv
<1> QED BY <1>1, <1>2, PTL DEF Spec

\* The variables of the shell keep their types (tsh.c:40-51, with the places of
\* its flow).
THEOREM TypeCorrect == Spec => []TypeOK
<1>1. IInv => TypeOK
  BY DEF IInv
<1> QED BY <1>1, Invariant, PTL

\* Jobs and unreaped children correspond: no handler reaps a child that eval has
\* not added yet, and none leaves a reaped child's job in the list.
THEOREM ListFollowsChildren == Spec => []JobsAreChildren
<1>1. IInv => JobsAreChildren
  BY DEF IInv
<1> QED BY <1>1, Invariant, PTL

\* A job shown as stopped is stopped.
THEOREM StoppedJobsAreStopped == Spec => []StoppedIsStopped
<1>1. IInv => StoppedIsStopped
  BY DEF IInv
<1> QED BY <1>1, Invariant, PTL

\* What a handler signals is the foreground job, whatever happens between the look
\* at the list and the kill (tsh.c:462-494).
THEOREM SignalsReachTheForeground == Spec => []TargetIsForeground
<1>1. IInv /\ Up => TargetIsForeground
  BY DEF IInv
<1>2. ~Up => TargetIsForeground
  BY DEF Up, TargetIsForeground, Forwarding, SIGINT, SIGTSTP
<1>3. IInv => TargetIsForeground
  BY <1>1, <1>2
<1> QED BY <1>3, Invariant, PTL

\* The prompt never comes back while a job is in the foreground, and at most one
\* job is (tsh.c:37).
THEOREM OneForegroundJob == Spec => []ForegroundIsWaitedFor
<1>1. IInv => ForegroundIsWaitedFor
  BY DEF IInv, ForegroundIsWaitedFor, FlowPlace
<1> QED BY <1>1, Invariant, PTL

-----------------------------------------------------------------------------
(***************************************************************************)
(* The shell implements the abstract job control of AbstractJobs, for      *)
(* every value of the constants.                                           *)
(***************************************************************************)

Children == {p \in Pid : proc[p] # "free"}

JobViews == [p \in Pid |-> View(jobs, p)]

-----------------------------------------------------------------------------
(***************************************************************************)
(* How the abstract variables change with the shell's.                     *)
(***************************************************************************)

\* A process with one slot is seen in the state of that slot.
LEMMA ViewOfListed ==
  ASSUME NEW js, NEW p, NEW i \in Slots, js[i].pid = p,
         \A k \in Slots : js[k].pid = p => k = i
  PROVE  View(js, p) = js[i].state
<1>1. Listed(js, p) = {i}
  BY DEF Listed
<1>2. (CHOOSE k \in {i} : TRUE) = i
  OBVIOUS
<1> QED BY <1>1, <1>2 DEF View

\* A process that is in no slot is not shown.
LEMMA ViewOfUnlisted ==
  ASSUME NEW js, NEW p, \A k \in Slots : js[k].pid # p
  PROVE  View(js, p) = "none"
BY DEF View, Listed

\* A slot that did not change shows its process as before.
LEMMA ViewKept ==
  ASSUME JobsAreChildren, JobsAreChildren', NEW p \in Pid,
         \A k \in Slots : jobs[k].pid = p \/ jobs'[k].pid = p => jobs'[k] = jobs[k]
  PROVE  View(jobs', p) = View(jobs, p)
<1>1. CASE \A k \in Slots : jobs[k].pid # p
  <2>1. \A k \in Slots : jobs'[k].pid # p
    BY <1>1
  <2> QED BY <1>1, <2>1, ViewOfUnlisted
<1>2. ASSUME NEW i \in Slots, jobs[i].pid = p
      PROVE  View(jobs', p) = View(jobs, p)
  <2>1. p # NoPid
    BY NoPidAssumption
  <2>2. jobs'[i] = jobs[i] /\ jobs'[i].pid = p
    BY <1>2
  <2>3. \A k \in Slots : jobs[k].pid = p => k = i
    BY <1>2, <2>1 DEF JobsAreChildren
  <2>4. \A k \in Slots : jobs'[k].pid = p => k = i
    BY <2>1, <2>2 DEF JobsAreChildren
  <2>5. View(jobs, p) = jobs[i].state
    BY <1>2, <2>3, ViewOfListed
  <2>6. View(jobs', p) = jobs'[i].state
    BY <2>2, <2>4, ViewOfListed
  <2> QED BY <2>2, <2>5, <2>6
<1> QED BY <1>1, <1>2

\* When one slot changes and it holds p before or after, only the view of p does.
LEMMA OneViewChanges ==
  ASSUME JobsAreChildren, JobsAreChildren', NEW p \in Pid, NEW i \in Slots,
         jobs[i].pid \in {p, NoPid}, jobs'[i].pid \in {p, NoPid},
         \A k \in Slots : k # i => jobs'[k] = jobs[k],
         NEW v, View(jobs', p) = v
  PROVE  JobViews' = [JobViews EXCEPT ![p] = v]
<1>1. ASSUME NEW q \in Pid, q # p PROVE View(jobs', q) = View(jobs, q)
  <2>1. q # NoPid
    BY NoPidAssumption
  <2>2. \A k \in Slots : jobs[k].pid = q \/ jobs'[k].pid = q => jobs'[k] = jobs[k]
    BY <1>1, <2>1
  <2> QED BY <2>2, ViewKept
<1>2. JobViews' = [q \in Pid |-> View(jobs', q)]
  BY DEF JobViews
<1>3. [JobViews EXCEPT ![p] = v] = [q \in Pid |-> IF q = p THEN v ELSE View(jobs, q)]
  BY DEF JobViews
<1> QED BY <1>1, <1>2, <1>3

\* What the list shows depends on the list alone.
LEMMA ViewsKept == jobs' = jobs => JobViews' = JobViews
BY DEF JobViews, View, Listed

\* The processes that there are depend on the processes alone.
LEMMA ChildrenKept == ASSUME NEW Q, ProcsKept(Q) PROVE Children' = Children
BY DEF Children, ProcsKept

\* No foreground slot, no foreground job.
LEMMA NoForegroundView ==
  ASSUME IInv, \A k \in Slots : jobs[k].state # FG
  PROVE  \A p \in Pid : JobViews[p] # "FG"
<1> SUFFICES ASSUME NEW p \in Pid PROVE View(jobs, p) # "FG"
  BY DEF JobViews
<1>1. CASE \A k \in Slots : jobs[k].pid # p
  BY <1>1, ViewOfUnlisted
<1>2. ASSUME NEW i \in Slots, jobs[i].pid = p PROVE View(jobs, p) # "FG"
  <2>1. \A k \in Slots : jobs[k].pid = p => k = i
    BY <1>2, NoPidAssumption DEF IInv, JobsAreChildren
  <2> QED BY <1>2, <2>1, ViewOfListed DEF FG
<1> QED BY <1>1, <1>2

-----------------------------------------------------------------------------
(***************************************************************************)
(* Every step of the shell is a step of AbstractJobs or a stuttering step. *)
(***************************************************************************)
AbsStep == Abstract!AbsNext \/ UNCHANGED Abstract!absVars

\* A step that changes neither is a stutter of the abstract job control.
LEMMA Stutters ==
  ASSUME Children' = Children, JobViews' = JobViews, Up' <=> Up
  PROVE  AbsStep
BY DEF AbsStep, Abstract!absVars, Children, JobViews, Up

\* The shell exits: the abstract one goes down.
LEMMA GoesDown ==
  ASSUME Children' = Children, JobViews' = JobViews, Up, ~Up'
  PROVE  AbsStep
BY DEF AbsStep, Abstract!AbsNext, Abstract!Down, Children, JobViews, Up

\* The fork begins an abstract process.
LEMMA EvalForkStep == IInv /\ EvalFork => AbsStep
<1> SUFFICES ASSUME IInv, EvalFork PROVE AbsStep
  OBVIOUS
<1>1. JobViews' = JobViews
  BY ViewsKept DEF EvalFork, tableVars
<1>2. Up /\ Up'
  BY DEF EvalFork, Up
<1>3. CASE UNCHANGED proc
  <2>1. Children' = Children
    BY <1>3 DEF Children
  <2> QED BY <1>1, <1>2, <2>1, Stutters
<1>4. ASSUME NEW p \in Pid, proc[p] = "free", Become(p, "forked")
      PROVE  AbsStep
  <2>1. p \notin Children
    BY <1>4 DEF Children
  <2>2. Children' = Children \cup {p}
    BY <1>4 DEF Children, Become, IInv, TypeOK
  <2>3. Abstract!Fork(p)
    BY <1>1, <1>2, <2>1, <2>2 DEF Abstract!Fork, Children, JobViews
  <2> QED BY <1>2, <2>3 DEF AbsStep, Abstract!AbsNext
<1> QED BY <1>3, <1>4 DEF EvalFork

\* addjob shows it.
LEMMA EvalAddStep == IInv /\ IInv' /\ EvalAdd => AbsStep
<1> SUFFICES ASSUME IInv, IInv', EvalAdd PROVE AbsStep
  OBVIOUS
<1>1. /\ pc = "add" /\ addjob(current, mode) /\ UNCHANGED procVars
      /\ \/ pc' = "read"
         \/ mode = BG /\ getjobpid(jobs', current) = {} /\ pc' = "crashed"
         \/ mode = FG /\ pc' = "suspend"
  BY DEF EvalAdd, waitfg
<1>2. current \in Pid \cup {NoPid} /\ mode \in {FG, BG}
  BY DEF IInv, TypeOK
<1>3. \/ UNCHANGED tableVars
      \/ /\ current \in Pid
         /\ \E i \in Slots :
              /\ jobs[i].pid = NoPid
              /\ jobs' = [jobs EXCEPT ![i] = [pid |-> current, jid |-> nextjid,
                                              state |-> mode]]
  BY <1>1, <1>2, AddjobEffect DEF IInv
<1>4. Up /\ Children' = Children
  BY <1>1 DEF Up, Children, procVars
<1>5. CASE UNCHANGED tableVars
  BY <1>4, <1>5, ViewsKept, Stutters, GoesDown DEF tableVars
<1>6. ASSUME NEW i \in Slots, current \in Pid, jobs[i].pid = NoPid,
             jobs' = [jobs EXCEPT ![i] = [pid |-> current, jid |-> nextjid, state |-> mode]]
      PROVE  AbsStep
  <2>1. current # NoPid
    BY <1>6, NoPidAssumption
  <2>2. /\ jobs'[i].pid = current /\ jobs'[i].state = mode
        /\ \A k \in Slots : k # i => jobs'[k] = jobs[k]
    BY <1>6 DEF IInv, TypeOK, TableTypeOK
  <2>3. \A k \in Slots : jobs'[k].pid = current => k = i
    BY <2>1, <2>2 DEF IInv, JobsAreChildren
  <2>4. current \in Children /\ \A k \in Slots : jobs[k].pid # current
    BY <1>1, <1>4, <1>6, <2>1 DEF IInv, CurrentIsUnlisted, Children
  <2>5. Up'
    <3>1. getjobpid(jobs', current) = {i}
      BY <2>1, <2>2, <2>3, GetjobpidFinds
    <3> QED BY <1>1, <3>1 DEF Up
  <2>6. View(jobs', current) = mode
    BY <2>2, <2>3, ViewOfListed
  <2>7. JobViews' = [JobViews EXCEPT ![current] = mode]
    BY <1>6, <2>2, <2>6, OneViewChanges DEF IInv
  <2>8. JobViews[current] = "none"
    BY <1>6, <2>4, ViewOfUnlisted DEF JobViews
  <2>9. \A k \in Slots : jobs[k].state # FG
    BY <1>1, <1>4 DEF IInv, ForegroundIsWaitedFor, FlowPlace
  <2>10. \A p \in Pid : JobViews[p] # "FG"
    BY <2>9, NoForegroundView
  <2>11. Abstract!Register(current, mode)
    BY <1>2, <1>4, <2>4, <2>5, <2>7, <2>8, <2>10
       DEF Abstract!Register, Abstract!NoneInForeground, Children, JobViews, FG, BG
  <2> QED BY <1>2, <1>4, <1>6, <2>11 DEF AbsStep, Abstract!AbsNext, FG, BG
<1> QED BY <1>3, <1>5, <1>6

\* bg and fg change the view of one job.
LEMMA BgFgStep ==
  ASSUME IInv, IInv', pc = "read", NEW i \in Named, NEW s \in {FG, BG},
         jobs' = [jobs EXCEPT ![i].state = s], nextjid' = nextjid,
         SendCont(jobs[i].pid), Up'
  PROVE  AbsStep
<1> DEFINE p == jobs[i].pid
<1>1. /\ i \in Slots /\ p \in Pid
      /\ jobs' = [jobs EXCEPT ![i] = [pid |-> p, jid |-> jobs[i].jid, state |-> s]]
      /\ ProcsKept(Pid \ {p})
      /\ \A k \in Slots : jobs[k].state # FG
  BY BgFgKeeps
<1>2. Up /\ Children' = Children
  BY <1>1, ChildrenKept DEF Up
<1>3. /\ jobs'[i].pid = p /\ jobs'[i].state = s
      /\ \A k \in Slots : k # i => jobs'[k] = jobs[k]
  BY <1>1 DEF IInv, TypeOK, TableTypeOK
<1>4. /\ \A k \in Slots : jobs'[k].pid = p => k = i
      /\ \A k \in Slots : jobs[k].pid = p => k = i
  <2>1. p # NoPid
    BY <1>1, NoPidAssumption
  <2>2. \A k \in Slots : jobs[k].pid = p => k = i
    BY <1>1, <2>1 DEF IInv, JobsAreChildren
  <2>3. \A k \in Slots : jobs'[k].pid = jobs[k].pid
    BY <1>1, <1>3
  <2> QED BY <2>2, <2>3
<1> HIDE DEF p
<1>5. View(jobs', p) = s
  <2>1. i \in Slots /\ jobs'[i].pid = p /\ jobs'[i].state = s
    BY <1>1, <1>3
  <2>2. \A k \in Slots : jobs'[k].pid = p => k = i
    BY <1>4
  <2> QED BY <2>1, <2>2, ViewOfListed
<1>6. JobViews' = [JobViews EXCEPT ![p] = s]
  BY <1>1, <1>3, <1>5, OneViewChanges DEF p, IInv
<1>7. \A q \in Pid : JobViews[q] # "FG"
  BY <1>1, NoForegroundView
<1>8. JobViews[p] \in {"ST", "BG"}
  <2>1. View(jobs, p) = jobs[i].state
    BY <1>1, <1>4, ViewOfListed DEF p
  <2>2. jobs[i].state \in {FG, BG, ST}
    BY <1>1, UsedSlots, NoPidAssumption DEF IInv, job_t, JobState, p
  <2> QED BY <1>1, <2>1, <2>2 DEF JobViews, FG, BG, ST
<1>9. Abstract!Resume(p, s)
  BY <1>2, <1>6, <1>7, <1>8
     DEF Abstract!Resume, Abstract!NoneInForeground, Children, JobViews, FG, BG
<1> QED BY <1>1, <1>2, <1>9 DEF AbsStep, Abstract!AbsNext, FG, BG

\* A round of the handler of SIGCHLD reports the end or the stop of one process.
LEMMA ChldRoundStep == IInv /\ IInv' /\ ChldRound => AbsStep
<1> SUFFICES ASSUME IInv, IInv', ChldRound PROVE AbsStep
  OBVIOUS
<1>1. pc = "reap" /\ Up
  BY DEF ChldRound, Up
<1>2. PICK p \in Waitable(waitarg) : ReapZombie(p) \/ NoteStop(p) \/ ReapUnlisted(p)
  BY DEF ChldRound
<1>3. p \in Pid /\ p # NoPid
  BY <1>2, NoPidAssumption DEF Waitable
<1>4. CASE ReapUnlisted(p)
  <2>1. ~Up' /\ Children' = Children
    BY <1>4 DEF ReapUnlisted, Up, Children
  <2> QED BY <1>1, <1>4, <2>1, ViewsKept, GoesDown DEF ReapUnlisted, tableVars
<1>5. CASE NoteStop(p)
  <2>1. PICK i \in getjobpid(jobs, p) : jobs' = [jobs EXCEPT ![i].state = ST]
    BY <1>5 DEF NoteStop
  <2>2. i \in Slots /\ jobs[i].pid = p
    BY GetjobpidIsSlot
  <2>3. Up' /\ Children' = Children
    BY <1>1, <1>5 DEF NoteStop, Up, Children
  <2>4. jobs[i] \in job_t /\ jobs[i].state # UNDEF
    BY <1>3, <2>2, UsedSlots DEF IInv
  <2>5. /\ jobs'[i].pid = p /\ jobs'[i].state = ST
        /\ \A k \in Slots : k # i => jobs'[k] = jobs[k]
    BY <2>1, <2>2, <2>4 DEF IInv, TypeOK, TableTypeOK, job_t
  <2>6. /\ \A k \in Slots : jobs'[k].pid = p => k = i
        /\ \A k \in Slots : jobs[k].pid = p => k = i
    BY <1>3, <2>2, <2>5 DEF IInv, JobsAreChildren
  <2>7. View(jobs', p) = "ST" /\ View(jobs, p) = jobs[i].state
    BY <2>2, <2>5, <2>6, ViewOfListed DEF ST
  <2>8. JobViews' = [JobViews EXCEPT ![p] = "ST"]
    BY <1>3, <2>2, <2>5, <2>7, OneViewChanges DEF IInv
  <2>9. JobViews[p] \in {"FG", "BG", "ST"}
    BY <1>3, <2>4, <2>7 DEF JobViews, job_t, JobState, UNDEF, FG, BG, ST
  <2>10. CASE JobViews[p] = "ST"
    <3>1. JobViews' = JobViews
      BY <2>8, <2>10 DEF JobViews
    <3> QED BY <1>1, <2>3, <3>1, Stutters
  <2>11. CASE JobViews[p] \in {"FG", "BG"}
    <3>1. Abstract!Suspend(p)
      BY <1>1, <2>3, <2>8, <2>11 DEF Abstract!Suspend, Children, JobViews
    <3> QED BY <1>1, <1>3, <3>1 DEF AbsStep, Abstract!AbsNext
  <2> QED BY <2>9, <2>10, <2>11
<1>6. CASE ReapZombie(p)
  <2>1. /\ proc[p] = "zombie" /\ proc' = [proc EXCEPT ![p] = "free"]
        /\ deletejob(p) /\ pc' = pc
    BY <1>6 DEF ReapZombie, Become
  <2>2. PICK i \in getjobpid(jobs, p) :
               /\ i \in Slots /\ jobs[i].pid = p
               /\ jobs' = [jobs EXCEPT ![i] = clearedjob]
    BY <1>3, <2>1, DeletejobEffect DEF IInv
  <2>3. jobs'[i].pid = NoPid /\ \A k \in Slots : k # i => jobs'[k] = jobs[k]
    BY <2>2 DEF IInv, TypeOK, TableTypeOK, clearedjob
  <2>4. /\ \A k \in Slots : jobs'[k].pid # p
        /\ \A k \in Slots : jobs[k].pid = p => k = i
    BY <1>3, <2>2, <2>3 DEF IInv, JobsAreChildren
  <2>5. View(jobs', p) = "none" /\ View(jobs, p) = jobs[i].state
    BY <2>2, <2>4, ViewOfListed, ViewOfUnlisted
  <2>6. JobViews' = [JobViews EXCEPT ![p] = "none"]
    BY <1>3, <2>2, <2>3, <2>5, OneViewChanges DEF IInv
  <2>7. JobViews[p] # "none"
    <3>1. jobs[i].state \in JobState
      BY <2>2, UsedSlots DEF IInv, job_t
    <3> QED BY <1>3, <2>5, <3>1 DEF JobViews, JobState, UNDEF, FG, BG, ST
  <2>8. p \in Children /\ Children' = Children \ {p}
    BY <1>3, <2>1 DEF Children, IInv, TypeOK
  <2>9. Abstract!Reap(p)
    BY <1>1, <2>1, <2>6, <2>7, <2>8 DEF Abstract!Reap, Children, JobViews, Up
  <2> QED BY <1>1, <1>3, <2>9 DEF AbsStep, Abstract!AbsNext
<1> QED BY <1>2, <1>4, <1>5, <1>6

\* Forwarding a signal is unseen.
LEMMA ForwardStep == IInv /\ (sigint_handler \/ sigtstp_handler \/ Kill) => AbsStep
<1> SUFFICES ASSUME IInv, sigint_handler \/ sigtstp_handler \/ Kill PROVE AbsStep
  OBVIOUS
<1>1. ASSUME NEW sig \in Forwarding, Forward(sig) PROVE AbsStep
  <2>1. Deliverable(sig) /\ UNCHANGED <<jobs, proc>> /\ pc' \in {sig, AfterHandler}
    BY <1>1 DEF Forward, tableVars, procVars
  <2>2. Up /\ Up'
    BY <2>1, AfterHandlerPlace DEF Up, Forwarding, SIGINT, SIGTSTP
  <2>3. Children' = Children
    BY <2>1 DEF Children
  <2> QED BY <2>1, <2>2, <2>3, ViewsKept, Stutters
<1>2. CASE Kill
  <2>1. pc \in Forwarding /\ ProcsKept(Pid)
    BY <1>2, KillSends
  <2>2. pc' \in FlowPlace /\ UNCHANGED jobs
    BY <1>2 DEF Kill, IInv, TypeOK, tableVars
  <2>3. Up /\ Up'
    BY <2>1, <2>2 DEF Up, FlowPlace, Forwarding, SIGINT, SIGTSTP
  <2> QED BY <2>1, <2>2, <2>3, ChildrenKept, ViewsKept, Stutters
<1> QED BY <1>1, <1>2 DEF sigint_handler, sigtstp_handler, Forwarding

\* Steps that touch neither processes nor list.
LEMMA QuietStep ==
  IInv /\ (WaitfgCheck \/ sigchld_handler \/ ChldReturn \/ Keyboard) => AbsStep
<1> SUFFICES ASSUME IInv, WaitfgCheck \/ sigchld_handler \/ ChldReturn \/ Keyboard
             PROVE AbsStep
  OBVIOUS
<1>1. UNCHANGED <<jobs, proc>>
  BY DEF WaitfgCheck, sigchld_handler, ChldReturn, Keyboard, shellVars, tableVars, procVars
<1>2. Up' <=> Up
  <2>1. CASE WaitfgCheck \/ sigchld_handler
    BY <2>1 DEF WaitfgCheck, sigchld_handler, Deliverable, Up, FlowPlace
  <2>2. CASE ChldReturn
    BY <2>2 DEF ChldReturn, Up, FlowPlace, IInv, TypeOK
  <2>3. CASE Keyboard
    BY <2>3 DEF Keyboard, shellVars, flowVars, Up
  <2> QED BY <2>1, <2>2, <2>3
<1>3. Children' = Children
  BY <1>1 DEF Children
<1> QED BY <1>1, <1>2, <1>3, ViewsKept, Stutters

\* A child that exits, stops or goes on.
LEMMA ChildStep == ASSUME NEW p \in Pid PROVE IInv /\ Child(p) => AbsStep
<1> SUFFICES ASSUME IInv, Child(p) PROVE AbsStep
  OBVIOUS
<1>1. Up' <=> Up
  BY DEF Child, shellVars, flowVars, Up
<1>2. jobs' = jobs
  BY DEF Child, shellVars, tableVars
<1>3. Children' = Children
  BY DEF Child, Setpgid, Execve, Exit, StopsItself, SendTstp, Die, Become, procVars,
         Children, IInv, TypeOK
<1> QED BY <1>1, <1>2, <1>3, ViewsKept, Stutters

\* Every step of the shell is an abstract step or a stutter.
LEMMA NextStep == IInv /\ IInv' /\ [Next]_vars => AbsStep
<1> SUFFICES ASSUME IInv, IInv', [Next]_vars PROVE AbsStep
  OBVIOUS
<1>1. CASE Command
  <2>1. CASE do_bg
    <3>1. PICK i \in Named : jobs' = [jobs EXCEPT ![i].state = BG] /\ SendCont(jobs[i].pid)
      BY <2>1 DEF do_bg
    <3>2. pc = "read" /\ nextjid' = nextjid /\ Up'
      BY <2>1 DEF do_bg, flowVars, Up
    <3> QED BY <3>1, <3>2, BgFgStep
  <2>2. CASE do_fg
    <3>1. PICK i \in Named : jobs' = [jobs EXCEPT ![i].state = FG] /\ SendCont(jobs[i].pid)
      BY <2>2 DEF do_fg
    <3>2. pc = "read" /\ nextjid' = nextjid /\ Up'
      BY <2>2 DEF do_fg, waitfg, Up
    <3> QED BY <3>1, <3>2, BgFgStep
  <2>3. CASE Quit
    <3>1. Up /\ ~Up' /\ Children' = Children /\ jobs' = jobs
      BY <2>3 DEF Quit, Up, Children, procVars, tableVars
    <3> QED BY <3>1, ViewsKept, GoesDown
  <2> QED BY <1>1, <2>1, <2>2, <2>3, EvalForkStep DEF Command
<1>2. CASE Flow
  BY <1>2, EvalAddStep, QuietStep DEF Flow
<1>3. CASE Handlers
  BY <1>3, ForwardStep, ChldRoundStep, QuietStep DEF Handlers
<1>4. CASE \E p \in Pid : Child(p)
  BY <1>4, ChildStep
<1>5. CASE Keyboard
  BY <1>5, QuietStep
<1>6. CASE UNCHANGED vars
  <2>1. Children' = Children /\ jobs' = jobs /\ (Up' <=> Up)
    BY <1>6 DEF vars, flowVars, procVars, tableVars, Children, Up
  <2> QED BY <2>1, ViewsKept, Stutters
<1> QED BY <1>1, <1>2, <1>3, <1>4, <1>5, <1>6 DEF Next

\* The shell starts where the abstract one does.
LEMMA InitStep == Init => Abstract!AbsInit
<1> SUFFICES ASSUME Init PROVE Abstract!AbsInit
  OBVIOUS
<1>1. Children = {} /\ Up = TRUE
  BY DEF Init, Children, Up
<1>2. JobViews = [p \in Pid |-> "none"]
  <2>1. \A i \in Slots : jobs[i].pid = NoPid
    BY DEF Init, TableInit, initjobs, clearedjob
  <2>2. ASSUME NEW p \in Pid PROVE View(jobs, p) = "none"
    BY <2>1, NoPidAssumption, ViewOfUnlisted
  <2> QED BY <2>2 DEF JobViews
<1> QED BY <1>1, <1>2 DEF Abstract!AbsInit, Children, JobViews

\* The shell implements AbstractJobs: its job list follows the life of its
\* children, and it changes only as job control promises.
THEOREM Refinement == Spec => ImplementsAbstractJobs
<1>1. Init => Abstract!AbsInit
  BY InitStep
<1>2. IInv /\ IInv' /\ [Next]_vars => [Abstract!AbsNext]_(Abstract!absVars)
  BY NextStep DEF AbsStep
<1> QED BY <1>1, <1>2, Invariant, PTL DEF Spec, ImplementsAbstractJobs, Abstract!AbsSpec

-----------------------------------------------------------------------------
(***************************************************************************)
(* The shell follows no NULL pointer when the job list has a slot for      *)
(* every child that can be alive and fork does not fail.                   *)
(***************************************************************************)

Room == /\ IsFiniteSet(Pid) /\ Cardinality(Pid) <= MAXJOBS
        /\ ~ForkMayFail

\* A child that has not been reaped is in the list, or eval is about to put it there.
ChildrenAreListed ==
  \A p \in Pid : proc[p] # "free" =>
    \/ \E i \in Slots : jobs[i].pid = p
    \/ pc = "add" /\ current = p

\* What eval puts there is a child.
AddsAChild == pc = "add" => current \in Pid

RoomInv == IInv /\ NeverCrashes /\ ChildrenAreListed /\ AddsAChild

-----------------------------------------------------------------------------
\* A child in the list is found there.
LEMMA ListedIsFound ==
  ASSUME NEW js, NEW p \in Pid, \E i \in Slots : js[i].pid = p
  PROVE  getjobpid(js, p) # {}
<1> DEFINE P == {i \in Slots : p # NoPid /\ js[i].pid = p}
<1>1. p # NoPid
  BY NoPidAssumption
<1>2. P # {} /\ P \subseteq Nat
  BY <1>1, MAXJOBSAssumption DEF Slots
<1>3. \E i \in P : \A k \in P : i <= k
  BY <1>2, LeastExists
<1> QED
  BY <1>3 DEF getjobpid, First

\* A child that has no slot leaves a slot unused: there are no more children than slots,
\* and no two slots have the same child.
LEMMA UnlistedHasRoom ==
  ASSUME Room, IInv, NEW p \in Pid, \A i \in Slots : jobs[i].pid # p
  PROVE  freeslot(jobs) # {}
<1> SUFFICES ASSUME \A i \in Slots : jobs[i].pid # NoPid PROVE FALSE
  <2> DEFINE P == {i \in Slots : jobs[i].pid = NoPid}
  <2>1. P \subseteq Nat
    BY MAXJOBSAssumption DEF Slots
  <2>2. P # {} => \E i \in P : \A k \in P : i <= k
    BY <2>1, LeastExists
  <2> QED
    BY <2>2 DEF freeslot, First
<1> DEFINE f == [i \in Slots |-> jobs[i].pid]
           others == Pid \ {p}
<1>1. f \in [Slots -> others]
  BY DEF IInv, TypeOK, TableTypeOK, job_t
<1>2. IsInjective(f)
  BY DEF IsInjective, IInv, JobsAreChildren
<1>3. IsFiniteSet(others) /\ Cardinality(others) = Cardinality(Pid) - 1
  BY FS_RemoveElement DEF Room
<1>4. Cardinality(Slots) = MAXJOBS /\ MAXJOBS \in Nat
  BY MAXJOBSAssumption, FS_Interval DEF Slots
<1>5. Cardinality(Slots) <= Cardinality(others)
  <2> HIDE DEF f, others
  <2> QED
    BY <1>1, <1>2, <1>3, FS_Injection DEF Injection
<1>6. Cardinality(Pid) \in Nat
  BY FS_CardinalityType DEF Room
<1> QED
  BY <1>3, <1>4, <1>5, <1>6 DEF Room

-----------------------------------------------------------------------------
\* A step that neither adds nor removes a job, and after which there is no child that
\* was not there before.
LEMMA KeepsRoom ==
  ASSUME RoomInv, IInv',
         \A p \in Pid : proc'[p] # "free" => proc[p] # "free",
         \A i \in Slots : jobs'[i].pid = jobs[i].pid,
         \/ pc' = pc /\ current' = current
         \/ pc # "add" /\ pc' \notin {"add", "crashed"}
  PROVE  RoomInv'
BY DEF RoomInv, NeverCrashes, ChildrenAreListed, AddsAChild

\* After a fork there is still a free place for the job.
LEMMA EvalForkRoom == ASSUME Room, RoomInv, IInv', EvalFork PROVE RoomInv'
<1>1. PICK p \in Pid : proc[p] = "free" /\ Become(p, "forked") /\ current' = p
  BY DEF EvalFork, Room
<1>2. pc = "read" /\ pc' = "add" /\ jobs' = jobs
  BY DEF EvalFork, tableVars
<1>3. \A q \in Pid : q # p => proc'[q] = proc[q]
  BY <1>1 DEF Become, RoomInv, IInv, TypeOK
<1> QED
  BY <1>1, <1>2, <1>3 DEF RoomInv, NeverCrashes, ChildrenAreListed, AddsAChild

\* addjob takes that place.
LEMMA EvalAddRoom == ASSUME Room, RoomInv, IInv', EvalAdd PROVE RoomInv'
<1>1. /\ pc = "add" /\ current \in Pid /\ current # NoPid /\ addjob(current, mode)
      /\ proc' = proc
  BY NoPidAssumption DEF EvalAdd, RoomInv, AddsAChild, procVars
<1>2. Up
  BY <1>1 DEF Up
<1>3. \A i \in Slots : jobs[i].pid # current
  BY <1>1, <1>2 DEF RoomInv, IInv, CurrentIsUnlisted
<1>4. freeslot(jobs) # {}
  BY <1>1, <1>3, UnlistedHasRoom DEF RoomInv
<1>5. PICK i \in freeslot(jobs) :
         jobs' = [jobs EXCEPT ![i] = [pid |-> current, jid |-> nextjid, state |-> mode]]
  BY <1>1, <1>4 DEF addjob
<1>6. i \in Slots /\ jobs[i].pid = NoPid
  BY FreeslotIsFree
<1>7. /\ jobs'[i].pid = current
      /\ \A k \in Slots : k # i => jobs'[k] = jobs[k]
  BY <1>5, <1>6 DEF RoomInv, IInv, TypeOK, TableTypeOK
<1>8. ChildrenAreListed'
  <2> SUFFICES ASSUME NEW q \in Pid, proc[q] # "free"
               PROVE  \E k \in Slots : jobs'[k].pid = q
    BY <1>1 DEF ChildrenAreListed
  <2>1. CASE q = current
    BY <1>6, <1>7, <2>1
  <2>2. CASE q # current
    <3>1. PICK k \in Slots : jobs[k].pid = q
      BY <2>2 DEF RoomInv, ChildrenAreListed
    <3>2. k # i
      BY <1>6, <3>1, NoPidAssumption
    <3> QED
      BY <1>7, <3>1, <3>2
  <2> QED
    BY <2>1, <2>2
<1>9. pc' \in {"read", "suspend"}
  <2>1. getjobpid(jobs', current) # {}
    BY <1>1, <1>6, <1>7, ListedIsFound
  <2> QED
    BY <2>1 DEF EvalAdd, waitfg
<1> QED
  BY <1>8, <1>9 DEF RoomInv, NeverCrashes, AddsAChild

\* What the handler hears of is in the list: it runs only while eval is not adding a
\* child.
LEMMA ChldRoundRoom == ASSUME Room, RoomInv, IInv', ChldRound PROVE RoomInv'
<1>1. pc = "reap" /\ current' = current
  BY DEF ChldRound, evalVars
<1>2. PICK p \in Waitable(waitarg) : ReapZombie(p) \/ NoteStop(p) \/ ReapUnlisted(p)
  BY DEF ChldRound
<1>3. p \in Pid /\ proc[p] # "free"
  BY <1>2 DEF Waitable, RoomInv, IInv, UntoldAreStopped
<1>4. \E i \in Slots : jobs[i].pid = p
  BY <1>1, <1>3 DEF RoomInv, ChildrenAreListed
<1>5. ~ReapUnlisted(p)
  BY <1>3, <1>4, ListedIsFound DEF ReapUnlisted
<1>6. CASE NoteStop(p)
  <2>1. PICK i \in getjobpid(jobs, p) : jobs' = [jobs EXCEPT ![i].state = ST]
    BY <1>6 DEF NoteStop
  <2>2. i \in Slots
    BY GetjobpidIsSlot
  <2>3. \A k \in Slots : jobs'[k].pid = jobs[k].pid
    BY <2>1, <2>2 DEF RoomInv, IInv, TypeOK, TableTypeOK, job_t
  <2>4. proc' = proc /\ pc' = pc
    BY <1>6 DEF NoteStop
  <2> QED
    BY <1>1, <2>3, <2>4, KeepsRoom
<1>7. CASE ReapZombie(p)
  <2>1. deletejob(p) /\ proc' = [proc EXCEPT ![p] = "free"] /\ pc' = pc
    BY <1>7 DEF ReapZombie, Become
  <2>2. PICK i \in getjobpid(jobs, p) : /\ i \in Slots /\ jobs[i].pid = p
                                        /\ jobs' = [jobs EXCEPT ![i] = clearedjob]
    BY <1>3, <2>1, DeletejobEffect DEF RoomInv, IInv
  <2>3. \A k \in Slots : k # i => jobs'[k] = jobs[k]
    BY <2>2 DEF RoomInv, IInv, TypeOK, TableTypeOK
  <2>4. \A q \in Pid : proc'[q] # "free" => q # p /\ proc[q] # "free"
    BY <2>1 DEF RoomInv, IInv, TypeOK
  <2>5. ChildrenAreListed'
    BY <1>1, <2>2, <2>3, <2>4 DEF RoomInv, ChildrenAreListed
  <2> QED
    BY <1>1, <2>1, <2>5 DEF RoomInv, NeverCrashes, AddsAChild
<1> QED
  BY <1>2, <1>5, <1>6, <1>7

\* bg and fg take no place.
LEMMA BgFgRoom == ASSUME RoomInv, IInv', do_bg \/ do_fg PROVE RoomInv'
<1>1. pc = "read" /\ pc' \in {"read", "suspend"}
  BY DEF do_bg, do_fg, flowVars, waitfg
<1>2. PICK i \in Named, s \in {FG, BG} :
         jobs' = [jobs EXCEPT ![i].state = s] /\ SendCont(jobs[i].pid)
  BY DEF do_bg, do_fg
<1>3. i \in Slots
  BY NamedIsUsed DEF RoomInv, IInv
<1>4. \A k \in Slots : jobs'[k].pid = jobs[k].pid
  BY <1>2, <1>3 DEF RoomInv, IInv, TypeOK, TableTypeOK, job_t
<1>5. \A q \in Pid : proc'[q] # "free" => proc[q] # "free"
  BY <1>2 DEF SendCont, Become, procVars, RoomInv, IInv, TypeOK
<1> QED
  BY <1>1, <1>4, <1>5, KeepsRoom

\* Forwarding a signal takes none.
LEMMA ForwardRoom ==
  ASSUME RoomInv, IInv', sigint_handler \/ sigtstp_handler \/ Kill
  PROVE  RoomInv'
<1>1. ASSUME NEW sig \in Forwarding, Forward(sig) PROVE RoomInv'
  <2>1. Deliverable(sig) /\ pc' \in {sig, AfterHandler}
    BY <1>1 DEF Forward
  <2>2. UNCHANGED <<jobs, proc, current>>
    BY <1>1 DEF Forward, tableVars, procVars, evalVars
  <2>3. AfterHandler \in {"read", "check"} /\ pc # "add"
    BY <2>1, AfterHandlerPlace DEF RoomInv, AfterHandler
  <2>4. pc' \notin {"add", "crashed"}
    BY <2>1, <2>3 DEF Forwarding, SIGINT, SIGTSTP
  <2> QED BY <2>2, <2>3, <2>4, KeepsRoom
<1>2. CASE Kill
  <2>1. pc \in Forwarding /\ ProcsKept(Pid)
    BY <1>2, KillSends DEF RoomInv
  <2>2. pc # "add" /\ resume \in {"read", "check"}
    BY <2>1 DEF RoomInv, IInv, HandlerReturns, Up, FlowPlace, Forwarding, SIGINT, SIGTSTP
  <2>3. jobs' = jobs /\ current' = current /\ pc' = resume
    BY <1>2 DEF Kill, tableVars, evalVars
  <2>4. \A q \in Pid : proc'[q] # "free" => proc[q] # "free"
    BY <2>1 DEF ProcsKept
  <2> QED BY <2>2, <2>3, <2>4, KeepsRoom
<1> QED BY <1>1, <1>2 DEF sigint_handler, sigtstp_handler, Forwarding

\* A child takes none.
LEMMA ChildRoom == ASSUME RoomInv, IInv', NEW p \in Pid, Child(p) PROVE RoomInv'
<1>1. \A q \in Pid : proc'[q] # "free" => proc[q] # "free"
  BY DEF Child, Setpgid, Execve, Exit, StopsItself, SendTstp, Die, Become, procVars,
         RoomInv, IInv, TypeOK
<1>2. jobs' = jobs /\ current' = current /\ pc' = pc
  BY DEF Child, shellVars, tableVars, flowVars, evalVars
<1> QED
  BY <1>1, <1>2, KeepsRoom

\* Every step keeps the room that the next addjob needs.
LEMMA NextRoom == ASSUME Room, RoomInv, [Next]_vars PROVE RoomInv'
<1>0. IInv'
  BY NextIInv DEF RoomInv
<1>1. CASE Command
  <2>1. CASE Quit
    BY <1>0, <2>1, KeepsRoom DEF Quit, tableVars, procVars
  <2> QED
    BY <1>0, <1>1, <2>1, EvalForkRoom, BgFgRoom DEF Command
<1>2. CASE Flow
  <2>1. CASE WaitfgCheck
    BY <1>0, <2>1, KeepsRoom DEF WaitfgCheck, tableVars, procVars
  <2> QED
    BY <1>0, <1>2, <2>1, EvalAddRoom DEF Flow
<1>3. CASE Handlers
  <2>1. CASE sigchld_handler
    <3>1. pc # "add"
      BY <2>1 DEF sigchld_handler, Deliverable, RoomInv, IInv, MaskFollowsFlow, Up
    <3> QED
      BY <1>0, <2>1, <3>1, KeepsRoom DEF sigchld_handler, tableVars, procVars
  <2>2. CASE ChldReturn
    <3>1. pc = "reap" /\ resume \in {"read", "check"}
      BY <2>2 DEF ChldReturn, RoomInv, IInv, HandlerReturns, FlowPlace, Up
    <3> QED
      BY <1>0, <2>2, <3>1, KeepsRoom DEF ChldReturn, tableVars, procVars
  <2> QED
    BY <1>0, <1>3, <2>1, <2>2, ForwardRoom, ChldRoundRoom DEF Handlers
<1>4. CASE \E p \in Pid : Child(p)
  BY <1>0, <1>4, ChildRoom
<1>5. CASE Keyboard
  BY <1>0, <1>5, KeepsRoom DEF Keyboard, shellVars, tableVars, flowVars, evalVars, procVars
<1>6. CASE UNCHANGED vars
  BY <1>0, <1>6, KeepsRoom DEF vars, tableVars, flowVars, evalVars, procVars
<1> QED
  BY <1>1, <1>2, <1>3, <1>4, <1>5, <1>6 DEF Next

\* With a slot for every child that can be alive, and a fork that does not fail, neither
\* eval nor the handler of SIGCHLD ever follows a NULL pointer: every child is in the
\* list by the time it is reaped, and what eval has added is found (tsh.c:202-220,
\* 427-446).
THEOREM NoNullPointer == ASSUME Room PROVE Spec => []NeverCrashes
<1>1. Init => RoomInv
  BY InitIInv DEF Init, RoomInv, NeverCrashes, ChildrenAreListed, AddsAChild
<1>2. RoomInv /\ [Next]_vars => RoomInv'
  BY NextRoom
<1>3. RoomInv => NeverCrashes
  BY DEF RoomInv
<1> QED
  BY <1>1, <1>2, <1>3, PTL DEF Spec

=============================================================================
