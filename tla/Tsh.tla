-------------------------------- MODULE Tsh ---------------------------------
(***************************************************************************)
(* The tiny shell (lab7/tsh.c) with its children and the part of the       *)
(* kernel it depends on: forked processes, process groups, stopping and    *)
(* continuing, pending and blocked signals, sigsuspend and waitpid.        *)
(*                                                                         *)
(* Actors: the user (commands, ctrl-c, ctrl-z), the shell's main flow      *)
(* (eval, do_bgfg, waitfg), its signal handlers, and the children.  A step *)
(* of the shell is the code between two points at which another actor can  *)
(* make a difference.                                                      *)
(*                                                                         *)
(* A handler's body runs with every signal blocked, and what it does       *)
(* outside that part is to block and to restore the mask, so handlers that *)
(* nest act one after the other: the model never nests them.               *)
(***************************************************************************)
EXTENDS JobTable

CONSTANTS AnyChild,    \* the pid argument -1 of waitpid
          ForkMayFail, \* whether fork can fail
          JidCap       \* bound of the model on the job IDs handed out

ASSUME AnyChildAssumption == AnyChild \notin Pid \cup {NoPid}
ASSUME ForkMayFailAssumption == ForkMayFail \in BOOLEAN
ASSUME JidCapAssumption == JidCap \in Nat

\* waitpid(0), which is what waitpid(-(job->pid)) is once clearjob has set the
\* pid to 0, waits for children in the shell's own process group.
ShellGroup == NoPid

VARIABLES
  pc,       \* where the shell's main flow is, or its SIGCHLD handler
  resume,   \* where the flow goes on when the handler returns
  target,   \* the pid that a handler has looked up and is about to signal
  blocked,  \* the shell blocks all signals
  pending,  \* signals sent to the shell and not yet delivered
  current,  \* the job eval is adding: its process, NoPid if fork failed ...
  mode,     \* ... and FG or BG
  waitjob,  \* the job pointer of waitfg, {} for NULL
  waitarg,  \* the argument of the next waitpid of sigchld_handler
  proc,     \* the processes
  untold,   \* stopped processes whose stop waitpid has not reported
  intpend   \* stopped processes that have a SIGINT pending

flowVars == <<pc, resume, target, blocked>>
evalVars == <<current, mode>>
procVars == <<proc, untold, intpend>>
vars == <<tableVars, flowVars, pending, evalVars, waitjob, waitarg, procVars>>

SIGINT == "SIGINT"
SIGTSTP == "SIGTSTP"
SIGCHLD == "SIGCHLD"
Signals == {SIGINT, SIGTSTP, SIGCHLD}

\* "read": fgets; "add": between fork and addjob; "suspend": in sigsuspend;
\* "check": sigsuspend has returned; "reap": in the loop of sigchld_handler;
\* SIGINT, SIGTSTP: in their handlers, between fgpid and the kill.
FlowPlace == {"read", "add", "suspend", "check"}
Forwarding == {SIGINT, SIGTSTP}
Place == FlowPlace \cup Forwarding \cup {"reap", "exited", "crashed"}

\* "forked": a copy of the shell in the shell's group, all signals blocked;
\* "grouped": in its own group but still running the shell's code, with the
\* shell's handlers; "running" and "stopped": execve has been done.
ProcState == {"free", "forked", "grouped", "running", "stopped", "zombie"}

TypeOK ==
  /\ TableTypeOK
  /\ pc \in Place
  /\ resume \in FlowPlace
  /\ target \in Pid \cup {NoPid}
  /\ blocked \in BOOLEAN
  /\ pending \subseteq Signals
  /\ current \in Pid \cup {NoPid}
  /\ mode \in {FG, BG}
  /\ waitjob \subseteq Slots
  /\ waitarg \in Pid \cup {AnyChild, ShellGroup}
  /\ proc \in [Pid -> ProcState]
  /\ untold \subseteq Pid
  /\ intpend \subseteq Pid

Init ==
  /\ TableInit
  /\ pc = "read" /\ resume = "read" /\ target = NoPid /\ blocked = FALSE
  /\ pending = {}
  /\ current = NoPid /\ mode = BG
  /\ waitjob = {}
  /\ waitarg = AnyChild
  /\ proc = [p \in Pid |-> "free"]
  /\ untold = {} /\ intpend = {}

Up == pc \notin {"exited", "crashed"}

-----------------------------------------------------------------------------
(***************************************************************************)
(* The kernel: processes and signals.                                      *)
(***************************************************************************)
pgid(p) == IF proc[p] = "forked" THEN ShellGroup ELSE p

Become(p, s) == proc' = [proc EXCEPT ![p] = s]

Notify(sig) == pending' = pending \cup {sig}

\* The process of p ends; its parent is sent a SIGCHLD.
Die(p) == /\ Become(p, "zombie")
          /\ untold' = untold \ {p}
          /\ intpend' = intpend \ {p}

\* kill(-p, SIGINT).  A child that has not called setpgid is not in that group,
\* one that has not called execve runs the shell's handler, which finds no
\* foreground job in its copy of the list: in both cases nothing happens.
SendInt(p, rest) ==
  \/ /\ proc[p] = "running"
     /\ Die(p)
     /\ pending' = rest \cup {SIGCHLD}
  \/ /\ proc[p] = "stopped"
     /\ intpend' = intpend \cup {p}
     /\ pending' = rest
     /\ UNCHANGED <<proc, untold>>
  \/ /\ proc[p] \notin {"running", "stopped"}
     /\ pending' = rest
     /\ UNCHANGED procVars

\* kill(-p, SIGTSTP).
SendTstp(p, rest) ==
  \/ /\ proc[p] = "running"
     /\ Become(p, "stopped")
     /\ untold' = untold \cup {p}
     /\ pending' = rest \cup {SIGCHLD}
     /\ UNCHANGED intpend
  \/ /\ proc[p] # "running"
     /\ pending' = rest
     /\ UNCHANGED procVars

\* kill(-p, SIGCONT): a stopped process goes on, or dies of its pending SIGINT,
\* its parent is sent a SIGCHLD and a stop not yet reported is forgotten.
SendCont(p) ==
  \/ /\ proc[p] = "stopped"
     /\ Become(p, IF p \in intpend THEN "zombie" ELSE "running")
     /\ untold' = untold \ {p}
     /\ intpend' = intpend \ {p}
     /\ Notify(SIGCHLD)
  \/ /\ proc[p] # "stopped"
     /\ UNCHANGED <<procVars, pending>>

\* A variant in which the handler does not pass WUNTRACED.
WaitableZombies(arg) == {p \in Pid : arg \in {AnyChild, pgid(p)} /\ proc[p] = "zombie"}

\* The children of which waitpid(-arg, ..., WNOHANG | WUNTRACED) can report.
Waitable(arg) == {p \in Pid : /\ arg \in {AnyChild, pgid(p)}
                              /\ proc[p] = "zombie" \/ p \in untold}

-----------------------------------------------------------------------------
(***************************************************************************)
(* The command loop.  A command that changes nothing (jobs, a blank line,  *)
(* fg and bg of a job that does not exist) is a stuttering step.           *)
(***************************************************************************)

\* waitfg(pid), up to the first sigsuspend.
waitfg(pid) == /\ waitjob' = getjobpid(jobs', pid)
               /\ pc' = "suspend"

\* A variant in which the command loop forgets Sigprocmask.
BlockNothing == blocked' = FALSE

\* Sigfillset(&mask); Sigprocmask(SIG_BLOCK, &mask, &prev_mask)
BlockAll == blocked' = TRUE

\* The states that parseline can find on a command line: the background when the last
\* word begins with &, else the foreground.  Of its words nothing else matters here.
parseline == {FG, BG}

\* eval, up to the fork, which may fail.
EvalFork ==
  /\ pc = "read"
  /\ nextjid <= JidCap
  /\ BlockAll
  /\ \/ \E p \in Pid : proc[p] = "free" /\ Become(p, "forked") /\ current' = p
     \/ ForkMayFail /\ current' = NoPid /\ UNCHANGED proc
  /\ mode' \in parseline
  /\ pc' = "add"
  /\ UNCHANGED <<tableVars, resume, target, pending, waitjob, waitarg, untold, intpend>>

\* eval, after the fork.  A background job that did not get a slot is a NULL
\* pointer in the message that announces it.
EvalAdd ==
  /\ pc = "add"
  /\ addjob(current, mode)
  /\ \/ /\ mode = BG
        /\ getjobpid(jobs', current) # {}
        /\ pc' = "read" /\ blocked' = FALSE
        /\ UNCHANGED waitjob
     \/ /\ mode = BG
        /\ getjobpid(jobs', current) = {}
        /\ pc' = "crashed"
        /\ UNCHANGED <<blocked, waitjob>>
     \/ /\ mode = FG
        /\ waitfg(current)
        /\ UNCHANGED blocked
  /\ current' = NoPid /\ mode' = BG
  /\ UNCHANGED <<resume, target, pending, waitarg, procVars>>

\* Two variants of the test in the loop of waitfg: one that lets any signal end
\* the wait, and one that waits until the job has left the list.
NoTest == FALSE
StillListed == \E i \in waitjob : jobs[i].pid # NoPid

\* The job is there and is still in the foreground.
StillForeground == \E i \in waitjob : jobs[i].state = FG

\* waitfg after sigsuspend: wait again, or return to the command loop.
WaitfgCheck ==
  /\ pc = "check"
  /\ \/ /\ StillForeground
        /\ pc' = "suspend"
        /\ UNCHANGED <<blocked, waitjob>>
     \/ /\ ~StillForeground
        /\ pc' = "read" /\ blocked' = FALSE
        /\ waitjob' = {}
  /\ UNCHANGED <<tableVars, resume, target, pending, evalVars, waitarg, procVars>>

\* The slots that an argument of fg or bg, a pid or a job ID, can name.
Named == UNION ({getjobpid(jobs, p) : p \in Pid}
                \cup {getjobjid(jobs, jobs[i].jid) : i \in Slots})

\* A variant of bg that does not record that the job runs again.
do_bg_unrecorded ==
  /\ pc = "read"
  /\ \E i \in Named : SendCont(jobs[i].pid)
  /\ UNCHANGED <<tableVars, flowVars, evalVars, waitjob, waitarg>>

do_bg ==
  /\ pc = "read"
  /\ \E i \in Named : /\ jobs' = [jobs EXCEPT ![i].state = BG]
                      /\ SendCont(jobs[i].pid)
  /\ UNCHANGED <<nextjid, flowVars, evalVars, waitjob, waitarg>>

do_fg ==
  /\ pc = "read"
  /\ BlockAll
  /\ \E i \in Named : /\ jobs' = [jobs EXCEPT ![i].state = FG]
                      /\ SendCont(jobs[i].pid)
                      /\ waitfg(jobs[i].pid)
  /\ UNCHANGED <<nextjid, resume, target, evalVars, waitarg>>

\* The quit command and the end of the input; SIGQUIT, whose handler exits.
Quit ==
  /\ pc \in {"read", "suspend"}
  /\ pc' = "exited"
  /\ UNCHANGED <<tableVars, resume, target, blocked, pending, evalVars, waitjob, waitarg,
                 procVars>>

-----------------------------------------------------------------------------
(***************************************************************************)
(* The signal handlers.                                                    *)
(***************************************************************************)
\* A variant in which waitfg suspends with all signals but SIGCHLD blocked.
DeliverableChld(sig) == /\ sig \in pending
                        /\ pc \in FlowPlace
                        /\ ~blocked \/ (pc = "suspend" /\ sig = SIGCHLD)

\* A variant in which sigint_handler does not block signals.
DeliverableNested(sig) == /\ sig \in pending
                          /\ \/ pc \in FlowPlace /\ ~blocked
                             \/ pc = "suspend"
                             \/ pc = SIGINT /\ sig = SIGCHLD

Deliverable(sig) == /\ sig \in pending
                    /\ pc \in FlowPlace
                    /\ ~blocked \/ pc = "suspend"

\* Where the flow goes on after a handler: sigsuspend returns.
AfterHandler == IF pc = "suspend" THEN "check" ELSE pc

\* A handler that forwards its signal, up to the kill: fgpid.
Forward(sig) ==
  /\ Deliverable(sig)
  /\ pending' = pending \ {sig}
  /\ \/ /\ target' \in fgpid(jobs)
        /\ pc' = sig /\ resume' = AfterHandler
     \/ /\ fgpid(jobs) = {}
        /\ pc' = AfterHandler
        /\ UNCHANGED <<resume, target>>
  /\ UNCHANGED <<tableVars, blocked, evalVars, waitjob, waitarg, procVars>>

sigint_handler == Forward(SIGINT)

sigtstp_handler == Forward(SIGTSTP)

\* The kill, and the handler's return.
Kill ==
  /\ \/ pc = SIGINT /\ SendInt(target, pending)
     \/ pc = SIGTSTP /\ SendTstp(target, pending)
  /\ pc' = resume /\ resume' = "read" /\ target' = NoPid
  /\ UNCHANGED <<tableVars, blocked, evalVars, waitjob, waitarg>>

sigchld_handler ==
  /\ Deliverable(SIGCHLD)
  /\ pending' = pending \ {SIGCHLD}
  /\ pc' = "reap"
  /\ resume' = AfterHandler
  /\ waitarg' = AnyChild
  /\ UNCHANGED <<tableVars, target, blocked, evalVars, waitjob, procVars>>

\* A variant that forgets to delete the job.
ReapKeepingJob(p) ==
  /\ proc[p] = "zombie"
  /\ Become(p, "free")
  /\ getjobpid(jobs, p) # {}
  /\ waitarg' = p
  /\ UNCHANGED <<tableVars, pc, untold>>

\* waitpid reports the end of p: its job is deleted, which clears the pid that
\* the argument of the next waitpid is read from.
ReapZombie(p) ==
  /\ proc[p] = "zombie"
  /\ Become(p, "free")
  /\ deletejob(p)
  /\ \E i \in getjobpid(jobs, p) : waitarg' = jobs'[i].pid
  /\ UNCHANGED <<pc, untold>>

\* waitpid reports that p has stopped.
NoteStop(p) ==
  /\ p \in untold
  /\ untold' = untold \ {p}
  /\ \E i \in getjobpid(jobs, p) : jobs' = [jobs EXCEPT ![i].state = ST]
  /\ waitarg' = p
  /\ UNCHANGED <<nextjid, pc, proc>>

\* waitpid reports a process that is not in the list: a NULL pointer.
ReapUnlisted(p) ==
  /\ getjobpid(jobs, p) = {}
  /\ pc' = "crashed"
  /\ UNCHANGED <<tableVars, waitarg, proc, untold>>

\* One round of the loop of sigchld_handler.
ChldRound ==
  /\ pc = "reap"
  /\ \E p \in Waitable(waitarg) : ReapZombie(p) \/ NoteStop(p) \/ ReapUnlisted(p)
  /\ UNCHANGED <<resume, target, blocked, pending, evalVars, waitjob, intpend>>

\* waitpid has nothing to report: the handler returns.
ChldReturn ==
  /\ pc = "reap"
  /\ Waitable(waitarg) = {}
  /\ pc' = resume /\ resume' = "read"
  /\ waitarg' = AnyChild
  /\ UNCHANGED <<tableVars, target, blocked, pending, evalVars, waitjob, procVars>>

-----------------------------------------------------------------------------
(***************************************************************************)
(* The children and the user.                                              *)
(***************************************************************************)
shellVars == <<tableVars, flowVars, evalVars, waitjob, waitarg>>

Setpgid(p) == /\ proc[p] = "forked"
              /\ Become(p, "grouped")
              /\ UNCHANGED <<pending, untold, intpend>>

Execve(p) == /\ proc[p] = "grouped"
             /\ Become(p, "running")
             /\ UNCHANGED <<pending, untold, intpend>>

\* The program ends, by itself or by a signal it sends to itself (myint.c), or
\* execve fails.
Exit(p) == /\ proc[p] \in {"grouped", "running"}
           /\ Die(p)
           /\ Notify(SIGCHLD)

\* The program stops its own process group (mystop.c).
StopsItself(p) == proc[p] = "running" /\ SendTstp(p, pending)

Child(p) == /\ Up
            /\ Setpgid(p) \/ Execve(p) \/ Exit(p) \/ StopsItself(p)
            /\ UNCHANGED shellVars

\* ctrl-c and ctrl-z: the signal is sent to the shell.
Keyboard == /\ Up
            /\ Notify(SIGINT) \/ Notify(SIGTSTP)
            /\ UNCHANGED <<shellVars, procVars>>

-----------------------------------------------------------------------------
Command == EvalFork \/ do_bg \/ do_fg \/ Quit

Flow == EvalAdd \/ WaitfgCheck

Handlers == \/ sigint_handler \/ sigtstp_handler \/ Kill
            \/ sigchld_handler \/ ChldRound \/ ChldReturn

Next == Command \/ Flow \/ Handlers \/ (\E p \in Pid : Child(p)) \/ Keyboard

Spec == Init /\ [][Next]_vars

(***************************************************************************)
(* The shell takes the steps that do not wait for input.  A signal that is *)
(* pending is delivered before sigsuspend or sigprocmask returns, however  *)
(* many other signals arrive: the kernel looks at all of them, so no       *)
(* signal can be overtaken for ever.                                       *)
(***************************************************************************)
Fairness == /\ WF_vars(Flow)
            /\ WF_vars(ChldRound) /\ WF_vars(ChldReturn) /\ WF_vars(Kill)
            /\ SF_vars(sigchld_handler)
            /\ SF_vars(sigint_handler) /\ SF_vars(sigtstp_handler)

FairSpec == Spec /\ Fairness

-----------------------------------------------------------------------------
(***************************************************************************)
(* Properties.                                                             *)
(***************************************************************************)

\* Every job in the list is a child that has not been reaped, and no child has
\* two jobs: no handler reaps a child before eval has put it in the list, and
\* none leaves the job of a reaped child behind (tsh.c:202-214, 427-456).
JobsAreChildren ==
  \A i \in Slots : jobs[i].pid # NoPid =>
    /\ proc[jobs[i].pid] # "free"
    /\ \A k \in Slots : jobs[k].pid = jobs[i].pid => k = i

\* A foreground job is the job that the shell is waiting for in waitfg: the
\* prompt never comes back while a job is in the foreground, and there is at
\* most one (tsh.c:37, 388-405).
ForegroundIsWaitedFor ==
  \A i \in Slots : Up /\ jobs[i].state = FG =>
    /\ waitjob = {i}
    /\ \/ pc \in {"suspend", "check"}
       \/ pc \notin FlowPlace /\ resume = "check"

\* A job that the list shows as stopped is stopped: the handler never marks a
\* job by a report that a SIGCONT of fg or bg has overtaken (tsh.c:368-383,
\* 433-434).
StoppedIsStopped ==
  \A i \in Slots : jobs[i].state = ST => proc[jobs[i].pid] = "stopped"

\* The shell reads commands with signals unblocked and runs the code that
\* changes the list with signals blocked (tsh.c:204, 224, 323, 385).
MaskFollowsFlow ==
  Up => (blocked <=> (IF pc \in FlowPlace THEN pc ELSE resume) # "read")

InForeground(p) == \E i \in Slots : jobs[i].pid = p /\ jobs[i].state = FG

\* The pid that the handlers of SIGINT and SIGTSTP have looked up is, when they
\* come to kill, still that of the foreground job and of a child that is not
\* reaped: whatever ends or stops in between, no other process can have it
\* (tsh.c:462-494).
TargetIsForeground ==
  pc \in Forwarding => InForeground(target) /\ proc[target] # "free"

(***************************************************************************)
(* The shell implements AbstractJobs.                                      *)
(***************************************************************************)
Listed(js, p) == {i \in Slots : js[i].pid = p}

View(js, p) == IF Listed(js, p) = {} THEN "none"
               ELSE js[CHOOSE i \in Listed(js, p) : TRUE].state

Abstract == INSTANCE AbstractJobs
  WITH children <- {p \in Pid : proc[p] # "free"},
       job <- [p \in Pid |-> View(jobs, p)],
       up <- Up

\* The list changes only as AbstractJobs allows: in particular a child leaves
\* it in the step that reaps the child, and in no other.
ImplementsAbstractJobs == Abstract!AbsSpec

\* When every child finds a slot and fork succeeds, the handler never meets a
\* child that is not in the list, so no NULL pointer is followed.
NeverCrashes == pc # "crashed"

Ended(p) == proc[p] \in {"stopped", "zombie"}

\* When the process of the foreground job ends or stops and is the shell's only
\* child, the prompt comes back: the shell never sleeps over the SIGCHLD, on
\* whatever side of sigsuspend the signal arrives (tsh.c:391-405, 418-460).
ForegroundEndIsSeen ==
  \A p \in Pid :
    (/\ InForeground(p) /\ Ended(p)
     /\ SIGCHLD \in pending
     /\ \A q \in Pid \ {p} : proc[q] = "free")
    ~> pc = "read" \/ ~Up

\* A ctrl-c typed while the program of the foreground job runs gets to it: the
\* program does not go on running in the foreground (tsh.c:462-477).
CtrlCReachesForeground ==
  \A p \in Pid :
    (SIGINT \in pending /\ InForeground(p) /\ proc[p] = "running")
    ~> proc[p] # "running" \/ ~Up

\* What tsh.c:185-186 says of eval, "If the job is running in the foreground,
\* wait for it to terminate and then return", and tsh.c:414-415 of the handler,
\* "The handler reaps all available zombie children": the shell gives the
\* prompt back when the process of the foreground job has ended.
EvalReturnsWhenJobEnds ==
  \A p \in Pid :
    InForeground(p) /\ proc[p] = "zombie" ~> pc = "read" \/ ~Up

=============================================================================
