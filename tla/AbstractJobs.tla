---------------------------- MODULE AbstractJobs ----------------------------
(***************************************************************************)
(* What job control promises, as the comments of lab7/tsh.c put it: the    *)
(* job list follows the life of the shell's children (a job leaves the     *)
(* list in the very step in which its process is reaped, and no other      *)
(* step forgets a process), the states change as tsh.c:31-37 says (with    *)
(* the BG to ST step of a background job that is stopped, which that       *)
(* comment leaves out), and at most one job is in the foreground.          *)
(***************************************************************************)
CONSTANTS Pid

VARIABLES children,   \* processes forked and not yet reaped
          job,        \* what the job list says of each process
          up          \* the shell is running

absVars == <<children, job, up>>

JobView == {"none", "FG", "BG", "ST"}

AbsTypeOK == /\ children \subseteq Pid
             /\ job \in [Pid -> JobView]
             /\ up \in BOOLEAN

NoneInForeground == \A p \in Pid : job[p] # "FG"

AbsInit == /\ children = {}
           /\ job = [p \in Pid |-> "none"]
           /\ up = TRUE

\* A child is created; it is not in the list yet.
Fork(p) == /\ p \notin children
           /\ children' = children \cup {p}
           /\ UNCHANGED <<job, up>>

\* A child that is not in the list enters it.
Register(p, s) == /\ p \in children
                  /\ job[p] = "none"
                  /\ s \in {"FG", "BG"}
                  /\ s = "FG" => NoneInForeground
                  /\ job' = [job EXCEPT ![p] = s]
                  /\ UNCHANGED <<children, up>>

\* The shell notices that the process of a job has stopped.
Suspend(p) == /\ job[p] \in {"FG", "BG"}
              /\ job' = [job EXCEPT ![p] = "ST"]
              /\ UNCHANGED <<children, up>>

\* The bg and fg commands, given while no job is in the foreground.
Resume(p, s) == /\ job[p] \in {"ST", "BG"}
                /\ s \in {"FG", "BG"}
                /\ NoneInForeground
                /\ job' = [job EXCEPT ![p] = s]
                /\ UNCHANGED <<children, up>>

\* The process of a job is reaped and the job deleted, in one step.
Reap(p) == /\ p \in children
           /\ job[p] # "none"
           /\ children' = children \ {p}
           /\ job' = [job EXCEPT ![p] = "none"]
           /\ UNCHANGED up

\* The shell exits, or crashes.
Down == /\ up' = FALSE
        /\ UNCHANGED <<children, job>>

AbsNext == /\ up
           /\ \/ \E p \in Pid : \/ Fork(p)
                                \/ Suspend(p)
                                \/ Reap(p)
                                \/ \E s \in {"FG", "BG"} : Register(p, s) \/ Resume(p, s)
              \/ Down

AbsSpec == AbsInit /\ [][AbsNext]_absVars

=============================================================================
