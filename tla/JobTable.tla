------------------------------ MODULE JobTable ------------------------------
(***************************************************************************)
(* The job list of the shell (lab7/tsh.c): a fixed array of MAXJOBS slots  *)
(* and the counter from which job IDs are handed out.  The module gives    *)
(* the helpers that read and change the list; Tsh calls them from the      *)
(* command loop and from the signal handlers.                              *)
(*                                                                         *)
(* A lookup that returns a `struct job_t *` is modelled as the set of the  *)
(* slots it returns: one slot, or {} for NULL.                             *)
(***************************************************************************)
EXTENDS Naturals

CONSTANTS MAXJOBS,  \* number of slots of the list
          Pid,      \* process IDs of children
          NoPid     \* the pid of an unused slot (0), and of a failed fork (< 1)

ASSUME MAXJOBSAssumption == MAXJOBS \in Nat \ {0}
ASSUME NoPidAssumption == NoPid \notin Pid

VARIABLES jobs,     \* JOBS, the array of job structs
          nextjid   \* next job ID to allocate

tableVars == <<jobs, nextjid>>

Slots == 0 .. MAXJOBS - 1

UNDEF == "UNDEF"
FG == "FG"
BG == "BG"
ST == "ST"
JobState == {UNDEF, FG, BG, ST}

job_t == [pid : Pid \cup {NoPid}, jid : Nat, state : JobState]

clearedjob == [pid |-> NoPid, jid |-> 0, state |-> UNDEF]

initjobs == [i \in Slots |-> clearedjob]

(***************************************************************************)
(* Lookups.  Each scans the slots from 0 and stops at the first match.     *)
(***************************************************************************)
First(P) == {i \in P : \A k \in P : i <= k}

getjobpid(js, pid) == First({i \in Slots : pid # NoPid /\ js[i].pid = pid})

getjobjid(js, jid) == First({i \in Slots : jid >= 1 /\ js[i].jid = jid})

\* {} stands for the 0 that the code returns when no job is in the foreground.
fgpid(js) == {js[i].pid : i \in First({k \in Slots : js[k].state = FG})}

\* A variant that gives the last slot to a job for which there is none.
laststandby(js) == IF \E i \in Slots : js[i].pid = NoPid
                   THEN First({i \in Slots : js[i].pid = NoPid})
                   ELSE {MAXJOBS - 1}

freeslot(js) == First({i \in Slots : js[i].pid = NoPid})

\* m is the largest job ID of the list js.
IsMaxjid(js, m) == /\ \E i \in Slots : js[i].jid = m
                   /\ \A i \in Slots : js[i].jid <= m

(***************************************************************************)
(* Updates.                                                                *)
(***************************************************************************)
afterjid(jid) == IF jid + 1 > MAXJOBS THEN 1 ELSE jid + 1

addjob(pid, state) ==
  \/ /\ pid # NoPid
     /\ \E i \in freeslot(jobs) :
          jobs' = [jobs EXCEPT ![i] = [pid |-> pid, jid |-> nextjid, state |-> state]]
     /\ nextjid' = afterjid(nextjid)
  \/ /\ pid = NoPid \/ freeslot(jobs) = {}     \* "Tried to create too many jobs"
     /\ UNCHANGED tableVars

\* A variant that hands out the largest ID itself.
deletejobNoIncrement(pid) ==
  \E i \in getjobpid(jobs, pid) :
    /\ jobs' = [jobs EXCEPT ![i] = clearedjob]
    /\ \E k \in Slots : IsMaxjid(jobs', jobs'[k].jid) /\ nextjid' = jobs'[k].jid

deletejob(pid) ==
  \E i \in getjobpid(jobs, pid) :
    /\ jobs' = [jobs EXCEPT ![i] = clearedjob]
    /\ \E k \in Slots : /\ IsMaxjid(jobs', jobs'[k].jid)
                        /\ nextjid' = jobs'[k].jid + 1

TableInit == /\ jobs = initjobs
             /\ nextjid = 1

TableTypeOK == /\ jobs \in [Slots -> job_t]
               /\ nextjid \in Nat \ {0}

=============================================================================
