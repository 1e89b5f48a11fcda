-------------------------------- MODULE JobPool --------------------------------
(***************************************************************************)
(* What src/inc/threadpool.h promises its callers, without the mutex, the  *)
(* condition variables or the threads: jobs are accepted while the pool is *)
(* open and not full, started in the order of acceptance, and run once; a  *)
(* closed pool drains and is then released.                                *)
(***************************************************************************)
EXTENDS Naturals, Sequences

CONSTANTS Jobs, Capacity

VARIABLES
    pending,    \* accepted, not started
    running,    \* started, not finished
    done,       \* finished
    open,       \* jobs are still accepted
    released    \* the pool's memory is gone

jobVars == <<pending, running, done, open, released>>

JInit ==
    /\ pending = <<>>
    /\ running = {}
    /\ done = {}
    /\ open = TRUE
    /\ released = FALSE

Accept(j) ==
    /\ open
    /\ Len(pending) < Capacity
    /\ j \notin running \cup done
    /\ \A i \in DOMAIN pending : pending[i] # j
    /\ pending' = Append(pending, j)
    /\ UNCHANGED <<running, done, open, released>>

Start ==
    /\ pending # <<>>
    /\ running' = running \cup {Head(pending)}
    /\ pending' = Tail(pending)
    /\ UNCHANGED <<done, open, released>>

Finish(j) ==
    /\ j \in running
    /\ running' = running \ {j}
    /\ done' = done \cup {j}
    /\ UNCHANGED <<pending, open, released>>

Close ==
    /\ open
    /\ open' = FALSE
    /\ UNCHANGED <<pending, running, done, released>>

Release ==
    /\ ~open
    /\ ~released
    /\ pending = <<>>
    /\ running = {}
    /\ released' = TRUE
    /\ UNCHANGED <<pending, running, done, open>>

JNext ==
    \/ \E j \in Jobs : Accept(j) \/ Finish(j)
    \/ Start
    \/ Close
    \/ Release

JSafe == JInit /\ [][JNext]_jobVars

JSpec ==
    /\ JSafe
    /\ WF_jobVars(Start)
    /\ WF_jobVars(Release)
    /\ \A j \in Jobs : WF_jobVars(Finish(j))

================================================================================
