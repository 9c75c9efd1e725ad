------------------------------- MODULE Mutex -------------------------------
(***************************************************************************)
(* What a lock of nginx promises the processes that share it, whatever its *)
(* implementation: a process enters the critical section only when no      *)
(* process is inside, and leaves it by itself.  Shmtx (ngx_shmtx_t) and    *)
(* the accept mutex of the workers' event loop are shown to implement it.  *)
(***************************************************************************)
CONSTANT Procs

VARIABLE inside   \* the processes inside the critical section

Init == inside = {}

Enter(p) == inside = {} /\ inside' = {p}

Leave(p) == inside = {p} /\ inside' = {}

Next == \E p \in Procs : Enter(p) \/ Leave(p)

Spec == Init /\ [][Next]_inside

=============================================================================
