---------------------------- MODULE LeaseService ----------------------------
(***************************************************************************)
(* What the runtime backend promises the runner about leases               *)
(* (runtime.py: the RuntimeBackend and Lock protocols): a run owns the     *)
(* lease of its lock id for at most one interval of its life, and two runs *)
(* never own the same lease at once.  Lease.tla shows that the files and   *)
(* the guard of LocalBackend keep this promise; RunJob.tla builds the      *)
(* runner on top of it.                                                    *)
(***************************************************************************)

CONSTANTS
  Run,      \* run ids, one per run_job call
  LockOf    \* LockOf[r]: the lock id economic_lock_id computes for r's job

VARIABLE lease   \* lease[r]: where r stands with the lease of its lock id

LeaseTypeOK == lease \in [Run -> {"new", "owner", "gone"}]

Init == lease = [r \in Run |-> "new"]

(* acquire returned a lock whose acquired property is true. *)
Grant(r) ==
  /\ lease[r] = "new"
  /\ \A o \in Run : LockOf[o] = LockOf[r] => lease[o] # "owner"
  /\ lease' = [lease EXCEPT ![r] = "owner"]

(* r released its lease, or another run took it over. *)
Lose(r) ==
  /\ lease[r] = "owner"
  /\ lease' = [lease EXCEPT ![r] = "gone"]

Next == \E r \in Run : Grant(r) \/ Lose(r)

Spec == Init /\ [][Next]_lease

=============================================================================
