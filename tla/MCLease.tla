------------------------------ MODULE MCLease ------------------------------
(***************************************************************************)
(* Lease.tla on small sets of runs.                                        *)
(***************************************************************************)
EXTENDS Lease, TLC

CONSTANTS a, b, c    \* runs

(* Jobs of one lock id may be configured with different ttls; a ttl above
   MaxAge is one that no lease reaches. *)
MCTTL == [r \in Run |-> IF r = a THEN 1 ELSE 2]

Symmetry == Permutations(Run \ {a})
=============================================================================
