----------------------------- MODULE AtomicJson -----------------------------
(***************************************************************************)
(* atomic_json (runtime.py 79-100): a file is written beside its path,     *)
(* synced, and moved over it.  The directory is not synced: what path      *)
(* names in the system's cache may be ahead of what it names on the disk.  *)
(***************************************************************************)
EXTENDS Naturals

CONSTANTS
  Run,      \* processes that call atomic_json, one call at a time each
  Path,
  Value     \* payloads

Absent == [value |-> {}, synced |-> TRUE]     \* no file of that name
Torn == [value |-> {}, synced |-> FALSE]      \* a file without its content

VARIABLES
  call,    \* call[r]: the place in atomic_json; "returned" and "raised" end it
  temp,    \* temp[r]: the temporary file: none, cached or synced
  arg,     \* arg[r]: path and payload of the call
  file,    \* file[p]: what p names
  disk     \* disk[p]: what p names once the power is back

atomicVars == <<call, temp, arg, file, disk>>

-----------------------------------------------------------------------------
Idle == {"idle", "returned", "raised"}
Calls == Idle \cup {"write", "sync", "replace", "giveup", "unlink"}

AtomicInit ==
  /\ call = [r \in Run |-> "idle"]
  /\ temp = [r \in Run |-> "none"]
  /\ arg = [r \in Run |-> {}]
  /\ file = [p \in Path |-> Absent] /\ disk = file

To(r, label) == call' = [call EXCEPT ![r] = label]
Stored(r, state) == temp' = [temp EXCEPT ![r] = state]

Begin(r, p, v) ==
  /\ call[r] = "idle" /\ To(r, "write")
  /\ arg' = [arg EXCEPT ![r] = {[path |-> p, value |-> v]}]
  /\ UNCHANGED <<temp, file, disk>>

End(r) ==
  /\ call[r] \in {"returned", "raised"} /\ To(r, "idle")
  /\ UNCHANGED <<temp, arg, file, disk>>

(* The temporary file, whose name is fresh, is created and written. *)
WriteTemp(r) ==
  /\ call[r] = "write" /\ To(r, "sync") /\ Stored(r, "cached")
  /\ UNCHANGED <<arg, file, disk>>

(* Mutant: the file is not synced. *)
SyncNothing(r) ==
  /\ call[r] = "sync" /\ To(r, "replace")
  /\ UNCHANGED <<temp, arg, file, disk>>

SyncTemp(r) ==
  /\ call[r] = "sync" /\ To(r, "replace") /\ Stored(r, "synced")
  /\ UNCHANGED <<arg, file, disk>>

(* The write or the sync raises. *)
WriteRaises(r) ==
  /\ call[r] \in {"write", "sync"} /\ To(r, "giveup")
  /\ temp' \in {temp, [temp EXCEPT ![r] = "cached"]}
  /\ UNCHANGED <<arg, file, disk>>

Replace(r) ==
  /\ call[r] = "replace" /\ To(r, "unlink") /\ Stored(r, "none")
  /\ \E a \in arg[r] :
       /\ file' = [file EXCEPT ![a.path] =
                     [value |-> {a.value}, synced |-> temp[r] = "synced"]]
  /\ UNCHANGED <<arg, disk>>

(* os.replace raises: a PermissionError for a second, or another error. *)
Refused(r) ==
  /\ call[r] = "replace" /\ To(r, "giveup")
  /\ UNCHANGED <<temp, arg, file, disk>>

(* Mutant: an error is dropped on the way out. *)
UnlinkQuietly(r) ==
  /\ call[r] \in {"unlink", "giveup"} /\ To(r, "returned") /\ Stored(r, "none")
  /\ arg' = [arg EXCEPT ![r] = {}]
  /\ UNCHANGED <<file, disk>>

(* finally: the temporary file is unlinked, or it stays where nobody looks; an
   error of the unlink, but that there is none, leaves atomic_json. *)
Unlink(r) ==
  /\ call[r] \in {"unlink", "giveup"}
  /\ \/ call[r] = "unlink" /\ To(r, "returned")
     \/ To(r, "raised")
  /\ Stored(r, "none")
  /\ arg' = [arg EXCEPT ![r] = {}]
  /\ UNCHANGED <<file, disk>>

AtomicStep(r) ==
  WriteTemp(r) \/ SyncTemp(r) \/ WriteRaises(r) \/ Replace(r) \/ Refused(r) \/ Unlink(r)

-----------------------------------------------------------------------------
(* The processes in S end: their temporary files stay, and nobody knows them. *)
Forget(S) ==
  /\ call' = [r \in Run |-> IF r \in S THEN "idle" ELSE call[r]]
  /\ arg' = [r \in Run |-> IF r \in S THEN {} ELSE arg[r]]
  /\ temp' = [r \in Run |-> IF r \in S THEN "none" ELSE temp[r]]

(* The system writes the directory of p back. *)
WriteBack(p) ==
  /\ disk[p] # file[p] /\ disk' = [disk EXCEPT ![p] = file[p]]
  /\ UNCHANGED <<call, temp, arg, file>>

(* The power fails and comes back: paths name what they name on the disk, and
   content that was never synced may be missing. *)
PowerLoss ==
  /\ \E S \in SUBSET {p \in DOMAIN disk : ~disk[p].synced} :
       file' = [p \in DOMAIN disk |-> IF p \in S THEN Torn ELSE disk[p]]
  /\ disk' = file'
  /\ Forget(Run)

-----------------------------------------------------------------------------
File == [value : {{}} \cup {{v} : v \in Value}, synced : BOOLEAN]

(* The values of the variables. *)
AtomicTypeOK ==
  /\ call \in [Run -> Calls]
  /\ temp \in [Run -> {"none", "cached", "synced"}]
  /\ arg \in [Run -> {{}} \cup {{a} : a \in [path : Path, value : Value]}]
  /\ file \in [Path -> File] /\ disk \in [Path -> File]

(* A reader finds no file or a whole payload, and so it is after a power loss. *)
NeverTorn == \A p \in DOMAIN file : file[p] # Torn

(* A call that returned has replaced its file once, as a whole; one that raised
   has done so too, or has changed nothing, as one whose process ended first, and
   never will; a power loss takes files back to what the disk held, whole: see
   DurableFile. *)
Writing == {"write", "sync", "replace"}
Durable == INSTANCE DurableFile WITH
  asked <- [r \in Run |-> IF call[r] \in Writing THEN arg[r] ELSE {}],
  answer <- [r \in Run |-> CASE call[r] = "unlink" -> "happened"
                             [] call[r] = "returned" -> "written"
                             [] call[r] \in {"giveup", "raised"} -> "failed"
                             [] OTHER -> "none"],
  content <- [p \in Path |-> file[p].value],
  durable <- [p \in Path |-> disk[p].value]
ImplementsFile == Durable!Spec

(* Why: what has the name of a path was synced before it got it. *)
SyncedInv ==
  /\ \A p \in DOMAIN file : file[p].synced /\ disk[p].synced
  /\ \A r \in Run : call[r] = "replace" => temp[r] = "synced"

=============================================================================
