----------------------------- MODULE Provenance -----------------------------
(***************************************************************************)
(* collect_provenance (provenance.py): the identity of the installed       *)
(* package, from the state of its files.                                   *)
(***************************************************************************)
EXTENDS Sequences

(* An installation: direct_url.json, and its RECORD files in their order: rows,
   each with the kind of its hash and how the file compares to it, up to the end
   or to a line that is no CSV. *)
DirectUrls == {"absent", "plain", "editable", "unreadable", "malformed"}
Rows == [hash : {"none", "sha256", "other"}, file : {"same", "changed", "missing"}]
Records == [rows : SUBSET Rows, whole : BOOLEAN]
Installations == [present : BOOLEAN, direct : DirectUrls, record : Seq(Records)]

Hashed(rows) == {row \in rows : row.hash # "none"}
Matches(rows) == \A row \in Hashed(rows) : row.hash = "sha256" /\ row.file = "same"

(* A row that does not match raises a ProvenanceError; a csv.Error is none, nor
   one of the errors that are turned into one. *)
VerifyRecord(record) ==
  CASE ~Matches(record.rows) -> "ERROR"
    [] Matches(record.rows) /\ ~record.whole -> "ESCAPES"
    [] OTHER -> IF Hashed(record.rows) # {} THEN "VALIDATED" ELSE "ERROR"

(* _verify_wheel returns, raises a ProvenanceError, or raises what its callers
   do not expect (direct.get of JSON that is no object, a csv.Error).  Of several
   RECORD files it takes the first. *)
VerifyWheel(dist) ==
  CASE ~dist.present -> "ERROR"
    [] dist.present /\ dist.direct = "malformed" -> "ESCAPES"
    [] dist.present /\ dist.direct \in {"unreadable", "editable"} -> "ERROR"
    [] OTHER -> IF dist.record # <<>> THEN VerifyRecord(Head(dist.record)) ELSE "ERROR"

(* Without a source root, as in run_job. *)
CollectProvenance(strict, dist) ==
  LET wheel == VerifyWheel(dist)
  IN  IF wheel = "ERROR" /\ ~strict THEN "UNVERIFIED" ELSE wheel

-----------------------------------------------------------------------------
(* What strict mode promises: a regular installation, and of each file that its
   RECORD, the first of that name, lists with a hash, the content. *)
Genuine(dist) ==
  /\ dist.present /\ dist.direct \in {"absent", "plain"}
  /\ dist.record # <<>> /\ dist.record[1].whole
  /\ \E row \in dist.record[1].rows : row.hash = "sha256"
  /\ \A row \in dist.record[1].rows : row.hash # "none" => row.file = "same"

=============================================================================
