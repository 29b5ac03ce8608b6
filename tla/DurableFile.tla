---------------------------- MODULE DurableFile ----------------------------
(***************************************************************************)
(* What the callers of atomic_json rely on: a write of a file happens as a *)
(* whole or not at all, one that is reported as done has happened, and a   *)
(* power loss takes files back to what they were, whole, at some time      *)
(* before.                                                                 *)
(***************************************************************************)
CONSTANTS
  Run,      \* processes that write
  Path, Value

VARIABLES
  asked,    \* asked[r]: the path and value of r's write that is under way
  answer,   \* answer[r]: whether r's write has happened, then what r is told
  content,  \* content[p]: what a reader of p finds
  durable   \* durable[p]: what it finds after a power loss

vars == <<asked, answer, content, durable>>

Answer(r, told) ==
  /\ asked' = [asked EXCEPT ![r] = {}]
  /\ answer' = [answer EXCEPT ![r] = told]

Init ==
  /\ asked = [r \in Run |-> {}] /\ answer = [r \in Run |-> "none"]
  /\ content = [p \in Path |-> {}] /\ durable = content

Ask(r, p, v) ==
  /\ asked[r] = {} /\ answer[r] = "none"
  /\ asked' = [asked EXCEPT ![r] = {[path |-> p, value |-> v]}]
  /\ UNCHANGED <<answer, content, durable>>

Happen(r) ==
  /\ \E a \in asked[r] : content' = [content EXCEPT ![a.path] = {a.value}]
  /\ Answer(r, "happened")
  /\ UNCHANGED durable

(* The caller of a write that has happened is told so, or of an error after it. *)
Tell(r) ==
  /\ answer[r] = "happened"
  /\ \E told \in {"written", "failed"} : Answer(r, told)
  /\ UNCHANGED <<content, durable>>

(* Nothing has happened, nor will it. *)
Fail(r) ==
  /\ asked[r] # {}
  /\ Answer(r, "failed")
  /\ UNCHANGED <<content, durable>>

Listen(r) ==
  /\ answer[r] \in {"written", "failed"}
  /\ Answer(r, "none")
  /\ UNCHANGED <<content, durable>>

(* The process of r ends, and with it a write that has not happened. *)
Perish(r) == Answer(r, "none") /\ UNCHANGED <<content, durable>>

Persist(p) ==
  /\ durable' = [durable EXCEPT ![p] = content[p]]
  /\ UNCHANGED <<asked, answer, content>>

PowerLoss ==
  /\ content' = durable
  /\ asked' = [r \in Run |-> {}] /\ answer' = [r \in Run |-> "none"]
  /\ UNCHANGED durable

Next ==
  \/ \E r \in Run :
       \/ \E p \in Path, v \in Value : Ask(r, p, v)
       \/ Happen(r) \/ Tell(r) \/ Fail(r) \/ Listen(r) \/ Perish(r)
  \/ \E p \in Path : Persist(p)
  \/ PowerLoss

Spec == Init /\ [][Next]_vars

=============================================================================
