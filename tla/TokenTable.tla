----------------------------- MODULE TokenTable -----------------------------
(***************************************************************************)
(* What the token registry promises the rest of the gateway, whatever      *)
(* waits, overlaps or fails inside it: a table that every request changes  *)
(* at most once, in one record and in one step, that only the request's    *)
(* own failure undoes, and that a restart brings back as it was at some    *)
(* earlier moment, or empty, and never as a mixture of two moments.        *)
(*                                                                         *)
(* TokenRegistry implements it.                                            *)
(***************************************************************************)
CONSTANTS
  Requests,  \* admin requests; a record is known by the request that created it
  Ids,       \* the records, those there were at the start included
  Names,
  None

VARIABLES
  table,    \* the status of every record: what validate answers from
  name,     \* the name of each record
  op,       \* "create" or "revoke"
  target,   \* the record a request is about
  phase,    \* how far it is
  before,   \* the status its target had before its change
  images,   \* the tables on the disk or on their way to it
  durable   \* the one that a restart would bring back

vars == <<table, name, op, target, phase, before, images, durable>>

Blank == [i \in Ids |-> "absent"]

Init ==
  /\ table \in [Ids -> {"absent", "active"}]
  /\ \A r \in Requests : table[r] = "absent"
  /\ name \in [Ids -> Names \cup {None}]
  /\ op = [r \in Requests |-> "create"]
  /\ target = [r \in Requests |-> r]
  /\ phase = [r \in Requests |-> "idle"]
  /\ before = [r \in Requests |-> "absent"]
  /\ images = {Blank, table}
  /\ durable = table

GoTo(r, to) == phase' = [phase EXCEPT ![r] = to]

\* What happens to the disk meanwhile: the table as it is may be on its way to it, and
\* one that is becomes the durable one.
Disk ==
  /\ images' \subseteq images \cup {table}
  /\ durable' \in images'

Submit(r) ==
  /\ phase[r] = "idle"
  /\ GoTo(r, "asked")
  /\ \/ \E n \in Names : name' = [name EXCEPT ![r] = n] /\ UNCHANGED <<op, target>>
     \/ /\ op' = [op EXCEPT ![r] = "revoke"]
        /\ \E i \in Ids : target' = [target EXCEPT ![r] = i]
        /\ UNCHANGED name
  /\ UNCHANGED <<table, before>>

Taken(n) == \E i \in Ids : table[i] # "absent" /\ name[i] = n

Refuse(r) ==
  /\ phase[r] = "asked"
  /\ \/ op[r] = "create" /\ Taken(name[r]) /\ GoTo(r, "conflict")
     \/ op[r] = "revoke" /\ table[target[r]] = "absent" /\ GoTo(r, "notfound")
  /\ UNCHANGED <<table, name, op, target, before>>

\* The one moment at which a request changes the table.
Apply(r) ==
  /\ phase[r] = "asked"
  /\ \/ /\ op[r] = "create" /\ ~Taken(name[r])
        /\ table' = [table EXCEPT ![r] = "active"]
        /\ UNCHANGED before
     \/ /\ op[r] = "revoke" /\ table[target[r]] # "absent"
        /\ table' = [table EXCEPT ![target[r]] = "revoked"]
        /\ before' = [before EXCEPT ![r] = table[target[r]]]
  /\ GoTo(r, "applied")
  /\ UNCHANGED <<name, op, target>>

\* It is answered 200 only after that, and without another change.
Commit(r) ==
  /\ phase[r] = "applied"
  /\ GoTo(r, "ok")
  /\ UNCHANGED <<table, name, op, target, before>>

\* Answered 500, it has put its own record back, and no other.
Abort(r) ==
  /\ phase[r] = "applied"
  /\ table' = [table EXCEPT ![target[r]] = IF @ = "absent" THEN @ ELSE before[r]]
  /\ GoTo(r, "failed")
  /\ UNCHANGED <<name, op, target, before>>

Pending(r) == phase[r] \in {"asked", "applied"}

\* Its client is gone; the change stays.
Lose(r) ==
  /\ Pending(r)
  /\ GoTo(r, "lost")
  /\ UNCHANGED <<table, name, op, target, before>>

Restart ==
  /\ table' = durable
  /\ phase' = [r \in Requests |-> IF Pending(r) THEN "lost" ELSE phase[r]]
  /\ images' \subseteq images
  /\ UNCHANGED <<durable, name, op, target, before>>

Serve(r) == Submit(r) \/ Refuse(r) \/ Apply(r) \/ Commit(r) \/ Abort(r) \/ Lose(r)

Next ==
  \/ (\E r \in Requests : Serve(r)) /\ Disk
  \/ UNCHANGED <<table, name, op, target, phase, before>> /\ Disk
  \/ Restart

Spec == Init /\ [][Next]_vars

=============================================================================
