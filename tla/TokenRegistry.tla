--------------------------- MODULE TokenRegistry ---------------------------
(***************************************************************************)
(* The gateway's token registry (registry.rs): an in-memory table of named *)
(* tokens behind a readers/writer lock, mirrored to tokens.json by writing *)
(* a temporary file and renaming it over the old one.                      *)
(*                                                                         *)
(* Every admin request (POST /admin/tokens, DELETE /admin/tokens/{id}) is  *)
(* a task.  It changes the table under the write guard, drops the guard,   *)
(* persists the whole table under a read guard, and undoes its own change  *)
(* under a second write guard when persisting fails.  File operations run  *)
(* on a thread of the blocking pool: a task dropped while it waits for one *)
(* (its client went away) loses its guard at once, and the file operation  *)
(* still runs to its end.                                                  *)
(***************************************************************************)
EXTENDS Naturals

CONSTANTS
  Requests,    \* admin requests; each is submitted at most once
  Boot,        \* records already in tokens.json when the history starts
  Names,       \* token names
  BootInode,   \* the inode of the initial tokens.json
  None,        \* "no such file", "no name yet"
  Empty,       \* contents of a file just truncated
  Torn,        \* a mixture of two writes; like Empty, not a JSON document
  MaxFaults,   \* bound: I/O errors the disk may report
  MaxCancels,  \* bound: tasks dropped because their client went away
  MaxCrashes   \* bound: process crashes

ASSUME RegistryAssumption ==
  /\ Requests \cap Boot = {}
  /\ BootInode \notin Requests
  /\ None \notin Requests \cup {BootInode} \cup Names
  /\ MaxFaults \in Nat /\ MaxCancels \in Nat /\ MaxCrashes \in Nat

\* A record is identified by the request that created it (Uuid::new_v4).
Ids == Requests \cup Boot

\* What the table holds of an id: nothing, or a record with its status.
Status == {"absent", "active", "revoked"}
Table == [Ids -> Status]

\* A persist that finds no tokens.tmp creates an inode of its own.
Inodes == Requests \cup {BootInode}

\* The await points of create_token, revoke_token and persist.
Waiting == {"lock", "persist", "write", "rename", "undo"}

\* 200, 409, 404, 500, and "the client got no answer".
Answers == {"ok", "conflict", "notfound", "failed", "lost"}

Unparsable == {Empty, Torn}

ASSUME ContentAssumption == Empty # Torn /\ Unparsable \cap Table = {}

VARIABLES
  tokens,    \* the in-memory table
  name,      \* the name of each record, given by the request that creates it
  readers,   \* tasks that hold a read guard across an await (in persist)
  pc,        \* where each request is
  op,        \* "create" or "revoke"
  target,    \* the record a request is about
  prev,      \* revoke_token's previous_status
  snap,      \* the serialised table a persist is writing
  job,       \* the file operation of a task running on the blocking pool
  fd,        \* the inode that the write of a task has open
  tmp,       \* what tokens.tmp names
  file,      \* what tokens.json names
  data,      \* contents of the inodes
  last,      \* how the request that ended last ended
  budget     \* faults, cancellations and crashes that may still happen

taskVars == <<pc, op, target, prev, snap>>
diskVars == <<job, fd, tmp, file, data>>
vars == <<tokens, name, readers, taskVars, diskVars, last, budget>>

-----------------------------------------------------------------------------
(* The table                                                               *)

NoTokens == [i \in Ids |-> "absent"]

\* validate: a token authenticates exactly while its record is Active.
Validates(i) == tokens[i] = "active"

\* Variant: the name of a revoked record may be used again.
NameTakenByActive(n) == \E i \in Ids : tokens[i] = "active" /\ name[i] = n

\* create_token refuses a name that any record has, a revoked one included.
NameTaken(n) == \E i \in Ids : tokens[i] # "absent" /\ name[i] = n

\* A write guard is granted once every read guard is dropped.
CanWrite == readers = {}

\* Variant: the contents of the file are taken as they are.
LoadUnparsed == IF file = None THEN NoTokens ELSE data[file]

\* load_or_create: a missing or unparsable file is an empty table.
Load ==
  IF file = None THEN NoTokens
  ELSE IF data[file] \in Unparsable THEN NoTokens
  ELSE data[file]

InFlight(r) == pc[r] \in Waiting

\* The task of r ends with answer a and drops the guards it holds.
Answer(r, a) ==
  /\ pc' = [pc EXCEPT ![r] = a]
  /\ readers' = readers \ {r}
  /\ last' = a

\* Variant: the rollback is awaited while persist's read guard is still held.
PersistFailedGuarded(r) ==
  /\ pc' = [pc EXCEPT ![r] = "undo"]
  /\ UNCHANGED <<readers, last>>

\* Persisting failed: the read guard is dropped, the change is undone next.
PersistFailed(r) ==
  /\ pc' = [pc EXCEPT ![r] = "undo"]
  /\ readers' = readers \ {r}
  /\ UNCHANGED last

Spend(kind) ==
  /\ budget[kind] > 0
  /\ budget' = [budget EXCEPT ![kind] = @ - 1]

Init ==
  /\ tokens = [i \in Ids |-> IF i \in Boot THEN "active" ELSE "absent"]
  /\ name \in [Ids -> Names \cup {None}]
  /\ \A i \in Ids : name[i] = None <=> i \in Requests
  /\ \A a, b \in Boot : name[a] = name[b] => a = b
  /\ readers = {}
  /\ pc = [r \in Requests |-> "idle"]
  /\ op = [r \in Requests |-> "create"]
  /\ target = [r \in Requests |-> r]
  /\ prev = [r \in Requests |-> "absent"]
  /\ snap = [r \in Requests |-> NoTokens]
  /\ job = [r \in Requests |-> "none"]
  /\ fd = [r \in Requests |-> None]
  /\ tmp = None
  /\ file = IF Boot = {} THEN None ELSE BootInode
  /\ data = [i \in Inodes |-> IF i = BootInode THEN tokens ELSE Empty]
  /\ last = "none"
  /\ budget = [fault |-> MaxFaults, cancel |-> MaxCancels, crash |-> MaxCrashes]

-----------------------------------------------------------------------------
(* Requests arrive                                                         *)

SubmitCreate(r, n) ==
  /\ pc[r] = "idle"
  /\ pc' = [pc EXCEPT ![r] = "lock"]
  /\ name' = [name EXCEPT ![r] = n]
  /\ UNCHANGED <<tokens, readers, op, target, prev, snap, diskVars, last, budget>>

SubmitRevoke(r, i) ==
  /\ pc[r] = "idle"
  /\ pc' = [pc EXCEPT ![r] = "lock"]
  /\ op' = [op EXCEPT ![r] = "revoke"]
  /\ target' = [target EXCEPT ![r] = i]
  /\ UNCHANGED <<tokens, name, readers, prev, snap, diskVars, last, budget>>

-----------------------------------------------------------------------------
(* Under the write guard                                                   *)

\* create_token finds the name in use.
RefuseName(r) ==
  /\ pc[r] = "lock" /\ op[r] = "create" /\ CanWrite
  /\ NameTaken(name[r])
  /\ Answer(r, "conflict")
  /\ UNCHANGED <<tokens, name, op, target, prev, snap, diskVars, budget>>

\* Variant: the name is not looked up again under the write guard.
PushUnchecked(r) ==
  /\ pc[r] = "lock" /\ op[r] = "create" /\ CanWrite
  /\ tokens' = [tokens EXCEPT ![r] = "active"]
  /\ pc' = [pc EXCEPT ![r] = "persist"]
  /\ UNCHANGED <<name, readers, op, target, prev, snap, diskVars, last, budget>>

\* create_token pushes the record and drops the guard before it persists.
PushRecord(r) ==
  /\ pc[r] = "lock" /\ op[r] = "create" /\ CanWrite
  /\ ~NameTaken(name[r])
  /\ tokens' = [tokens EXCEPT ![r] = "active"]
  /\ pc' = [pc EXCEPT ![r] = "persist"]
  /\ UNCHANGED <<name, readers, op, target, prev, snap, diskVars, last, budget>>

RevokeUnknown(r) ==
  /\ pc[r] = "lock" /\ op[r] = "revoke" /\ CanWrite
  /\ tokens[target[r]] = "absent"
  /\ Answer(r, "notfound")
  /\ UNCHANGED <<tokens, name, op, target, prev, snap, diskVars, budget>>

\* Variant: the revocation is answered before it is persisted.
MarkAndAnswer(r) ==
  /\ pc[r] = "lock" /\ op[r] = "revoke" /\ CanWrite
  /\ tokens[target[r]] # "absent"
  /\ tokens' = [tokens EXCEPT ![target[r]] = "revoked"]
  /\ Answer(r, "ok")
  /\ UNCHANGED <<name, op, target, prev, snap, diskVars, budget>>

\* revoke_token marks the record, whatever its status was.
MarkRevoked(r) ==
  /\ pc[r] = "lock" /\ op[r] = "revoke" /\ CanWrite
  /\ tokens[target[r]] # "absent"
  /\ prev' = [prev EXCEPT ![r] = tokens[target[r]]]
  /\ tokens' = [tokens EXCEPT ![target[r]] = "revoked"]
  /\ pc' = [pc EXCEPT ![r] = "persist"]
  /\ UNCHANGED <<name, readers, op, target, snap, diskVars, last, budget>>

\* Variant: the rollback puts the serialised table back, less the new record.
UndoFromSnapshot(r) ==
  /\ pc[r] = "undo" /\ CanWrite
  /\ tokens' = IF op[r] = "create" THEN [snap[r] EXCEPT ![r] = "absent"]
                ELSE [snap[r] EXCEPT ![target[r]] = prev[r]]
  /\ Answer(r, "failed")
  /\ UNCHANGED <<name, op, target, prev, snap, diskVars, budget>>

\* Variant: the rollback of a revocation drops the record it could not mark.
UndoDrops(r) ==
  /\ pc[r] = "undo" /\ CanWrite
  /\ tokens' = [tokens EXCEPT ![target[r]] = "absent"]
  /\ Answer(r, "failed")
  /\ UNCHANGED <<name, op, target, prev, snap, diskVars, budget>>

\* The rollback after a failed persist; the request is then answered 500.
Undo(r) ==
  /\ pc[r] = "undo" /\ CanWrite
  /\ tokens' = [tokens EXCEPT ![target[r]] =
                  IF op[r] = "create" THEN "absent"
                  ELSE IF @ = "absent" THEN @ ELSE prev[r]]
  /\ Answer(r, "failed")
  /\ UNCHANGED <<name, op, target, prev, snap, diskVars, budget>>

-----------------------------------------------------------------------------
(* persist                                                                 *)

\* create_dir_all fails.
DirFails(r) ==
  /\ pc[r] = "persist"
  /\ Spend("fault")
  /\ PersistFailed(r)
  /\ UNCHANGED <<tokens, name, op, target, prev, snap, diskVars>>

\* Variant: the read guard is dropped as soon as the table is serialised.
SnapshotUnguarded(r) ==
  /\ pc[r] = "persist"
  /\ snap' = [snap EXCEPT ![r] = tokens]
  /\ pc' = [pc EXCEPT ![r] = "write"]
  /\ job' = [job EXCEPT ![r] = "open"]
  /\ UNCHANGED <<tokens, name, readers, op, target, prev, fd, tmp, file, data, last, budget>>

\* The read guard is taken, the table serialised, and the write handed to the
\* blocking pool.  The guard is kept until persist returns.
TakeSnapshot(r) ==
  /\ pc[r] = "persist"
  /\ readers' = readers \cup {r}
  /\ snap' = [snap EXCEPT ![r] = tokens]
  /\ pc' = [pc EXCEPT ![r] = "write"]
  /\ job' = [job EXCEPT ![r] = "open"]
  /\ UNCHANGED <<tokens, name, op, target, prev, fd, tmp, file, data, last, budget>>

\* fs::write, first half: open tokens.tmp, create or truncate it.
OpenTmp(r) ==
  LET i == IF tmp = None THEN r ELSE tmp IN
  /\ job[r] = "open"
  /\ job' = [job EXCEPT ![r] = "write"]
  /\ fd' = [fd EXCEPT ![r] = i]
  /\ tmp' = i
  /\ data' = [data EXCEPT ![i] = Empty]
  /\ UNCHANGED <<tokens, name, readers, taskVars, file, last, budget>>

\* The JSON of a table is no longer than that of another which has at least its records:
\* "active" is shorter than "revoked", and everything else of a record never changes.
NoLonger(table, other) ==
  \A id \in Ids : table[id] = "absent" \/ table[id] = other[id]
                 \/ (table[id] = "active" /\ other[id] = "revoked")

\* What the inode holds once r wrote its snapshot at offset 0: bytes of a longer
\* document already there stay behind it, and then it does not parse.
Written(r) ==
  LET old == data[fd[r]] IN
  IF old = Empty THEN {snap[r]}
  ELSE IF old = Torn THEN {snap[r], Torn}
  ELSE IF NoLonger(old, snap[r]) THEN {snap[r]}
  ELSE IF NoLonger(snap[r], old) THEN {Torn}
  ELSE {snap[r], Torn}

\* fs::write, second half; the task, if it is still there, then asks for the rename.
WriteTmp(r) ==
  /\ job[r] = "write"
  /\ \E c \in Written(r) : data' = [data EXCEPT ![fd[r]] = c]
  /\ IF pc[r] = "write"
       THEN /\ pc' = [pc EXCEPT ![r] = "rename"]
            /\ job' = [job EXCEPT ![r] = "rename"]
       ELSE /\ job' = [job EXCEPT ![r] = "none"]
            /\ UNCHANGED pc
  /\ UNCHANGED <<tokens, name, readers, op, target, prev, snap, fd, tmp, file, last, budget>>

\* The operation of r ended with an error; only a live task hears of it.
JobFailed(r) ==
  /\ job' = [job EXCEPT ![r] = "none"]
  /\ IF InFlight(r) THEN PersistFailed(r) ELSE UNCHANGED <<pc, readers, last>>

OpenFails(r) ==
  /\ job[r] = "open"
  /\ Spend("fault")
  /\ JobFailed(r)
  /\ UNCHANGED <<tokens, name, op, target, prev, snap, fd, tmp, file, data>>

\* The disk is full after some of the bytes, or before the first.
WriteFails(r) ==
  /\ job[r] = "write"
  /\ Spend("fault")
  /\ \E c \in {data[fd[r]], Torn} : data' = [data EXCEPT ![fd[r]] = c]
  /\ JobFailed(r)
  /\ UNCHANGED <<tokens, name, op, target, prev, snap, fd, tmp, file>>

Rename(r) ==
  /\ job[r] = "rename" /\ tmp # None
  /\ file' = tmp
  /\ tmp' = None
  /\ job' = [job EXCEPT ![r] = "none"]
  /\ IF InFlight(r) THEN Answer(r, "ok") ELSE UNCHANGED <<pc, readers, last>>
  /\ UNCHANGED <<tokens, name, op, target, prev, snap, fd, data, budget>>

\* Another persist has renamed the shared tokens.tmp away.
RenameMissing(r) ==
  /\ job[r] = "rename" /\ tmp = None
  /\ JobFailed(r)
  /\ UNCHANGED <<tokens, name, op, target, prev, snap, fd, tmp, file, data, budget>>

RenameFails(r) ==
  /\ job[r] = "rename" /\ tmp # None
  /\ Spend("fault")
  /\ JobFailed(r)
  /\ UNCHANGED <<tokens, name, op, target, prev, snap, fd, tmp, file, data>>

-----------------------------------------------------------------------------
(* The environment                                                         *)

\* The client goes away: the server drops the task at its await point.
Cancel(r) ==
  /\ InFlight(r)
  /\ Spend("cancel")
  /\ Answer(r, "lost")
  /\ UNCHANGED <<tokens, name, op, target, prev, snap, diskVars>>

\* The process dies with all its tasks and threads, and starts again.
CrashRestart ==
  /\ Spend("crash")
  /\ tokens' = Load
  /\ readers' = {}
  /\ pc' = [r \in Requests |-> IF InFlight(r) THEN "lost" ELSE pc[r]]
  /\ job' = [r \in Requests |-> "none"]
  /\ last' = "none"
  /\ UNCHANGED <<name, op, target, prev, snap, fd, tmp, file, data>>

Submit(r) ==
  \/ \E n \in Names : SubmitCreate(r, n)
  \/ \E i \in Ids : SubmitRevoke(r, i)

\* The steps the runtime and the disk take for r without an error of the disk.
Serve(r) ==
  \/ RefuseName(r) \/ PushRecord(r) \/ RevokeUnknown(r) \/ MarkRevoked(r)
  \/ TakeSnapshot(r) \/ OpenTmp(r) \/ WriteTmp(r)
  \/ Rename(r) \/ RenameMissing(r) \/ Undo(r)

DiskError(r) ==
  DirFails(r) \/ OpenFails(r) \/ WriteFails(r) \/ RenameFails(r)

Done ==
  /\ \A r \in Requests : pc[r] \in Answers /\ job[r] = "none"
  /\ UNCHANGED vars

Next ==
  \/ \E r \in Requests : Submit(r) \/ Serve(r) \/ DiskError(r) \/ Cancel(r)
  \/ CrashRestart
  \/ Done

Spec == Init /\ [][Next]_vars

\* The runtime polls a task that can go on and the pool runs every operation.
Fairness == \A r \in Requests : WF_vars(Serve(r))

FairSpec == Spec /\ Fairness

-----------------------------------------------------------------------------
(* Properties                                                              *)

TypeOK ==
  /\ tokens \in Table
  /\ name \in [Ids -> Names \cup {None}]
  /\ readers \in SUBSET Requests
  /\ pc \in [Requests -> {"idle"} \cup Waiting \cup Answers]
  /\ op \in [Requests -> {"create", "revoke"}]
  /\ target \in [Requests -> Ids]
  /\ prev \in [Requests -> Status]
  /\ snap \in [Requests -> Table]
  /\ job \in [Requests -> {"none", "open", "write", "rename"}]
  /\ fd \in [Requests -> Inodes \cup {None}]
  /\ tmp \in Inodes \cup {None}
  /\ file \in Inodes \cup {None}
  /\ data \in [Inodes -> Table \cup Unparsable]
  /\ last \in Answers \cup {"none"}
  /\ budget \in [{"fault", "cancel", "crash"} -> Nat]

UniqueIn(table) ==
  \A a, b \in Ids :
    table[a] # "absent" /\ table[b] # "absent" /\ name[a] = name[b] => a = b

\* No two records share a name, whatever two creates race for it, in memory and
\* in every file a restart may load: create_token checks and pushes under one
\* write guard (registry.rs:84-106).
NamesUnique ==
  /\ UniqueIn(tokens)
  /\ \A i \in Inodes : data[i] \notin Unparsable => UniqueIn(data[i])

\* From its snapshot until its rename, what a persist serialised is what the table
\* holds: no change slips in between, so persists that overlap write the same
\* document (registry.rs:158-163).
SnapshotIsMemory == \A r \in Requests : pc[r] \in {"write", "rename"} => snap[r] = tokens

Quiet == \A r \in Requests : ~InFlight(r) /\ job[r] = "none"

\* When nothing is in flight and the request that ended last was answered 200,
\* tokens.json holds exactly the table, whatever failed before it.
LastSuccessDurable ==
  Quiet /\ last = "ok" => file # None /\ data[file] = tokens

\* A token whose creation was answered 200 keeps its record until the process
\* restarts: the rollback of another request never takes it away
\* (registry.rs:107-111).
AckedCreateHeld ==
  budget.crash = MaxCrashes =>
    \A r \in Requests :
      pc[r] = "ok" /\ op[r] = "create" => tokens[r] # "absent"

RevokesOf(i) == {r \in Requests : op[r] = "revoke" /\ target[r] = i}

\* A token whose revocation was answered 200 never authenticates again, through
\* failing requests and restarts, as long as nobody else revokes it too.
SoleRevokeHolds ==
  \A r \in Requests :
    pc[r] = "ok" /\ RevokesOf(target[r]) = {r} => ~Validates(target[r])

\* A token whose revocation was answered 200 never authenticates again
\* ("Revocation takes effect immediately", docs/USING.md:294).
AckedRevokeHolds ==
  \A r \in Requests :
    pc[r] = "ok" /\ op[r] = "revoke" => ~Validates(target[r])

\* Every request that reaches the gateway is answered or loses its client: no
\* task waits forever for a guard another one keeps.
EveryRequestEnds == \A r \in Requests : InFlight(r) ~> ~InFlight(r)

-----------------------------------------------------------------------------
(* The table that the rest of the gateway relies on                        *)

PhaseOf(r) ==
  IF pc[r] = "lock" THEN "asked"
  ELSE IF pc[r] \in Waiting THEN "applied"
  ELSE pc[r]

\* What a restart may find once the operations under way have ended.
Images ==
  {NoTokens} \cup {data[i] : i \in {j \in Inodes : data[j] \notin Unparsable}}
             \cup {snap[r] : r \in {q \in Requests : job[q] # "none"}}

TableOf == INSTANCE TokenTable WITH
  table <- tokens, phase <- [r \in Requests |-> PhaseOf(r)], before <- prev,
  images <- Images, durable <- Load

\* The registry implements TokenTable: every request changes the table in one step, only
\* its own rollback undoes that, and a restart brings back a table there was or none
\* (registry.rs:58-164).
ImplementsTable == TableOf!Spec
=============================================================================
