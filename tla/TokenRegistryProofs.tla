------------------------ MODULE TokenRegistryProofs ------------------------
(***************************************************************************)
(* Proofs about TokenRegistry for every set of requests and names and any  *)
(* number of disk faults, cancellations and crashes: its invariants, and   *)
(* that it implements TokenTable.                                          *)
(***************************************************************************)
EXTENDS TokenRegistry, TLAPS

\* A read guard is held across an await exactly by the tasks that write or rename.
GuardsMatch == \A r \in Requests : r \in readers <=> pc[r] \in {"write", "rename"}

\* A create is about its own record.
OwnRecord == \A r \in Requests : op[r] = "create" => target[r] = r

\* A file operation of a task that is still there belongs to its persist.
JobOfPersist ==
  \A r \in Requests : job[r] # "none" => pc[r] \in {"write", "rename"} \cup Answers

\* Between the change of the table and the answer.
Changed == {"persist", "write", "rename", "undo"}

\* A revoke that may still roll back remembers the status of a real record.
PrevIsStatus ==
  \A r \in Requests : op[r] = "revoke" /\ pc[r] \in Changed => prev[r] # "absent"

CrashBudget == budget["crash"] <= MaxCrashes

\* From its push until its answer, and ever after a 200, a create has its record.
CreatedPresent ==
  budget["crash"] = MaxCrashes =>
    \A r \in Requests :
      op[r] = "create" /\ pc[r] \in Changed \cup {"ok"} => tokens[r] # "absent"

TableInv ==
  /\ TypeOK
  /\ GuardsMatch
  /\ JobOfPersist
  /\ SnapshotIsMemory
  /\ OwnRecord
  /\ PrevIsStatus
  /\ CrashBudget
  /\ CreatedPresent

\* No table anywhere knows a request that has not been submitted.
FreshIds ==
  \A r \in Requests : pc[r] = "idle" =>
    /\ tokens[r] = "absent"
    /\ \A q \in Requests : snap[q][r] = "absent"
    /\ \A i \in Inodes : data[i] \notin Unparsable => data[i][r] = "absent"

SnapshotsUnique == \A r \in Requests : UniqueIn(snap[r])

NamesInv == NamesUnique /\ FreshIds /\ SnapshotsUnique

-----------------------------------------------------------------------------

\* What a restart loads is a table.
LEMMA LoadIsTable == TypeOK => Load \in Table
  BY DEF TypeOK, Load, NoTokens, Table, Status, Unparsable

\* The initial state is well typed.
LEMMA InitTyped == Init => TypeOK
<1> SUFFICES ASSUME Init PROVE TypeOK
  OBVIOUS
<1>1. tokens \in Table /\ NoTokens \in Table
  BY DEF Init, Table, Status, NoTokens
<1>2. budget \in [{"fault", "cancel", "crash"} -> Nat]
  BY RegistryAssumption DEF Init
<1>3. /\ data \in [Inodes -> Table \cup Unparsable]
      /\ file \in Inodes \cup {None}
  BY <1>1 DEF Init, Inodes, Unparsable
<1> QED
  BY <1>1, <1>2, <1>3 DEF Init, TypeOK, Ids, Status, Answers, Waiting

\* Every step keeps the state well typed.
LEMMA StepTyped == TypeOK /\ [Next]_vars => TypeOK'
<1> SUFFICES ASSUME TypeOK, [Next]_vars PROVE TypeOK'
  OBVIOUS
<1> USE DEF TypeOK, taskVars, diskVars
<1>1. ASSUME NEW r \in Requests, Submit(r) PROVE TypeOK'
  BY <1>1 DEF Submit, SubmitCreate, SubmitRevoke, Waiting
<1>2. ASSUME NEW r \in Requests, RefuseName(r) PROVE TypeOK'
  BY <1>2 DEF RefuseName, Answer, Answers
<1>3. ASSUME NEW r \in Requests, PushRecord(r) PROVE TypeOK'
  BY <1>3 DEF PushRecord, Waiting, Table, Status, Ids
<1>4. ASSUME NEW r \in Requests, RevokeUnknown(r) PROVE TypeOK'
  BY <1>4 DEF RevokeUnknown, Answer, Answers
<1>5. ASSUME NEW r \in Requests, MarkRevoked(r) PROVE TypeOK'
  BY <1>5 DEF MarkRevoked, Waiting, Table, Status
<1>6. ASSUME NEW r \in Requests, Undo(r) PROVE TypeOK'
  <2>1. tokens' \in Table
    BY <1>6 DEF Undo, Table, Status
  <2> QED
    BY <1>6, <2>1 DEF Undo, Answer, Answers
<1>7. ASSUME NEW r \in Requests, TakeSnapshot(r) PROVE TypeOK'
  BY <1>7 DEF TakeSnapshot, Waiting
<1>8. ASSUME NEW r \in Requests, OpenTmp(r) PROVE TypeOK'
  BY <1>8 DEF OpenTmp, Inodes, Unparsable
<1>9. ASSUME NEW r \in Requests, WriteTmp(r) PROVE TypeOK'
  <2>1. data' \in [Inodes -> Table \cup Unparsable]
    BY <1>9 DEF WriteTmp, Written, Unparsable
  <2>2. /\ pc' \in [Requests -> {"idle"} \cup Waiting \cup Answers]
        /\ job' \in [Requests -> {"none", "open", "write", "rename"}]
    BY <1>9 DEF WriteTmp, Waiting
  <2> QED
    BY <1>9, <2>1, <2>2 DEF WriteTmp
<1>10. ASSUME NEW r \in Requests, Rename(r) PROVE TypeOK'
  BY <1>10 DEF Rename, Answer, Answers
<1>11. ASSUME NEW r \in Requests, RenameMissing(r) PROVE TypeOK'
  BY <1>11 DEF RenameMissing, JobFailed, PersistFailed, Waiting
<1>12. ASSUME NEW r \in Requests, DiskError(r) PROVE TypeOK'
  <2>1. budget' \in [{"fault", "cancel", "crash"} -> Nat]
    BY <1>12 DEF DiskError, DirFails, OpenFails, WriteFails, RenameFails, Spend
  <2>2. CASE DirFails(r)
    BY <2>1, <2>2 DEF DirFails, PersistFailed, Waiting
  <2>3. CASE OpenFails(r)
    BY <2>1, <2>3 DEF OpenFails, JobFailed, PersistFailed, Waiting
  <2>4. CASE WriteFails(r)
    <3>1. data' \in [Inodes -> Table \cup Unparsable]
      BY <2>4 DEF WriteFails, Unparsable
    <3> QED
      BY <2>1, <2>4, <3>1 DEF WriteFails, JobFailed, PersistFailed, Waiting
  <2>5. CASE RenameFails(r)
    BY <2>1, <2>5 DEF RenameFails, JobFailed, PersistFailed, Waiting
  <2> QED
    BY <1>12, <2>2, <2>3, <2>4, <2>5 DEF DiskError
<1>13. ASSUME NEW r \in Requests, Cancel(r) PROVE TypeOK'
  BY <1>13 DEF Cancel, Spend, Answer, Answers
<1>14. CASE CrashRestart
  BY <1>14, LoadIsTable DEF CrashRestart, Spend, Answers
<1>15. CASE UNCHANGED vars
  BY <1>15 DEF vars
<1> QED
  BY <1>1, <1>2, <1>3, <1>4, <1>5, <1>6, <1>7, <1>8, <1>9, <1>10, <1>11,
     <1>12, <1>13, <1>14, <1>15 DEF Next, Serve, Done

\* The variables of the registry keep their types in every behaviour.
THEOREM TypeCorrect == Spec => []TypeOK
  BY InitTyped, StepTyped, PTL DEF Spec

-----------------------------------------------------------------------------
(* The table, its lock and its snapshots                                   *)

\* No task holds or wants the lock at the start.
LEMMA InitTable == Init => TableInv
<1> SUFFICES ASSUME Init PROVE TableInv
  OBVIOUS
<1>1. TypeOK
  BY InitTyped
<1>2. \A r \in Requests : pc[r] = "idle" /\ job[r] = "none" /\ target[r] = r
  BY DEF Init
<1>3. CrashBudget
  BY RegistryAssumption DEF Init, CrashBudget
<1> QED
  BY <1>1, <1>2, <1>3 DEF Init, TableInv, GuardsMatch, JobOfPersist, SnapshotIsMemory,
     OwnRecord, PrevIsStatus, CreatedPresent, Changed

\* Every step keeps snapshots, readers and the table together.
LEMMA StepTable == TableInv /\ [Next]_vars => TableInv'
<1> SUFFICES ASSUME TableInv, [Next]_vars PROVE TableInv'
  OBVIOUS
<1>0. TypeOK'
  BY StepTyped DEF TableInv
<1> USE DEF TableInv, TypeOK, taskVars, diskVars, GuardsMatch, JobOfPersist,
        SnapshotIsMemory, OwnRecord, PrevIsStatus, CrashBudget, CreatedPresent,
        Changed, Answers
<1>1. ASSUME NEW r \in Requests, Submit(r) PROVE TableInv'
  <2>1. /\ UNCHANGED <<tokens, readers, prev, snap, job, budget>>
        /\ pc[r] = "idle" /\ pc' = [pc EXCEPT ![r] = "lock"]
        /\ op'[r] = "create" => target'[r] = target[r] /\ op[r] = "create"
        /\ \A q \in Requests \ {r} : op'[q] = op[q] /\ target'[q] = target[q]
    BY <1>1 DEF Submit, SubmitCreate, SubmitRevoke
  <2> QED
    BY <1>0, <2>1
<1>2. ASSUME NEW r \in Requests, RefuseName(r) \/ RevokeUnknown(r) PROVE TableInv'
  BY <1>0, <1>2 DEF RefuseName, RevokeUnknown, Answer
<1>3. ASSUME NEW r \in Requests, PushRecord(r) PROVE TableInv'
  <2>1. readers' = {} /\ CrashBudget'
    BY <1>3 DEF PushRecord, CanWrite
  <2>2. \A q \in Requests : tokens[q] # "absent" \/ q = r => tokens'[q] # "absent"
    BY <1>3 DEF PushRecord, Table, Ids
  <2> QED
    BY <1>0, <1>3, <2>1, <2>2 DEF PushRecord, CanWrite
<1>4. ASSUME NEW r \in Requests, MarkRevoked(r) PROVE TableInv'
  <2>1. readers' = {} /\ CrashBudget'
    BY <1>4 DEF MarkRevoked, CanWrite
  <2>2. \A q \in Requests : tokens[q] # "absent" => tokens'[q] # "absent"
    BY <1>4 DEF MarkRevoked, Table, Ids
  <2> QED
    BY <1>0, <1>4, <2>1, <2>2 DEF MarkRevoked, CanWrite
<1>5. ASSUME NEW r \in Requests, Undo(r) PROVE TableInv'
  <2>1. readers' = {} /\ CrashBudget'
    BY <1>5 DEF Undo, CanWrite, Answer
  <2>2. \A q \in Requests \ {r} : tokens[q] # "absent" => tokens'[q] # "absent"
    <3>1. CASE op[r] = "create"
      BY <1>5, <3>1 DEF Undo, Table, Ids
    <3>2. CASE op[r] = "revoke"
      BY <1>5, <3>2 DEF Undo, Table, Ids
    <3> QED
      BY <3>1, <3>2
  <2> QED
    BY <1>0, <1>5, <2>1, <2>2 DEF Undo, CanWrite, Answer
<1>6. ASSUME NEW r \in Requests, TakeSnapshot(r) PROVE TableInv'
  BY <1>0, <1>6 DEF TakeSnapshot
<1>7. ASSUME NEW r \in Requests, OpenTmp(r) PROVE TableInv'
  BY <1>0, <1>7 DEF OpenTmp
<1>8. ASSUME NEW r \in Requests, WriteTmp(r) PROVE TableInv'
  BY <1>0, <1>8 DEF WriteTmp
<1>9. ASSUME NEW r \in Requests, Rename(r) PROVE TableInv'
  BY <1>0, <1>9 DEF Rename, Answer, InFlight, Waiting
<1>10. ASSUME NEW r \in Requests, RenameMissing(r) PROVE TableInv'
  BY <1>0, <1>10 DEF RenameMissing, JobFailed, PersistFailed, InFlight, Waiting
<1>11. ASSUME NEW r \in Requests, DiskError(r) PROVE TableInv'
  <2>1. budget'["crash"] = budget["crash"]
    BY <1>11 DEF DiskError, DirFails, OpenFails, WriteFails, RenameFails, Spend
  <2>2. CASE DirFails(r)
    BY <1>0, <2>1, <2>2 DEF DirFails, PersistFailed
  <2>3. CASE OpenFails(r) \/ WriteFails(r) \/ RenameFails(r)
    <3>1. /\ JobFailed(r) /\ job[r] # "none"
          /\ UNCHANGED <<tokens, name, op, target, prev, snap>>
      BY <2>3 DEF OpenFails, WriteFails, RenameFails
    <3> QED
      BY <1>0, <2>1, <3>1 DEF JobFailed, PersistFailed, InFlight, Waiting
  <2> QED
    BY <1>11, <2>2, <2>3 DEF DiskError
<1>12. ASSUME NEW r \in Requests, Cancel(r) PROVE TableInv'
  BY <1>0, <1>12 DEF Cancel, Spend, Answer, InFlight
<1>13. CASE CrashRestart
  <2>1. budget'["crash"] # MaxCrashes /\ CrashBudget'
    BY <1>13, RegistryAssumption DEF CrashRestart, Spend
  <2> QED
    BY <1>0, <1>13, <2>1 DEF CrashRestart, InFlight, Waiting
<1>14. CASE UNCHANGED vars
  BY <1>0, <1>14 DEF vars
<1> QED
  BY <1>1, <1>2, <1>3, <1>4, <1>5, <1>6, <1>7, <1>8, <1>9, <1>10, <1>11, <1>12,
     <1>13, <1>14 DEF Next, Serve, Done

\* Under any number of concurrent persists, what each of them serialised is what
\* the table holds until it lets go of its read guard.
THEOREM SnapshotsAgree == Spec => []SnapshotIsMemory
<1>1. TableInv => SnapshotIsMemory
  BY DEF TableInv
<1> QED
  BY <1>1, InitTable, StepTable, PTL DEF Spec

\* No rollback, of whatever request, takes away a record whose creation was
\* answered 200.
THEOREM AckedCreatesStay == Spec => []AckedCreateHeld
<1>1. TableInv => AckedCreateHeld
  BY DEF TableInv, CreatedPresent, AckedCreateHeld, Changed
<1> QED
  BY <1>1, InitTable, StepTable, PTL DEF Spec

-----------------------------------------------------------------------------
(* Names                                                                   *)

NamesIInv == TypeOK /\ NamesInv

\* Fewer records cannot bring a collision.
LEMMA FewerIsUnique ==
  ASSUME NEW S, NEW T, UniqueIn(S),
         \A i \in Ids : T[i] # "absent" => S[i] # "absent"
  PROVE  UniqueIn(T)
  BY DEF UniqueIn

\* The names are unique at the start.
LEMMA InitNames == Init => NamesIInv
<1> SUFFICES ASSUME Init PROVE NamesIInv
  OBVIOUS
<1>1. TypeOK
  BY InitTyped
<1>2. UniqueIn(tokens) /\ UniqueIn(NoTokens)
  BY RegistryAssumption DEF Init, UniqueIn, Ids, NoTokens
<1>3. \A i \in Inodes : data[i] \notin Unparsable => data[i] = tokens
  BY DEF Init, Unparsable
<1>4. \A r \in Requests : snap[r] = NoTokens /\ tokens[r] = "absent" /\ NoTokens[r] = "absent"
  BY RegistryAssumption DEF Init, NoTokens, Ids
<1>5. NamesUnique /\ SnapshotsUnique
  BY <1>2, <1>3, <1>4 DEF NamesUnique, SnapshotsUnique
<1>6. FreshIds
  BY <1>3, <1>4 DEF FreshIds
<1> QED
  BY <1>1, <1>5, <1>6 DEF NamesIInv, NamesInv

\* A step that renames nothing, submits nothing and leaves tables that come from
\* the tables already there keeps the invariant.
LEMMA NamesKept ==
  ASSUME NamesIInv, TypeOK', UNCHANGED name,
         UniqueIn(tokens'),
         \A r \in Requests : pc'[r] = "idle" => pc[r] = "idle" /\ tokens'[r] = "absent",
         \A r \in Requests : snap'[r] \in {snap[r], tokens},
         \A i \in Inodes : data'[i] \in {data[i]} \cup Unparsable \cup {snap[r] : r \in Requests}
  PROVE  NamesIInv'
<1> USE DEF NamesIInv, NamesInv
<1>1. SnapshotsUnique'
  BY DEF SnapshotsUnique, NamesUnique, UniqueIn
<1>2. \A i \in Inodes : data'[i] \notin Unparsable => UniqueIn(data'[i])
  BY DEF SnapshotsUnique, NamesUnique
<1>3. NamesUnique'
  BY <1>2 DEF NamesUnique, UniqueIn, Unparsable
<1>4. FreshIds'
  <2> SUFFICES ASSUME NEW r \in Requests, pc'[r] = "idle"
               PROVE  /\ tokens'[r] = "absent"
                      /\ \A q \in Requests : snap'[q][r] = "absent"
                      /\ \A i \in Inodes : data'[i] \notin Unparsable => data'[i][r] = "absent"
    BY DEF FreshIds, Unparsable
  <2> QED
    BY DEF FreshIds
<1> QED
  BY <1>1, <1>3, <1>4

\* Every step keeps the names unique, in memory and on the disk.
LEMMA StepNames == NamesIInv /\ [Next]_vars => NamesIInv'
<1> SUFFICES ASSUME NamesIInv, [Next]_vars PROVE NamesIInv'
  OBVIOUS
<1>0. TypeOK' /\ UniqueIn(tokens)
  BY StepTyped DEF NamesIInv, NamesInv, NamesUnique
<1> USE DEF taskVars, diskVars
<1>a. TypeOK /\ FreshIds
  BY DEF NamesIInv, NamesInv
<1>1. ASSUME NEW r \in Requests, Submit(r) PROVE NamesIInv'
  <2>1. /\ UNCHANGED <<tokens, snap, data>> /\ pc[r] = "idle"
        /\ \A i \in Ids : i # r => name'[i] = name[i]
        /\ \A q \in Requests : pc'[q] = "idle" => pc[q] = "idle"
    BY <1>1, <1>a DEF Submit, SubmitCreate, SubmitRevoke, TypeOK
  <2>2. SnapshotsUnique'
    <3> SUFFICES ASSUME NEW q \in Requests PROVE UniqueIn(snap[q])'
      BY DEF SnapshotsUnique
    <3>1. snap[q][r] = "absent" /\ UniqueIn(snap[q])
      BY <1>a, <2>1 DEF NamesIInv, NamesInv, SnapshotsUnique, FreshIds
    <3>2. UniqueIn(snap[q])'
      BY <3>1, <2>1 DEF UniqueIn, Ids
    <3> QED
      BY <3>2
  <2>3. UniqueIn(tokens)'
    <3>1. tokens[r] = "absent"
      BY <1>a, <2>1 DEF FreshIds
    <3> QED
      BY <1>0, <3>1, <2>1 DEF UniqueIn, Ids
  <2>4. NamesUnique'
    <3>1. ASSUME NEW i \in Inodes, data[i] \notin Unparsable PROVE UniqueIn(data[i])'
      <4>1. data[i][r] = "absent" /\ UniqueIn(data[i])
        BY <1>a, <2>1, <3>1 DEF NamesIInv, NamesInv, NamesUnique, FreshIds
      <4> QED
        BY <4>1, <2>1 DEF UniqueIn, Ids
    <3> QED
      BY <2>1, <2>3, <3>1 DEF NamesUnique, Unparsable, UniqueIn
  <2>5. FreshIds'
    BY <1>a, <2>1 DEF FreshIds, Unparsable
  <2> QED
    BY <1>0, <2>2, <2>4, <2>5 DEF NamesIInv, NamesInv
<1>2. ASSUME NEW r \in Requests, RefuseName(r) \/ RevokeUnknown(r) \/ TakeSnapshot(r)
      PROVE NamesIInv'
  BY <1>0, <1>a, <1>2, NamesKept
     DEF RefuseName, RevokeUnknown, TakeSnapshot, Answer, TypeOK, FreshIds
<1>3. ASSUME NEW r \in Requests, PushRecord(r) PROVE NamesIInv'
  <2>1. UniqueIn(tokens')
    BY <1>0, <1>a, <1>3 DEF PushRecord, NameTaken, UniqueIn, TypeOK, Table, Ids
  <2>2. \A q \in Requests : pc'[q] = "idle" => pc[q] = "idle" /\ tokens'[q] = "absent"
    BY <1>a, <1>3 DEF PushRecord, FreshIds, TypeOK, Table, Ids
  <2> QED
    BY <1>0, <1>3, <2>1, <2>2, NamesKept DEF PushRecord
<1>4. ASSUME NEW r \in Requests, MarkRevoked(r) PROVE NamesIInv'
  <2>1. \A i \in Ids : tokens'[i] # "absent" => tokens[i] # "absent"
    BY <1>a, <1>4 DEF MarkRevoked, TypeOK, Table
  <2>2. UniqueIn(tokens')
    BY <1>0, <2>1, FewerIsUnique
  <2>3. \A q \in Requests : pc'[q] = "idle" => pc[q] = "idle" /\ tokens'[q] = "absent"
    BY <1>a, <1>4, <2>1 DEF MarkRevoked, FreshIds, TypeOK, Ids
  <2> QED
    BY <1>0, <1>4, <2>2, <2>3, NamesKept DEF MarkRevoked
<1>5. ASSUME NEW r \in Requests, Undo(r) PROVE NamesIInv'
  <2>1. \A i \in Ids : tokens'[i] # "absent" => tokens[i] # "absent"
    BY <1>a, <1>5 DEF Undo, TypeOK, Table
  <2>2. UniqueIn(tokens')
    BY <1>0, <2>1, FewerIsUnique
  <2>3. \A q \in Requests : pc'[q] = "idle" => pc[q] = "idle" /\ tokens'[q] = "absent"
    BY <1>a, <1>5, <2>1 DEF Undo, Answer, FreshIds, TypeOK, Ids
  <2> QED
    BY <1>0, <1>5, <2>2, <2>3, NamesKept DEF Undo
<1>6. ASSUME NEW r \in Requests, OpenTmp(r) PROVE NamesIInv'
  BY <1>0, <1>a, <1>6, NamesKept DEF OpenTmp, TypeOK, FreshIds, Unparsable
<1>7. ASSUME NEW r \in Requests, WriteTmp(r) PROVE NamesIInv'
  <2>1. \A i \in Inodes : data'[i] \in {data[i]} \cup Unparsable \cup {snap[q] : q \in Requests}
    BY <1>a, <1>7 DEF WriteTmp, Written, TypeOK, Unparsable
  <2>2. \A q \in Requests : pc'[q] = "idle" => pc[q] = "idle" /\ tokens'[q] = "absent"
    BY <1>a, <1>7 DEF WriteTmp, FreshIds, TypeOK
  <2> QED
    BY <1>0, <1>7, <2>1, <2>2, NamesKept DEF WriteTmp
<1>8. ASSUME NEW r \in Requests, Rename(r) \/ RenameMissing(r) \/ Cancel(r) PROVE NamesIInv'
  <2>1. UNCHANGED <<tokens, name, snap, data>>
    BY <1>8 DEF Rename, RenameMissing, Cancel
  <2>2. \A q \in Requests : pc'[q] = "idle" => pc[q] = "idle"
    BY <1>a, <1>8 DEF Rename, RenameMissing, JobFailed, PersistFailed, Cancel, Answer, TypeOK
  <2> QED
    BY <1>0, <1>a, <2>1, <2>2, NamesKept DEF FreshIds
<1>9. ASSUME NEW r \in Requests, DiskError(r) PROVE NamesIInv'
  <2>1. /\ UNCHANGED <<tokens, name, snap>>
        /\ \A i \in Inodes : data'[i] \in {data[i]} \cup Unparsable
    BY <1>a, <1>9 DEF DiskError, DirFails, OpenFails, WriteFails, RenameFails, TypeOK, Unparsable
  <2>2. \A q \in Requests : pc'[q] = "idle" => pc[q] = "idle"
    BY <1>a, <1>9 DEF DiskError, DirFails, OpenFails, WriteFails, RenameFails, JobFailed,
       PersistFailed, TypeOK
  <2> QED
    BY <1>0, <1>a, <2>1, <2>2, NamesKept DEF FreshIds
<1>10. CASE CrashRestart
  <2>1. UniqueIn(NoTokens) /\ \A q \in Requests : NoTokens[q] = "absent"
    BY DEF UniqueIn, NoTokens, Ids
  <2>2. file # None => file \in Inodes
    BY <1>a DEF TypeOK
  <2>3. UniqueIn(tokens')
    BY <1>10, <2>1, <2>2 DEF CrashRestart, Load, NamesIInv, NamesInv, NamesUnique
  <2>4. \A q \in Requests : pc'[q] = "idle" => pc[q] = "idle" /\ tokens'[q] = "absent"
    BY <1>a, <1>10, <2>1, <2>2 DEF CrashRestart, Load, FreshIds, TypeOK
  <2> QED
    BY <1>0, <1>10, <2>3, <2>4, NamesKept DEF CrashRestart
<1>11. CASE UNCHANGED vars
  BY <1>0, <1>a, <1>11, NamesKept DEF vars, FreshIds
<1> QED
  BY <1>1, <1>2, <1>3, <1>4, <1>5, <1>6, <1>7, <1>8, <1>9, <1>10, <1>11
     DEF Next, Serve, Done

\* No two records ever share a name, in memory or in a file a restart may load.
THEOREM NamesStayUnique == Spec => []NamesUnique
<1>1. NamesIInv => NamesUnique
  BY DEF NamesIInv, NamesInv
<1> QED
  BY <1>1, InitNames, StepNames, PTL DEF Spec

-----------------------------------------------------------------------------
(* The registry implements TokenTable                                      *)

\* Only a revocation remembers a status, so the rollback of a creation, which removes
\* the record, is the abstract one, which restores what was there before.
PrevOfCreate == \A r \in Requests : op[r] = "create" => prev[r] = "absent"

MapInv == TableInv /\ PrevOfCreate

Phases == [r \in Requests |-> PhaseOf(r)]

\* The records, and where the requests are, to the abstract table.
Unseen == UNCHANGED <<tokens, name, op, target, Phases, prev>>

-----------------------------------------------------------------------------
(* The disk                                                                *)

\* A start loads one of the images, or none.
LEMMA LoadIsImage == TypeOK => Load \in Images
  BY DEF TypeOK, Load, Images

\* Contents and snapshots that come from the images there were, or from the table, are
\* all a later restart can find.
LEMMA ImagesFrom ==
  ASSUME \A i \in Inodes : data'[i] \notin Unparsable => data'[i] \in Images \cup {tokens},
         \A r \in Requests : job'[r] # "none" => snap'[r] \in Images \cup {tokens}
  PROVE  Images' \subseteq Images \cup {tokens}
<1>1. Images' = {NoTokens} \cup {data'[i] : i \in {j \in Inodes : data'[j] \notin Unparsable}}
                           \cup {snap'[r] : r \in {q \in Requests : job'[q] # "none"}}
  BY DEF Images, NoTokens, Inodes, Unparsable, Ids
<1>2. NoTokens \in Images
  BY DEF Images
<1> QED
  BY <1>1, <1>2

\* What is on the disk stays an image, and so does the snapshot of a running operation.
LEMMA OldImages ==
  /\ \A i \in Inodes : data[i] \notin Unparsable => data[i] \in Images
  /\ \A r \in Requests : job[r] # "none" => snap[r] \in Images
  BY DEF Images

\* Every step leaves on the disk, and on its way to it, tables that were there before or
\* the one in memory: no operation of the disk makes a table of its own.
LEMMA StepDisk ==
  ASSUME TypeOK, Next
  PROVE  /\ Images' \subseteq Images \cup {tokens}
         /\ Load' \in Images'
<1> USE DEF TypeOK, taskVars, diskVars
<1>0. TypeOK'
  BY StepTyped
<1>a. (TypeOK => Load \in Images)'
  BY LoadIsImage, PTL
<1> SUFFICES Images' \subseteq Images \cup {tokens}
  BY <1>0, <1>a
<1>1. ASSUME NEW r \in Requests,
             \A i \in Inodes : data'[i] \in {data[i], snap[r]} \cup Unparsable,
             \A i \in Inodes : data'[i] = snap[r] /\ data[i] # snap[r] => job[r] # "none",
             \A q \in Requests : job'[q] # "none" =>
               \/ snap'[q] = tokens
               \/ snap'[q] = snap[q] /\ job[q] # "none"
      PROVE  Images' \subseteq Images \cup {tokens}
  BY <1>1, OldImages, ImagesFrom
<1>2. ASSUME NEW r \in Requests,
             \/ Submit(r) \/ RefuseName(r) \/ PushRecord(r) \/ RevokeUnknown(r)
             \/ MarkRevoked(r) \/ Undo(r) \/ DirFails(r) \/ Cancel(r)
      PROVE  UNCHANGED <<data, snap, job>>
  BY <1>2 DEF Submit, SubmitCreate, SubmitRevoke, RefuseName, PushRecord, RevokeUnknown,
     MarkRevoked, Undo, DirFails, Cancel
<1>3. ASSUME UNCHANGED <<data, snap, job>> PROVE Images' \subseteq Images \cup {tokens}
  BY <1>3, OldImages, ImagesFrom
<1>4. ASSUME NEW r \in Requests, TakeSnapshot(r) PROVE Images' \subseteq Images \cup {tokens}
  BY <1>1, <1>4 DEF TakeSnapshot
<1>5. ASSUME NEW r \in Requests, OpenTmp(r) PROVE Images' \subseteq Images \cup {tokens}
  BY <1>1, <1>5 DEF OpenTmp, Unparsable
<1>6. ASSUME NEW r \in Requests, WriteTmp(r) PROVE Images' \subseteq Images \cup {tokens}
  BY <1>1, <1>6 DEF WriteTmp, Written, Unparsable
<1>7. ASSUME NEW r \in Requests, Rename(r) \/ RenameMissing(r) \/ OpenFails(r) \/ RenameFails(r)
      PROVE  Images' \subseteq Images \cup {tokens}
  BY <1>1, <1>7 DEF Rename, RenameMissing, OpenFails, RenameFails, JobFailed
<1>8. ASSUME NEW r \in Requests, WriteFails(r) PROVE Images' \subseteq Images \cup {tokens}
  BY <1>1, <1>8 DEF WriteFails, JobFailed, Unparsable
<1>9. CASE CrashRestart
  BY <1>9, OldImages, ImagesFrom DEF CrashRestart
<1>10. CASE Done
  BY <1>3, <1>10 DEF Done, vars
<1> QED
  BY <1>2, <1>3, <1>4, <1>5, <1>6, <1>7, <1>8, <1>9, <1>10 DEF Next, Serve, DiskError

-----------------------------------------------------------------------------
(* The requests                                                            *)

\* The abstract phase of a request that is at a.
Seen(a) == IF a = "lock" THEN "asked" ELSE IF a \in Waiting THEN "applied" ELSE a

\* A task that goes to another await takes its phase along.
LEMMA PhaseMoves ==
  ASSUME TypeOK, NEW r \in Requests, NEW to, pc' = [pc EXCEPT ![r] = to]
  PROVE  Phases' = [Phases EXCEPT ![r] = Seen(to)]
  BY DEF TypeOK, Phases, PhaseOf, Seen

\* Between awaits of one phase the phase stays.
LEMMA PhaseStays ==
  ASSUME TypeOK, NEW r \in Requests, NEW to, pc' = [pc EXCEPT ![r] = to], Seen(to) = Seen(pc[r])
  PROVE  Phases' = Phases
  BY DEF TypeOK, Phases, PhaseOf, Seen

\* The mapping holds at the start.
LEMMA InitMap == Init => MapInv
  BY InitTable DEF Init, MapInv, PrevOfCreate

\* Every step keeps the mapping.
LEMMA StepMap == MapInv /\ [Next]_vars => MapInv'
<1> SUFFICES ASSUME MapInv, [Next]_vars PROVE MapInv'
  OBVIOUS
<1>0. TableInv /\ TableInv' /\ TypeOK
  BY StepTable DEF MapInv, TableInv
<1>1. \A r \in Requests : prev'[r] # prev[r] => op[r] = "revoke"
  BY <1>0 DEF TypeOK, Next, Submit, Serve, DiskError, SubmitCreate, SubmitRevoke, RefuseName,
     PushRecord, RevokeUnknown, MarkRevoked, Undo, DirFails, TakeSnapshot, OpenTmp, WriteTmp,
     OpenFails, WriteFails, Rename, RenameMissing, RenameFails, Cancel, CrashRestart, Done, vars,
     taskVars
<1>2. \A r \in Requests : op'[r] # op[r] => op'[r] = "revoke"
  BY <1>0 DEF TypeOK, Next, Submit, Serve, DiskError, SubmitCreate, SubmitRevoke, RefuseName,
     PushRecord, RevokeUnknown, MarkRevoked, Undo, DirFails, TakeSnapshot, OpenTmp, WriteTmp,
     OpenFails, WriteFails, Rename, RenameMissing, RenameFails, Cancel, CrashRestart, Done, vars,
     taskVars
<1> QED
  BY <1>0, <1>1, <1>2 DEF MapInv, PrevOfCreate, TypeOK

\* What each step of a request is to the abstract table, its disk aside.
LEMMA StepServe ==
  ASSUME MapInv, NEW r \in Requests, Submit(r) \/ Serve(r) \/ DiskError(r) \/ Cancel(r)
  PROVE  TableOf!Serve(r) \/ Unseen
<1> USE DEF taskVars, diskVars
<1>0. TypeOK /\ OwnRecord /\ JobOfPersist /\ PrevOfCreate /\ PrevIsStatus
  BY DEF MapInv, TableInv
<1>p. \A q \in Requests : Phases[q] = Seen(pc[q])
  BY DEF Phases, PhaseOf, Seen
<1>1. ASSUME NEW n \in Names, SubmitCreate(r, n) PROVE TableOf!Submit(r)
  <2>1. Phases' = [Phases EXCEPT ![r] = "asked"] /\ Phases[r] = "idle"
    BY <1>0, <1>1, <1>p, PhaseMoves DEF SubmitCreate, Seen, Waiting
  <2> QED
    BY <1>1, <2>1 DEF SubmitCreate, TableOf!Submit, TableOf!GoTo, Phases
<1>2. ASSUME NEW i \in Ids, SubmitRevoke(r, i) PROVE TableOf!Submit(r)
  <2>1. Phases' = [Phases EXCEPT ![r] = "asked"] /\ Phases[r] = "idle"
    BY <1>0, <1>2, <1>p, PhaseMoves DEF SubmitRevoke, Seen, Waiting
  <2> QED
    BY <1>2, <2>1 DEF SubmitRevoke, TableOf!Submit, TableOf!GoTo, Phases
<1>3. CASE RefuseName(r)
  <2>1. Phases' = [Phases EXCEPT ![r] = "conflict"] /\ Phases[r] = "asked"
    BY <1>0, <1>3, <1>p, PhaseMoves DEF RefuseName, Answer, Seen, Waiting
  <2> QED
    BY <1>3, <2>1 DEF RefuseName, NameTaken, TableOf!Serve, TableOf!Refuse, TableOf!Taken,
       TableOf!GoTo, Phases
<1>4. CASE RevokeUnknown(r)
  <2>1. Phases' = [Phases EXCEPT ![r] = "notfound"] /\ Phases[r] = "asked"
    BY <1>0, <1>4, <1>p, PhaseMoves DEF RevokeUnknown, Answer, Seen, Waiting
  <2> QED
    BY <1>4, <2>1 DEF RevokeUnknown, TableOf!Serve, TableOf!Refuse, TableOf!GoTo, Phases
<1>5. CASE PushRecord(r)
  <2>1. Phases' = [Phases EXCEPT ![r] = "applied"] /\ Phases[r] = "asked"
    BY <1>0, <1>5, <1>p, PhaseMoves DEF PushRecord, Seen, Waiting
  <2> QED
    BY <1>5, <2>1 DEF PushRecord, NameTaken, TableOf!Serve, TableOf!Apply, TableOf!Taken,
       TableOf!GoTo, Phases
<1>6. CASE MarkRevoked(r)
  <2>1. Phases' = [Phases EXCEPT ![r] = "applied"] /\ Phases[r] = "asked"
    BY <1>0, <1>6, <1>p, PhaseMoves DEF MarkRevoked, Seen, Waiting
  <2> QED
    BY <1>6, <2>1 DEF MarkRevoked, TableOf!Serve, TableOf!Apply, TableOf!GoTo, Phases
<1>7. CASE Undo(r)
  <2>1. Phases' = [Phases EXCEPT ![r] = "failed"] /\ Phases[r] = "applied"
    BY <1>0, <1>7, <1>p, PhaseMoves DEF Undo, Answer, Seen, Waiting
  <2>2. tokens' = [tokens EXCEPT ![target[r]] = IF @ = "absent" THEN @ ELSE prev[r]]
    BY <1>0, <1>7 DEF Undo, PrevOfCreate, TypeOK
  <2> QED
    BY <1>7, <2>1, <2>2 DEF Undo, TableOf!Serve, TableOf!Abort, TableOf!GoTo, Phases
<1>8. CASE TakeSnapshot(r)
  BY <1>0, <1>8, PhaseStays DEF TakeSnapshot, Unseen, Seen, Waiting
<1>9. CASE OpenTmp(r)
  BY <1>9 DEF OpenTmp, Unseen, Phases, PhaseOf
<1>10. CASE WriteTmp(r)
  <2>1. UNCHANGED Phases
    BY <1>0, <1>10, PhaseStays DEF WriteTmp, Seen, Waiting, Phases, PhaseOf
  <2> QED
    BY <1>10, <2>1 DEF WriteTmp, Unseen
<1>11. CASE Rename(r)
  <2>1. CASE InFlight(r)
    <3>1. pc[r] \in {"write", "rename"}
      BY <1>0, <1>11, <2>1 DEF Rename, JobOfPersist, InFlight, Waiting, Answers
    <3>2. Phases' = [Phases EXCEPT ![r] = "ok"] /\ Phases[r] = "applied"
      BY <1>0, <1>11, <2>1, <3>1, <1>p, PhaseMoves DEF Rename, Answer, Seen, Waiting
    <3> QED
      BY <1>11, <3>2 DEF Rename, TableOf!Serve, TableOf!Commit, TableOf!GoTo, Phases
  <2>2. CASE ~InFlight(r)
    BY <1>11, <2>2 DEF Rename, Unseen, Phases, PhaseOf
  <2> QED
    BY <2>1, <2>2
<1>12. ASSUME job[r] # "none", JobFailed(r) PROVE UNCHANGED Phases
  <2>1. CASE InFlight(r)
    <3>1. pc[r] \in {"write", "rename"}
      BY <1>0, <1>12, <2>1 DEF JobOfPersist, InFlight, Waiting, Answers
    <3> QED
      BY <1>0, <1>12, <2>1, <3>1, PhaseStays DEF JobFailed, PersistFailed, Seen, Waiting
  <2>2. CASE ~InFlight(r)
    BY <1>12, <2>2 DEF JobFailed, Phases, PhaseOf
  <2> QED
    BY <2>1, <2>2
<1>13. CASE RenameMissing(r) \/ OpenFails(r) \/ WriteFails(r) \/ RenameFails(r)
  BY <1>12, <1>13 DEF RenameMissing, OpenFails, WriteFails, RenameFails, Unseen
<1>14. CASE DirFails(r)
  BY <1>0, <1>14, PhaseStays DEF DirFails, PersistFailed, Unseen, Seen, Waiting
<1>15. CASE Cancel(r)
  <2>1. Phases' = [Phases EXCEPT ![r] = "lost"] /\ Phases[r] \in {"asked", "applied"}
    BY <1>0, <1>15, <1>p, PhaseMoves DEF Cancel, InFlight, Answer, Seen, Waiting
  <2> QED
    BY <1>15, <2>1 DEF Cancel, TableOf!Serve, TableOf!Lose, TableOf!Pending, TableOf!GoTo, Phases
<1> QED
  BY <1>1, <1>2, <1>3, <1>4, <1>5, <1>6, <1>7, <1>8, <1>9, <1>10, <1>11, <1>13, <1>14, <1>15
     DEF Submit, Serve, DiskError, TableOf!Serve

\* A restart brings back the durable image and loses every request that was under way.
LEMMA RestartMap == TypeOK /\ CrashRestart => TableOf!Restart
<1> SUFFICES ASSUME TypeOK, CrashRestart PROVE TableOf!Restart
  OBVIOUS
<1>1. Phases' = [r \in Requests |-> IF Phases[r] \in {"asked", "applied"} THEN "lost" ELSE Phases[r]]
  BY DEF CrashRestart, TypeOK, Phases, PhaseOf, InFlight, Waiting, Answers
<1>2. Images' \subseteq Images
  BY DEF CrashRestart, Images
<1>3. Load' = Load
  BY DEF CrashRestart, Load
<1> QED
  BY <1>1, <1>2, <1>3 DEF CrashRestart, TableOf!Restart, TableOf!Pending, Phases

\* The initial states of the registry are those of its promise.
LEMMA InitTableOf == Init => TableOf!Init
<1> SUFFICES ASSUME Init PROVE TableOf!Init
  OBVIOUS
<1>1. tokens \in [Ids -> {"absent", "active"}] /\ \A r \in Requests : tokens[r] = "absent"
  BY RegistryAssumption DEF Init, Ids
<1>2. Phases = [r \in Requests |-> "idle"]
  BY DEF Init, Phases, PhaseOf, Waiting
<1>a. tokens \notin Unparsable /\ Empty \in Unparsable
  BY <1>1, ContentAssumption DEF Table, Status, Unparsable
<1>b. \A i \in Inodes : data[i] = IF i = BootInode THEN tokens ELSE Empty
  BY DEF Init
<1>3. Load = tokens
  <2>1. CASE Boot = {}
    BY <2>1, RegistryAssumption DEF Init, Load, NoTokens, Ids
  <2>2. CASE Boot # {}
    <3>1. file = BootInode /\ file # None /\ BootInode \in Inodes
      BY <2>2, RegistryAssumption DEF Init, Inodes
    <3> QED
      BY <1>a, <1>b, <3>1 DEF Load
  <2> QED
    BY <2>1, <2>2
<1>4. Images = {NoTokens, tokens}
  <2>1. {i \in Inodes : data[i] \notin Unparsable} = {BootInode}
    BY <1>a, <1>b DEF Inodes
  <2>2. {q \in Requests : job[q] # "none"} = {}
    BY DEF Init
  <2>3. data[BootInode] = tokens
    BY <1>b DEF Inodes
  <2> QED
    BY <2>1, <2>2, <2>3 DEF Images
<1> QED
  BY <1>1, <1>2, <1>3, <1>4 DEF Init, TableOf!Init, TableOf!Blank, NoTokens, Phases, Ids

\* Every step of the registry is a step of its promise, or none.
LEMMA StepTableOf == MapInv /\ [Next]_vars => [TableOf!Next]_(TableOf!vars)
<1> SUFFICES ASSUME MapInv, [Next]_vars PROVE [TableOf!Next]_(TableOf!vars)
  OBVIOUS
<1>0. TypeOK
  BY DEF MapInv, TableInv
<1>1. CASE UNCHANGED vars
  BY <1>1 DEF vars, taskVars, diskVars, TableOf!vars, PhaseOf, Images, Load
<1>2. CASE Next
  <2>1. TableOf!Disk
    BY <1>0, <1>2, StepDisk DEF TableOf!Disk
  <2>2. ASSUME NEW r \in Requests, Submit(r) \/ Serve(r) \/ DiskError(r) \/ Cancel(r)
        PROVE  TableOf!Next
    <3>1. TableOf!Serve(r) \/ Unseen
      BY <2>2, StepServe
    <3> QED
      BY <2>1, <3>1 DEF TableOf!Next, Unseen, Phases
  <2>3. CASE CrashRestart
    BY <1>0, <2>3, RestartMap DEF TableOf!Next
  <2> QED
    BY <1>1, <1>2, <2>2, <2>3 DEF Next, Done
<1> QED
  BY <1>1, <1>2

\* The registry implements the abstract table: whatever waits, fails, is dropped or
\* crashes, a request changes the table once, only its own failure undoes that, and a
\* restart brings back a table there was, or none.
THEOREM RegistryIsTable == Spec => ImplementsTable
<1>1. Init => TableOf!Init
  BY InitTableOf
<1>2. MapInv /\ [Next]_vars => [TableOf!Next]_(TableOf!vars)
  BY StepTableOf
<1> QED
  BY <1>1, <1>2, InitMap, StepMap, PTL DEF Spec, ImplementsTable, TableOf!Spec
=============================================================================
