----------------------- MODULE TokenDurabilityProofs -----------------------
(***************************************************************************)
(* What tokens.json holds, and which revocations last, for every set of    *)
(* requests and names and any number of disk faults.  Both promises break  *)
(* when a request is dropped while its file operation runs (with a crash   *)
(* after it, for revocations), so they are proved of the states before     *)
(* that happens.                                                           *)
(***************************************************************************)
EXTENDS TokenRegistryProofs

\* No task was dropped so far, and no process crashed.
NoCancelYet == budget["cancel"] = MaxCancels
NoCrashYet == budget["crash"] = MaxCrashes

CancelBudget == budget["cancel"] <= MaxCancels

\* A file operation has a task that waits for it, with a read guard.
JobsAttended ==
  \A r \in Requests :
    /\ job[r] \in {"open", "write"} => pc[r] = "write"
    /\ job[r] = "rename" => pc[r] = "rename"

NoUndo == \A r \in Requests : pc[r] # "undo"

\* A file that is open for writing was emptied and holds since then what it held, the
\* table, or what a failing write left, whose request has not been answered.
OpenCurrent ==
  \A r \in Requests : job[r] = "write" =>
    /\ fd[r] \in Inodes
    /\ data[fd[r]] \in Unparsable \cup {tokens}
    /\ NoUndo => data[fd[r]] # Torn

Opened(r) == job[r] \in {"write", "rename"}

\* So does tokens.tmp once any task at work has opened it; it is not the table only while
\* another task has still to write it.
TmpCurrent ==
  (\E r \in Requests : Opened(r)) /\ tmp # None =>
    /\ data[tmp] \in Unparsable \cup {tokens}
    /\ NoUndo => data[tmp] = tokens \/ \E q \in Requests : job[q] = "write" /\ fd[q] = tmp

\* With no change of the table under way, the file is the table if the last answer is 200.
FileCurrent ==
  last = "ok" /\ (\A r \in Requests : pc[r] \notin Changed) =>
    file # None /\ data[file] = tokens

DiskInv ==
  /\ TableInv
  /\ CancelBudget
  /\ NoCancelYet => JobsAttended /\ OpenCurrent /\ TmpCurrent /\ FileCurrent

-----------------------------------------------------------------------------

\* A request is no record anywhere before it has pushed one.
NotPushed == {"idle", "lock"}

Unpushed ==
  \A q \in Requests : pc[q] \in NotPushed =>
    /\ tokens[q] = "absent"
    /\ \A r \in Requests : snap[r][q] = "absent"
    /\ \A i \in Inodes : data[i] \notin Unparsable => data[i][q] = "absent"

\* A request becomes a revoke when it is submitted.
IdleNotRevoke == \A r \in Requests : pc[r] = "idle" => op[r] = "create"

\* What was revoked had been pushed.
TargetPushed ==
  \A r \in Requests :
    op[r] = "revoke" /\ pc[r] \in Changed \cup {"ok"} /\ target[r] \in Requests =>
      pc[target[r]] \notin NotPushed

SoleRevoke(r) == op[r] = "revoke" /\ RevokesOf(target[r]) = {r}

HeldInMemory ==
  \A r \in Requests : SoleRevoke(r) /\ pc[r] \in {"persist", "write", "rename", "ok"} =>
    ~Validates(target[r])

\* The files a restart may load now or after the operations under way.
InUse(i) == i \in {file, tmp} \/ \E q \in Requests : job[q] = "write" /\ fd[q] = i

HeldOnDisk ==
  \A r \in Requests : SoleRevoke(r) /\ pc[r] = "ok" =>
    \A i \in Inodes : InUse(i) /\ data[i] \notin Unparsable => data[i][target[r]] # "active"

RevocationsInv ==
  /\ DiskInv
  /\ Unpushed
  /\ IdleNotRevoke
  /\ TargetPushed
  /\ NoCancelYet \/ NoCrashYet => HeldInMemory
  /\ NoCancelYet => HeldOnDisk

-----------------------------------------------------------------------------
(* The file                                                                *)

\* The file system agrees with itself at the start.
LEMMA InitDisk == Init => DiskInv
<1> SUFFICES ASSUME Init PROVE DiskInv
  OBVIOUS
<1>1. CancelBudget /\ TableInv
  BY InitTable, RegistryAssumption DEF Init, CancelBudget
<1>2. \A r \in Requests : job[r] = "none"
  BY DEF Init
<1> QED
  BY <1>1, <1>2 DEF Init, DiskInv, JobsAttended, OpenCurrent, TmpCurrent, FileCurrent, Opened

\* A cancellation is never taken back.
LEMMA CancelsCount ==
  ASSUME TypeOK, CancelBudget, [Next]_vars
  PROVE  CancelBudget' /\ (NoCancelYet' => NoCancelYet)
<1>1. budget'["cancel"] <= budget["cancel"]
  <2>1. \/ UNCHANGED budget
        \/ \E kind \in {"fault", "cancel", "crash"} : Spend(kind)
    BY DEF Next, Submit, Serve, DiskError, SubmitCreate, SubmitRevoke, RefuseName, PushRecord,
       RevokeUnknown, MarkRevoked, Undo, DirFails, TakeSnapshot, OpenTmp, WriteTmp, OpenFails,
       WriteFails, Rename, RenameMissing, RenameFails, Cancel, CrashRestart, Done, vars
  <2> QED
    BY <2>1 DEF Spend, TypeOK
<1>2. budget["cancel"] \in Nat /\ budget'["cancel"] \in Nat /\ MaxCancels \in Nat
  BY StepTyped, RegistryAssumption DEF TypeOK
<1> QED
  BY <1>1, <1>2 DEF CancelBudget, NoCancelYet

\* A table that is written, or about to be, does not change.
LEMMA TableFrozen ==
  ASSUME TableInv, JobsAttended, Next, NEW r \in Requests, job[r] # "none"
  PROVE  UNCHANGED tokens \/ CrashRestart
<1>1. r \in readers
  BY DEF TableInv, TypeOK, GuardsMatch, JobsAttended
<1> QED
  BY <1>1 DEF CanWrite, Next, Submit, Serve, DiskError, SubmitCreate, SubmitRevoke, RefuseName,
     PushRecord, RevokeUnknown, MarkRevoked, Undo, DirFails, TakeSnapshot, OpenTmp, WriteTmp,
     OpenFails, WriteFails, Rename, RenameMissing, RenameFails, Cancel, Done, vars, taskVars

DiskParts == JobsAttended /\ OpenCurrent /\ TmpCurrent /\ FileCurrent

\* A step under the write guard: nobody has a file operation running.
LEMMA DiskGuarded ==
  ASSUME TableInv, DiskParts, NEW r \in Requests, NEW a,
         CanWrite, pc[r] \notin {"write", "rename"}, a \notin {"write", "rename"},
         UNCHANGED <<job, fd, tmp, file, data>>,
         pc' = [pc EXCEPT ![r] = a],
         \/ a \in Changed
         \/ last' # "ok"
         \/ UNCHANGED <<last, tokens>> /\ pc[r] \notin Changed
  PROVE  DiskParts'
<1>1. \A q \in Requests : job[q] = "none"
  BY DEF TableInv, TypeOK, GuardsMatch, DiskParts, JobsAttended, CanWrite
<1>2. \A q \in Requests : q # r => pc'[q] = pc[q]
  BY DEF TableInv, TypeOK
<1>3. JobsAttended' /\ OpenCurrent' /\ TmpCurrent'
  BY <1>1 DEF JobsAttended, OpenCurrent, TmpCurrent, Opened
<1>4. FileCurrent'
  BY <1>2 DEF DiskParts, FileCurrent, TableInv, TypeOK
<1> QED
  BY <1>3, <1>4 DEF DiskParts

\* A file operation that is served keeps inodes and descriptors in order.
LEMMA DiskServed ==
  ASSUME TableInv, DiskParts, NEW r \in Requests, Serve(r)
  PROVE  DiskParts'
<1> USE DEF taskVars, diskVars
<1>0. TypeOK /\ GuardsMatch /\ SnapshotIsMemory /\ JobsAttended /\ OpenCurrent /\ TmpCurrent
      /\ FileCurrent
  BY DEF TableInv, DiskParts
<1>1. CASE RefuseName(r) \/ PushRecord(r) \/ RevokeUnknown(r) \/ MarkRevoked(r) \/ Undo(r)
  BY <1>1, DiskGuarded
     DEF RefuseName, PushRecord, RevokeUnknown, MarkRevoked, Undo, Answer, Changed
<1>2. CASE TakeSnapshot(r)
  BY <1>0, <1>2 DEF TakeSnapshot, DiskParts, JobsAttended, OpenCurrent, TmpCurrent, FileCurrent,
     Opened, NoUndo, Changed, TypeOK
<1>3. CASE OpenTmp(r)
  <2> DEFINE i == IF tmp = None THEN r ELSE tmp
  <2>1. /\ job' = [job EXCEPT ![r] = "write"] /\ fd' = [fd EXCEPT ![r] = i] /\ tmp' = i
        /\ data' = [data EXCEPT ![i] = Empty] /\ job[r] = "open" /\ pc[r] = "write"
        /\ UNCHANGED <<tokens, pc, file, last>>
    BY <1>0, <1>3 DEF OpenTmp, JobsAttended
  <2>2. i \in Inodes /\ Empty # Torn /\ Empty \in Unparsable
    BY <1>0, ContentAssumption DEF TypeOK, Inodes, Unparsable
  <2> HIDE DEF i
  <2>3. JobsAttended'
    BY <1>0, <2>1 DEF JobsAttended, TypeOK
  <2>4. OpenCurrent'
    BY <1>0, <2>1, <2>2 DEF OpenCurrent, NoUndo, TypeOK, Unparsable
  <2>5. TmpCurrent'
    BY <1>0, <2>1, <2>2 DEF TmpCurrent, NoUndo, TypeOK, Unparsable
  <2>6. FileCurrent'
    BY <2>1 DEF FileCurrent, Changed
  <2> QED
    BY <2>3, <2>4, <2>5, <2>6 DEF DiskParts
<1>4. CASE WriteTmp(r)
  <2>1. /\ job[r] = "write" /\ pc[r] = "write" /\ snap[r] = tokens /\ fd[r] \in Inodes
        /\ pc' = [pc EXCEPT ![r] = "rename"] /\ job' = [job EXCEPT ![r] = "rename"]
        /\ UNCHANGED <<tokens, fd, tmp, file, last>>
    BY <1>0, <1>4 DEF WriteTmp, JobsAttended, SnapshotIsMemory, OpenCurrent
  <2>2. PICK c \in Written(r) : data' = [data EXCEPT ![fd[r]] = c]
    BY <1>4 DEF WriteTmp
  <2>3. c \in {tokens, Torn} /\ (NoUndo => c = tokens)
    <3>1. NoLonger(tokens, tokens)
      BY DEF NoLonger
    <3> QED  BY <1>0, <2>1, <3>1 DEF Written, OpenCurrent, Unparsable
  <2>4. NoUndo' = NoUndo
    BY <1>0, <2>1 DEF NoUndo, TypeOK
  <2>5. JobsAttended'
    BY <1>0, <2>1 DEF JobsAttended, TypeOK
  <2>6. OpenCurrent'
    <3> SUFFICES ASSUME NEW q \in Requests, job'[q] = "write"
                 PROVE  /\ fd[q] \in Inodes
                        /\ data'[fd[q]] \in Unparsable \cup {tokens}
                        /\ NoUndo => data'[fd[q]] # Torn
      BY <2>1, <2>4 DEF OpenCurrent, Unparsable
    <3>1. job[q] = "write"
      BY <1>0, <2>1 DEF TypeOK
    <3>2. tokens # Torn
      BY <1>0, ContentAssumption DEF TypeOK, Unparsable
    <3> QED
      BY <1>0, <2>2, <2>3, <3>1, <3>2 DEF OpenCurrent, TypeOK, Unparsable
  <2>7. TmpCurrent'
    <3> SUFFICES ASSUME tmp # None
                 PROVE  /\ data'[tmp] \in Unparsable \cup {tokens}
                        /\ NoUndo => data'[tmp] = tokens
                                       \/ \E q \in Requests : job'[q] = "write" /\ fd[q] = tmp
      BY <2>1, <2>4 DEF TmpCurrent, Unparsable
    <3>1. /\ data[tmp] \in Unparsable \cup {tokens}
          /\ NoUndo => data[tmp] = tokens \/ \E q \in Requests : job[q] = "write" /\ fd[q] = tmp
      BY <1>0, <2>1 DEF TmpCurrent, Opened
    <3>2. CASE fd[r] = tmp
      BY <1>0, <2>1, <2>2, <2>3, <3>2 DEF TypeOK, Unparsable
    <3>3. CASE fd[r] # tmp
      BY <1>0, <2>1, <2>2, <3>1, <3>3 DEF TypeOK
    <3> QED
      BY <3>2, <3>3
  <2>8. FileCurrent'
    BY <1>0, <2>1 DEF FileCurrent, Changed, TypeOK
  <2> QED
    BY <2>5, <2>6, <2>7, <2>8 DEF DiskParts
<1>5. CASE Rename(r)
  <2>1. /\ job[r] = "rename" /\ pc[r] = "rename" /\ tmp # None
        /\ pc' = [pc EXCEPT ![r] = "ok"] /\ job' = [job EXCEPT ![r] = "none"]
        /\ file' = tmp /\ tmp' = None
        /\ UNCHANGED <<tokens, fd, data>>
    BY <1>0, <1>5 DEF Rename, JobsAttended, InFlight, Waiting, Answer
  <2>2. NoUndo' = NoUndo
    BY <1>0, <2>1 DEF NoUndo, TypeOK
  <2>3. JobsAttended'
    BY <1>0, <2>1 DEF JobsAttended, TypeOK
  <2>4. OpenCurrent'
    BY <1>0, <2>1, <2>2 DEF OpenCurrent, TypeOK, Unparsable
  <2>5. TmpCurrent'
    BY <2>1 DEF TmpCurrent
  <2>6. FileCurrent'
    <3> SUFFICES ASSUME \A q \in Requests : pc'[q] \notin Changed PROVE data[tmp] = tokens
      BY <2>1 DEF FileCurrent, Changed
    <3>1. \A q \in Requests : q # r => pc[q] \notin Changed
      BY <1>0, <2>1 DEF TypeOK
    <3>2. NoUndo /\ \A q \in Requests : job[q] # "write"
      BY <1>0, <2>1, <3>1 DEF NoUndo, Changed, JobsAttended
    <3> QED
      BY <1>0, <2>1, <3>2 DEF TmpCurrent, Opened
  <2> QED
    BY <2>3, <2>4, <2>5, <2>6 DEF DiskParts
<1>6. CASE RenameMissing(r)
  <2>1. /\ job[r] = "rename" /\ pc[r] = "rename" /\ tmp = None
        /\ pc' = [pc EXCEPT ![r] = "undo"] /\ job' = [job EXCEPT ![r] = "none"]
        /\ UNCHANGED <<tokens, fd, data, tmp, file, last>>
    BY <1>0, <1>6 DEF RenameMissing, JobFailed, PersistFailed, JobsAttended, InFlight, Waiting
  <2> QED
    BY <1>0, <2>1 DEF DiskParts, JobsAttended, OpenCurrent, TmpCurrent, FileCurrent, NoUndo,
       Changed, TypeOK, Unparsable
<1> QED
  BY <1>1, <1>2, <1>3, <1>4, <1>5, <1>6 DEF Serve

\* So does one that fails.
LEMMA DiskFailed ==
  ASSUME TableInv, DiskParts, NEW r \in Requests, DiskError(r)
  PROVE  DiskParts'
<1>0. TypeOK /\ JobsAttended /\ OpenCurrent /\ TmpCurrent /\ FileCurrent
  BY DEF TableInv, DiskParts
<1>1. /\ pc' = [pc EXCEPT ![r] = "undo"]
      /\ UNCHANGED <<tokens, fd, tmp, file, last>>
      /\ job' = [job EXCEPT ![r] = "none"]
  BY <1>0 DEF DiskError, DirFails, OpenFails, WriteFails, RenameFails, JobFailed, PersistFailed,
     JobsAttended, TableInv, JobOfPersist, InFlight, Waiting, Answers, diskVars, TypeOK
<1>2. \A i \in Inodes : data'[i] = data[i] \/ data'[i] = Torn
  BY <1>0 DEF DiskError, DirFails, OpenFails, WriteFails, RenameFails, diskVars, TypeOK
<1>3. ~NoUndo'
  BY <1>0, <1>1 DEF NoUndo, TypeOK
<1>4. JobsAttended' /\ FileCurrent'
  BY <1>0, <1>1 DEF JobsAttended, FileCurrent, Changed, TypeOK
<1>5. OpenCurrent'
  BY <1>0, <1>1, <1>2, <1>3 DEF OpenCurrent, TypeOK, Unparsable
<1>6. TmpCurrent'
  BY <1>0, <1>1, <1>2, <1>3 DEF TmpCurrent, Opened, TypeOK, Unparsable
<1> QED
  BY <1>4, <1>5, <1>6 DEF DiskParts

\* Every step keeps the file system in order.
LEMMA StepDiskInv == DiskInv /\ [Next]_vars => DiskInv'
<1> SUFFICES ASSUME DiskInv, [Next]_vars PROVE DiskInv'
  OBVIOUS
<1>0. TableInv /\ TableInv' /\ TypeOK /\ CancelBudget /\ CancelBudget'
      /\ (NoCancelYet' => NoCancelYet)
  BY StepTable, CancelsCount DEF DiskInv, TableInv
<1> SUFFICES ASSUME NoCancelYet', DiskParts PROVE DiskParts'
  BY <1>0 DEF DiskInv, DiskParts
<1>1. ASSUME NEW r \in Requests, Submit(r) PROVE DiskParts'
  <2>1. /\ UNCHANGED <<tokens, last, job, fd, tmp, file, data>>
        /\ pc[r] = "idle" /\ pc' = [pc EXCEPT ![r] = "lock"]
    BY <1>1 DEF Submit, SubmitCreate, SubmitRevoke, diskVars
  <2> QED
    BY <1>0, <2>1 DEF DiskParts, JobsAttended, OpenCurrent, TmpCurrent, FileCurrent, NoUndo,
       Opened, Changed, TypeOK, Unparsable
<1>2. ASSUME NEW r \in Requests, Cancel(r) PROVE FALSE
  BY <1>0, <1>2 DEF Cancel, Spend, NoCancelYet, TypeOK
<1>3. CASE CrashRestart
  BY <1>0, <1>3 DEF CrashRestart, DiskParts, JobsAttended, OpenCurrent, TmpCurrent, FileCurrent,
     Opened
<1>4. CASE UNCHANGED vars
  BY <1>4 DEF vars, taskVars, diskVars, DiskParts, JobsAttended, OpenCurrent, TmpCurrent,
     FileCurrent, Opened, NoUndo, Unparsable
<1> QED
  BY <1>0, <1>1, <1>2, <1>3, <1>4, DiskServed, DiskFailed DEF Next, Done

\* As long as no task was dropped: with nothing in flight and 200 the last answer,
\* tokens.json is the table, whatever failed, overlapped or crashed before.
THEOREM FileAfterSuccess == Spec => [](NoCancelYet => LastSuccessDurable)
<1>1. DiskInv => (NoCancelYet => LastSuccessDurable)
  BY DEF DiskInv, FileCurrent, LastSuccessDurable, Quiet, InFlight, Waiting, Changed
<1> QED
  BY <1>1, InitDisk, StepDiskInv, PTL DEF Spec

-----------------------------------------------------------------------------
(* Revocations                                                             *)

\* At the start no request is a record anywhere.
LEMMA InitUnpushed == Init => Unpushed
<1> SUFFICES ASSUME Init PROVE Unpushed
  OBVIOUS
<1>1. \A q \in Requests : tokens[q] = "absent" /\ NoTokens[q] = "absent"
  BY RegistryAssumption DEF Init, NoTokens, Ids
<1>2. \A i \in Inodes : data[i] \notin Unparsable => data[i] = tokens
  BY DEF Init, Unparsable
<1> QED
  BY <1>1, <1>2 DEF Init, Unpushed

\* Tables that come from tables there were know no more requests than those.
LEMMA UnpushedKept ==
  ASSUME Unpushed,
         \A q \in Requests : pc'[q] \in NotPushed =>
           /\ pc[q] \in NotPushed
           /\ tokens'[q] = "absent",
         \A r \in Requests : snap'[r] \in {snap[r], tokens},
         \A i \in Inodes : data'[i] \in {data[i]} \cup Unparsable \cup {snap[r] : r \in Requests}
  PROVE  Unpushed'
<1> SUFFICES ASSUME NEW q \in Requests, pc'[q] \in NotPushed
             PROVE  /\ tokens'[q] = "absent"
                    /\ \A r \in Requests : snap'[r][q] = "absent"
                    /\ \A i \in Inodes : data'[i] \notin Unparsable => data'[i][q] = "absent"
  BY DEF Unpushed, Unparsable, Inodes, NotPushed
<1> QED
  BY DEF Unpushed

\* Every step keeps the requests that pushed nothing out of every table.
LEMMA StepUnpushed ==
  ASSUME TableInv, Unpushed, [Next]_vars
  PROVE  Unpushed'
<1> USE DEF taskVars, diskVars
<1>0. TypeOK
  BY DEF TableInv
<1>1. \A r \in Requests : snap'[r] \in {snap[r], tokens}
  BY <1>0 DEF TypeOK, Next, Submit, Serve, DiskError, SubmitCreate, SubmitRevoke, RefuseName,
     PushRecord, RevokeUnknown, MarkRevoked, Undo, DirFails, TakeSnapshot, OpenTmp, WriteTmp,
     OpenFails, WriteFails, Rename, RenameMissing, RenameFails, Cancel, CrashRestart, Done, vars
<1>2. \A i \in Inodes : data'[i] \in {data[i]} \cup Unparsable \cup {snap[r] : r \in Requests}
  <2>1. ASSUME NEW r \in Requests, WriteTmp(r) PROVE <1>2
    BY <1>0, <2>1 DEF TypeOK, WriteTmp, Written, Unparsable
  <2>2. ASSUME NEW r \in Requests, WriteFails(r) PROVE <1>2
    BY <1>0, <2>2 DEF TypeOK, WriteFails, Unparsable
  <2>3. ASSUME NEW r \in Requests, OpenTmp(r) PROVE <1>2
    BY <1>0, <2>3 DEF TypeOK, OpenTmp, Unparsable
  <2>4. CASE UNCHANGED data
    BY <2>4
  <2> QED
    BY <2>1, <2>2, <2>3, <2>4 DEF Next, Submit, Serve, DiskError, SubmitCreate, SubmitRevoke,
       RefuseName, PushRecord, RevokeUnknown, MarkRevoked, Undo, DirFails, TakeSnapshot,
       OpenFails, Rename, RenameMissing, RenameFails, Cancel, CrashRestart, Done, vars
<1>3. \A q \in Requests : pc'[q] \in NotPushed => pc[q] \in NotPushed
  BY <1>0 DEF NotPushed, TypeOK, Next, Submit, Serve, DiskError, SubmitCreate, SubmitRevoke,
     RefuseName, PushRecord, RevokeUnknown, MarkRevoked, Undo, DirFails, TakeSnapshot, OpenTmp,
     WriteTmp, OpenFails, WriteFails, Rename, RenameMissing, RenameFails, JobFailed, PersistFailed,
     Answer, Cancel, CrashRestart, Done, vars
<1>4. \A q \in Requests : pc'[q] \in NotPushed => tokens'[q] = "absent"
  <2>1. CASE UNCHANGED tokens
    BY <1>3, <2>1 DEF Unpushed
  <2>2. ASSUME NEW r \in Requests, PushRecord(r) PROVE <1>4
    BY <1>0, <1>3, <2>2 DEF PushRecord, Unpushed, NotPushed, TypeOK
  <2>3. ASSUME NEW r \in Requests, MarkRevoked(r) PROVE <1>4
    BY <1>0, <1>3, <2>3 DEF MarkRevoked, Unpushed, TypeOK, Table, Ids
  <2>4. ASSUME NEW r \in Requests, Undo(r) PROVE <1>4
    BY <1>0, <1>3, <2>4 DEF Undo, Unpushed, TypeOK, Table, Ids
  <2>5. CASE CrashRestart
    <3>1. \A q \in Requests : NoTokens[q] = "absent"
      BY DEF NoTokens, Ids
    <3>2. file # None => file \in Inodes
      BY <1>0 DEF TypeOK
    <3> QED
      BY <1>3, <2>5, <3>1, <3>2 DEF CrashRestart, Load, Unpushed
  <2> QED
    BY <2>1, <2>2, <2>3, <2>4, <2>5 DEF Next, Submit, Serve, DiskError, SubmitCreate, SubmitRevoke,
       RefuseName, RevokeUnknown, DirFails, TakeSnapshot, OpenTmp, WriteTmp,
       OpenFails, WriteFails, Rename, RenameMissing, RenameFails, Cancel, Done, vars
<1> QED
  BY <1>1, <1>2, <1>3, <1>4, UnpushedKept

\* How a step moves the requests: nobody comes back, and a request gets to its change, and
\* to its answer, from where the code says.
LEMMA RequestMoves ==
  ASSUME TableInv, [Next]_vars, NEW q \in Requests
  PROVE  /\ pc'[q] \in NotPushed => pc[q] \in NotPushed
         /\ pc'[q] \in Changed => pc[q] \in Changed \/ PushRecord(q) \/ MarkRevoked(q)
         /\ pc'[q] = "ok" => pc[q] = "ok" \/ (Rename(q) /\ pc[q] \in {"write", "rename"})
         /\ pc[q] = "undo" => pc'[q] \notin {"persist", "write", "rename", "ok"}
         /\ pc[q] # "idle" => UNCHANGED <<op[q], target[q]>>
         /\ pc[q] = "idle" => pc'[q] \in {"idle", "lock"}
         /\ pc'[q] = "idle" => pc[q] = "idle"
<1> USE DEF taskVars, diskVars, NotPushed, Changed
<1>0. TypeOK /\ JobOfPersist
  BY DEF TableInv
<1>1. ASSUME NEW r \in Requests, NEW a, pc' = [pc EXCEPT ![r] = a], pc[r] # "idle", a # "idle", a # "lock",
             UNCHANGED <<op, target>>,
             a \in Changed => pc[r] \in Changed \/ PushRecord(r) \/ MarkRevoked(r),
             a = "ok" => Rename(r) /\ pc[r] \in {"write", "rename"},
             pc[r] = "undo" => a \notin {"persist", "write", "rename", "ok"}
      PROVE  /\ pc'[q] \in NotPushed => pc[q] \in NotPushed
             /\ pc'[q] \in Changed => pc[q] \in Changed \/ PushRecord(q) \/ MarkRevoked(q)
             /\ pc'[q] = "ok" => pc[q] = "ok" \/ (Rename(q) /\ pc[q] \in {"write", "rename"})
             /\ pc[q] = "undo" => pc'[q] \notin {"persist", "write", "rename", "ok"}
             /\ pc[q] # "idle" => UNCHANGED <<op[q], target[q]>>
             /\ pc[q] = "idle" => pc'[q] \in {"idle", "lock"}
             /\ pc'[q] = "idle" => pc[q] = "idle"
  BY <1>0, <1>1 DEF TypeOK
<1>2. ASSUME NEW r \in Requests, Submit(r)
      PROVE  /\ pc' = [pc EXCEPT ![r] = "lock"] /\ pc[r] = "idle"
             /\ \A p \in Requests : p # r => UNCHANGED <<op[p], target[p]>>
  BY <1>0, <1>2 DEF Submit, SubmitCreate, SubmitRevoke, TypeOK
<1>3. ASSUME NEW r \in Requests, RefuseName(r) \/ RevokeUnknown(r) \/ PushRecord(r)
                                    \/ MarkRevoked(r) \/ Undo(r)
      PROVE  \E a \in {"conflict", "notfound", "persist", "failed"} :
               /\ pc' = [pc EXCEPT ![r] = a] /\ UNCHANGED <<op, target>>
               /\ pc[r] \in {"lock", "undo"}
               /\ pc[r] = "undo" => a = "failed"
               /\ a = "persist" => PushRecord(r) \/ MarkRevoked(r)
  BY <1>3 DEF RefuseName, RevokeUnknown, PushRecord, MarkRevoked, Undo, Answer
<1>4. ASSUME NEW r \in Requests, TakeSnapshot(r) \/ DirFails(r)
      PROVE  \E a \in {"write", "undo"} :
               pc' = [pc EXCEPT ![r] = a] /\ UNCHANGED <<op, target>> /\ pc[r] = "persist"
  BY <1>4 DEF TakeSnapshot, DirFails, PersistFailed
<1>5. ASSUME NEW r \in Requests, OpenTmp(r) \/ WriteTmp(r) \/ Rename(r) \/ RenameMissing(r)
                                    \/ OpenFails(r) \/ WriteFails(r) \/ RenameFails(r)
      PROVE  \/ UNCHANGED <<pc, op, target>>
             \/ \E a \in {"rename", "ok", "undo"} :
                  /\ pc' = [pc EXCEPT ![r] = a] /\ UNCHANGED <<op, target>>
                  /\ pc[r] \in {"write", "rename"}
                  /\ a = "ok" => Rename(r)
  BY <1>0, <1>5 DEF OpenTmp, WriteTmp, Rename, RenameMissing, OpenFails, WriteFails, RenameFails,
     JobFailed, PersistFailed, Answer, InFlight, JobOfPersist, Waiting, Answers
<1>6. ASSUME NEW r \in Requests, Cancel(r)
      PROVE  pc' = [pc EXCEPT ![r] = "lost"] /\ UNCHANGED <<op, target>> /\ pc[r] # "idle"
  BY <1>6 DEF Cancel, Answer, InFlight, Waiting
<1>7. CASE CrashRestart
  BY <1>0, <1>7 DEF CrashRestart, InFlight, Waiting, TypeOK
<1>8. CASE UNCHANGED vars
  BY <1>8 DEF vars
<1> QED
  BY <1>0, <1>1, <1>2, <1>3, <1>4, <1>5, <1>6, <1>7, <1>8
     DEF Next, Serve, DiskError, Done, TypeOK

\* A revocation is of a record that was pushed, or was there at boot.
LEMMA StepOrigins ==
  ASSUME TableInv, Unpushed, IdleNotRevoke, TargetPushed, [Next]_vars
  PROVE  IdleNotRevoke' /\ TargetPushed'
<1>0. TypeOK
  BY DEF TableInv
<1>1. IdleNotRevoke'
  <2> SUFFICES ASSUME NEW r \in Requests, pc'[r] = "idle" PROVE op'[r] = "create"
    BY DEF IdleNotRevoke
  <2>1. pc[r] = "idle" /\ op[r] = "create"
    BY <1>0, RequestMoves DEF NotPushed, IdleNotRevoke
  <2> QED
    BY <1>0, <2>1 DEF Next, Submit, Serve, DiskError, SubmitCreate, SubmitRevoke, RefuseName,
       PushRecord, RevokeUnknown, MarkRevoked, Undo, DirFails, TakeSnapshot, OpenTmp, WriteTmp,
       OpenFails, WriteFails, Rename, RenameMissing, RenameFails, Cancel, CrashRestart, Done,
       vars, taskVars, TypeOK
<1>2. TargetPushed'
  <2> SUFFICES ASSUME NEW r \in Requests, op'[r] = "revoke", pc'[r] \in Changed \cup {"ok"},
                      target'[r] \in Requests
               PROVE  pc'[target'[r]] \notin NotPushed
    BY DEF TargetPushed
  <2>1. pc[r] # "idle" /\ op[r] = "revoke" /\ target'[r] = target[r]
    BY RequestMoves DEF Changed
  <2>2. pc[target[r]] \notin NotPushed
    <3>1. CASE pc[r] \in Changed \cup {"ok"}
      BY <2>1, <3>1 DEF TargetPushed
    <3>2. CASE MarkRevoked(r)
      BY <2>1, <3>2 DEF MarkRevoked, Unpushed
    <3> QED
      BY <2>1, <3>1, <3>2, RequestMoves DEF PushRecord, Changed
  <2> QED
    BY <2>1, <2>2, RequestMoves
<1> QED
  BY <1>1, <1>2

\* A revocation that is the only one of its token was so before, and none yet when it was
\* submitted in this step.
LEMMA SoleBefore ==
  ASSUME TableInv, IdleNotRevoke, [Next]_vars, NEW r \in Requests, SoleRevoke(r)', pc[r] # "idle"
  PROVE  SoleRevoke(r) /\ target'[r] = target[r]
<1>1. \A q \in Requests : pc[q] # "idle" => op'[q] = op[q] /\ target'[q] = target[q]
  BY RequestMoves
<1>2. \A q \in RevokesOf(target[r]) : q \in RevokesOf(target[r])'
  BY <1>1 DEF RevokesOf, IdleNotRevoke
<1> QED
  BY <1>1, <1>2 DEF SoleRevoke, RevokesOf

\* Who may make a token authenticate: its creation, and the rollback of a revocation.
LEMMA WhoActivates ==
  ASSUME TableInv, [Next]_vars, NEW i \in Ids, tokens[i] # "active", tokens'[i] = "active"
  PROVE  \/ i \in Requests /\ PushRecord(i)
         \/ \E q \in RevokesOf(i) : pc[q] = "undo"
         \/ CrashRestart
<1>0. TypeOK /\ OwnRecord
  BY DEF TableInv
<1>1. ASSUME NEW r \in Requests, PushRecord(r) PROVE i = r
  BY <1>0, <1>1 DEF PushRecord, TypeOK, Table
<1>2. ASSUME NEW r \in Requests, MarkRevoked(r) PROVE FALSE
  BY <1>0, <1>2 DEF MarkRevoked, TypeOK, Table
<1>3. ASSUME NEW r \in Requests, Undo(r) PROVE r \in RevokesOf(i) /\ pc[r] = "undo"
  BY <1>0, <1>3 DEF Undo, TypeOK, Table, RevokesOf
<1>4. \/ UNCHANGED tokens
      \/ \E r \in Requests : PushRecord(r) \/ MarkRevoked(r) \/ Undo(r)
      \/ CrashRestart
  BY DEF Next, Submit, Serve, DiskError, SubmitCreate, SubmitRevoke, RefuseName, RevokeUnknown,
     DirFails, TakeSnapshot, OpenTmp, WriteTmp, OpenFails, WriteFails, Rename, RenameMissing,
     RenameFails, Cancel, Done, vars
<1> QED
  BY <1>1, <1>2, <1>3, <1>4

\* Neither bound on what may still happen goes up again.
LEMMA CrashesCount ==
  ASSUME TableInv, [Next]_vars
  PROVE  (NoCrashYet' => NoCrashYet) /\ (CrashRestart => ~NoCrashYet')
<1>1. /\ budget'["crash"] <= budget["crash"]
      /\ CrashRestart => budget'["crash"] < budget["crash"]
  <2>1. \/ UNCHANGED budget
        \/ \E kind \in {"fault", "cancel", "crash"} : Spend(kind)
    BY DEF Next, Submit, Serve, DiskError, SubmitCreate, SubmitRevoke, RefuseName, PushRecord,
       RevokeUnknown, MarkRevoked, Undo, DirFails, TakeSnapshot, OpenTmp, WriteTmp, OpenFails,
       WriteFails, Rename, RenameMissing, RenameFails, Cancel, CrashRestart, Done, vars
  <2> QED
    BY <2>1 DEF Spend, TableInv, TypeOK, CrashRestart
<1>2. budget["crash"] \in Nat /\ budget'["crash"] \in Nat /\ MaxCrashes \in Nat
  BY StepTyped, RegistryAssumption DEF TableInv, TypeOK
<1> QED
  BY <1>1, <1>2 DEF TableInv, CrashBudget, NoCrashYet

\* The only revocation of a token stays in memory.
LEMMA StepMemory ==
  ASSUME RevocationsInv, [Next]_vars, NoCancelYet' \/ NoCrashYet'
  PROVE  HeldInMemory'
<1>0. TableInv /\ TypeOK /\ CancelBudget /\ IdleNotRevoke /\ TargetPushed
  BY DEF RevocationsInv, DiskInv, TableInv
<1>1. /\ HeldInMemory
      /\ NoCancelYet' => NoCancelYet /\ HeldOnDisk
      /\ CrashRestart => NoCancelYet'
  BY <1>0, CancelsCount, CrashesCount DEF RevocationsInv
<1> SUFFICES ASSUME NEW r \in Requests, SoleRevoke(r)',
                    pc'[r] \in {"persist", "write", "rename", "ok"},
                    tokens'[target'[r]] = "active"
             PROVE  FALSE
  BY DEF HeldInMemory, Validates
<1> DEFINE t == target[r]
<1>2. pc[r] # "idle" /\ SoleRevoke(r) /\ target'[r] = t /\ t \in Ids
  BY <1>0, RequestMoves, SoleBefore DEF TypeOK
<1>3. CASE MarkRevoked(r)
  BY <1>0, <1>2, <1>3 DEF MarkRevoked, TypeOK, Table
<1>4. CASE ~MarkRevoked(r)
  <2>1. op[r] = "revoke" /\ ~PushRecord(r)
    BY <1>2 DEF SoleRevoke, PushRecord
  <2>2. pc[r] \in {"persist", "write", "rename", "ok"}
    BY <1>0, <1>4, <2>1, RequestMoves DEF Changed
  <2>3. tokens[t] # "active"
    BY <1>1, <1>2, <2>2 DEF HeldInMemory, Validates
  <2>4. ~(t \in Requests /\ PushRecord(t))
    BY <1>0, <2>1, <2>2 DEF TargetPushed, PushRecord, Changed, NotPushed
  <2>5. \A q \in RevokesOf(t) : pc[q] # "undo"
    BY <1>2, <2>2 DEF SoleRevoke
  <2>6. CrashRestart
    BY <1>0, <1>2, <2>3, <2>4, <2>5, WhoActivates
  <2>7. pc[r] = "ok"
    BY <1>0, <2>2, <2>6 DEF CrashRestart, InFlight, Waiting, TypeOK
  <2>8. /\ file # None => file \in Inodes
        /\ NoTokens[t] = "absent"
    BY <1>0, <1>2 DEF TypeOK, NoTokens
  <2> QED
    BY <1>1, <1>2, <2>6, <2>7, <2>8 DEF CrashRestart, Load, HeldOnDisk, InUse
<1> QED
  BY <1>3, <1>4

\* What a step leaves in the files in use is what was there, or unparsable, or the table.
LEMMA FilesInUse ==
  ASSUME TableInv, DiskParts, Next, NEW i \in Inodes, InUse(i)'
  PROVE  \/ InUse(i) /\ data'[i] = data[i]
         \/ data'[i] \in Unparsable \cup {tokens}
<1> USE DEF taskVars, diskVars
<1>0. TypeOK /\ SnapshotIsMemory /\ JobsAttended /\ OpenCurrent
  BY DEF TableInv, DiskParts
<1>1. ASSUME NEW r \in Requests, OpenTmp(r)
      PROVE  data'[i] = Empty \/ (InUse(i) /\ data'[i] = data[i])
  BY <1>0, <1>1 DEF OpenTmp, InUse, TypeOK
<1>2. ASSUME NEW r \in Requests, WriteTmp(r)
      PROVE  data'[i] \in {tokens, Torn} \/ (InUse(i) /\ data'[i] = data[i])
  BY <1>0, <1>2 DEF WriteTmp, Written, InUse, TypeOK, JobsAttended, SnapshotIsMemory
<1>3. ASSUME NEW r \in Requests, WriteFails(r)
      PROVE  data'[i] = Torn \/ (InUse(i) /\ data'[i] = data[i])
  BY <1>0, <1>3 DEF WriteFails, JobFailed, InUse, TypeOK
<1>4. ASSUME NEW r \in Requests,
             Rename(r) \/ RenameMissing(r) \/ RenameFails(r) \/ OpenFails(r) \/ TakeSnapshot(r)
      PROVE  InUse(i) /\ data'[i] = data[i]
  BY <1>0, <1>4, RegistryAssumption DEF Rename, RenameMissing, RenameFails, OpenFails,
     TakeSnapshot, JobFailed, InUse, TypeOK, Inodes
<1>5. CASE CrashRestart
  BY <1>5 DEF CrashRestart, InUse
<1>6. CASE UNCHANGED <<job, fd, tmp, file, data>>
  BY <1>6 DEF InUse
<1> QED
  BY <1>1, <1>2, <1>3, <1>4, <1>5, <1>6 DEF Next, Submit, Serve, DiskError, SubmitCreate,
     SubmitRevoke, RefuseName, PushRecord, RevokeUnknown, MarkRevoked, Undo, DirFails, Cancel,
     Done, vars, Unparsable

\* Without cancellations it stays in every file a restart may load.
LEMMA StepFiles ==
  ASSUME RevocationsInv, [Next]_vars, NoCancelYet'
  PROVE  HeldOnDisk'
<1>0. TableInv /\ TypeOK /\ CancelBudget /\ IdleNotRevoke
  BY DEF RevocationsInv, DiskInv, TableInv
<1>1. HeldInMemory /\ HeldOnDisk /\ DiskParts
  BY <1>0, CancelsCount DEF RevocationsInv, DiskInv, DiskParts
<1> SUFFICES ASSUME NEW r \in Requests, SoleRevoke(r)', pc'[r] = "ok",
                    NEW i \in Inodes, InUse(i)', data'[i] \notin Unparsable
             PROVE  data'[i][target'[r]] # "active"
  BY DEF HeldOnDisk, Unparsable
<1>2. pc[r] # "idle" /\ SoleRevoke(r) /\ target'[r] = target[r]
  BY <1>0, RequestMoves, SoleBefore
<1>3. tokens[target[r]] # "active"
  BY <1>0, <1>1, <1>2, RequestMoves DEF HeldInMemory, Validates
<1>4. CASE Rename(r)
  <2>1. data'[i] = data[i] /\ (i = tmp \/ \E q \in Requests : job[q] = "write" /\ fd[q] = i)
    BY <1>0, <1>4, RegistryAssumption DEF Rename, InUse, TypeOK, Inodes
  <2>2. data[i] \in Unparsable \cup {tokens}
    BY <1>1, <1>4, <2>1 DEF DiskParts, TmpCurrent, OpenCurrent, Opened, Rename
  <2> QED
    BY <1>2, <1>3, <2>1, <2>2
<1>5. CASE pc[r] = "ok"
  <2>1. CASE Next
    BY <1>0, <1>1, <1>2, <1>3, <1>5, <2>1, FilesInUse DEF HeldOnDisk
  <2>2. CASE UNCHANGED vars
    BY <1>1, <1>2, <1>5, <2>2 DEF HeldOnDisk, InUse, vars, diskVars
  <2> QED
    BY <2>1, <2>2
<1> QED
  BY <1>0, <1>4, <1>5, RequestMoves

\* At the start no revocation was answered.
LEMMA InitRevocations == Init => RevocationsInv
<1> SUFFICES ASSUME Init PROVE RevocationsInv
  OBVIOUS
<1>1. \A r \in Requests : op[r] = "create" /\ pc[r] = "idle"
  BY DEF Init
<1> QED
  BY <1>1, InitDisk, InitUnpushed DEF RevocationsInv, IdleNotRevoke, TargetPushed, HeldInMemory,
     HeldOnDisk, SoleRevoke

\* Every step keeps the answered revocations.
LEMMA StepRevocations == RevocationsInv /\ [Next]_vars => RevocationsInv'
<1> SUFFICES ASSUME RevocationsInv, [Next]_vars PROVE RevocationsInv'
  OBVIOUS
<1>1. DiskInv /\ TableInv /\ Unpushed /\ IdleNotRevoke /\ TargetPushed
  BY DEF RevocationsInv, DiskInv
<1>2. DiskInv' /\ Unpushed' /\ IdleNotRevoke' /\ TargetPushed'
  BY <1>1, StepDiskInv, StepUnpushed, StepOrigins
<1>3. NoCancelYet' \/ NoCrashYet' => HeldInMemory'
  BY StepMemory
<1>4. NoCancelYet' => HeldOnDisk'
  BY StepFiles
<1> QED
  BY <1>2, <1>3, <1>4 DEF RevocationsInv

\* As long as no task was dropped, or no process crashed: a token whose revocation was
\* answered 200 stays revoked when nobody else revokes it, through failing requests,
\* rollbacks and, when no task was dropped, restarts.
THEOREM SoleRevocationsHold == Spec => []((NoCancelYet \/ NoCrashYet) => SoleRevokeHolds)
<1>1. RevocationsInv => ((NoCancelYet \/ NoCrashYet) => SoleRevokeHolds)
  BY DEF RevocationsInv, HeldInMemory, SoleRevokeHolds, SoleRevoke, RevokesOf
<1> QED
  BY <1>1, InitRevocations, StepRevocations, PTL DEF Spec
=============================================================================
