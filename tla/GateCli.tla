------------------------------ MODULE GateCli ------------------------------
(***************************************************************************)
(* The commands of the `gate` CLI that read or change config.toml:         *)
(* `admin token create`, `admin token revoke` and the commands that take a *)
(* saved token from it (`activate`, the git credential helper).            *)
(*                                                                         *)
(* A command is one process.  Processes share the file and nothing else:   *)
(* no lock is taken, Config::save rewrites the whole document, and         *)
(* write_secret_file truncates the file before it writes.  The gateway is  *)
(* seen as these commands see it, through the answers of its admin API: it *)
(* changes its records, persists them with other requests in between, and  *)
(* answers, or takes its change back.  A restart of it, which may undo     *)
(* more (TokenRegistry, Gateway), is left out, and so is what GATEWAY_URL  *)
(* and GATE_ADMIN_TOKEN override.                                          *)
(***************************************************************************)
EXTENDS Naturals

CONSTANTS
  Procs,      \* the commands, each run once; a token is known by its creator
  Names,      \* token names
  None,       \* no such file, no such entry
  Empty,      \* the file just truncated; not a configuration
  Torn,       \* a cut or mixed document that does not parse
  FirstFiles, \* what config.toml may be when the history starts
  MaxFaults   \* bound: lost answers, disk errors and kills, taken together

\* What a configuration says, as far as these commands look: whether an
\* AdminTransport can be built from it, and the saved tokens.
Doc == [ready : BOOLEAN, tokens : [Names -> Procs \cup {None}]]

\* What the registry holds of the token that a process created.
Status == {"absent", "active", "revoked"}

ASSUME CliAssumption ==
  /\ None \notin Procs \cup Status
  /\ Empty # Torn /\ None \notin {Empty, Torn}
  /\ {None, Empty, Torn} \cap Doc = {}
  /\ FirstFiles \subseteq {None} \cup [ready : BOOLEAN, tokens : [Names -> {None}]]
  /\ MaxFaults \in Nat

Ops == {"create", "revoke", "use"}

VARIABLES
  file,     \* config.toml
  status,   \* the gateway's records
  undo,     \* requests being persisted: what the record was before the change
  pc,       \* where each process is
  op,       \* its command
  name,     \* the token name on its command line
  cfg,      \* the configuration it has loaded or is about to save
  target,   \* revoke: the id found by name; use: the token taken from the file
  faults,   \* faults that may still happen
  exposed,  \* history: commands whose save another save or a failure met
  known,    \* history: tokens created under the name before a revoke began
  contested \* history: tokens that two revocations at once were persisted for

historyVars == <<exposed, known, contested>>
vars == <<file, status, undo, pc, op, name, cfg, target, faults, historyVars>>

Places == {"idle", "load", "post", "answer", "reload", "open", "write",
           "list", "delete", "ok", "error", "killed"}

TypeOK ==
  /\ file \in Doc \cup {None, Empty, Torn}
  /\ status \in [Procs -> Status]
  /\ undo \in [Procs -> Status \cup {None}]
  /\ pc \in [Procs -> Places]
  /\ op \in [Procs -> Ops]
  /\ name \in [Procs -> Names]
  /\ cfg \in [Procs -> Doc]
  /\ target \in [Procs -> Procs \cup {None}]
  /\ faults \in 0..MaxFaults
  /\ exposed \subseteq Procs
  /\ known \in [Procs -> SUBSET Procs]
  /\ contested \subseteq Procs

\* The configuration written when there is none: end-to-end encryption is on
\* and no enclave measurements are set, so no admin command can run with it.
Default == [ready |-> FALSE, tokens |-> [n \in Names |-> None]]

\* Between reading the configuration it will save and the end of its save.
Saving == {q \in Procs : pc[q] \in {"open", "write"}}

Goto(p, place) == pc' = [pc EXCEPT ![p] = place]

\* History: p begins to save.
BeginsToSave(p) ==
  exposed' = IF Saving = {} THEN exposed ELSE exposed \cup Saving \cup {p}

\* A record under a name; the name of a revoked one stays taken.
Holds(q, n) == status[q] # "absent" /\ name[q] = n

HeldAs(f, n) == IF f \in Doc THEN f.tokens[n] ELSE None

Fault ==
  /\ faults > 0
  /\ faults' = faults - 1

Init ==
  /\ file \in FirstFiles
  /\ status = [p \in Procs |-> "absent"]
  /\ undo = [p \in Procs |-> None]
  /\ pc = [p \in Procs |-> "idle"]
  /\ op \in [Procs -> Ops]
  /\ name \in [Procs -> Names]
  /\ cfg = [p \in Procs |-> Default]
  /\ target = [p \in Procs |-> None]
  /\ faults = MaxFaults
  /\ exposed = {}
  /\ known = [p \in Procs |-> {}]
  /\ contested = {}

Start(p) ==
  /\ pc[p] = "idle"
  /\ Goto(p, "load")
  /\ known' = [known EXCEPT ![p] =
       {q \in Procs : op[q] = "create" /\ pc[q] = "ok" /\ name[q] = name[p]}]
  /\ UNCHANGED <<file, status, undo, op, name, cfg, target, faults, exposed, contested>>

-----------------------------------------------------------------------------
\* Config::load.  A missing file is created; with the default document every
\* command ends in an error, after saving it.

LoadMissing(p) ==
  /\ pc[p] = "load" /\ file = None
  /\ Goto(p, "open")
  /\ BeginsToSave(p)
  /\ UNCHANGED <<file, status, undo, op, name, cfg, target, faults, known, contested>>

\* Variant: load goes on with what it could not parse.
UnparsableKept(p) ==
  /\ pc[p] \in {"load", "reload"} /\ file \in {Empty, Torn}
  /\ cfg' = [cfg EXCEPT ![p] = file]
  /\ Goto(p, "open")
  /\ BeginsToSave(p)
  /\ UNCHANGED <<file, status, undo, op, name, target, faults, known, contested>>

LoadUnparsable(p) ==
  /\ pc[p] \in {"load", "reload"} /\ file \in {Empty, Torn}
  /\ Goto(p, "error")
  /\ UNCHANGED <<file, status, undo, op, name, cfg, target, faults, historyVars>>

\* `activate` and the credential helper: everything after load is local.
UseToken(p) ==
  /\ pc[p] = "load" /\ op[p] = "use" /\ file \in Doc
  /\ target' = [target EXCEPT ![p] = file.tokens[name[p]]]
  /\ Goto(p, IF file.tokens[name[p]] = None THEN "error" ELSE "ok")
  /\ UNCHANGED <<file, status, undo, op, name, cfg, faults, historyVars>>

\* The admin commands: load, then AdminTransport::from_config.
Connect(p) ==
  /\ pc[p] = "load" /\ op[p] # "use" /\ file \in Doc
  /\ Goto(p, IF ~file.ready THEN "error"
             ELSE IF op[p] = "create" THEN "post" ELSE "list")
  /\ cfg' = [cfg EXCEPT ![p] = file]
  /\ UNCHANGED <<file, status, undo, op, name, target, faults, historyVars>>

-----------------------------------------------------------------------------
\* token create: the request; `create` of the registry pushes the record.

\* A name that is taken, a scope or a binding the gateway does not know.
PostRefused(p) ==
  /\ pc[p] = "post"
  /\ Goto(p, "error")
  /\ UNCHANGED <<file, status, undo, op, name, cfg, target, faults, historyVars>>

\* Variant: the registry accepts a name that is taken.
PostAnyName(p) ==
  /\ pc[p] = "post"
  /\ status' = [status EXCEPT ![p] = "active"]
  /\ undo' = [undo EXCEPT ![p] = "absent"]
  /\ Goto(p, "answer")
  /\ UNCHANGED <<file, op, name, cfg, target, faults, historyVars>>

Post(p) ==
  /\ pc[p] = "post" /\ ~ \E q \in Procs : Holds(q, name[p])
  /\ status' = [status EXCEPT ![p] = "active"]
  /\ undo' = [undo EXCEPT ![p] = "absent"]
  /\ Goto(p, "answer")
  /\ UNCHANGED <<file, op, name, cfg, target, faults, historyVars>>

\* Variant: create inserts its token into the configuration it loaded first.
FirstLoaded(p) ==
  /\ pc[p] = "reload" /\ file \in Doc
  /\ cfg' = [cfg EXCEPT ![p].tokens[name[p]] = p]
  /\ Goto(p, "open")
  /\ BeginsToSave(p)
  /\ UNCHANGED <<file, status, undo, op, name, target, faults, known, contested>>

\* The second load, right before the change is saved.
Reload(p) ==
  /\ pc[p] = "reload" /\ file \in Doc
  /\ cfg' = [cfg EXCEPT ![p] =
       [ready |-> file.ready, tokens |-> [file.tokens EXCEPT ![name[p]] = p]]]
  /\ Goto(p, "open")
  /\ BeginsToSave(p)
  /\ UNCHANGED <<file, status, undo, op, name, target, faults, known, contested>>

-----------------------------------------------------------------------------
\* Config::save.  The write lands at offset 0 of whatever the file then holds.

OpenConfig(p) ==
  /\ pc[p] = "open"
  /\ file' = Empty
  /\ Goto(p, "write")
  /\ UNCHANGED <<status, undo, op, name, cfg, target, faults, historyVars>>

\* The document new followed by what is left of old: nothing when old is no
\* longer, otherwise whole entries of old or a text that does not parse.
Over(new, old) ==
  IF old = Empty THEN {new}
  ELSE {new, Torn} \cup
       {[ready |-> new.ready, tokens |-> [n \in Names |->
           IF n \in left /\ new.tokens[n] = None THEN HeldAs(old, n)
           ELSE new.tokens[n]]] : left \in SUBSET Names}

\* Documents that the beginning of doc may parse as: the tables come in the
\* order of a hash map, [attestation] after them.
Cuts(doc) ==
  {[ready |-> r, tokens |-> [n \in Names |->
      IF n \in left THEN doc.tokens[n] ELSE None]] :
        r \in {FALSE, doc.ready}, left \in SUBSET Names}

WriteConfig(p) ==
  /\ pc[p] = "write"
  /\ file' \in Over(cfg[p], file)
  /\ Goto(p, IF op[p] = "create" /\ cfg[p].tokens[name[p]] = p
             THEN "ok" ELSE "error")
  /\ UNCHANGED <<status, undo, op, name, cfg, target, faults, historyVars>>

OpenFails(p) ==
  /\ pc[p] = "open" /\ Fault
  /\ Goto(p, "error")
  /\ UNCHANGED <<file, status, undo, op, name, cfg, target, historyVars>>

\* The disk is full after some of the bytes; who had saved before may lose.
WriteFails(p) ==
  /\ pc[p] = "write" /\ Fault
  /\ file' \in {file, Torn} \cup UNION {Over(cut, file) : cut \in Cuts(cfg[p])}
  /\ Goto(p, "error")
  /\ exposed' = exposed \cup Saving \cup {q \in Procs : pc[q] = "ok"}
  /\ UNCHANGED <<status, undo, op, name, cfg, target, known, contested>>

-----------------------------------------------------------------------------
\* token revoke: look the name up, then revoke by id.

ListMissing(p) ==
  /\ pc[p] = "list" /\ ~ \E q \in Procs : Holds(q, name[p])
  /\ Goto(p, "error")
  /\ UNCHANGED <<file, status, undo, op, name, cfg, target, faults, historyVars>>

List(p) ==
  /\ pc[p] = "list"
  /\ \E q \in Procs : Holds(q, name[p]) /\ target' = [target EXCEPT ![p] = q]
  /\ Goto(p, "delete")
  /\ UNCHANGED <<file, status, undo, op, name, cfg, faults, historyVars>>

DeleteMissing(p) ==
  /\ pc[p] = "delete" /\ status[target[p]] = "absent"
  /\ Goto(p, "error")
  /\ UNCHANGED <<file, status, undo, op, name, cfg, target, faults, historyVars>>

\* Requests about to be answered or taken back that are revocations of q.
Revoking(q) == {r \in Procs : undo[r] # None /\ op[r] = "revoke" /\ target[r] = q}

\* The registry finds the record by its id and marks it, whatever its status.
Delete(p) ==
  /\ pc[p] = "delete"
  /\ \E q \in Procs :
       /\ q = target[p] /\ status[q] # "absent"
       /\ status' = [status EXCEPT ![q] = "revoked"]
       /\ undo' = [undo EXCEPT ![p] = status[q]]
       /\ contested' = IF Revoking(q) = {} THEN contested ELSE contested \cup {q}
  /\ Goto(p, "answer")
  /\ UNCHANGED <<file, op, name, cfg, target, faults, exposed, known>>

-----------------------------------------------------------------------------
\* The end of a request that changed a record, in the gateway: the table is
\* persisted, or the change is taken back.  It ends whether or not its command
\* still waits for the answer; a request dropped with its connection ends as
\* one that persisted, with its change in memory.

Subject(p) == IF op[p] = "create" THEN p ELSE target[p]

Reply(p, place) ==
  IF pc[p] = "answer" THEN Goto(p, place) ELSE UNCHANGED pc

Persisted(p) ==
  /\ undo[p] # None
  /\ undo' = [undo EXCEPT ![p] = None]
  /\ Reply(p, IF op[p] = "create" THEN "reload" ELSE "ok")
  /\ UNCHANGED <<file, status, op, name, cfg, target, faults, historyVars>>

\* A record that is gone by now is not put back.
Restored(p) ==
  [status EXCEPT ![Subject(p)] = IF @ = "absent" THEN @ ELSE undo[p]]

\* Variant: create does not look at the status of the answer.
SavedAnyway(p) ==
  /\ undo[p] # None /\ Fault
  /\ undo' = [undo EXCEPT ![p] = None]
  /\ status' = Restored(p)
  /\ Reply(p, IF op[p] = "create" THEN "reload" ELSE "error")
  /\ UNCHANGED <<file, op, name, cfg, target, historyVars>>

\* Variant: a revocation that fails makes the token active, whatever it was.
FailsToActive(p) ==
  /\ undo[p] # None /\ Fault
  /\ undo' = [undo EXCEPT ![p] = None]
  /\ status' = IF op[p] = "create" THEN Restored(p)
               ELSE [status EXCEPT ![target[p]] = IF @ = "absent" THEN @ ELSE "active"]
  /\ Reply(p, "error")
  /\ UNCHANGED <<file, op, name, cfg, target, historyVars>>

PersistFails(p) ==
  /\ undo[p] # None /\ Fault
  /\ undo' = [undo EXCEPT ![p] = None]
  /\ status' = Restored(p)
  /\ Reply(p, "error")
  /\ UNCHANGED <<file, op, name, cfg, target, historyVars>>

-----------------------------------------------------------------------------
\* What may go wrong around a request.

\* An answer is lost, or the request was: the command ends in an error.  If the
\* gateway was acting, it goes on.
AnswerLost(p) ==
  /\ pc[p] \in {"post", "answer", "list", "delete"} /\ Fault
  /\ Goto(p, "error")
  /\ UNCHANGED <<file, status, undo, op, name, cfg, target, historyVars>>

Kill(p) ==
  /\ pc[p] \notin {"idle", "ok", "error", "killed"} /\ Fault
  /\ Goto(p, "killed")
  /\ UNCHANGED <<file, status, undo, op, name, cfg, target, historyVars>>

\* The user fills in what an admin command needs, and keeps the tokens.
UserConfigures ==
  /\ \/ file = None
     \/ file \in Doc /\ ~file.ready
  /\ file' = [ready |-> TRUE, tokens |-> [n \in Names |-> HeldAs(file, n)]]
  /\ UNCHANGED <<status, undo, pc, op, name, cfg, target, faults, historyVars>>

Done ==
  /\ \A p \in Procs : pc[p] \in {"ok", "error", "killed"} /\ undo[p] = None
  /\ UNCHANGED vars

Step(p) ==
  \/ Start(p)
  \/ LoadMissing(p) \/ LoadUnparsable(p) \/ UseToken(p) \/ Connect(p)
  \/ PostRefused(p) \/ Post(p) \/ Reload(p)
  \/ OpenConfig(p) \/ WriteConfig(p) \/ OpenFails(p) \/ WriteFails(p)
  \/ ListMissing(p) \/ List(p) \/ DeleteMissing(p) \/ Delete(p)
  \/ Persisted(p) \/ PersistFails(p) \/ AnswerLost(p) \/ Kill(p)

Next == UserConfigures \/ Done \/ \E p \in Procs : Step(p)

Spec == Init /\ [][Next]_vars

-----------------------------------------------------------------------------
\* Properties.

\* An entry under n in a document, or a token that a tool was given, was
\* issued by the gateway under that name: no failed, refused or rolled back
\* creation leaves anything in the configuration (create, lines 65-80).
IssuedAs(q, n) == op[q] = "create" /\ Holds(q, n)

EntriesIssued ==
  /\ \A n \in Names :
       /\ HeldAs(file, n) # None => IssuedAs(HeldAs(file, n), n)
       /\ \A p \in Procs :
            cfg[p].tokens[n] # None => IssuedAs(cfg[p].tokens[n], n)
  /\ \A p \in Procs : op[p] = "use" /\ target[p] # None
                        => IssuedAs(target[p], name[p])

\* A creation that succeeded and whose save met neither another save nor a
\* failing one: its token is in the file, in every document that will be
\* written to it later, and stays there for as long as the file parses.
SoleSaved ==
  \A p \in Procs :
    op[p] = "create" /\ pc[p] = "ok" /\ p \notin exposed /\ file \in Doc
      => file.tokens[name[p]] = p

\* `gate admin token revoke NAME` that succeeds leaves no token active that
\* had been reported created under NAME when it began: looking the name up
\* and revoking by id, in two requests, misses none of them, and no other
\* command makes one active again.  The exception is a token for which the
\* gateway was persisting two revocations at once: the one that fails may take
\* the other's back (revoke_token, registry.rs:135-147; the run
\* registry_double_revoke of TokenRegistry).
RevokedKnown ==
  \A p \in Procs : op[p] = "revoke" /\ pc[p] = "ok"
    => \A q \in known[p] \ contested : status[q] # "active"

\* docs/USING.md:34, "The CLI saves the returned token to
\* ~/.config/gate/config.toml": after any creation that succeeded, a file
\* that parses holds the token.  Two creations at once break it.
LostUpdate ==
  \A p \in Procs : op[p] = "create" /\ pc[p] = "ok" /\ file \in Doc
    => file.tokens[name[p]] = p

=============================================================================
