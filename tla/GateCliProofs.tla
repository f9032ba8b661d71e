--------------------------- MODULE GateCliProofs ---------------------------
(***************************************************************************)
(* Proofs about GateCli.  One inductive invariant, in three parts: where   *)
(* the entries of a document come from, what concurrent saves may lose,    *)
(* and what a revocation by name finds.                                    *)
(***************************************************************************)
EXTENDS GateCli, TLAPS

\* A token that a document may hold: its record outlives the creation.
Answered == {"reload", "open", "write", "ok", "error", "killed"}

Entry(q, n) == IssuedAs(q, n) /\ pc[q] \in Answered /\ undo[q] = None

NamesUnique ==
  \A p, q \in Procs :
    status[p] # "absent" /\ status[q] # "absent" /\ name[p] = name[q] => p = q

\* What a process has behind it at each place.
PlacesInv ==
  \A p \in Procs :
    /\ pc[p] \in {"post", "reload"} => op[p] = "create"
    /\ pc[p] \in {"list", "delete"} => op[p] = "revoke"
    /\ pc[p] = "reload" => status[p] # "absent"
    /\ op[p] = "create" /\ pc[p] = "ok" => status[p] # "absent"
    /\ file = None => pc[p] \in {"idle", "load", "open", "error", "killed"}
    /\ pc[p] = "delete" => target[p] # None

\* What a request that the gateway is persisting has behind it.
UndoInv ==
  \A p \in Procs :
    /\ pc[p] = "answer" => undo[p] # None
    /\ undo[p] # None => pc[p] \in {"answer", "error", "killed"} /\ op[p] # "use"
    /\ undo[p] # None /\ op[p] = "create"
         => undo[p] = "absent" /\ status[p] # "absent"
    /\ undo[p] # None /\ op[p] = "revoke"
         => undo[p] # "absent" /\ target[p] # None

EntriesInv ==
  /\ NamesUnique
  /\ PlacesInv
  /\ UndoInv
  /\ file \in Doc => \A n \in Names :
       file.tokens[n] # None => Entry(file.tokens[n], n)
  /\ \A p \in Procs, n \in Names :
       cfg[p].tokens[n] # None => Entry(cfg[p].tokens[n], n)
  /\ \A p \in Procs : op[p] = "use" /\ target[p] # None
                        => Entry(target[p], name[p])

\* Two saves at once expose both; every save to come carries the tokens that
\* were saved without meeting another.
SavesInv ==
  /\ \A p, q \in Saving : p # q => p \in exposed
  /\ SoleSaved
  /\ \A p \in Procs, q \in Saving :
       op[p] = "create" /\ pc[p] = "ok" /\ p \notin exposed
         => cfg[q].tokens[name[p]] = p

\* Before its request a creation has no record, and no revocation finds it.
LaterFound ==
  /\ \A q \in Procs : status[q] # "absent" => pc[q] \notin {"idle", "load", "post"}
  /\ \A p \in Procs : op[p] = "revoke" /\ target[p] # None
       => pc[target[p]] \notin {"idle", "load", "post"}

\* A token that is not contested has at most one revocation being persisted,
\* and meanwhile is not active.
OneAtATime ==
  \A q \in Procs \ contested :
    /\ \A r, s \in Revoking(q) : r = s
    /\ \A r \in Revoking(q) : status[q] # "active"

\* A revocation has the known token for its target.  After it was answered no
\* other can put the token back to active.
RevokeInv ==
  /\ LaterFound
  /\ OneAtATime
  /\ \A p \in Procs : \A q \in known[p] :
       op[q] = "create" /\ pc[q] = "ok" /\ name[q] = name[p]
  /\ \A p \in Procs : op[p] = "revoke" /\ pc[p] \in {"delete", "answer"}
       => \A q \in known[p] : target[p] = q
  /\ \A p \in Procs : op[p] = "revoke" /\ pc[p] = "ok"
       => \A q \in known[p] \ contested :
            \A r \in Revoking(q) : undo[r] # "active"
  /\ RevokedKnown

-----------------------------------------------------------------------------
\* What a write leaves in the file is a configuration or does not parse.
LEMMA OverType ==
  ASSUME NEW new \in Doc, NEW old \in Doc \cup {None, Empty, Torn}, NEW f \in Over(new, old)
  PROVE  f \in Doc \cup {Torn}
  BY CliAssumption DEF Over, HeldAs, Doc

\* An entry of it was an entry of the document written or of the one there.
LEMMA OverEntries ==
  ASSUME NEW new \in Doc, NEW old \in Doc \cup {None, Empty, Torn}, NEW f \in Over(new, old),
         f \in Doc, NEW n \in Names
  PROVE  /\ new.tokens[n] # None => f.tokens[n] = new.tokens[n]
         /\ \/ f.tokens[n] = new.tokens[n]
            \/ old \in Doc /\ f.tokens[n] = old.tokens[n]
            \/ f.tokens[n] = None
  BY CliAssumption DEF Over, HeldAs, Doc

\* A beginning of a document has no token the document has not.
LEMMA CutsType ==
  ASSUME NEW doc \in Doc, NEW cut \in Cuts(doc)
  PROVE  /\ cut \in Doc
         /\ \A n \in Names : cut.tokens[n] \in {None, doc.tokens[n]}
<1>1. PICK r \in {FALSE, doc.ready}, left \in SUBSET Names :
        cut = [ready |-> r, tokens |-> [n \in Names |->
                 IF n \in left THEN doc.tokens[n] ELSE None]]
  BY DEF Cuts
<1>2. doc.ready \in BOOLEAN /\ doc.tokens \in [Names -> Procs \cup {None}]
  BY DEF Doc
<1> QED  BY <1>1, <1>2 DEF Doc

\* The variables keep their types.
THEOREM TypeCorrect == Spec => []TypeOK
<1>1. Init => TypeOK
  <2> SUFFICES ASSUME Init PROVE TypeOK
    OBVIOUS
  <2>1. file \in Doc \cup {None, Empty, Torn}
    BY CliAssumption DEF Init, Doc
  <2>2. Default \in Doc
    BY DEF Default, Doc
  <2> QED  BY <2>1, <2>2, CliAssumption DEF Init, TypeOK, Status, Places, Ops
<1>2. TypeOK /\ [Next]_vars => TypeOK'
  <2> SUFFICES ASSUME TypeOK, [Next]_vars PROVE TypeOK'
    OBVIOUS
  <2> USE DEF TypeOK, Goto
  <2>1. CASE UNCHANGED vars
    BY <2>1 DEF vars, historyVars
  <2>2. CASE UserConfigures
    BY <2>2, CliAssumption DEF UserConfigures, historyVars, HeldAs, Doc
  <2>3. CASE Done
    BY <2>3 DEF Done, vars, historyVars
  <2>4. ASSUME NEW p \in Procs, Step(p) PROVE TypeOK'
    <3>1. CASE Start(p)
      BY <3>1 DEF Start, Places
    <3>2. CASE LoadMissing(p)
      BY <3>2 DEF LoadMissing, BeginsToSave, Saving, Places
    <3>3. CASE LoadUnparsable(p)
      BY <3>3 DEF LoadUnparsable, Places, historyVars
    <3>4. CASE UseToken(p)
      BY <3>4 DEF UseToken, Places, historyVars, Doc
    <3>5. CASE Connect(p)
      BY <3>5 DEF Connect, Places, historyVars
    <3>6. CASE PostRefused(p)
      BY <3>6 DEF PostRefused, Places, historyVars
    <3>7. CASE Post(p)
      BY <3>7 DEF Post, Places, Status, historyVars
    <3>8. CASE Persisted(p)
      BY <3>8 DEF Persisted, Reply, Places, historyVars
    <3>9. CASE PersistFails(p)
      <4>1. status' \in [Procs -> Status]
        BY <3>9 DEF PersistFails, Restored
      <4>2. faults' \in 0..MaxFaults
        BY <3>9, CliAssumption DEF PersistFails, Fault
      <4> QED  BY <3>9, <4>1, <4>2 DEF PersistFails, Reply, Places, historyVars
    <3>10. CASE Reload(p)
      <4>1. cfg' \in [Procs -> Doc]
        BY <3>10 DEF Reload, Doc
      <4> QED  BY <3>10, <4>1 DEF Reload, BeginsToSave, Saving, Places
    <3>11. CASE OpenConfig(p)
      BY <3>11 DEF OpenConfig, Places, historyVars
    <3>12. CASE WriteConfig(p)
      <4>1. file' \in Doc \cup {None, Torn}
        BY <3>12, OverType DEF WriteConfig
      <4>2. pc' \in [Procs -> Places]
        BY <3>12 DEF WriteConfig, Places
      <4> QED  BY <3>12, <4>1, <4>2 DEF WriteConfig, historyVars
    <3>13. CASE OpenFails(p)
      BY <3>13, CliAssumption DEF OpenFails, Fault, Places, historyVars
    <3>14. CASE WriteFails(p)
      <4>1. file' \in {file, Torn} \/ \E cut \in Cuts(cfg[p]) : file' \in Over(cut, file)
        BY <3>14 DEF WriteFails
      <4>2. ASSUME NEW cut \in Cuts(cfg[p]), file' \in Over(cut, file)
            PROVE  file' \in Doc \cup {Torn}
        <5>1. cut \in Doc
          BY CutsType
        <5> QED  BY <4>2, <5>1, OverType
      <4>3. file' \in Doc \cup {None, Empty, Torn}
        BY <4>1, <4>2
      <4>4. pc' \in [Procs -> Places] /\ exposed' \subseteq Procs
        BY <3>14 DEF WriteFails, Saving, Places
      <4>5. faults' \in 0..MaxFaults
        BY <3>14, CliAssumption DEF WriteFails, Fault
      <4> QED  BY <3>14, <4>3, <4>4, <4>5 DEF WriteFails
    <3>15. CASE ListMissing(p)
      BY <3>15 DEF ListMissing, Places, historyVars
    <3>16. CASE List(p)
      BY <3>16 DEF List, Places, historyVars
    <3>17. CASE DeleteMissing(p)
      BY <3>17 DEF DeleteMissing, Places, historyVars
    <3>18. CASE Delete(p)
      BY <3>18 DEF Delete, Places, Status, historyVars
    <3>19. CASE AnswerLost(p)
      BY <3>19, CliAssumption DEF AnswerLost, Fault, Places, Status, historyVars
    <3>20. CASE Kill(p)
      BY <3>20, CliAssumption DEF Kill, Fault, Places, historyVars
    <3> QED  BY <2>4, <3>1, <3>2, <3>3, <3>4, <3>5, <3>6, <3>7, <3>8, <3>9, <3>10,
                <3>11, <3>12, <3>13, <3>14, <3>15, <3>16, <3>17, <3>18, <3>19, <3>20
             DEF Step
  <2> QED  BY <2>1, <2>2, <2>3, <2>4 DEF Next
<1> QED  BY <1>1, <1>2, PTL DEF Spec

-----------------------------------------------------------------------------
\* Where entries come from.

\* A record keeps its name; the only one that disappears is that of a creation
\* that is still being persisted.
LEMMA EntryStays ==
  ASSUME TypeOK, UndoInv, [Next]_vars, NEW q \in Procs, NEW n \in Names, Entry(q, n)
  PROVE  Entry(q, n)'
<1> USE DEF TypeOK, Entry, IssuedAs, Holds, Answered, Goto
<1>1. CASE UNCHANGED vars
  BY <1>1 DEF vars, historyVars
<1>2. CASE UserConfigures
  BY <1>2 DEF UserConfigures
<1>3. CASE Done
  BY <1>3 DEF Done, vars, historyVars
<1>4. ASSUME NEW p \in Procs, Step(p) PROVE Entry(q, n)'
  <2>1. op' = op /\ name' = name
    BY <1>4 DEF Step, Start, LoadMissing, LoadUnparsable, UseToken, Connect,
       PostRefused, Post, Persisted, PersistFails, Reply, Reload, OpenConfig,
       WriteConfig, OpenFails, WriteFails, ListMissing, List, DeleteMissing,
       Delete, AnswerLost, Kill
  <2>2. pc'[q] \in Answered
    BY <1>4 DEF Step, Start, LoadMissing, LoadUnparsable, UseToken, Connect,
       PostRefused, Post, Persisted, PersistFails, Reply, Reload, OpenConfig,
       WriteConfig, OpenFails, WriteFails, ListMissing, List, DeleteMissing,
       Delete, AnswerLost, Kill
  <2>3. undo'[q] = None
    BY <1>4 DEF Step, Start, LoadMissing, LoadUnparsable, UseToken, Connect,
       PostRefused, Post, Persisted, PersistFails, Reload, OpenConfig,
       WriteConfig, OpenFails, WriteFails, ListMissing, List, DeleteMissing,
       Delete, AnswerLost, Kill
  <2>4. CASE PersistFails(p)
    <3>1. p # q /\ op[p] \in {"create", "revoke"} /\ undo[p] # None
      BY <2>4 DEF PersistFails, UndoInv, Ops
    <3>2. op[p] = "revoke" => undo[p] # "absent"
      BY <3>1 DEF UndoInv
    <3>3. status'[q] # "absent"
      BY <2>4, <3>1, <3>2 DEF PersistFails, Restored, Subject
    <3> QED  BY <2>1, <2>2, <2>3, <3>3
  <2>5. CASE ~PersistFails(p)
    <3>1. status'[q] # "absent"
      BY <1>4, <2>5 DEF Step, Start, LoadMissing, LoadUnparsable, UseToken,
         Connect, PostRefused, Post, Persisted, Reload, OpenConfig,
         WriteConfig, OpenFails, WriteFails, ListMissing, List, DeleteMissing,
         Delete, AnswerLost, Kill
    <3> QED  BY <2>1, <2>2, <2>3, <3>1
  <2> QED  BY <2>4, <2>5
<1> QED  BY <1>1, <1>2, <1>3, <1>4 DEF Next

\* Names stay unique: a creation is refused while a record has its name.
LEMMA UniqueStays ==
  ASSUME TypeOK, NamesUnique, [Next]_vars
  PROVE  NamesUnique'
<1> USE DEF TypeOK, NamesUnique, Goto
<1>1. CASE UNCHANGED vars
  BY <1>1 DEF vars, historyVars
<1>2. CASE UserConfigures
  BY <1>2 DEF UserConfigures
<1>3. CASE Done
  BY <1>3 DEF Done, vars, historyVars
<1>4. ASSUME NEW p \in Procs, Step(p) PROVE NamesUnique'
  <2>1. CASE Post(p)
    <3>1. \A q \in Procs : status[q] # "absent" => name[q] # name[p]
      BY <2>1 DEF Post, Holds
    <3>2. name' = name /\ \A q \in Procs : q # p => status'[q] = status[q]
      BY <2>1 DEF Post
    <3> QED  BY <3>1, <3>2
  <2>2. CASE PersistFails(p)
    BY <2>2 DEF PersistFails, Restored
  <2>3. CASE Delete(p)
    BY <2>3 DEF Delete
  <2>4. CASE Start(p) \/ LoadMissing(p) \/ LoadUnparsable(p) \/ UseToken(p)
             \/ Connect(p) \/ PostRefused(p) \/ Persisted(p) \/ Reload(p)
             \/ OpenConfig(p) \/ WriteConfig(p) \/ OpenFails(p) \/ WriteFails(p)
             \/ ListMissing(p) \/ List(p) \/ DeleteMissing(p)
             \/ AnswerLost(p) \/ Kill(p)
    <3>1. status' = status /\ name' = name
      BY <2>4 DEF Start, LoadMissing, LoadUnparsable, UseToken, Connect,
         PostRefused, Persisted, Reload, OpenConfig, WriteConfig, OpenFails,
         WriteFails, ListMissing, List, DeleteMissing, AnswerLost, Kill
    <3> QED  BY <3>1
  <2> QED  BY <1>4, <2>1, <2>2, <2>3, <2>4 DEF Step
<1> QED  BY <1>1, <1>2, <1>3, <1>4 DEF Next

\* A file, once there, is not removed.
LEMMA FileStays ==
  ASSUME TypeOK, PlacesInv, [Next]_vars, file' = None
  PROVE  file = None
<1> USE DEF TypeOK
<1>1. CASE UNCHANGED vars
  BY <1>1 DEF vars
<1>2. CASE UserConfigures
  <2>1. file' \in Doc
    <3>1. [n \in Names |-> HeldAs(file, n)] \in [Names -> Procs \cup {None}]
      BY DEF HeldAs, Doc
    <3> QED  BY <1>2, <3>1 DEF UserConfigures, Doc
  <2> QED  BY <1>2, <2>1, CliAssumption
<1>3. CASE Done
  BY <1>3 DEF Done, vars
<1>4. ASSUME NEW p \in Procs, Step(p) PROVE file = None
  <2>1. CASE OpenConfig(p)
    BY <2>1, CliAssumption DEF OpenConfig
  <2>2. CASE WriteConfig(p)
    BY <2>2, OverType, CliAssumption DEF WriteConfig
  <2>3. CASE WriteFails(p)
    <3>1. ASSUME NEW cut \in Cuts(cfg[p]), file' \in Over(cut, file) PROVE FALSE
      <4>1. cut \in Doc
        BY CutsType
      <4> QED  BY <3>1, <4>1, OverType, CliAssumption
    <3> QED  BY <2>3, <3>1, CliAssumption DEF WriteFails
  <2>4. CASE file' = file
    BY <2>4
  <2> QED  BY <1>4, <2>1, <2>2, <2>3, <2>4
           DEF Step, Start, LoadMissing, LoadUnparsable, UseToken, Connect,
               PostRefused, Post, Persisted, PersistFails, Reply, Reload, OpenFails,
               ListMissing, List, DeleteMissing, Delete, AnswerLost, Kill
<1> QED  BY <1>1, <1>2, <1>3, <1>4 DEF Next

\* Every step keeps what a process has behind it at each place.
LEMMA PlacesStay ==
  ASSUME TypeOK, EntriesInv, [Next]_vars
  PROVE  PlacesInv'
<1> USE DEF TypeOK, PlacesInv, EntriesInv, Goto
<1>1. CASE UNCHANGED vars
  BY <1>1 DEF vars, historyVars
<1>2. CASE UserConfigures
  BY <1>2, FileStays DEF UserConfigures
<1>3. CASE Done
  BY <1>3 DEF Done, vars, historyVars
<1>4. ASSUME NEW p \in Procs, Step(p) PROVE PlacesInv'
  <2>1. CASE Start(p)
    BY <2>1, FileStays, CliAssumption DEF Start
  <2>2. CASE LoadMissing(p)
    BY <2>2, FileStays, CliAssumption DEF LoadMissing
  <2>3. CASE LoadUnparsable(p)
    BY <2>3, FileStays, CliAssumption DEF LoadUnparsable
  <2>4. CASE UseToken(p)
    BY <2>4, FileStays, CliAssumption DEF UseToken
  <2>5. CASE Connect(p)
    BY <2>5, FileStays, CliAssumption DEF Connect, Ops
  <2>6. CASE PostRefused(p)
    BY <2>6, FileStays, CliAssumption DEF PostRefused
  <2>7. CASE Post(p)
    BY <2>7, FileStays, CliAssumption DEF Post
  <2>8. CASE Persisted(p)
    BY <2>8, FileStays, CliAssumption DEF Persisted, Reply, UndoInv
  <2>9. CASE PersistFails(p)
    <3>1. \A q \in Procs : pc'[q] \in {"reload", "ok"} =>
            /\ q # p /\ pc[q] = pc'[q]
            /\ op[q] = "create" /\ status[q] # "absent" => status'[q] # "absent"
      BY <2>9, CliAssumption DEF PersistFails, Reply, Restored, Subject, UndoInv, Ops
    <3>2. UNCHANGED <<file, op, target>> /\ (pc' = pc \/ pc' = [pc EXCEPT ![p] = "error"])
      BY <2>9 DEF PersistFails, Reply
    <3> QED  BY <3>1, <3>2
  <2>10. CASE Reload(p)
    BY <2>10, FileStays, CliAssumption DEF Reload
  <2>11. CASE OpenConfig(p)
    BY <2>11, FileStays, CliAssumption DEF OpenConfig
  <2>12. CASE WriteConfig(p)
    <3>1. op[p] = "create" /\ pc'[p] = "ok" => status[p] # "absent"
      BY <2>12, CliAssumption DEF WriteConfig, Entry, IssuedAs, Holds
    <3>2. file # None /\ file' # None
      BY <2>12, FileStays DEF WriteConfig
    <3>3. pc'[p] \in {"ok", "error"} /\ \A q \in Procs : q # p => pc'[q] = pc[q]
      BY <2>12 DEF WriteConfig
    <3> QED  BY <2>12, <3>1, <3>2, <3>3 DEF WriteConfig
  <2>13. CASE OpenFails(p)
    BY <2>13, FileStays, CliAssumption DEF OpenFails
  <2>14. CASE WriteFails(p)
    BY <2>14, FileStays, CliAssumption DEF WriteFails
  <2>15. CASE ListMissing(p)
    BY <2>15, FileStays, CliAssumption DEF ListMissing
  <2>16. CASE List(p)
    BY <2>16, FileStays, CliAssumption DEF List
  <2>17. CASE DeleteMissing(p)
    BY <2>17, FileStays, CliAssumption DEF DeleteMissing
  <2>18. CASE Delete(p)
    BY <2>18, FileStays, CliAssumption DEF Delete
  <2>19. CASE AnswerLost(p)
    BY <2>19, FileStays, CliAssumption DEF AnswerLost
  <2>20. CASE Kill(p)
    BY <2>20, FileStays, CliAssumption DEF Kill
  <2> QED  BY <1>4, <2>1, <2>2, <2>3, <2>4, <2>5, <2>6, <2>7, <2>8, <2>9, <2>10,
              <2>11, <2>12, <2>13, <2>14, <2>15, <2>16, <2>17, <2>18, <2>19, <2>20 DEF Step
<1> QED  BY <1>1, <1>2, <1>3, <1>4 DEF Next

\* An entry of the file was in the file before, or in a document being saved.
LEMMA FileEntries ==
  ASSUME TypeOK, PlacesInv, [Next]_vars, file' \in Doc, NEW n \in Names,
         file'.tokens[n] # None
  PROVE  \/ file \in Doc /\ file'.tokens[n] = file.tokens[n]
         \/ \E p \in Procs : file'.tokens[n] = cfg[p].tokens[n]
<1> USE DEF TypeOK
<1>1. CASE UNCHANGED vars
  BY <1>1 DEF vars
<1>2. CASE UserConfigures
  BY <1>2, CliAssumption DEF UserConfigures, HeldAs
<1>3. CASE Done
  BY <1>3 DEF Done, vars
<1>4. ASSUME NEW p \in Procs, Step(p)
      PROVE  \/ file \in Doc /\ file'.tokens[n] = file.tokens[n]
             \/ file'.tokens[n] = cfg[p].tokens[n]
  <2>1. CASE OpenConfig(p)
    BY <2>1, CliAssumption DEF OpenConfig
  <2>2. CASE WriteConfig(p)
    BY <2>2, OverEntries DEF WriteConfig
  <2>3. CASE WriteFails(p)
    <3>1. ASSUME NEW cut \in Cuts(cfg[p]), file' \in Over(cut, file)
          PROVE  \/ file \in Doc /\ file'.tokens[n] = file.tokens[n]
                 \/ file'.tokens[n] = cfg[p].tokens[n]
      <4>1. cut \in Doc /\ cut.tokens[n] \in {None, cfg[p].tokens[n]}
        BY CutsType
      <4> QED  BY <3>1, <4>1, OverEntries
    <3> QED  BY <2>3, <3>1, CliAssumption DEF WriteFails
  <2>4. CASE file' = file
    BY <2>4
  <2> QED  BY <1>4, <2>1, <2>2, <2>3, <2>4
           DEF Step, Start, LoadMissing, LoadUnparsable, UseToken, Connect,
               PostRefused, Post, Persisted, PersistFails, Reply, Reload, OpenFails,
               ListMissing, List, DeleteMissing, Delete, AnswerLost, Kill
<1> QED  BY <1>1, <1>2, <1>3, <1>4 DEF Next

\* An entry of a loaded document was in it or in the file, or is the token
\* that its process has just been given.
LEMMA CfgEntries ==
  ASSUME TypeOK, EntriesInv, [Next]_vars, NEW q \in Procs, NEW n \in Names,
         cfg'[q].tokens[n] # None
  PROVE  Entry(cfg[q].tokens[n], n)'
<1> USE DEF TypeOK
<1>1. CASE cfg'[q] = cfg[q]
  <2>1. cfg[q].tokens[n] \in Procs /\ Entry(cfg[q].tokens[n], n)
    BY <1>1 DEF EntriesInv, Doc
  <2> QED  BY <1>1, <2>1, EntryStays DEF EntriesInv
<1>2. CASE Connect(q)
  <2>1. file \in Doc /\ cfg'[q] = file
    BY <1>2 DEF Connect
  <2>2. file.tokens[n] \in Procs /\ Entry(file.tokens[n], n)
    BY <2>1 DEF EntriesInv, Doc
  <2> QED  BY <2>1, <2>2, EntryStays DEF EntriesInv
<1>3. CASE Reload(q)
  <2>1. file \in Doc /\ cfg'[q].tokens = [file.tokens EXCEPT ![name[q]] = q]
    BY <1>3 DEF Reload
  <2>2. CASE n = name[q]
    <3>1. cfg'[q].tokens[n] = q
      BY <2>1, <2>2 DEF Doc
    <3>2. IssuedAs(q, n) /\ pc[q] = "reload" /\ undo[q] = None
      BY <1>3, <2>2 DEF Reload, EntriesInv, PlacesInv, UndoInv, IssuedAs, Holds
    <3> QED  BY <3>1, <3>2, EntryStays DEF Entry, Answered, EntriesInv
  <2>3. CASE n # name[q]
    <3>1. cfg'[q].tokens[n] = file.tokens[n]
      BY <2>1, <2>3 DEF Doc
    <3>2. file.tokens[n] \in Procs /\ Entry(file.tokens[n], n)
      BY <2>1, <3>1 DEF EntriesInv, Doc
    <3> QED  BY <3>1, <3>2, EntryStays DEF EntriesInv
  <2> QED  BY <2>2, <2>3
<1> QED  BY <1>1, <1>2, <1>3
         DEF Next, vars, UserConfigures, Done, Step, Start, LoadMissing,
             LoadUnparsable, UseToken, Connect, PostRefused, Post,
             Persisted, PersistFails, Reply, Reload, OpenConfig, WriteConfig,
             OpenFails, WriteFails, ListMissing, List, DeleteMissing, Delete,
             AnswerLost, Kill

\* A tool is given a token from the file.
LEMMA TargetEntries ==
  ASSUME TypeOK, EntriesInv, [Next]_vars, NEW q \in Procs,
         op'[q] = "use", target'[q] # None
  PROVE  Entry(target[q], name[q])'
<1> USE DEF TypeOK
<1>1. CASE target'[q] = target[q] /\ op' = op /\ name' = name
  <2>1. target[q] \in Procs /\ Entry(target[q], name[q])
    BY <1>1 DEF EntriesInv
  <2> QED  BY <1>1, <2>1, EntryStays DEF EntriesInv
<1>2. CASE UseToken(q)
  <2>1. file \in Doc /\ target'[q] = file.tokens[name[q]] /\ name' = name
    BY <1>2 DEF UseToken
  <2>2. target'[q] \in Procs /\ Entry(target'[q], name[q])
    BY <2>1 DEF EntriesInv, Doc
  <2> QED  BY <2>1, <2>2, EntryStays DEF EntriesInv
<1>3. CASE List(q)
  BY <1>3 DEF List, EntriesInv, PlacesInv
<1> QED  BY <1>1, <1>2, <1>3
         DEF Next, vars, UserConfigures, Done, Step, Start, LoadMissing,
             LoadUnparsable, UseToken, Connect, PostRefused, Post,
             Persisted, PersistFails, Reply, Reload, OpenConfig, WriteConfig,
             OpenFails, WriteFails, ListMissing, List, DeleteMissing, Delete,
             AnswerLost, Kill

\* Every step keeps what a request being persisted has behind it.
LEMMA UndoStays ==
  ASSUME TypeOK, EntriesInv, [Next]_vars
  PROVE  UndoInv'
<1> USE DEF TypeOK, EntriesInv, UndoInv, Goto
<1>1. CASE UNCHANGED vars
  BY <1>1 DEF vars, historyVars
<1>2. CASE UserConfigures
  BY <1>2 DEF UserConfigures
<1>3. CASE Done
  BY <1>3 DEF Done, vars, historyVars
<1>4. ASSUME NEW p \in Procs, Step(p) PROVE UndoInv'
  <2>1. CASE Post(p)
    BY <2>1, CliAssumption DEF Post, PlacesInv, Status
  <2>2. CASE Delete(p)
    BY <2>2, CliAssumption DEF Delete, PlacesInv
  <2>3. CASE Persisted(p)
    BY <2>3 DEF Persisted, Reply
  <2>4. CASE PersistFails(p)
    <3>1. undo'[p] = None /\ pc'[p] # "answer"
      BY <2>4 DEF PersistFails, Reply
    <3>2. ASSUME NEW q \in Procs, q # p
          PROVE  UNCHANGED <<undo[q], pc[q], op[q], target[q]>>
      BY <2>4, <3>2 DEF PersistFails, Reply
    <3>3. ASSUME NEW q \in Procs, q # p, op[q] = "create", status[q] # "absent"
          PROVE  status'[q] # "absent"
      BY <2>4, <3>3, CliAssumption DEF PersistFails, Restored, Subject, Ops
    <3> QED  BY <3>1, <3>2, <3>3
  <2>5. CASE Start(p) \/ LoadMissing(p) \/ LoadUnparsable(p) \/ UseToken(p)
             \/ Connect(p) \/ PostRefused(p) \/ Reload(p) \/ OpenConfig(p)
             \/ WriteConfig(p) \/ OpenFails(p) \/ WriteFails(p)
             \/ ListMissing(p) \/ List(p) \/ DeleteMissing(p)
             \/ AnswerLost(p) \/ Kill(p)
    <3>1. UNCHANGED <<undo, status, op>>
      BY <2>5 DEF Start, LoadMissing, LoadUnparsable, UseToken, Connect,
         PostRefused, Reload, OpenConfig, WriteConfig, OpenFails, WriteFails,
         ListMissing, List, DeleteMissing, AnswerLost, Kill, historyVars
    <3>2. \A q \in Procs : target'[q] = target[q] \/ pc[q] \in {"load", "list"}
      BY <2>5 DEF Start, LoadMissing, LoadUnparsable, UseToken, Connect,
         PostRefused, Reload, OpenConfig, WriteConfig, OpenFails, WriteFails,
         ListMissing, List, DeleteMissing, AnswerLost, Kill
    <3>3. \A q \in Procs :
            \/ pc'[q] = pc[q]
            \/ pc'[q] # "answer" /\ pc[q] \notin {"answer", "error", "killed"}
            \/ pc'[q] \in {"error", "killed"}
      BY <2>5 DEF Start, LoadMissing, LoadUnparsable, UseToken, Connect,
         PostRefused, Reload, OpenConfig, WriteConfig, OpenFails, WriteFails,
         ListMissing, List, DeleteMissing, AnswerLost, Kill
    <3> QED  BY <3>1, <3>2, <3>3
  <2> QED  BY <1>4, <2>1, <2>2, <2>3, <2>4, <2>5 DEF Step
<1> QED  BY <1>1, <1>2, <1>3, <1>4 DEF Next

\* Every step keeps the entries issued.
LEMMA EntriesStay ==
  ASSUME TypeOK, EntriesInv, [Next]_vars
  PROVE  EntriesInv'
<1>1. NamesUnique' /\ PlacesInv' /\ UndoInv'
  BY UniqueStays, PlacesStay, UndoStays DEF EntriesInv
<1>2. ASSUME file' \in Doc, NEW n \in Names, file'.tokens[n] # None
      PROVE  Entry(file.tokens[n], n)'
  <2>1. CASE file \in Doc /\ file'.tokens[n] = file.tokens[n]
    <3>1. file.tokens[n] \in Procs /\ Entry(file.tokens[n], n)
      BY <1>2, <2>1 DEF EntriesInv, Doc
    <3> QED  BY <2>1, <3>1, EntryStays DEF EntriesInv
  <2>2. ASSUME NEW p \in Procs, file'.tokens[n] = cfg[p].tokens[n]
        PROVE  Entry(file.tokens[n], n)'
    <3>1. cfg[p].tokens[n] \in Procs /\ Entry(cfg[p].tokens[n], n)
      BY <1>2, <2>2 DEF EntriesInv, TypeOK, Doc
    <3> QED  BY <2>2, <3>1, EntryStays DEF EntriesInv
  <2> QED  BY <1>2, <2>1, <2>2, FileEntries DEF EntriesInv
<1> QED  BY <1>1, <1>2, CfgEntries, TargetEntries DEF EntriesInv

\* Whatever the configuration holds, or hands to a tool, under a name, the
\* gateway issued under that name.
THEOREM OnlyIssued == Spec => []EntriesIssued
<1>1. Init => EntriesInv
  <2> SUFFICES ASSUME Init PROVE EntriesInv
    OBVIOUS
  <2>1. file \in Doc => \A n \in Names : file.tokens[n] = None
    BY CliAssumption DEF Init
  <2>2. \A p \in Procs, n \in Names : cfg[p].tokens[n] = None
    BY DEF Init, Default
  <2> QED  BY <2>1, <2>2 DEF Init, EntriesInv, NamesUnique, PlacesInv, UndoInv
<1>2. TypeOK /\ EntriesInv /\ [Next]_vars => EntriesInv'
  BY EntriesStay
<1>3. EntriesInv => EntriesIssued
  BY DEF EntriesInv, EntriesIssued, Entry, HeldAs
<1> QED  BY <1>1, <1>2, <1>3, TypeCorrect, PTL DEF Spec

-----------------------------------------------------------------------------
\* What concurrent saves may lose.

\* The steps that neither save nor begin to, and let no creation succeed.
Aside ==
  /\ file' = file /\ exposed' = exposed /\ op' = op /\ name' = name
  /\ Saving' \subseteq Saving
  /\ \A q \in Saving' : cfg'[q] = cfg[q]
  /\ \A q \in Procs : op[q] = "create" /\ pc'[q] = "ok" => pc[q] = "ok"

\* The steps that leave the file and the saves alone.
LEMMA AsideSteps ==
  ASSUME TypeOK, PlacesInv, NEW p \in Procs,
         \/ Start(p) \/ LoadUnparsable(p) \/ UseToken(p) \/ Connect(p)
         \/ PostRefused(p) \/ Post(p) \/ Persisted(p) \/ PersistFails(p)
         \/ OpenFails(p) \/ ListMissing(p) \/ List(p) \/ DeleteMissing(p)
         \/ Delete(p) \/ AnswerLost(p) \/ Kill(p)
  PROVE  Aside
<1> USE DEF TypeOK, Goto, Aside, Saving, historyVars
<1>1. CASE Start(p)
  BY <1>1 DEF Start
<1>2. CASE LoadUnparsable(p)
  BY <1>2 DEF LoadUnparsable
<1>3. CASE UseToken(p)
  BY <1>3 DEF UseToken
<1>4. CASE Connect(p)
  BY <1>4 DEF Connect
<1>5. CASE PostRefused(p) \/ Post(p)
  BY <1>5 DEF PostRefused, Post
<1>6. CASE Persisted(p) \/ PersistFails(p)
  BY <1>6 DEF Persisted, PersistFails, Reply
<1>7. CASE OpenFails(p)
  BY <1>7 DEF OpenFails
<1>8. CASE ListMissing(p) \/ List(p)
  BY <1>8 DEF ListMissing, List
<1>9. CASE DeleteMissing(p) \/ Delete(p)
  BY <1>9 DEF DeleteMissing, Delete, PlacesInv
<1>10. CASE AnswerLost(p) \/ Kill(p)
  BY <1>10 DEF AnswerLost, Kill
<1> QED  BY <1>1, <1>2, <1>3, <1>4, <1>5, <1>6, <1>7, <1>8, <1>9, <1>10

\* Every step keeps the undisturbed saves.
LEMMA SavesStay ==
  ASSUME TypeOK, EntriesInv, SavesInv, [Next]_vars
  PROVE  SavesInv'
<1> USE DEF TypeOK
<1>1. CASE Aside
  BY <1>1 DEF Aside, SavesInv, SoleSaved
<1>2. CASE UNCHANGED vars
  <2>1. Aside
    BY <1>2 DEF Aside, Saving, vars, historyVars
  <2> QED  BY <1>1, <2>1
<1>3. CASE Done
  BY <1>2, <1>3 DEF Done
<1>4. CASE UserConfigures
  <2>1. Saving' = Saving /\ UNCHANGED <<pc, op, name, cfg, exposed>>
    BY <1>4 DEF UserConfigures, Saving, historyVars
  <2>2. file = None => \A p \in Procs : pc[p] # "ok"
    BY DEF EntriesInv, PlacesInv
  <2>3. file \in Doc => \A n \in Names : file'.tokens[n] = file.tokens[n]
    BY <1>4 DEF UserConfigures, HeldAs
  <2>4. file = None \/ file \in Doc
    BY <1>4 DEF UserConfigures
  <2> QED  BY <2>1, <2>2, <2>3, <2>4 DEF SavesInv, SoleSaved
<1>5. ASSUME NEW p \in Procs, LoadMissing(p) PROVE SavesInv'
  <2>1. \A q \in Procs : pc'[q] # "ok"
    BY <1>5 DEF LoadMissing, Goto, EntriesInv, PlacesInv
  <2>2. Saving' = Saving \cup {p} /\ exposed \subseteq exposed'
    BY <1>5 DEF LoadMissing, Goto, Saving, BeginsToSave
  <2>3. Saving # {} => Saving' \subseteq exposed'
    BY <1>5, <2>2 DEF LoadMissing, BeginsToSave
  <2> QED  BY <2>1, <2>2, <2>3 DEF SavesInv, SoleSaved
<1>6. ASSUME NEW p \in Procs, Reload(p) PROVE SavesInv'
  <2>1. Saving' = Saving \cup {p} /\ exposed \subseteq exposed'
    BY <1>6 DEF Reload, Goto, Saving, BeginsToSave
  <2>2. Saving # {} => Saving' \subseteq exposed'
    BY <1>6, <2>1 DEF Reload, BeginsToSave
  <2>3. /\ file \in Doc /\ UNCHANGED <<file, op, name>>
        /\ \A q \in Procs : pc'[q] = "ok" => pc[q] = "ok" /\ q # p
    BY <1>6 DEF Reload, Goto
  <2>4. ASSUME NEW r \in Procs, op[r] = "create", pc'[r] = "ok", r \notin exposed',
               NEW q \in Saving'
        PROVE  cfg'[q].tokens[name[r]] = r
    <3>1. CASE q # p
      BY <1>6, <2>1, <2>3, <2>4, <3>1 DEF Reload, SavesInv
    <3>2. CASE q = p
      <4>1. file.tokens[name[r]] = r
        BY <2>1, <2>3, <2>4 DEF SavesInv, SoleSaved
      <4>2. name[r] # name[p]
        BY <1>6, <2>3, <2>4 DEF Reload, EntriesInv, PlacesInv, NamesUnique
      <4>3. cfg'[p].tokens = [file.tokens EXCEPT ![name[p]] = p]
        BY <1>6 DEF Reload
      <4> QED  BY <2>3, <3>2, <4>1, <4>2, <4>3 DEF Doc
    <3> QED  BY <3>1, <3>2
  <2> QED  BY <2>1, <2>2, <2>3, <2>4 DEF SavesInv, SoleSaved
<1>7. ASSUME NEW p \in Procs, OpenConfig(p) PROVE SavesInv'
  <2>1. file' \notin Doc /\ UNCHANGED <<op, name, cfg, exposed>>
    BY <1>7, CliAssumption DEF OpenConfig, historyVars
  <2>2. Saving' = Saving /\ \A q \in Procs : pc'[q] = "ok" => pc[q] = "ok"
    BY <1>7 DEF OpenConfig, Goto, Saving
  <2> QED  BY <2>1, <2>2 DEF SavesInv, SoleSaved
<1>8. ASSUME NEW p \in Procs, WriteConfig(p) PROVE SavesInv'
  <2>1. p \in Saving /\ Saving' = Saving \ {p} /\ UNCHANGED <<op, name, cfg, exposed>>
    BY <1>8 DEF WriteConfig, Goto, Saving, historyVars
  <2>2. ASSUME NEW r \in Procs, op[r] = "create", pc'[r] = "ok", r \notin exposed
        PROVE  /\ cfg[p].tokens[name[r]] = r
               /\ \A q \in Saving' : cfg[q].tokens[name[r]] = r
    <3>1. CASE r = p
      BY <1>8, <2>1, <2>2, <3>1 DEF WriteConfig, Goto, SavesInv
    <3>2. CASE r # p
      BY <1>8, <2>1, <2>2, <3>2 DEF WriteConfig, Goto, SavesInv
    <3> QED  BY <3>1, <3>2
  <2>3. ASSUME NEW r \in Procs, file' \in Doc, cfg[p].tokens[name[r]] = r
        PROVE  file'.tokens[name[r]] = r
    <3>1. cfg[p] \in Doc /\ name[r] \in Names /\ file' \in Over(cfg[p], file)
      BY <1>8 DEF WriteConfig
    <3>2. file \in Doc \cup {None, Empty, Torn}
      OBVIOUS
    <3>3. cfg[p].tokens[name[r]] # None
      BY <2>3, CliAssumption
    <3> QED  BY <2>3, <3>1, <3>2, <3>3, OverEntries
  <2> QED  BY <2>1, <2>2, <2>3 DEF SavesInv, SoleSaved
<1>9. ASSUME NEW p \in Procs, WriteFails(p) PROVE SavesInv'
  <2>1. /\ Saving' = Saving \ {p} /\ UNCHANGED <<op, name, cfg>>
        /\ \A q \in Procs : pc'[q] = "ok" => pc[q] = "ok"
    BY <1>9 DEF WriteFails, Goto, Saving
  <2>2. exposed' = exposed \cup Saving \cup {q \in Procs : pc[q] = "ok"}
    BY <1>9 DEF WriteFails
  <2> QED  BY <2>1, <2>2 DEF SavesInv, SoleSaved
<1> QED  BY <1>1, <1>2, <1>3, <1>4, <1>5, <1>6, <1>7, <1>8, <1>9, AsideSteps
         DEF Next, Step, EntriesInv

\* The token of a creation whose save met no other and no failing one stays in
\* the configuration, whatever is saved after it.
THEOREM SoleSaveStays == Spec => []SoleSaved
<1>1. Init => EntriesInv /\ SavesInv
  <2> SUFFICES ASSUME Init PROVE EntriesInv /\ SavesInv
    OBVIOUS
  <2>1. file \in Doc => \A n \in Names : file.tokens[n] = None
    BY CliAssumption DEF Init
  <2>2. \A p \in Procs, n \in Names : cfg[p].tokens[n] = None
    BY DEF Init, Default
  <2> QED  BY <2>1, <2>2 DEF Init, EntriesInv, NamesUnique, PlacesInv, UndoInv, SavesInv,
                             Saving, SoleSaved
<1>2. TypeOK /\ EntriesInv /\ SavesInv /\ [Next]_vars => EntriesInv' /\ SavesInv'
  BY EntriesStay, SavesStay
<1>3. SavesInv => SoleSaved
  BY DEF SavesInv
<1> QED  BY <1>1, <1>2, <1>3, TypeCorrect, PTL DEF Spec

-----------------------------------------------------------------------------
\* What a revocation by name finds.

\* A revocation finds a token only after its creation had sent its request.
LEMMA FoundLater ==
  ASSUME TypeOK, EntriesInv, LaterFound, [Next]_vars
  PROVE  LaterFound'
<1> USE DEF TypeOK, LaterFound, Goto
<1>1. CASE UNCHANGED vars
  BY <1>1 DEF vars, historyVars
<1>2. CASE UserConfigures
  BY <1>2 DEF UserConfigures
<1>3. CASE Done
  BY <1>3 DEF Done, vars, historyVars
<1>4. ASSUME NEW p \in Procs, Step(p) PROVE LaterFound'
  <2>1. op' = op /\ \A q \in Procs :
          pc[q] \notin {"idle", "load", "post"} => pc'[q] \notin {"idle", "load", "post"}
    BY <1>4 DEF Step, Start, LoadMissing, LoadUnparsable, UseToken, Connect,
       PostRefused, Post, Persisted, PersistFails, Reply, Reload, OpenConfig,
       WriteConfig, OpenFails, WriteFails, ListMissing, List, DeleteMissing,
       Delete, AnswerLost, Kill
  <2>2. \A q \in Procs : status'[q] # "absent" =>
          status[q] # "absent" \/ pc'[q] = "answer"
    BY <1>4 DEF Step, Start, LoadMissing, LoadUnparsable, UseToken, Connect,
       PostRefused, Post, Persisted, PersistFails, Restored, Reload, OpenConfig,
       WriteConfig, OpenFails, WriteFails, ListMissing, List, DeleteMissing,
       Delete, AnswerLost, Kill
  <2>3. ASSUME NEW r \in Procs, op[r] = "revoke", target'[r] # None
        PROVE  pc'[target'[r]] \notin {"idle", "load", "post"}
    <3>1. CASE List(r)
      <4>1. PICK q \in Procs : status[q] # "absent" /\ target' = [target EXCEPT ![r] = q]
        BY <3>1 DEF List, Holds
      <4> QED  BY <2>1, <4>1
    <3>2. CASE ~List(r)
      <4>1. target'[r] = target[r]
        BY <1>4, <2>3, <3>2 DEF Step, Start, LoadMissing, LoadUnparsable, UseToken,
           Connect, PostRefused, Post, Persisted, PersistFails, Reload,
           OpenConfig, WriteConfig, OpenFails, WriteFails, ListMissing, List,
           DeleteMissing, Delete, AnswerLost, Kill
      <4> QED  BY <2>1, <2>3, <4>1
    <3> QED  BY <3>1, <3>2
  <2> QED  BY <2>1, <2>2, <2>3
<1> QED  BY <1>1, <1>2, <1>3, <1>4 DEF Next

\* The steps that start and end no request, and change no record.
Elsewhere ==
  /\ UNCHANGED <<status, undo, op, contested>>
  /\ \A r \in Procs : undo[r] # None => target'[r] = target[r]

LEMMA ElsewhereSteps ==
  ASSUME TypeOK, EntriesInv, NEW p \in Procs, Step(p),
         ~Post(p), ~Delete(p), ~Persisted(p), ~PersistFails(p)
  PROVE  Elsewhere
<1>1. UNCHANGED <<status, undo, op, contested>>
  BY DEF Step, Start, LoadMissing, LoadUnparsable, UseToken, Connect,
     PostRefused, Reload, OpenConfig, WriteConfig, OpenFails, WriteFails,
     ListMissing, List, DeleteMissing, AnswerLost, Kill, historyVars
<1>2. \A r \in Procs : target'[r] = target[r] \/ pc[r] \in {"load", "list"}
  BY DEF TypeOK, Step, Start, LoadMissing, LoadUnparsable, UseToken, Connect,
     PostRefused, Reload, OpenConfig, WriteConfig, OpenFails, WriteFails,
     ListMissing, List, DeleteMissing, AnswerLost, Kill
<1> QED  BY <1>1, <1>2 DEF Elsewhere, EntriesInv, UndoInv

\* Which revocations of a token are being persisted: no step but a deletion
\* adds one.
LEMMA RevokingSteps ==
  ASSUME TypeOK, EntriesInv, [Next]_vars, NEW q \in Procs
  PROVE  /\ contested \subseteq contested'
         /\ \A r \in Revoking(q)' \ Revoking(q) : Delete(r) /\ target[r] = q
         /\ \A r \in Revoking(q)' \cap Revoking(q) : undo'[r] = undo[r]
<1> USE DEF TypeOK, Revoking
<1>1. CASE UNCHANGED vars
  BY <1>1 DEF vars, historyVars
<1>2. CASE UserConfigures
  BY <1>2 DEF UserConfigures, historyVars
<1>3. CASE Done
  BY <1>3 DEF Done, vars, historyVars
<1>4. ASSUME NEW p \in Procs, Step(p)
      PROVE  /\ contested \subseteq contested'
             /\ \A r \in Revoking(q)' \ Revoking(q) : Delete(r) /\ target[r] = q
             /\ \A r \in Revoking(q)' \cap Revoking(q) : undo'[r] = undo[r]
  <2>1. CASE Post(p)
    BY <2>1 DEF Post, historyVars, EntriesInv, PlacesInv, UndoInv
  <2>2. CASE Delete(p)
    <3>1. contested \subseteq contested' /\ UNCHANGED <<op, target>>
      BY <2>2 DEF Delete
    <3>2. \A r \in Procs : r # p => undo'[r] = undo[r]
      BY <2>2 DEF Delete
    <3>3. undo[p] = None
      BY <2>2 DEF Delete, EntriesInv, UndoInv
    <3> QED  BY <2>2, <3>1, <3>2, <3>3
  <2>3. CASE Persisted(p)
    BY <2>3 DEF Persisted, historyVars
  <2>4. CASE PersistFails(p)
    BY <2>4 DEF PersistFails, historyVars
  <2>5. CASE Elsewhere
    BY <2>5 DEF Elsewhere
  <2> QED  BY <1>4, <2>1, <2>2, <2>3, <2>4, <2>5, ElsewhereSteps
<1> QED  BY <1>1, <1>2, <1>3, <1>4 DEF Next

\* Which steps make a record active.
LEMMA ActiveSteps ==
  ASSUME TypeOK, EntriesInv, [Next]_vars, NEW q \in Procs,
         status[q] # "active", status'[q] = "active"
  PROVE  \/ pc[q] = "post"
         \/ \E r \in Revoking(q) : r \notin Revoking(q)' /\ undo[r] = "active"
<1> USE DEF TypeOK, Revoking
<1>1. CASE UNCHANGED vars
  BY <1>1 DEF vars, historyVars
<1>2. CASE UserConfigures
  BY <1>2 DEF UserConfigures
<1>3. CASE Done
  BY <1>3 DEF Done, vars, historyVars
<1>4. ASSUME NEW p \in Procs, Step(p)
      PROVE  \/ pc[q] = "post"
             \/ \E r \in Revoking(q) : r \notin Revoking(q)' /\ undo[r] = "active"
  <2>1. CASE Post(p)
    BY <2>1 DEF Post
  <2>2. CASE Delete(p)
    BY <2>2 DEF Delete
  <2>3. CASE Persisted(p)
    BY <2>3 DEF Persisted
  <2>4. CASE PersistFails(p)
    <3>1. undo[p] = "active" /\ Subject(p) = q /\ undo'[p] = None
      BY <2>4 DEF PersistFails, Restored
    <3>2. op[p] = "revoke"
      BY <3>1, <2>4, CliAssumption DEF PersistFails, EntriesInv, UndoInv, Ops, Subject
    <3> QED  BY <3>1, <3>2, CliAssumption DEF Subject, Status
  <2>5. CASE Elsewhere
    BY <2>5 DEF Elsewhere
  <2> QED  BY <1>4, <2>1, <2>2, <2>3, <2>4, <2>5, ElsewhereSteps
<1> QED  BY <1>1, <1>2, <1>3, <1>4 DEF Next

\* A second deletion of a token that is being revoked makes it contested.
LEMMA OneAtATimeStays ==
  ASSUME TypeOK, EntriesInv, LaterFound, OneAtATime, [Next]_vars
  PROVE  OneAtATime'
<1> SUFFICES ASSUME NEW q \in Procs, q \notin contested'
             PROVE  /\ \A r, s \in Revoking(q)' : r = s
                    /\ \A r \in Revoking(q)' : status'[q] # "active"
  BY DEF OneAtATime
<1>1. q \notin contested
  BY RevokingSteps
<1>2. ASSUME NEW r \in Revoking(q)', r \notin Revoking(q)
      PROVE  Revoking(q)' = {r} /\ status'[q] = "revoked"
  <2>1. Delete(r) /\ target[r] = q /\ r \in Procs
    BY <1>2, RevokingSteps DEF Revoking
  <2>2. Revoking(q) = {} /\ status'[q] = "revoked"
    BY <2>1 DEF Delete, TypeOK
  <2>3. UNCHANGED <<op, target>> /\ \A s \in Procs : s # r => undo'[s] = undo[s]
    BY <2>1 DEF Delete, TypeOK
  <2>4. \A s \in Revoking(q)' : s = r
    BY <2>2, <2>3 DEF Revoking
  <2> QED  BY <1>2, <2>2, <2>4
<1>3. ASSUME NEW r \in Revoking(q)', r \in Revoking(q) PROVE status'[q] # "active"
  <2>1. status[q] # "active" /\ \A s \in Revoking(q) : s = r
    BY <1>1, <1>3 DEF OneAtATime
  <2>2. pc[q] # "post"
    BY <1>3, CliAssumption DEF Revoking, LaterFound
  <2> QED  BY <1>3, <2>1, <2>2, ActiveSteps
<1>4. \A r, s \in Revoking(q) : r = s
  BY <1>1 DEF OneAtATime
<1> QED  BY <1>2, <1>3, <1>4

\* What the commands do to what the invariant says of them.
LEMMA CommandSteps ==
  ASSUME TypeOK, EntriesInv, [Next]_vars, NEW p \in Procs
  PROVE  /\ op'[p] = op[p] /\ name'[p] = name[p]
         /\ pc[p] = "ok" => pc'[p] = "ok"
         /\ known'[p] = known[p] \/ Start(p)
         /\ op[p] = "revoke" /\ pc'[p] \in {"delete", "answer"} =>
              \/ pc[p] \in {"delete", "answer"} /\ target'[p] = target[p]
              \/ List(p)
         /\ op[p] = "revoke" /\ pc'[p] = "ok" /\ pc[p] # "ok" =>
              Persisted(p) /\ pc[p] = "answer"
<1> USE DEF TypeOK, Goto, EntriesInv, PlacesInv, historyVars
<1>1. CASE UNCHANGED vars
  BY <1>1 DEF vars
<1>2. CASE UserConfigures
  BY <1>2 DEF UserConfigures
<1>3. CASE Done
  BY <1>3 DEF Done, vars
<1>4. ASSUME NEW q \in Procs, Step(q), q # p
      PROVE  UNCHANGED <<op[p], name[p], pc[p], known[p], target[p]>>
  BY <1>4 DEF Step, Start, LoadMissing, LoadUnparsable, UseToken, Connect,
     PostRefused, Post, Persisted, PersistFails, Reply, Reload, OpenConfig,
     WriteConfig, OpenFails, WriteFails, ListMissing, List, DeleteMissing,
     Delete, AnswerLost, Kill
<1>5. CASE Step(p)
  <2>1. op' = op /\ name' = name /\ (known' = known \/ Start(p))
    BY <1>5 DEF Step, Start, LoadMissing, LoadUnparsable, UseToken, Connect,
       PostRefused, Post, Persisted, PersistFails, Reload, OpenConfig,
       WriteConfig, OpenFails, WriteFails, ListMissing, List, DeleteMissing,
       Delete, AnswerLost, Kill
  <2>2. pc[p] = "ok" => pc'[p] = "ok"
    BY <1>5 DEF Step, Start, LoadMissing, LoadUnparsable, UseToken, Connect,
       PostRefused, Post, Persisted, PersistFails, Reply, Reload, OpenConfig,
       WriteConfig, OpenFails, WriteFails, ListMissing, List, DeleteMissing,
       Delete, AnswerLost, Kill
  <2>3. ASSUME op[p] = "revoke", pc'[p] \in {"delete", "answer"}
        PROVE  \/ pc[p] \in {"delete", "answer"} /\ target'[p] = target[p]
               \/ List(p)
    BY <1>5, <2>3 DEF Step, Start, LoadMissing, LoadUnparsable, UseToken, Connect,
       PostRefused, Post, Persisted, PersistFails, Reply, Reload, OpenConfig,
       WriteConfig, OpenFails, WriteFails, ListMissing, DeleteMissing,
       Delete, AnswerLost, Kill
  <2>4. ASSUME op[p] = "revoke", pc'[p] = "ok", pc[p] # "ok"
        PROVE  Persisted(p) /\ pc[p] = "answer"
    <3>1. Persisted(p)
      BY <1>5, <2>4 DEF Step, Start, LoadMissing, LoadUnparsable, UseToken,
         Connect, PostRefused, Post, PersistFails, Reply, Reload, OpenConfig,
         WriteConfig, OpenFails, WriteFails, ListMissing, List, DeleteMissing,
         Delete, AnswerLost, Kill
    <3> QED  BY <2>4, <3>1 DEF Persisted, Reply
  <2> QED  BY <2>1, <2>2, <2>3, <2>4
<1> QED  BY <1>1, <1>2, <1>3, <1>4, <1>5 DEF Next

\* After a revocation was answered, nothing makes its token active.
LEMMA AnsweredStays ==
  ASSUME TypeOK, EntriesInv, RevokeInv, [Next]_vars, NEW p \in Procs,
         op[p] = "revoke", pc'[p] = "ok", NEW q \in known[p], q \notin contested'
  PROVE  status'[q] # "active" /\ \A r \in Revoking(q)' : undo'[r] # "active"
<1>1. q \in Procs /\ pc[q] = "ok"
  BY DEF TypeOK, RevokeInv
<1>2. q \notin contested
  BY <1>1, RevokingSteps
<1>3. CASE pc[p] = "ok"
  <2>1. status[q] # "active" /\ \A r \in Revoking(q) : undo[r] # "active"
    BY <1>2, <1>3 DEF RevokeInv, RevokedKnown
  <2>2. status'[q] # "active"
    BY <1>1, <2>1, ActiveSteps
  <2>3. ASSUME NEW r \in Revoking(q)', r \notin Revoking(q) PROVE undo'[r] # "active"
    <3>1. Delete(r) /\ target[r] = q /\ r \in Procs
      BY <1>1, <2>3, RevokingSteps DEF Revoking
    <3>2. undo'[r] = status[q]
      BY <3>1 DEF Delete, TypeOK
    <3> QED  BY <2>1, <3>2
  <2>4. \A r \in Revoking(q)' \cap Revoking(q) : undo'[r] = undo[r]
    BY <1>1, RevokingSteps
  <2> QED  BY <2>1, <2>2, <2>3, <2>4
<1>4. CASE pc[p] # "ok"
  <2>1. Persisted(p) /\ pc[p] = "answer"
    BY <1>4, CommandSteps
  <2>2. target[p] = q /\ undo[p] # None /\ undo'[p] = None
    BY <2>1 DEF Persisted, RevokeInv, TypeOK
  <2>3. p \in Revoking(q) /\ p \notin Revoking(q)'
    BY <2>2 DEF Revoking
  <2>4. status[q] # "active" /\ \A r \in Revoking(q) : r = p
    BY <1>1, <1>2, <2>3 DEF RevokeInv, OneAtATime
  <2>5. status' = status
    BY <2>1 DEF Persisted
  <2>6. ASSUME NEW r \in Revoking(q)' PROVE FALSE
    <3>1. Delete(r) /\ r \in Procs
      BY <1>1, <2>3, <2>4, <2>6, RevokingSteps DEF Revoking
    <3> QED  BY <3>1, <2>1 DEF Delete, Goto, TypeOK
  <2> QED  BY <2>4, <2>5, <2>6
<1> QED  BY <1>3, <1>4

LEMMA RevokeStays ==
  ASSUME TypeOK, EntriesInv, RevokeInv, [Next]_vars
  PROVE  RevokeInv'
<1>1. LaterFound' /\ OneAtATime'
  BY FoundLater, OneAtATimeStays DEF RevokeInv
<1>2. ASSUME NEW p \in Procs, NEW q \in known'[p]
      PROVE  op'[q] = "create" /\ pc'[q] = "ok" /\ name'[q] = name'[p]
  <2>1. CASE known'[p] = known[p]
    <3>1. q \in Procs /\ op[q] = "create" /\ pc[q] = "ok" /\ name[q] = name[p]
      BY <1>2, <2>1 DEF TypeOK, RevokeInv
    <3> QED  BY <3>1, CommandSteps
  <2>2. CASE Start(p)
    <3>1. q \in Procs /\ op[q] = "create" /\ pc[q] = "ok" /\ name[q] = name[p]
      BY <1>2, <2>2 DEF TypeOK, Start
    <3> QED  BY <3>1, CommandSteps
  <2> QED  BY <2>1, <2>2, CommandSteps
<1>3. ASSUME NEW p \in Procs, op[p] = "revoke", pc'[p] \in {"delete", "answer", "ok"}
      PROVE  known'[p] = known[p]
  <2>1. ~Start(p)
    BY <1>3 DEF Start, Goto, TypeOK
  <2> QED  BY <2>1, CommandSteps
<1>4. ASSUME NEW p \in Procs, op'[p] = "revoke", pc'[p] \in {"delete", "answer"},
             NEW q \in known'[p]
      PROVE  target'[p] = q
  <2>1. op[p] = "revoke" /\ q \in known[p]
    BY <1>3, <1>4, CommandSteps
  <2>2. CASE pc[p] \in {"delete", "answer"} /\ target'[p] = target[p]
    BY <2>1, <2>2 DEF RevokeInv
  <2>3. CASE List(p)
    <3>1. PICK t \in Procs : Holds(t, name[p]) /\ target' = [target EXCEPT ![p] = t]
      BY <2>3 DEF List
    <3>2. q \in Procs /\ status[q] # "absent" /\ name[q] = name[p]
      BY <2>1 DEF TypeOK, RevokeInv, EntriesInv, PlacesInv
    <3> QED  BY <3>1, <3>2 DEF EntriesInv, NamesUnique, Holds, TypeOK
  <2> QED  BY <1>4, <2>1, <2>2, <2>3, CommandSteps
<1>5. ASSUME NEW p \in Procs, op'[p] = "revoke", pc'[p] = "ok",
             NEW q \in known'[p], q \notin contested'
      PROVE  status'[q] # "active" /\ \A r \in Revoking(q)' : undo'[r] # "active"
  <2>1. op[p] = "revoke" /\ q \in known[p]
    BY <1>3, <1>5, CommandSteps
  <2> QED  BY <1>5, <2>1, AnsweredStays
<1> QED  BY <1>1, <1>2, <1>4, <1>5 DEF RevokeInv, RevokedKnown

\* A revocation by name that succeeds leaves no token active that had been
\* reported created under that name when it began, and none becomes so again,
\* unless the gateway was persisting two revocations of it at once.
THEOREM RevocationFindsAll == Spec => []RevokedKnown
<1>1. Init => EntriesInv /\ RevokeInv
  <2> SUFFICES ASSUME Init PROVE EntriesInv /\ RevokeInv
    OBVIOUS
  <2>1. file \in Doc => \A n \in Names : file.tokens[n] = None
    BY CliAssumption DEF Init
  <2>2. \A p \in Procs, n \in Names : cfg[p].tokens[n] = None
    BY DEF Init, Default
  <2> QED  BY <2>1, <2>2 DEF Init, EntriesInv, NamesUnique, PlacesInv, UndoInv, RevokeInv,
                             LaterFound, OneAtATime, Revoking, RevokedKnown
<1>2. TypeOK /\ EntriesInv /\ RevokeInv /\ [Next]_vars => EntriesInv' /\ RevokeInv'
  BY EntriesStay, RevokeStays
<1>3. RevokeInv => RevokedKnown
  BY DEF RevokeInv
<1> QED  BY <1>1, <1>2, <1>3, TypeCorrect, PTL DEF Spec
=============================================================================
