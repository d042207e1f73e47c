--------------------------- MODULE FileScanProofs ---------------------------
(***************************************************************************)
(* Proofs about the traversal, for any set of files, contents, command     *)
(* lines and bounds.                                                       *)
(***************************************************************************)
EXTENDS FileScan, TLAPS, SequenceTheorems

-----------------------------------------------------------------------------
(***************************************************************************)
(* Type correctness.                                                       *)
(***************************************************************************)

\* What the program binds when it saves a file, from the File in hand and the
\* stat of its directory entry, is a row of the table.
LEMMA RecordOfType ==
    ASSUME TypeOK, NEW j \in Job
    PROVE  RecordOf(j) \in Row /\ RecordOf(j) # NoRow
<1>1. snap[j.file] \in CmpctStat /\ j.offset \in Nat /\ j.mdContext \in Seq(Block)
      /\ j.sha512 \in Digest
  BY DEF TypeOK, Job
<1>2. << >> \in Seq(Block) /\ NoDigest \in Digest
  BY DEF Digest
<1>3. RecordOf(j) \in Row
  BY <1>1, <1>2 DEF RecordOf, Row
<1> QED
  BY <1>3, RowAssumption

\* The File that the traversal fills before hashing has its type.
LEMMA NewJobType ==
    ASSUME TypeOK, NEW f \in Files
    PROVE  NewJob(f) \in Job
<1>1. working[f] \in Row \cup {NoRow}
  BY DEF TypeOK
<1>2. << >> \in Seq(Block) /\ ZeroDigest \in Digest /\ NoDigest \in Digest
  BY DEF Digest
<1>3. CanResume(f) => working[f] \in Row
  BY <1>1 DEF CanResume, HasSavedOffset, Known
<1>4. CanResume(f) => working[f].offset \in Nat /\ working[f].mdContext \in Seq(Block)
  BY <1>3 DEF Row
<1>5. LoadedDigest(working[f]) \in Digest
  BY <1>1, <1>2 DEF LoadedDigest, Known, Row
<1>6. Rehash(f) \in BOOLEAN /\ Known(working[f]) \in BOOLEAN
  BY DEF Rehash, Known
<1> QED
  BY <1>1, <1>2, <1>4, <1>5, <1>6 DEF NewJob, Job

\* The stat of a file has its type.
LEMMA StatOfType ==
    ASSUME TypeOK, NEW f \in Files
    PROVE  StatOf(f) \in CmpctStat
<1>1. disk[f] \in DiskFile
  BY DEF TypeOK
<1>2. Len(disk[f].data) \in Nat /\ disk[f].blocks \in Int
      /\ disk[f].mtime \in Nat /\ disk[f].ctime \in Nat
  BY <1>1 DEF DiskFile
<1> QED
  BY <1>2 DEF StatOf, CmpctStat

\* The initial state is well typed.
LEMMA TypeInit == Init => TypeOK
<1> SUFFICES ASSUME Init PROVE TypeOK
  OBVIOUS
<1>1. disk \in [Files -> DiskFile]
  <2>1. \A c \in Contents :
           [data |-> c, blocks |-> Len(c), mtime |-> 0, ctime |-> 0] \in DiskFile
    BY ScanAssumption DEF DiskFile
  <2> QED
    BY <2>1 DEF Init
<1>2. \A f \in Files : MigratedRow(f) \in Row
  <2> SUFFICES ASSUME NEW f \in Files PROVE MigratedRow(f) \in Row
    OBVIOUS
  <2>1. disk[f].data \in Seq(Block) /\ disk[f].mtime \in Nat /\ disk[f].ctime \in Nat
    BY <1>1 DEF DiskFile
  <2>2. [StatOf(f) EXCEPT !.blocks = BLKCNT_UNKNOWN] \in CmpctStat
    BY <2>1 DEF StatOf, CmpctStat, BLKCNT_UNKNOWN
  <2> QED
    BY <2>1, <2>2 DEF MigratedRow, Row, Digest
<1>3. durable \in [Files -> Row \cup {NoRow}]
  BY <1>2 DEF Init
<1>4. DefaultOptions \in Options
  BY DEF DefaultOptions, Options
<1>5. BlankStat \in CmpctStat
  BY DEF BlankStat, CmpctStat
<1> QED
  BY <1>1, <1>3, <1>4, <1>5 DEF Init, TypeOK, Access, ProgramCounter

\* Every step of the program, of the signal handler and of the file system
\* preserves the types.
LEMMA TypeNext == TypeOK /\ [Next]_vars => TypeOK'
<1> SUFFICES ASSUME TypeOK, [Next]_vars PROVE TypeOK'
  OBVIOUS
<1> USE DEF envVars, storeVars, flowVars
<1>0. DefaultOptions \in Options /\ BlankStat \in CmpctStat
  BY DEF DefaultOptions, Options, BlankStat, CmpctStat
<1>e. runs + 1 \in Nat /\ faults + 1 \in Nat /\ edits + 1 \in Nat /\ clock + 1 \in Nat
  BY DEF TypeOK
<1>a. ASSUME NEW saving \in BOOLEAN, SqliteFails(saving)
      PROVE  /\ working' \in [Files -> Row \cup {NoRow}]
             /\ durable' \in [Files -> Row \cup {NoRow}]
             /\ active' \in BOOLEAN /\ autocommit' \in BOOLEAN
             /\ failed' \in BOOLEAN /\ calm' \in BOOLEAN /\ faults' \in Nat
  <2>1. faults' \in Nat
    BY <1>a, <1>e DEF SqliteFails
  <2>2. UNCHANGED <<working, active, autocommit>> \/ (active' = TRUE /\ autocommit' = FALSE /\ working' = working)
        \/ (autocommit' = TRUE /\ working' = durable /\ active' = active)
    BY <1>a DEF SqliteFails
  <2>3. durable' = durable /\ failed' = TRUE /\ calm' = FALSE
    BY <1>a DEF SqliteFails
  <2> QED
    BY <2>1, <2>2, <2>3 DEF TypeOK
<1>b. ASSUME NEW open \in BOOLEAN, Commit(open, working)
      PROVE  /\ durable' \in [Files -> Row \cup {NoRow}]
             /\ active' \in BOOLEAN /\ autocommit' \in BOOLEAN
  BY <1>b DEF Commit, TypeOK
<1>c. ASSUME Rollback
      PROVE  /\ working' \in [Files -> Row \cup {NoRow}]
             /\ active' \in BOOLEAN /\ autocommit' \in BOOLEAN
  BY <1>c DEF Rollback, TypeOK
<1>l. ASSUME FindLost
      PROVE  /\ working' \in [Files -> Row \cup {NoRow}]
             /\ durable' \in [Files -> Row \cup {NoRow}]
             /\ active' \in BOOLEAN /\ autocommit' \in BOOLEAN
             /\ failed' \in BOOLEAN /\ calm' \in BOOLEAN /\ faults' \in Nat
  BY <1>l DEF FindLost, TypeOK
<1>1. CASE StartRun
  <2>1. \A f \in Files : StatOf(f) \in CmpctStat
    BY StatOfType
  <2>2. opts' \in Options
    BY <1>1, ScanAssumption DEF StartRun
  <2>3. sealed' \subseteq Files
    BY <1>1, <2>2 DEF StartRun, Options
  <2>4. snap' \in [Files -> CmpctStat]
    BY <1>1, <2>1 DEF StartRun
  <2> QED
    BY <1>1, <1>e, <2>2, <2>3, <2>4 DEF StartRun, TypeOK, ProgramCounter
<1>2. CASE BatchDeadline
  <2>1. active \in BOOLEAN
    BY DEF TypeOK
  <2> QED
    BY <1>2, <1>a, <1>b, <1>l, <2>1 DEF BatchDeadline, TypeOK
<1>3. ASSUME NEW f \in Files, Visit(f) PROVE TypeOK'
  <2>1. NewJob(f) \in Job /\ NewJob(f) # NoJob
    BY NewJobType, JobAssumption
  <2>2. pc = "walk" /\ job = NoJob
    BY <1>3 DEF Visit, Walking, TypeOK
  <2>3. job' \in Job \cup {NoJob} /\ pc' \in ProgramCounter /\ violation' \in BOOLEAN
        /\ (job' # NoJob <=> pc' \in {"open", "hash", "checkpoint", "conclude"})
    <3>1. CASE LeaveFile(f)
      BY <3>1, <2>2 DEF LeaveFile, TypeOK
    <3>2. CASE ReportFile(f)
      BY <3>2, <2>2 DEF ReportFile, TypeOK
    <3>3. CASE ProcessFile(f)
      BY <3>3, <2>1, <2>2 DEF ProcessFile, TypeOK, ProgramCounter
    <3> QED
      BY <1>3, <3>1, <3>2, <3>3 DEF Visit
  <2> QED
    BY <1>3, <2>3 DEF Visit, TypeOK
<1>4. CASE ReadRowFails
  BY <1>4, <1>a DEF ReadRowFails, Walking, TypeOK
<1>5. CASE OpenFile
  <2>1. job \in Job
    BY <1>5 DEF OpenFile, TypeOK
  <2>2. PICK bad \in BOOLEAN, odd \in BOOLEAN :
          job' = [job EXCEPT !.read_error = bad, !.wrong_file_type = odd]
    <3> DEFINE bad == access[job.file] # "ALLOWED"
               odd == ~bad /\ job.file \in Unseekable
    <3>1. bad \in BOOLEAN /\ odd \in BOOLEAN
      OBVIOUS
    <3>2. job' = [job EXCEPT !.read_error = bad, !.wrong_file_type = odd]
      BY <1>5 DEF OpenFile
    <3> HIDE DEF bad, odd
    <3> QED
      BY <3>1, <3>2
  <2>3. job' \in Job
    BY <2>1, <2>2 DEF Job
  <2> QED
    BY <1>5, <2>3, JobAssumption DEF OpenFile, TypeOK, ProgramCounter
<1>6. CASE StopHashing
  BY <1>6 DEF StopHashing, TypeOK, ProgramCounter
<1>7. CASE HashBlock
  <2>1. job \in Job /\ job.file \in Files /\ job.offset \in Nat /\ job.mdContext \in Seq(Block)
    BY <1>7 DEF HashBlock, TypeOK, Job
  <2>2. disk[job.file].data \in Seq(Block)
    BY <2>1 DEF TypeOK, DiskFile
  <2>3. disk[job.file].data[job.offset + 1] \in Block
    BY <1>7, <2>1, <2>2 DEF HashBlock
  <2>4. Append(job.mdContext, disk[job.file].data[job.offset + 1]) \in Seq(Block)
    BY <2>1, <2>3
  <2>5. job' \in Job
    <3> DEFINE md == Append(job.mdContext, disk[job.file].data[job.offset + 1])
    <3>1. job' = [job EXCEPT !.offset = job.offset + 1, !.mdContext = md]
      BY <1>7 DEF HashBlock
    <3>2. job.offset + 1 \in Nat /\ md \in Seq(Block)
      BY <2>1, <2>4
    <3> HIDE DEF md
    <3> QED
      BY <2>1, <3>1, <3>2 DEF Job
  <2> QED
    BY <1>7, <2>5, JobAssumption DEF HashBlock, TypeOK, ProgramCounter
<1>d. job \in Job => Finalised(job) \in Job /\ [Finalised(job) EXCEPT !.read_error = TRUE] \in Job
  BY DEF Finalised, Job, Digest
<1>8. CASE HashEof
  BY <1>8, <1>d, JobAssumption DEF HashEof, TypeOK, ProgramCounter
<1>9. CASE HashReadError
  BY <1>9, <1>d, <1>e, JobAssumption DEF HashReadError, TypeOK, ProgramCounter
<1>10. CASE Checkpoint
  <2>1. job \in Job /\ job.file \in Files
    BY <1>10 DEF Checkpoint, Written, TypeOK, Job
  <2>2. RecordOf(job) \in Row
    BY <2>1, RecordOfType
  <2>3. CheckpointAllowed(job) \in BOOLEAN
    BY DEF CheckpointAllowed
  <2>4. CASE CheckpointAllowed(job) /\ pc' = "hash"
    <3>1. job' = [job EXCEPT !.known = TRUE] /\ working' = [working EXCEPT ![job.file] = RecordOf(job)]
          /\ durable' = working' /\ active' = FALSE /\ autocommit' = TRUE
          /\ UNCHANGED <<failed, calm, faults>>
      BY <1>10, <2>4 DEF Checkpoint, Written, Commit
    <3>2. working' \in [Files -> Row \cup {NoRow}]
      BY <3>1, <2>1, <2>2 DEF TypeOK
    <3>3. job' \in Job
      BY <3>1, <2>1 DEF Job
    <3> QED
      BY <1>10, <2>4, <3>1, <3>2, <3>3, JobAssumption DEF Checkpoint, Written, TypeOK, ProgramCounter
  <2>5. CASE ~CheckpointAllowed(job) /\ pc' = "hash"
    <3>1. /\ job' = job /\ working' = working
          /\ durable' = IF active THEN working ELSE durable
          /\ active' = FALSE /\ autocommit' = TRUE
          /\ UNCHANGED <<failed, calm, faults>>
      BY <1>10, <2>5 DEF Checkpoint, Written, Commit
    <3>2. durable' \in [Files -> Row \cup {NoRow}]
      BY <3>1 DEF TypeOK
    <3> QED
      BY <1>10, <2>1, <2>5, <3>1, <3>2, JobAssumption DEF Checkpoint, Written, TypeOK, ProgramCounter
  <2>6. CASE pc' = "walk"
    <3>1. (SqliteFails(CheckpointAllowed(job)) \/ FindLost) /\ job' = NoJob
      BY <1>10, <2>6 DEF Checkpoint, Written
    <3> QED
      BY <1>10, <2>3, <2>6, <3>1, <1>a, <1>l DEF Checkpoint, Written, TypeOK, ProgramCounter
  <2> QED
    BY <1>10, <2>4, <2>5, <2>6 DEF Checkpoint, Written
<1>11. CASE Conclude
  <2>1. job \in Job /\ job.file \in Files
    BY <1>11 DEF Conclude, TypeOK, Job
  <2>2. RecordOf(job) \in Row
    BY <2>1, RecordOfType
  <2>3. /\ working' \in [Files -> Row \cup {NoRow}] /\ durable' \in [Files -> Row \cup {NoRow}]
        /\ active' \in BOOLEAN /\ autocommit' \in BOOLEAN /\ violation' \in BOOLEAN
        /\ failed' \in BOOLEAN /\ calm' \in BOOLEAN /\ faults' \in Nat
    <3>1. CASE DropFile
      BY <3>1 DEF DropFile, TypeOK
    <3>2. CASE ReportMismatch
      BY <3>2 DEF ReportMismatch, TypeOK
    <3>3. CASE SaveFile
      <4>1. CASE SqliteFails(TRUE) \/ FindLost
        BY <3>3, <4>1, <1>a, <1>l DEF SaveFile, TypeOK
      <4>2. CASE UNCHANGED <<working, active, autocommit, durable, failed, calm, faults>>
        BY <3>3, <4>2 DEF SaveFile, TypeOK
      <4>3. CASE Save(job) /\ UNCHANGED <<durable, failed, calm, faults>>
        BY <3>3, <4>3, <2>1, <2>2 DEF SaveFile, Save, Written, TypeOK
      <4> QED
        BY <3>3, <4>1, <4>2, <4>3 DEF SaveFile
    <3> QED
      BY <1>11, <3>1, <3>2, <3>3 DEF Conclude
  <2> QED
    BY <1>11, <2>3 DEF Conclude, TypeOK, ProgramCounter
<1>12. CASE FinishScan
  <2>1. active \in BOOLEAN
    BY DEF TypeOK
  <2>2. /\ working' \in [Files -> Row \cup {NoRow}] /\ durable' \in [Files -> Row \cup {NoRow}]
        /\ active' \in BOOLEAN /\ autocommit' \in BOOLEAN
        /\ failed' \in BOOLEAN /\ calm' \in BOOLEAN /\ faults' \in Nat
    <3>1. CASE Commit(active, working) /\ UNCHANGED <<working, failed, calm, faults>>
      BY <3>1, <2>1, <1>b DEF TypeOK
    <3>2. CASE Rollback /\ UNCHANGED <<durable, failed, calm, faults>>
      BY <3>2, <1>c DEF TypeOK
    <3>3. CASE /\ faults' \in {faults, faults + 1} /\ failed' = TRUE /\ calm' \in {calm, FALSE}
               /\ Rollback /\ UNCHANGED durable
      BY <3>3, <1>c, <1>e DEF TypeOK
    <3> QED
      BY <1>12, <3>1, <3>2, <3>3 DEF FinishScan
  <2> QED
    BY <1>12, <2>2 DEF FinishScan, TypeOK, ProgramCounter
<1>13. CASE Exit
  BY <1>13, <1>0 DEF Exit, ProcessEnds, TypeOK, ProgramCounter
<1>18. CASE RememberFails
  BY <1>18, <1>e DEF RememberFails, TypeOK
<1>14. CASE Interrupt
  BY <1>14 DEF Interrupt, TypeOK
<1>15. CASE Crash
  <2>1. faults' \in Nat /\ Rollback
    BY <1>15, <1>e DEF Crash
  <2> QED
    BY <1>15, <1>0, <1>c, <2>1 DEF Crash, ProcessEnds, TypeOK, ProgramCounter
<1>16. CASE Environment
  <2> SUFFICES ASSUME NEW f \in Files,
                      \/ EnvWrite(f) \/ EnvChmod(f) \/ EnvRealloc(f) \/ EnvRot(f)
                      \/ EnvBackdate(f) \/ EnvAccess(f)
               PROVE  /\ disk' \in [Files -> DiskFile] /\ access' \in [Files -> Access]
                      /\ rotted' \subseteq Files /\ clock' \in Nat /\ edits' \in Nat
                      /\ calm' \in BOOLEAN
                      /\ UNCHANGED <<storeVars, flowVars, pc, interrupted, job, failed,
                                     violation, faults>>
    BY <1>16 DEF Environment, TypeOK
  <2>1. disk[f] \in DiskFile
    BY DEF TypeOK
  <2>2. edits \in Nat /\ clock \in Nat /\ clock + 1 \in Nat /\ edits + 1 \in Nat
    BY DEF TypeOK
  <2>3. CASE EnvWrite(f)
    <3>1. PICK d \in Contents :
            disk' = [disk EXCEPT ![f] = [data |-> d, blocks |-> Len(d),
                                         mtime |-> clock + 1, ctime |-> clock + 1]]
      BY <2>3 DEF EnvWrite
    <3>2. d \in Seq(Block) /\ Len(d) \in Nat
      BY ScanAssumption
    <3>3. [data |-> d, blocks |-> Len(d), mtime |-> clock + 1, ctime |-> clock + 1] \in DiskFile
      BY <3>2, <2>2 DEF DiskFile
    <3>4. disk' \in [Files -> DiskFile]
      BY <3>1, <3>3 DEF TypeOK
    <3> QED
      BY <2>3, <2>2, <3>4 DEF EnvWrite, Edit, TypeOK
  <2>4. CASE EnvChmod(f)
    BY <2>4, <2>1, <2>2 DEF EnvChmod, Edit, TypeOK, DiskFile
  <2>5. CASE EnvRealloc(f)
    <3>1. [disk[f] EXCEPT !.blocks = disk[f].blocks + 1] \in DiskFile
      BY <2>1 DEF DiskFile
    <3>2. disk' = [disk EXCEPT ![f] = [disk[f] EXCEPT !.blocks = disk[f].blocks + 1]]
      BY <2>5 DEF EnvRealloc, TypeOK
    <3>3. disk' \in [Files -> DiskFile]
      BY <3>1, <3>2 DEF TypeOK
    <3> QED
      BY <2>5, <2>2, <3>3 DEF EnvRealloc, Edit, TypeOK
  <2>6. CASE EnvRot(f)
    <3>1. PICK d \in Contents : disk' = [disk EXCEPT ![f].data = d]
      BY <2>6 DEF EnvRot
    <3>2. [disk[f] EXCEPT !.data = d] \in DiskFile
      BY <2>1, ScanAssumption DEF DiskFile
    <3>3. disk' \in [Files -> DiskFile]
      BY <3>1, <3>2 DEF TypeOK
    <3> QED
      BY <2>6, <2>2, <3>3 DEF EnvRot, Edit, TypeOK
  <2>7. CASE EnvBackdate(f)
    <3>1. PICK d \in Contents : disk' = [disk EXCEPT ![f].data = d, ![f].ctime = clock + 1]
      BY <2>7 DEF EnvBackdate
    <3>2. [disk[f] EXCEPT !.data = d, !.ctime = clock + 1] \in DiskFile
      BY <2>1, <2>2, ScanAssumption DEF DiskFile
    <3>3. disk' = [disk EXCEPT ![f] = [disk[f] EXCEPT !.data = d, !.ctime = clock + 1]]
      BY <3>1 DEF TypeOK
    <3>4. disk' \in [Files -> DiskFile]
      BY <3>2, <3>3 DEF TypeOK
    <3> QED
      BY <2>7, <2>2, <3>4 DEF EnvBackdate, Edit, TypeOK
  <2>8. CASE EnvAccess(f)
    BY <2>8, <2>2 DEF EnvAccess, Edit, TypeOK
  <2> QED
    BY <2>3, <2>4, <2>5, <2>6, <2>7, <2>8
<1>17. CASE UNCHANGED vars
  BY <1>17 DEF vars, TypeOK
<1> QED
  BY <1>1, <1>2, <1>3, <1>4, <1>5, <1>6, <1>7, <1>8, <1>9, <1>10, <1>11, <1>12, <1>13,
     <1>14, <1>15, <1>16, <1>17, <1>18 DEF Next, Program

\* TypeOK holds in every reachable state of the traversal: whatever the options,
\* faults and edits, file_list() never binds anything but a row of the table and
\* never works on a file that it did not set up.
THEOREM TypeCorrect == Spec => []TypeOK
<1> QED
  BY TypeInit, TypeNext, PTL DEF Spec

-----------------------------------------------------------------------------
(***************************************************************************)
(* The traversal implements AtomicBatch, and it always knows whether the   *)
(* row of the file in hand exists.                                         *)
(***************************************************************************)

\* Without an active batch the connection sees the durable rows, a transaction is
\* open for an active batch only, no batch is active outside of the traversal, and
\* a failure leaves the file in hand.
StoreInv ==
    /\ ~active => working = durable
    /\ active \/ autocommit
    /\ pc \in {"idle", "close"} => ~active
    /\ failed => pc \in {"walk", "close"}

\* The inductive invariant of this module.
BatchInv == TypeOK /\ StoreInv

\* The initial state has no batch open.
LEMMA StoreInit == Init => StoreInv
BY DEF Init, StoreInv

\* Every step preserves the relation between the two views of the database.
LEMMA StoreNext == BatchInv /\ [Next]_vars => StoreInv'
<1> SUFFICES ASSUME BatchInv, [Next]_vars PROVE StoreInv'
  OBVIOUS
<1> USE DEF BatchInv, StoreInv, envVars, storeVars, flowVars
<1>t. active \in BOOLEAN /\ autocommit \in BOOLEAN
  BY DEF TypeOK
<1>1. CASE StartRun
  BY <1>1 DEF StartRun
<1>2. CASE BatchDeadline
  BY <1>2 DEF BatchDeadline, Walking, Commit, SqliteFails, FindLost
<1>3. ASSUME NEW f \in Files, Visit(f) PROVE StoreInv'
  BY <1>3 DEF Visit, Walking, LeaveFile, ReportFile, ProcessFile
<1>4. CASE ReadRowFails
  BY <1>4 DEF ReadRowFails, Walking, SqliteFails
<1>5. CASE OpenFile
  BY <1>5 DEF OpenFile
<1>6. CASE StopHashing
  BY <1>6 DEF StopHashing
<1>7. CASE HashBlock
  BY <1>7 DEF HashBlock
<1>8. CASE HashEof
  BY <1>8 DEF HashEof
<1>9. CASE HashReadError
  BY <1>9 DEF HashReadError
<1>10. CASE Checkpoint
  <2>1. CASE pc' = "hash"
    <3>1. durable' = (IF active \/ CheckpointAllowed(job) THEN working' ELSE durable)
          /\ (~CheckpointAllowed(job) => working' = working) /\ active' = FALSE
          /\ autocommit' = TRUE /\ failed' = failed
      BY <1>10, <2>1 DEF Checkpoint, Written, Commit
    <3> QED
      BY <1>10, <2>1, <3>1, <1>t DEF Checkpoint, Written
  <2>2. CASE pc' = "walk"
    <3>1. SqliteFails(CheckpointAllowed(job)) \/ FindLost
      BY <1>10, <2>2 DEF Checkpoint, Written
    <3> QED
      BY <2>2, <3>1, <1>t DEF SqliteFails, FindLost
  <2> QED
    BY <1>10, <2>1, <2>2 DEF Checkpoint, Written
<1>11. CASE Conclude
  <2>1. pc' = "walk"
    BY <1>11 DEF Conclude
  <2>2. (~active' => working' = durable') /\ (active' \/ autocommit')
    <3>1. CASE UNCHANGED storeVars
      BY <3>1
    <3>2. CASE SaveFile
      <4>1. CASE SqliteFails(TRUE) \/ FindLost
        BY <4>1, <1>t DEF SqliteFails, FindLost
      <4>2. CASE UNCHANGED <<working, active, autocommit, durable>>
        BY <4>2
      <4>3. CASE Save(job) /\ UNCHANGED durable
        BY <4>3 DEF Save, Written
      <4> QED
        BY <3>2, <4>1, <4>2, <4>3 DEF SaveFile
    <3> QED
      BY <1>11, <3>1, <3>2 DEF Conclude, DropFile, ReportMismatch
  <2> QED
    BY <2>1, <2>2
<1>12. CASE FinishScan
  BY <1>12, <1>t DEF FinishScan, Commit, Rollback
<1>13. CASE Exit
  BY <1>13 DEF Exit, ProcessEnds
<1>18. CASE RememberFails
  BY <1>18 DEF RememberFails
<1>14. CASE Interrupt
  BY <1>14 DEF Interrupt
<1>15. CASE Crash
  BY <1>15 DEF Crash, ProcessEnds, Rollback
<1>16. CASE Environment
  BY <1>16 DEF Environment, EnvWrite, EnvChmod, EnvRealloc, EnvRot, EnvBackdate, EnvAccess, Edit
<1>17. CASE UNCHANGED vars
  BY <1>17 DEF vars
<1> QED
  BY <1>1, <1>2, <1>3, <1>4, <1>5, <1>6, <1>7, <1>8, <1>9, <1>10, <1>11, <1>12, <1>13,
     <1>14, <1>15, <1>16, <1>17, <1>18 DEF Next, Program

-----------------------------------------------------------------------------
\* A failed SQLite call in the traversal breaks the batch.
LEMMA FailureBreaks ==
    ASSUME NEW saving \in BOOLEAN, SqliteFails(saving) \/ FindLost,
           pc \notin {"idle", "close"}, pc' = "walk"
    PROVE  Batch!Next
<1>1. working' \in {working, durable} /\ durable' = durable /\ failed'
  BY DEF SqliteFails, FindLost, storeVars
<1>2. BatchPhase # "closed" /\ BatchPhase' = "broken"
  BY <1>1 DEF BatchPhase
<1>3. Batch!FaultOrBroken
  BY DEF SqliteFails, FindLost, BatchPhase, Batch!FaultOrBroken, Batch!Fault
<1> QED
  BY <1>1, <1>2, <1>3 DEF Batch!Next, Batch!Break

\* Every step of the traversal is a step of AtomicBatch or leaves it alone.
LEMMA BatchStep == BatchInv /\ [Next]_vars => [Batch!Next]_(Batch!vars)
<1> SUFFICES ASSUME BatchInv, [Next]_vars
             PROVE  Batch!Next \/ UNCHANGED Batch!vars
  OBVIOUS
<1> USE DEF BatchInv, StoreInv, envVars, storeVars, flowVars
<1>t. active \in BOOLEAN /\ failed \in BOOLEAN
  BY DEF TypeOK
<1>s. ASSUME UNCHANGED <<durable, working, faults>>, BatchPhase' = BatchPhase
      PROVE  UNCHANGED Batch!vars
  BY <1>s DEF Batch!vars
<1>1. CASE StartRun
  <2>1. BatchPhase = "closed" /\ BatchPhase' = "open"
    BY <1>1 DEF StartRun, BatchPhase, BatchLost
  <2> QED
    BY <1>1, <2>1 DEF StartRun, Batch!Next, Batch!Open
<1>2. CASE BatchDeadline
  <2>1. CASE SqliteFails(FALSE) \/ FindLost
    BY <1>2, <2>1, FailureBreaks DEF BatchDeadline, Walking
  <2>2. CASE Commit(active, working) /\ UNCHANGED <<working, failed, faults>>
    <3>1. durable' = working' /\ working' = working
      BY <1>2, <2>2 DEF BatchDeadline, Commit
    <3>2. BatchPhase = "open" /\ BatchPhase' = "open"
      BY <1>2, <2>2 DEF BatchDeadline, Walking, BatchPhase, Commit, BatchLost
    <3> QED
      BY <2>2, <3>1, <3>2 DEF Batch!Next, Batch!Publish
  <2> QED
    BY <1>2, <2>1, <2>2 DEF BatchDeadline
<1>3. ASSUME NEW f \in Files, Visit(f) PROVE UNCHANGED Batch!vars
  <2>1. BatchPhase' = BatchPhase
    BY <1>3 DEF Visit, Walking, LeaveFile, ReportFile, ProcessFile, BatchPhase, BatchLost
  <2> QED
    BY <1>3, <1>s, <2>1 DEF Visit
<1>4. CASE ReadRowFails
  BY <1>4, FailureBreaks DEF ReadRowFails, Walking
<1>5. CASE OpenFile
  <2>1. BatchPhase' = BatchPhase
    BY <1>5 DEF OpenFile, BatchPhase, BatchLost
  <2> QED
    BY <1>5, <1>s, <2>1 DEF OpenFile
<1>6. CASE StopHashing \/ HashBlock \/ HashEof
  <2>1. BatchPhase' = BatchPhase
    BY <1>6 DEF StopHashing, HashBlock, HashEof, BatchPhase, BatchLost
  <2> QED
    BY <1>6, <1>s, <2>1 DEF StopHashing, HashBlock, HashEof
<1>7. CASE HashReadError
  <2>1. BatchPhase' = BatchPhase
    BY <1>7 DEF HashReadError, BatchPhase, BatchLost
  <2>2. UNCHANGED <<durable, working>> /\ faults' = faults + 1
    BY <1>7 DEF HashReadError
  <2> QED
    BY <2>1, <2>2 DEF Batch!Next, Batch!Tolerate, Batch!Fault
<1>10. CASE Checkpoint
  <2>1. job \in Job /\ job.file \in Files
    BY <1>10 DEF Checkpoint, Written, TypeOK, Job
  <2>2. RecordOf(job) \in Row
    BY <2>1, RecordOfType
  <2>3. ~failed /\ pc = "checkpoint"
    BY <1>10 DEF Checkpoint, Written
  <2>4. CASE pc' = "hash"
    <3>1. /\ working' = IF CheckpointAllowed(job)
                        THEN [working EXCEPT ![job.file] = RecordOf(job)] ELSE working
          /\ durable' = IF active \/ CheckpointAllowed(job) THEN working' ELSE durable
          /\ failed' = failed /\ faults' = faults /\ ~BatchLost /\ ~active'
      BY <1>10, <2>4 DEF Checkpoint, Written, Commit
    <3>2. durable' = working'
      BY <3>1, <1>t
    <3>3. BatchPhase = "open" /\ BatchPhase' = "open"
      BY <2>3, <2>4, <3>1 DEF BatchPhase, BatchLost
    <3>4. working' = working \/ \E k \in Files : Batch!ChangeOf(k)
      <4>1. CASE CheckpointAllowed(job)
        <5>1. working'[job.file] = RecordOf(job)
          BY <4>1, <3>1, <2>1 DEF TypeOK
        <5>2. Batch!ChangeOf(job.file)
          BY <4>1, <3>1, <2>2, <5>1 DEF Batch!ChangeOf
        <5> QED
          BY <2>1, <5>2
      <4> QED
        BY <3>1, <4>1
    <3> QED
      BY <3>1, <3>2, <3>3, <3>4 DEF Batch!Next, Batch!Publish
  <2>5. CASE pc' = "walk"
    <3>1. /\ SqliteFails(CheckpointAllowed(job)) \/ FindLost
          /\ CheckpointAllowed(job) \in BOOLEAN
      BY <1>10, <2>5 DEF Checkpoint, Written, CheckpointAllowed
    <3> QED
      BY <2>3, <2>5, <3>1, FailureBreaks
  <2> QED
    BY <1>10, <2>4, <2>5 DEF Checkpoint, Written
<1>11. CASE Conclude
  <2>1. job \in Job /\ job.file \in Files
    BY <1>11 DEF Conclude, TypeOK, Job
  <2>2. RecordOf(job) \in Row
    BY <2>1, RecordOfType
  <2>3. ~failed /\ pc = "conclude" /\ pc' = "walk"
    BY <1>11 DEF Conclude
  <2>4. CASE SqliteFails(TRUE) \/ FindLost
    BY <2>3, <2>4, FailureBreaks
  <2>5. CASE UNCHANGED <<durable, working, active, autocommit, failed, faults>>
    <3>1. BatchPhase' = BatchPhase
      BY <2>3, <2>5 DEF BatchPhase, BatchLost
    <3> QED
      BY <2>5, <3>1, <1>s
  <2>6. CASE Save(job) /\ UNCHANGED <<durable, failed, faults>> /\ ~opts.dry_run /\ ~BatchLost
    <3>1. working' = [working EXCEPT ![job.file] = RecordOf(job)] /\ ~autocommit'
      BY <2>6 DEF Save, Written
    <3>4. BatchPhase = "open" /\ BatchPhase' = "open"
      BY <2>3, <2>6, <3>1 DEF BatchPhase, BatchLost
    <3>2. working'[job.file] = RecordOf(job)
      BY <3>1, <2>1 DEF TypeOK
    <3>3. Batch!Put(job.file)
      BY <3>1, <3>2, <3>4, <2>2, <2>6 DEF Batch!Put, Batch!ChangeOf
    <3> QED
      BY <2>1, <3>3 DEF Batch!Next
  <2> QED
    BY <1>11, <2>4, <2>5, <2>6 DEF Conclude, DropFile, ReportMismatch, SaveFile, Save, Written
<1>12. CASE FinishScan
  <2>1. pc = "walk" /\ pc' = "close" /\ BatchPhase' = "closed"
    BY <1>12 DEF FinishScan, BatchPhase
  <2>2. CASE ~failed /\ Commit(active, working) /\ UNCHANGED <<working, faults>>
    <3>1. BatchPhase = "open" /\ durable' = working
      BY <2>1, <2>2, <1>t DEF BatchPhase, Commit, BatchLost
    <3> QED
      BY <2>1, <2>2, <3>1 DEF Batch!Next, Batch!Close
  <2>3. CASE Rollback /\ UNCHANGED <<durable, faults>> /\ (failed \/ BatchLost)
    <3>1. BatchPhase = "broken"
      BY <2>1, <2>3 DEF BatchPhase
    <3> QED
      BY <2>1, <2>3, <3>1 DEF Rollback, Batch!Next, Batch!Discard, Batch!FaultOrBroken
  <2>4. CASE Rollback /\ UNCHANGED durable /\ faults' = faults + 1
    BY <2>1, <2>4 DEF Rollback, Batch!Next, Batch!Discard, Batch!FaultOrBroken, Batch!Fault
  <2> QED
    BY <1>12, <2>2, <2>3, <2>4 DEF FinishScan
<1>13. CASE Exit
  <2>1. BatchPhase' = BatchPhase
    BY <1>13 DEF Exit, ProcessEnds, BatchPhase, BatchLost
  <2> QED
    BY <1>13, <1>s, <2>1 DEF Exit
<1>18. CASE RememberFails
  <2>1. BatchPhase # "closed" /\ BatchPhase' = "broken"
    BY <1>18 DEF RememberFails, BatchPhase, BatchLost
  <2> QED
    BY <1>18, <2>1
    DEF RememberFails, Batch!Next, Batch!Break, Batch!FaultOrBroken, Batch!Fault
<1>14. CASE Interrupt
  <2>1. BatchPhase' = BatchPhase
    BY <1>14 DEF Interrupt, BatchPhase, BatchLost
  <2> QED
    BY <1>14, <1>s, <2>1 DEF Interrupt
<1>15. CASE Crash
  <2>1. BatchPhase' = "closed"
    BY <1>15 DEF Crash, ProcessEnds, BatchPhase
  <2> QED
    BY <1>15, <2>1
    DEF Crash, Rollback, Batch!Next, Batch!Discard, Batch!FaultOrBroken, Batch!Fault
<1>16. CASE Environment
  <2>1. UNCHANGED <<durable, working, active, autocommit, pc, failed, faults>>
    BY <1>16 DEF Environment, EnvWrite, EnvChmod, EnvRealloc, EnvRot, EnvBackdate, EnvAccess, Edit
  <2> QED
    BY <1>s, <2>1 DEF BatchPhase, BatchLost
<1>17. CASE UNCHANGED vars
  <2>1. UNCHANGED <<durable, working, active, autocommit, pc, failed, faults>>
    BY <1>17 DEF vars
  <2> QED
    BY <1>s, <2>1 DEF BatchPhase, BatchLost
<1> QED
  BY <1>1, <1>2, <1>3, <1>4, <1>5, <1>6, <1>7, <1>10, <1>11, <1>12, <1>13,
     <1>14, <1>15, <1>16, <1>17, <1>18 DEF Next, Program

\* The traversal implements the abstract store: file_list(), sha512sum() and the
\* batch transaction publish rows in whole batches; everything that was saved is
\* durable when the traversal ends without a technical failure, by Ctrl+C too;
\* an open batch is thrown away only by a failure or a crash, and nothing of it
\* becomes durable afterwards.
THEOREM BatchRefinement == Spec => ImplementsAtomicBatch
<1>1. Init => Batch!Init
  BY TypeInit DEF Init, TypeOK, Batch!Init, BatchPhase
<1>2. Spec => []BatchInv
  BY TypeInit, TypeNext, StoreInit, StoreNext, PTL DEF Spec, BatchInv
<1> QED
  BY <1>1, <1>2, BatchStep, PTL DEF Spec, ImplementsAtomicBatch, Batch!Spec

-----------------------------------------------------------------------------
\* Every step keeps path_known and the row of the file in hand in agreement.
LEMMA KnownNext == TypeOK /\ KnownIsStored /\ [Next]_vars => KnownIsStored'
<1> SUFFICES ASSUME TypeOK, KnownIsStored, [Next]_vars, job' # NoJob
             PROVE  job'.known <=> Known(working'[job'.file])
  BY DEF KnownIsStored
<1> USE DEF envVars, storeVars, flowVars
<1>w. pc \in {"idle", "walk", "close"} => job = NoJob
  BY DEF TypeOK
<1>j. job # NoJob => job \in Job /\ job.file \in Files
  BY DEF TypeOK, Job
<1>s. ASSUME UNCHANGED <<job, working>> PROVE job'.known <=> Known(working'[job'.file])
  BY <1>s DEF KnownIsStored
<1>1. CASE StartRun
  BY <1>1, <1>s DEF StartRun
<1>2. CASE BatchDeadline \/ ReadRowFails
  BY <1>2, <1>w DEF BatchDeadline, ReadRowFails, Walking
<1>3. ASSUME NEW f \in Files, Visit(f) PROVE job'.known <=> Known(working'[job'.file])
  <2>1. job = NoJob /\ working' = working
    BY <1>3, <1>w DEF Visit, Walking
  <2>2. job' = NewJob(f)
    BY <1>3, <2>1 DEF Visit, LeaveFile, ReportFile, ProcessFile
  <2>3. job'.file = f /\ job'.known = Known(working[f])
    BY <2>2 DEF NewJob
  <2> QED
    BY <2>1, <2>3
<1>4. CASE OpenFile \/ HashBlock \/ HashEof \/ HashReadError
  <2>1. pc \in {"open", "hash"} /\ working' = working
    BY <1>4 DEF OpenFile, HashBlock, HashEof, HashReadError
  <2>2. job \in Job /\ job # NoJob
    BY <2>1, <1>j DEF TypeOK
  <2>3. job'.file = job.file /\ job'.known = job.known
    <3>1. CASE OpenFile
      BY <3>1, <2>2 DEF OpenFile, Job
    <3>2. CASE HashBlock
      BY <3>2, <2>2 DEF HashBlock, Job
    <3>3. CASE HashEof \/ HashReadError
      BY <3>3, <2>2 DEF HashEof, HashReadError, Finalised, Job
    <3> QED
      BY <1>4, <3>1, <3>2, <3>3
  <2> QED
    BY <2>1, <2>2, <2>3 DEF KnownIsStored
<1>5. CASE StopHashing
  BY <1>5, <1>s DEF StopHashing
<1>6. CASE Checkpoint
  <2>1. job \in Job /\ job.file \in Files /\ job # NoJob
    BY <1>6, <1>j DEF Checkpoint, Written, TypeOK
  <2>2. RecordOf(job) # NoRow
    BY <2>1, RecordOfType
  <2>3. CASE CheckpointAllowed(job)
    <3>1. job' = [job EXCEPT !.known = TRUE]
          /\ working' = [working EXCEPT ![job.file] = RecordOf(job)]
      BY <1>6, <2>3 DEF Checkpoint, Written
    <3>2. job'.file = job.file /\ job'.known = TRUE
      BY <3>1, <2>1 DEF Job
    <3>3. working'[job.file] = RecordOf(job)
      BY <3>1, <2>1 DEF TypeOK
    <3> QED
      BY <2>2, <3>2, <3>3 DEF Known
  <2>4. CASE ~CheckpointAllowed(job)
    BY <1>6, <2>4, <1>s DEF Checkpoint, Written
  <2> QED
    BY <2>3, <2>4
<1>7. CASE Conclude \/ Exit \/ Crash
  BY <1>7 DEF Conclude, Exit, Crash, ProcessEnds
<1>8. CASE FinishScan \/ RememberFails
  BY <1>8, <1>w DEF FinishScan, RememberFails
<1>9. CASE Interrupt
  BY <1>9, <1>s DEF Interrupt
<1>10. CASE Environment
  BY <1>10, <1>s DEF Environment, EnvWrite, EnvChmod, EnvRealloc, EnvRot, EnvBackdate,
     EnvAccess, Edit
<1>11. CASE UNCHANGED vars
  BY <1>11, <1>s DEF vars
<1> QED
  BY <1>1, <1>2, <1>3, <1>4, <1>5, <1>6, <1>7, <1>8, <1>9, <1>10, <1>11 DEF Next, Program

\* path_known tells the truth in every reachable state: db_save_file_record()
\* inserts a path exactly when it has no row, also after a checkpoint inserted it
\* in the middle of hashing and after a batch was committed or rolled back.
THEOREM KnownIsTrue == Spec => []KnownIsStored
<1>1. Init => KnownIsStored
  BY DEF Init, KnownIsStored
<1> QED
  BY <1>1, TypeCorrect, KnownNext, PTL DEF Spec

-----------------------------------------------------------------------------
\* A dry run has no batch.
DryInv == opts.dry_run => ~active

\* No step of a dry run begins a batch, and without one nothing is published.
LEMMA DryNext ==
    BatchInv /\ DryInv /\ [Next]_vars => DryInv' /\ (opts.dry_run => durable' = durable)
<1> SUFFICES ASSUME BatchInv, DryInv, [Next]_vars
             PROVE  DryInv' /\ (opts.dry_run => durable' = durable)
  OBVIOUS
<1> USE DEF BatchInv, StoreInv, DryInv, envVars, storeVars, flowVars
<1>t. active \in BOOLEAN /\ opts.dry_run \in BOOLEAN
  BY DEF TypeOK, Options
<1>1. CASE StartRun
  BY <1>1 DEF StartRun
<1>2. CASE BatchDeadline \/ ReadRowFails
  <2>1. opts' = opts /\ (opts.dry_run => ~active /\ ~BatchDeadline)
    BY <1>2 DEF BatchDeadline, ReadRowFails
  <2> QED
    BY <1>2, <2>1 DEF ReadRowFails, BatchDeadline, SqliteFails, Commit, FindLost
<1>3. ASSUME NEW f \in Files, Visit(f) PROVE UNCHANGED <<opts, active, durable>>
  BY <1>3 DEF Visit
<1>4. CASE OpenFile \/ StopHashing \/ HashBlock \/ HashEof \/ HashReadError \/ Interrupt
  BY <1>4 DEF OpenFile, StopHashing, HashBlock, HashEof, HashReadError, Interrupt
<1>5. CASE Checkpoint
  <2>1. opts' = opts /\ (opts.dry_run => ~CheckpointAllowed(job))
    BY <1>5 DEF Checkpoint, Written, CheckpointAllowed
  <2>2. \/ SqliteFails(CheckpointAllowed(job)) \/ FindLost
        \/ Commit(active \/ CheckpointAllowed(job), working')
    BY <1>5 DEF Checkpoint, Written
  <2> QED
    BY <1>t, <2>1, <2>2 DEF SqliteFails, Commit, FindLost
<1>6. CASE Conclude
  <2>1. opts' = opts
    BY <1>6 DEF Conclude
  <2>2. opts.dry_run => UNCHANGED <<active, durable>>
    BY <1>6 DEF Conclude, DropFile, ReportMismatch, SaveFile, Save, Written
  <2> QED
    BY <1>t, <2>1, <2>2
<1>7. CASE FinishScan \/ RememberFails
  BY <1>7 DEF FinishScan, Commit, Rollback, RememberFails
<1>8. CASE Exit \/ Crash
  <2>1. opts'.dry_run = FALSE /\ durable' = durable
    BY <1>8 DEF Exit, Crash, ProcessEnds, DefaultOptions
  <2> QED
    BY <2>1
<1>9. CASE Environment
  BY <1>9 DEF Environment, EnvWrite, EnvChmod, EnvRealloc, EnvRot, EnvBackdate, EnvAccess, Edit
<1>10. CASE UNCHANGED vars
  BY <1>10 DEF vars
<1> QED
  BY <1>1, <1>2, <1>3, <1>4, <1>5, <1>6, <1>7, <1>8, <1>9, <1>10 DEF Next, Program

\* No dry run, with or without checksums, changes the database: not by a save,
\* not by a checkpoint of a large file, not by the commit at the end, whether it
\* is interrupted, fails or is killed.
THEOREM DryRunIsDry == Spec => DryRunChangesNothing
<1>1. Init => DryInv
  BY DEF Init, DryInv
<1>2. Spec => [](BatchInv /\ DryInv)
  BY <1>1, TypeInit, TypeNext, StoreInit, StoreNext, DryNext, PTL DEF Spec, BatchInv
<1>3. BatchInv /\ DryInv /\ [Next]_vars => [opts.dry_run => UNCHANGED durable]_vars
  BY DryNext
<1> QED
  BY <1>2, <1>3, PTL DEF Spec, DryRunChangesNothing

-----------------------------------------------------------------------------
(***************************************************************************)
(* The rows of the database are true: for any set of files, contents,      *)
(* command lines and bounds, a row whose metadata is that of the file now  *)
(* holds the hash state of the content now.                                *)
(***************************************************************************)
\* The time stamp that every change of the content moves.
Key(s) == IF "backdate" \in EditKinds THEN s.ctime ELSE s.mtime

\* Content changes under an old mtime only where --watch-timestamps looks at
\* ctime: without it precizer cannot tell such a change from a chmod.
BackdatesAreWatched == "backdate" \in EditKinds => \A o \in RunOptions : o.watch

Trusted(f) == f \notin rotted \cup Unseekable

\* A stat taken of f since its content changed last.
Fresh(stat, f) == Key(stat) = Key(disk[f])

\* A row is not from the future and, while it is fresh, describes the content.
RowTrue(row, f) ==
    Known(row) =>
        /\ Key(row.stat) <= clock
        /\ Trusted(f) /\ Fresh(row.stat, f) => Describes(row, disk[f].data)

RowsTrue == \A f \in Files : RowTrue(durable[f], f) /\ RowTrue(working[f], f)

\* The stat of the directory entries is not from the future either, and while it
\* is fresh it has the size of the file.
Snapshot ==
    /\ \A f \in Files : Key(disk[f]) <= clock /\ Key(snap[f]) <= clock
    /\ pc # "idle" =>
          /\ opts \in RunOptions
          /\ \A f \in Files : Fresh(snap[f], f) => snap[f].size = Len(disk[f].data)

\* The file in hand: unless it changed since the stat, the hash context is that
\* of its first offset blocks.
Hashing ==
    pc \in {"open", "hash", "checkpoint"} =>
        /\ job.rehash /\ ~job.wrong_file_type /\ snap[job.file].size # 0
        /\ Trusted(job.file) /\ Fresh(snap[job.file], job.file) =>
              /\ job.offset = Len(job.mdContext)
              /\ PrefixOf(job.mdContext, disk[job.file].data)

\* What would be saved now is true.
Concluding ==
    /\ pc = "conclude" /\ ~job.read_error /\ ~NothingToKeep(job) /\ ~opts.dry_run
    /\ Trusted(job.file) /\ Fresh(snap[job.file], job.file)
    => Describes(RecordOf(job), disk[job.file].data)

\* The inductive invariant, next to TypeOK.
TruthInv == RowsTrue /\ Snapshot /\ Hashing /\ Concluding

-----------------------------------------------------------------------------
\* Identical metadata is metadata of the same moment; when only ctime and the
\* block count may differ, mtime still tells.
LEMMA SameKey ==
    ASSUME NEW s, NEW t
    PROVE  /\ Changes(s, t) = {} => Key(s) = Key(t)
           /\ Changes(s, t) \cap {"SIZE", "MTIME"} = {} => s.mtime = t.mtime
<1>1. "MTIME" \in Changes(s, t) <=> s.mtime # t.mtime
  BY DEF Changes
<1>2. "CTIME" \in Changes(s, t) <=> s.ctime # t.ctime
  BY DEF Changes
<1> QED
  BY <1>1, <1>2 DEF Key

\* Time stamps are numbers.
LEMMA KeyNat ==
    ASSUME TypeOK, NEW f \in Files
    PROVE  /\ Key(disk[f]) \in Nat /\ Key(snap[f]) \in Nat
           /\ Known(durable[f]) => Key(durable[f].stat) \in Nat
           /\ Known(working[f]) => Key(working[f].stat) \in Nat
<1>1. disk[f] \in DiskFile /\ snap[f] \in CmpctStat
  BY DEF TypeOK
<1>2. Known(durable[f]) => durable[f].stat \in CmpctStat
  BY DEF TypeOK, Known, Row
<1>3. Known(working[f]) => working[f].stat \in CmpctStat
  BY DEF TypeOK, Known, Row
<1> QED
  BY <1>1, <1>2, <1>3 DEF Key, DiskFile, CmpctStat

\* The invariant says what the runs check.
LEMMA TruthImplies == TypeOK /\ TruthInv => RowsAreTrue
<1> SUFFICES ASSUME TypeOK, TruthInv, NEW f \in Files \ (rotted \cup Unseekable),
                    Identical(durable[f], StatOf(f))
             PROVE  Describes(durable[f], disk[f].data)
  BY DEF RowsAreTrue
<1>1. Known(durable[f]) /\ Key(durable[f].stat) = Key(StatOf(f))
  BY SameKey DEF Identical
<1>2. Key(StatOf(f)) = Key(disk[f])
  BY DEF Key, StatOf
<1> QED
  BY <1>1, <1>2 DEF TruthInv, RowsTrue, RowTrue, Trusted, Fresh

\* The rows that an older release left behind are true.
LEMMA TruthInit == Init => TruthInv
<1> SUFFICES ASSUME Init PROVE TruthInv
  OBVIOUS
<1>1. \A f \in Files : Key(disk[f]) = 0 /\ Key(snap[f]) = 0 /\ clock = 0
  <2> SUFFICES ASSUME NEW f \in Files PROVE Key(disk[f]) = 0 /\ Key(snap[f]) = 0
    BY DEF Init
  <2>1. PICK d \in Contents : disk[f] = [data |-> d, blocks |-> Len(d), mtime |-> 0, ctime |-> 0]
    BY DEF Init
  <2>2. disk[f].mtime = 0 /\ disk[f].ctime = 0
    BY <2>1
  <2>3. snap[f] = BlankStat
    BY DEF Init
  <2> QED
    BY <2>2, <2>3 DEF Key, BlankStat
<1>2. \A f \in Files : Known(durable[f]) => durable[f] = MigratedRow(f)
  BY DEF Init, Known
<1>3. \A f \in Files : RowTrue(durable[f], f)
  <2> SUFFICES ASSUME NEW f \in Files, durable[f] = MigratedRow(f)
               PROVE  RowTrue(durable[f], f)
    BY <1>2 DEF RowTrue
  <2>1. Key(durable[f].stat) = 0
    <3>1. durable[f].stat.mtime = disk[f].mtime /\ durable[f].stat.ctime = disk[f].ctime
      BY DEF MigratedRow, StatOf
    <3> QED
      BY <1>1, <3>1 DEF Key
  <2>2. Describes(durable[f], disk[f].data)
    BY DEF MigratedRow, Describes
  <2> QED
    BY <1>1, <2>1, <2>2 DEF RowTrue
<1>4. RowsTrue
  BY <1>3 DEF RowsTrue, Init
<1> QED
  BY <1>1, <1>4 DEF Init, TruthInv, Snapshot, Hashing, Concluding

-----------------------------------------------------------------------------
\* While the file system rests, rows that come from true rows are true.
LEMMA RowsStep ==
    ASSUME RowsTrue, UNCHANGED <<disk, rotted, clock>>,
           \A f \in Files : RowTrue(working'[f], f),
           durable' \in {durable, working, working'}
    PROVE  RowsTrue'
<1>1. \A f \in Files : RowTrue(durable'[f], f)
  BY DEF RowsTrue
<1>2. ASSUME NEW f \in Files
      PROVE  /\ RowTrue(durable[f], f)' <=> RowTrue(durable'[f], f)
             /\ RowTrue(working[f], f)' <=> RowTrue(working'[f], f)
  BY DEF RowTrue, Trusted, Fresh, Describes
<1> QED
  BY <1>1, <1>2 DEF RowsTrue

\* While the file system rests, the view that the traversal has of it stays true.
LEMMA SnapshotStays ==
    ASSUME Snapshot, UNCHANGED <<disk, clock, snap>>,
           pc' # "idle" => pc # "idle" /\ opts' = opts
    PROVE  Snapshot'
BY DEF Snapshot, Fresh

\* A record that describes the file in hand is true.
LEMMA RecordTrue ==
    ASSUME TypeOK, Snapshot, job \in Job,
           Trusted(job.file) /\ Fresh(snap[job.file], job.file) =>
               Describes(RecordOf(job), disk[job.file].data)
    PROVE  RowTrue(RecordOf(job), job.file)
<1>1. job.file \in Files
  BY DEF Job
<1>2. RecordOf(job).stat = snap[job.file]
  BY DEF RecordOf
<1> QED
  BY <1>1, <1>2 DEF RowTrue, Snapshot

\* Writing a true record keeps the rows of the connection true.
LEMMA SaveTrue ==
    ASSUME TypeOK, RowsTrue, NEW g \in Files, NEW row, RowTrue(row, g),
           working' = [working EXCEPT ![g] = row]
    PROVE  \A f \in Files : RowTrue(working'[f], f)
<1> SUFFICES ASSUME NEW f \in Files PROVE RowTrue(working'[f], f)
  OBVIOUS
<1>1. CASE f = g
  BY <1>1 DEF TypeOK
<1>2. CASE f # g
  <2>1. working'[f] = working[f]
    BY <1>2 DEF TypeOK
  <2> QED
    BY <2>1 DEF RowsTrue
<1> QED
  BY <1>1, <1>2

\* A failed SQLite call leaves the rows true.
LEMMA FailureTrue ==
    ASSUME RowsTrue, NEW saving \in BOOLEAN, SqliteFails(saving) \/ FindLost
    PROVE  /\ \A f \in Files : RowTrue(working'[f], f)
           /\ durable' = durable
BY DEF SqliteFails, FindLost, RowsTrue, storeVars

-----------------------------------------------------------------------------
\* The decision about a file: whatever it starts with (nothing, a resumed
\* context or the digest of a row whose content cannot have changed) is true.
LEMMA VisitTruth ==
    ASSUME BackdatesAreWatched, TypeOK, TruthInv, NEW f \in Files, Visit(f)
    PROVE  TruthInv'
<1> USE DEF envVars, storeVars
<1>1. pc = "walk" /\ pc' # "idle" /\ UNCHANGED <<disk, rotted, clock, durable, working, snap, opts>>
  BY DEF Visit, Walking, LeaveFile, ReportFile, ProcessFile
<1>2. RowsTrue'
  BY <1>1, RowsStep DEF TruthInv, RowsTrue
<1>3. Snapshot'
  BY <1>1, SnapshotStays DEF TruthInv
<1>4. CASE pc' = "walk"
  BY <1>2, <1>3, <1>4 DEF TruthInv, Hashing, Concluding
<1>5. CASE pc' # "walk"
  <2>1. job' = NewJob(f) /\ pc' = IF Rehash(f) THEN "open" ELSE "conclude"
    BY <1>1, <1>5 DEF Visit, LeaveFile, ReportFile, ProcessFile
  <2>2. /\ job'.file = f /\ job'.rehash = Rehash(f)
        /\ ~job'.wrong_file_type /\ ~job'.read_error
        /\ job'.offset = IF CanResume(f) THEN working[f].offset ELSE 0
        /\ job'.mdContext = IF CanResume(f) THEN working[f].mdContext ELSE << >>
        /\ job'.sha512 = IF Rehash(f) THEN ZeroDigest ELSE LoadedDigest(working[f])
    BY <2>1 DEF NewJob
  <2>3. working[f] \in Row \cup {NoRow} /\ disk[f].data \in Seq(Block) /\ snap[f].size \in Nat
    BY DEF TypeOK, DiskFile, CmpctStat
  <2>4. Known(working[f]) => /\ working[f].offset \in Nat
                             /\ working[f].mdContext \in Seq(Block)
                             /\ working[f].sha512 \in Digest
    BY <2>3 DEF Known, Row
  <2>5. Trusted(f) /\ Fresh(snap[f], f) /\ CanResume(f) =>
            /\ working[f].offset = Len(working[f].mdContext)
            /\ PrefixOf(working[f].mdContext, disk[f].data)
            /\ working[f].offset > 0
    <3> SUFFICES ASSUME Trusted(f), Fresh(snap[f], f), CanResume(f)
                 PROVE  /\ working[f].offset = Len(working[f].mdContext)
                        /\ PrefixOf(working[f].mdContext, disk[f].data)
                        /\ working[f].offset > 0
      OBVIOUS
    <3>1. Known(working[f]) /\ working[f].offset > 0
      BY DEF CanResume, HasSavedOffset
    <3>2. Key(working[f].stat) = Key(snap[f])
      BY SameKey DEF CanResume, Identical
    <3>3. Describes(working[f], disk[f].data)
      BY <3>1, <3>2 DEF TruthInv, RowsTrue, RowTrue, Fresh
    <3> QED
      BY <2>4, <3>1, <3>3 DEF Describes
  <2>6. Hashing'
    <3> SUFFICES ASSUME Rehash(f)
                 PROVE  /\ job'.rehash /\ ~job'.wrong_file_type /\ snap[f].size # 0
                        /\ Trusted(f) /\ Fresh(snap[f], f) =>
                              /\ job'.offset = Len(job'.mdContext)
                              /\ PrefixOf(job'.mdContext, disk[f].data)
      BY <1>1, <2>1, <2>2 DEF Hashing, Trusted, Fresh, PrefixOf
    <3>1. snap[f].size # 0
      BY DEF Rehash
    <3>2. PrefixOf(<< >>, disk[f].data)
      BY <2>3 DEF PrefixOf
    <3>3. Len(<< >>) = 0
      OBVIOUS
    <3> QED
      BY <2>2, <2>5, <3>1, <3>2, <3>3
  <2>7. Concluding'
    <3> SUFFICES ASSUME ~Rehash(f), Trusted(f), Fresh(snap[f], f)
                 PROVE  Describes(RecordOf(job)', disk[f].data)
      BY <1>1, <2>1, <2>2 DEF Concluding, Trusted, Fresh, Describes, PrefixOf
    <3>1. snap[f].size = Len(disk[f].data)
      BY <1>1 DEF TruthInv, Snapshot
    <3>2. ~CanResume(f)
      <4>1. CASE snap[f].size = 0
        <5>1. CanResume(f) => Len(working[f].mdContext) <= 0
          BY <2>5, <3>1, <4>1 DEF PrefixOf
        <5> QED
          BY <2>4, <2>5, <5>1 DEF CanResume, HasSavedOffset
      <4>2. CASE snap[f].size # 0
        BY <4>2 DEF Rehash, UnwatchedOnly, CanResume
      <4> QED
        BY <4>1, <4>2
    <3>3. /\ RecordOf(job)'.offset = 0
          /\ RecordOf(job)'.sha512 = IF snap[f].size # 0 THEN LoadedDigest(working[f])
                                     ELSE NoDigest
      BY <1>1, <2>2, <3>2 DEF RecordOf
    <3>4. CASE snap[f].size = 0
      <4>1. disk[f].data = << >>
        BY <2>3, <3>1, <3>4, EmptySeq
      <4> QED
        BY <3>3, <3>4, <4>1 DEF Describes
    <3>5. CASE snap[f].size # 0
      <4>1. UnwatchedOnly(f)
        BY <3>5 DEF Rehash
      <4>2. Known(working[f]) /\ working[f].offset = 0
        BY <2>4, <4>1 DEF UnwatchedOnly, HasSavedOffset
      <4>3. "backdate" \notin EditKinds
        BY <1>1, <4>1 DEF UnwatchedOnly, BackdatesAreWatched, TruthInv, Snapshot
      <4>4. Key(working[f].stat) = Key(snap[f])
        BY <4>1, <4>3, SameKey DEF UnwatchedOnly, Key
      <4>5. Describes(working[f], disk[f].data)
        BY <4>2, <4>4 DEF TruthInv, RowsTrue, RowTrue, Fresh
      <4>6. disk[f].data # << >>
        BY <3>1, <3>5, EmptySeq
      <4>7. working[f].sha512 = disk[f].data
        BY <4>2, <4>5, <4>6 DEF Describes
      <4>8. LoadedDigest(working[f]) = disk[f].data
        BY <2>3, <4>2, <4>7, DigestAssumption DEF LoadedDigest
      <4> QED
        BY <3>3, <3>5, <4>6, <4>8 DEF Describes
    <3> QED
      BY <3>4, <3>5
  <2> QED
    BY <1>2, <1>3, <2>6, <2>7 DEF TruthInv
<1> QED
  BY <1>4, <1>5

-----------------------------------------------------------------------------
\* Hashing the file in hand: offset and context advance together, and the digest
\* of a pass that reached the end is the digest of the content.
LEMMA HashTruth ==
    ASSUME TypeOK, TruthInv, OpenFile \/ StopHashing \/ HashBlock \/ HashEof \/ HashReadError
    PROVE  TruthInv'
<1> USE DEF envVars, storeVars, flowVars
<1> DEFINE f == job.file
           data == disk[f].data
<1>1. /\ pc \in {"open", "hash"} /\ pc' \in {"hash", "checkpoint", "conclude"}
      /\ UNCHANGED <<disk, rotted, clock, durable, working, snap, opts, interrupted>>
  BY DEF OpenFile, StopHashing, HashBlock, HashEof, HashReadError
<1>2. RowsTrue'
  BY <1>1, RowsStep DEF TruthInv, RowsTrue
<1>3. Snapshot'
  BY <1>1, SnapshotStays DEF TruthInv
<1>4. job \in Job /\ f \in Files /\ job.offset \in Nat /\ job.mdContext \in Seq(Block)
  BY <1>1 DEF TypeOK, Job
<1>5. data \in Seq(Block) /\ Len(data) \in Nat
  BY <1>4 DEF TypeOK, DiskFile
<1>6. job.rehash /\ ~job.wrong_file_type /\ snap[f].size # 0
  BY <1>1 DEF TruthInv, Hashing
<1>7. Trusted(f) /\ Fresh(snap[f], f) =>
          /\ job.offset = Len(job.mdContext) /\ PrefixOf(job.mdContext, data)
          /\ snap[f].size = Len(data) /\ data # << >>
  BY <1>1, <1>4, <1>5, <1>6, EmptySeq DEF TruthInv, Hashing, Snapshot
<1> HIDE DEF data
<1>8. CASE OpenFile
  <2>1. PICK bad \in BOOLEAN, odd \in BOOLEAN :
          /\ job' = [job EXCEPT !.read_error = bad, !.wrong_file_type = odd]
          /\ odd => f \in Unseekable
          /\ pc' = IF bad \/ odd \/ ~PerformHashing THEN "conclude" ELSE "hash"
    <3> DEFINE bad == access[f] # "ALLOWED"
               odd == ~bad /\ f \in Unseekable
    <3>1. bad \in BOOLEAN /\ odd \in BOOLEAN /\ (odd => f \in Unseekable)
      OBVIOUS
    <3>2. /\ job' = [job EXCEPT !.read_error = bad, !.wrong_file_type = odd]
          /\ pc' = IF bad \/ odd \/ ~PerformHashing THEN "conclude" ELSE "hash"
      BY <1>8 DEF OpenFile
    <3> HIDE DEF bad, odd
    <3> QED
      BY <3>1, <3>2
  <2>2. /\ job'.file = f /\ job'.rehash = job.rehash /\ job'.offset = job.offset
        /\ job'.mdContext = job.mdContext
        /\ job'.read_error = bad /\ job'.wrong_file_type = odd
    BY <1>4, <2>1 DEF Job
  <2>3. Hashing'
    <3>1. CASE pc' = "hash"
      BY <1>1, <1>6, <1>7, <2>1, <2>2, <3>1 DEF Hashing, Trusted, Fresh, PrefixOf, data
    <3>2. CASE pc' = "conclude"
      BY <3>2 DEF Hashing
    <3> QED
      BY <2>1, <3>1, <3>2
  <2>4. Concluding'
    <3>1. pc' = "conclude" /\ ~bad /\ f \notin Unseekable => opts.dry_run
      BY <2>1 DEF PerformHashing
    <3> QED
      BY <1>1, <2>2, <3>1 DEF Concluding, Trusted
  <2> QED
    BY <1>2, <1>3, <2>3, <2>4 DEF TruthInv
<1>9. CASE StopHashing
  <2>1. pc' = "conclude" /\ job' = job /\ interrupted
    BY <1>9 DEF StopHashing
  <2>2. Concluding'
    <3> SUFFICES ASSUME job.offset # 0, Trusted(f), Fresh(snap[f], f)
                 PROVE  Describes(RecordOf(job)', data)
      BY <1>1, <1>6, <2>1 DEF Concluding, NothingToKeep, Trusted, Fresh, Describes, PrefixOf, data
    <3>1. RecordOf(job)'.offset = job.offset /\ RecordOf(job)'.mdContext = job.mdContext
      BY <1>1, <2>1 DEF RecordOf
    <3> QED
      BY <1>7, <3>1 DEF Describes
  <2> QED
    BY <1>2, <1>3, <2>1, <2>2 DEF TruthInv, Hashing
<1>10. CASE HashBlock
  <2> DEFINE md == Append(job.mdContext, data[job.offset + 1])
  <2>1. job.offset < Len(data) /\ pc' \in {"hash", "checkpoint"}
        /\ job' = [job EXCEPT !.offset = job.offset + 1, !.mdContext = md]
    BY <1>10 DEF HashBlock, data
  <2>2. data[job.offset + 1] \in Block
    BY <1>4, <1>5, <2>1
  <2>3. /\ md \in Seq(Block) /\ Len(md) = Len(job.mdContext) + 1
        /\ \A i \in 1..Len(job.mdContext) : md[i] = job.mdContext[i]
        /\ md[Len(job.mdContext) + 1] = data[job.offset + 1]
    BY <1>4, <2>2, AppendProperties
  <2> HIDE DEF md
  <2>4. /\ job'.file = f /\ job'.rehash = job.rehash /\ job'.offset = job.offset + 1
        /\ job'.mdContext = md /\ job'.wrong_file_type = job.wrong_file_type
    BY <1>4, <2>1 DEF Job
  <2>5. ASSUME Trusted(f), Fresh(snap[f], f)
        PROVE  job.offset + 1 = Len(md) /\ PrefixOf(md, data)
    <3>1. job.offset = Len(job.mdContext) /\ PrefixOf(job.mdContext, data)
      BY <1>7, <2>5
    <3>2. Len(md) = job.offset + 1 /\ Len(md) <= Len(data)
      BY <1>4, <1>5, <2>1, <2>3, <3>1
    <3>3. ASSUME NEW i \in 1..Len(md) PROVE md[i] = data[i]
      <4>1. CASE i = job.offset + 1
        BY <2>3, <3>1, <4>1
      <4>2. CASE i # job.offset + 1
        <5>1. i \in 1..Len(job.mdContext)
          BY <1>4, <3>1, <3>2, <4>2
        <5> QED
          BY <2>3, <3>1, <5>1 DEF PrefixOf
      <4> QED
        BY <4>1, <4>2
    <3> QED
      BY <3>2, <3>3 DEF PrefixOf
  <2>6. Hashing'
    BY <1>1, <1>6, <2>4, <2>5 DEF Hashing, Trusted, Fresh, PrefixOf, data
  <2> QED
    BY <1>2, <1>3, <2>1, <2>6 DEF TruthInv, Concluding
<1>11. CASE HashEof
  <2>1. job.offset >= Len(data) /\ pc' = "conclude" /\ job' = Finalised(job)
    BY <1>11 DEF HashEof, data
  <2>2. /\ job'.file = f /\ job'.offset = 0 /\ job'.sha512 = job.mdContext
        /\ job'.wrong_file_type = job.wrong_file_type
    BY <1>4, <2>1 DEF Finalised, Job
  <2>3. Concluding'
    <3> SUFFICES ASSUME Trusted(f), Fresh(snap[f], f)
                 PROVE  Describes(RecordOf(job)', data)
      BY <1>1, <2>2 DEF Concluding, Trusted, Fresh, Describes, PrefixOf, data
    <3>1. Len(job.mdContext) = Len(data)
      BY <1>4, <1>5, <1>7, <2>1 DEF PrefixOf
    <3>2. job.mdContext = data
      BY <1>4, <1>5, <1>7, <3>1, SeqEqual DEF PrefixOf
    <3>3. RecordOf(job)'.offset = 0 /\ RecordOf(job)'.sha512 = data
      BY <1>1, <1>6, <2>2, <3>2 DEF RecordOf
    <3> QED
      BY <1>7, <3>3 DEF Describes
  <2> QED
    BY <1>2, <1>3, <2>1, <2>3 DEF TruthInv, Hashing
<1>12. CASE HashReadError
  <2>1. pc' = "conclude" /\ job' = [Finalised(job) EXCEPT !.read_error = TRUE]
    BY <1>12 DEF HashReadError
  <2>2. job'.read_error
    BY <1>4, <2>1 DEF Finalised, Job
  <2> QED
    BY <1>2, <1>3, <2>1, <2>2 DEF TruthInv, Hashing, Concluding
<1> QED
  BY <1>8, <1>9, <1>10, <1>11, <1>12

-----------------------------------------------------------------------------
\* Saving the file in hand: a checkpoint writes a true partial row, the end of
\* the file a true complete one, and a failure writes nothing that is not true.
LEMMA SaveTruth ==
    ASSUME TypeOK, TruthInv, Checkpoint \/ Conclude
    PROVE  TruthInv'
<1> USE DEF envVars, storeVars, flowVars
<1>1. /\ pc \in {"checkpoint", "conclude"} /\ pc' \in {"hash", "walk"}
      /\ UNCHANGED <<disk, rotted, clock, snap, opts, interrupted>>
  BY DEF Checkpoint, Written, Conclude
<1>2. Snapshot'
  BY <1>1, SnapshotStays DEF TruthInv
<1>3. job \in Job /\ job.file \in Files /\ job.offset \in Nat
  BY <1>1 DEF TypeOK, Job
<1>w. \A g \in Files : RowTrue(working[g], g)
  BY DEF TruthInv, RowsTrue
<1>4. CASE Checkpoint
  <2>1. CASE CheckpointAllowed(job) /\ pc' = "hash"
    <3>1. /\ working' = [working EXCEPT ![job.file] = RecordOf(job)] /\ durable' = working'
          /\ job' = [job EXCEPT !.known = TRUE]
      BY <1>4, <2>1 DEF Checkpoint, Written, Commit
    <3>2. RecordOf(job).offset = job.offset /\ job.offset # 0
          /\ RecordOf(job).mdContext = job.mdContext
      BY <1>3, <2>1 DEF CheckpointAllowed, RecordOf
    <3>3. RowTrue(RecordOf(job), job.file)
      BY <1>3, <1>4, <3>2, RecordTrue DEF Checkpoint, Written, TruthInv, Hashing, Describes
    <3>4. RowsTrue'
      BY <1>1, <1>3, <3>1, <3>3, SaveTrue, RowsStep DEF TruthInv
    <3>5. /\ job'.file = job.file /\ job'.rehash = job.rehash /\ job'.offset = job.offset
          /\ job'.mdContext = job.mdContext /\ job'.wrong_file_type = job.wrong_file_type
      BY <1>3, <3>1 DEF Job
    <3>6. Hashing'
      BY <1>1, <1>4, <3>5 DEF Checkpoint, Written, TruthInv, Hashing, Trusted, Fresh, PrefixOf
    <3> QED
      BY <1>2, <2>1, <3>4, <3>6 DEF TruthInv, Concluding
  <2>2. CASE ~CheckpointAllowed(job) /\ pc' = "hash"
    <3>1. UNCHANGED <<working, job>> /\ durable' \in {durable, working}
      BY <1>4, <2>2 DEF Checkpoint, Written, Commit
    <3>2. RowsTrue'
      BY <1>1, <1>w, <3>1, RowsStep DEF TruthInv
    <3>3. Hashing'
      BY <1>1, <1>4, <3>1 DEF Checkpoint, Written, TruthInv, Hashing, Trusted, Fresh, PrefixOf
    <3> QED
      BY <1>2, <2>2, <3>2, <3>3 DEF TruthInv, Concluding
  <2>3. CASE pc' = "walk"
    <3>1. /\ SqliteFails(CheckpointAllowed(job)) \/ FindLost
          /\ CheckpointAllowed(job) \in BOOLEAN
      BY <1>4, <2>3 DEF Checkpoint, Written, CheckpointAllowed
    <3>2. RowsTrue'
      BY <1>1, <3>1, FailureTrue, RowsStep DEF TruthInv
    <3> QED
      BY <1>2, <2>3, <3>2 DEF TruthInv, Hashing, Concluding
  <2> QED
    BY <1>1, <2>1, <2>2, <2>3
<1>5. CASE Conclude
  <2>1. pc = "conclude" /\ pc' = "walk"
    BY <1>5 DEF Conclude
  <2>2. RowsTrue'
    <3>1. CASE SqliteFails(TRUE) \/ FindLost
      BY <1>1, <3>1, FailureTrue, RowsStep DEF TruthInv
    <3>2. CASE UNCHANGED <<working, durable>>
      BY <1>1, <1>w, <3>2, RowsStep DEF TruthInv
    <3>3. CASE /\ Save(job) /\ ~opts.dry_run /\ ~NothingToKeep(job) /\ ~job.read_error
               /\ durable' = durable
      <4>1. working' = [working EXCEPT ![job.file] = RecordOf(job)]
        BY <3>3 DEF Save, Written
      <4>2. RowTrue(RecordOf(job), job.file)
        BY <1>3, <2>1, <3>3, RecordTrue DEF TruthInv, Concluding
      <4> QED
        BY <1>1, <1>3, <3>3, <4>1, <4>2, SaveTrue, RowsStep DEF TruthInv
    <3> QED
      BY <1>5, <3>1, <3>2, <3>3 DEF Conclude, DropFile, ReportMismatch, SaveFile, Save, Written
  <2> QED
    BY <1>2, <2>1, <2>2 DEF TruthInv, Hashing, Concluding
<1> QED
  BY <1>4, <1>5

\* The rest of the program: starting, committing, failing, ending, Ctrl+C.
LEMMA FlowTruth ==
    ASSUME TypeOK, TruthInv,
           \/ StartRun \/ BatchDeadline \/ ReadRowFails \/ RememberFails
           \/ FinishScan \/ Exit \/ Interrupt \/ Crash
    PROVE  TruthInv'
<1> USE DEF envVars, storeVars, flowVars
<1>w. \A g \in Files : RowTrue(working[g], g) /\ RowTrue(durable[g], g)
  BY DEF TruthInv, RowsTrue
<1>1. UNCHANGED <<disk, rotted, clock>>
  BY DEF StartRun, BatchDeadline, ReadRowFails, RememberFails, FinishScan, Exit, Interrupt, Crash
<1>2. CASE StartRun
  <2>1. /\ pc' = "walk" /\ opts' \in RunOptions /\ snap' = [f \in Files |-> StatOf(f)]
        /\ UNCHANGED <<working, durable>>
    BY <1>2 DEF StartRun
  <2>2. ASSUME NEW f \in Files
        PROVE  Key(snap'[f]) = Key(disk[f]) /\ snap'[f].size = Len(disk[f].data)
    BY <2>1 DEF StatOf, Key
  <2>3. Snapshot'
    BY <1>1, <2>1, <2>2 DEF TruthInv, Snapshot
  <2>4. RowsTrue'
    BY <1>1, <1>w, <2>1, RowsStep DEF TruthInv
  <2> QED
    BY <2>1, <2>3, <2>4 DEF TruthInv, Hashing, Concluding
<1>3. CASE BatchDeadline \/ ReadRowFails \/ RememberFails \/ FinishScan
  <2>1. pc = "walk" /\ pc' \in {"walk", "close"} /\ UNCHANGED <<snap, opts>>
    BY <1>3 DEF BatchDeadline, ReadRowFails, RememberFails, FinishScan, Walking
  <2>2. working' \in {working, durable} /\ durable' \in {durable, working}
    BY <1>3 DEF BatchDeadline, ReadRowFails, RememberFails, FinishScan, SqliteFails, FindLost,
       Commit, Rollback
  <2>3. RowsTrue'
    BY <1>1, <1>w, <2>2, RowsStep DEF TruthInv
  <2>4. Snapshot'
    BY <1>1, <2>1, SnapshotStays DEF TruthInv
  <2> QED
    BY <2>1, <2>3, <2>4 DEF TruthInv, Hashing, Concluding
<1>4. CASE Exit \/ Crash
  <2>1. pc' = "idle" /\ snap' = [f \in Files |-> BlankStat]
    BY <1>4 DEF Exit, Crash, ProcessEnds
  <2>2. working' \in {working, durable} /\ durable' = durable
    BY <1>4 DEF Exit, Crash, Rollback
  <2>3. RowsTrue'
    BY <1>1, <1>w, <2>2, RowsStep DEF TruthInv
  <2>4. \A f \in Files : Key(snap'[f]) = 0
    BY <2>1 DEF Key, BlankStat
  <2>5. clock \in Nat
    BY DEF TypeOK
  <2>6. Snapshot'
    BY <1>1, <2>1, <2>4, <2>5 DEF TruthInv, Snapshot
  <2> QED
    BY <2>1, <2>3, <2>6 DEF TruthInv, Hashing, Concluding
<1>5. CASE Interrupt
  <2>1. UNCHANGED <<pc, job, snap, opts, working, durable>> /\ interrupted'
    BY <1>5 DEF Interrupt
  <2>2. RowsTrue'
    BY <1>1, <1>w, <2>1, RowsStep DEF TruthInv
  <2>3. Snapshot'
    BY <1>1, <2>1, SnapshotStays DEF TruthInv
  <2>4. Hashing'
    BY <1>1, <2>1 DEF TruthInv, Hashing, Trusted, Fresh, PrefixOf
  <2>5. Concluding'
    <3>1. NothingToKeep(job) => NothingToKeep(job)'
      BY <2>1 DEF NothingToKeep
    <3>2. RecordOf(job)' = RecordOf(job)
      BY <2>1 DEF RecordOf
    <3> QED
      BY <1>1, <2>1, <3>1, <3>2 DEF TruthInv, Concluding, Trusted, Fresh, Describes, PrefixOf
  <2> QED
    BY <2>2, <2>3, <2>4, <2>5 DEF TruthInv
<1> QED
  BY <1>2, <1>3, <1>4, <1>5

-----------------------------------------------------------------------------
\* What a change of the file system can do to g: it stamps g with a time that no
\* stat and no row has yet, or it leaves the content alone, or g has rotted.
Touched(g) ==
    \/ Key(disk'[g]) = clock + 1 /\ clock' = clock + 1
    \/ /\ Key(disk'[g]) = Key(disk[g]) /\ clock <= clock'
       /\ Len(disk'[g].data) = Len(disk[g].data)
       /\ g \notin rotted' => g \notin rotted /\ disk'[g].data = disk[g].data

\* Every change of the file system touches every file in this way.
LEMMA EnvTouches == TypeOK /\ Environment => \A g \in Files : Touched(g)
<1> SUFFICES ASSUME TypeOK, NEW f \in Files, NEW g \in Files,
                    \/ EnvWrite(f) \/ EnvChmod(f) \/ EnvRealloc(f) \/ EnvRot(f)
                    \/ EnvBackdate(f) \/ EnvAccess(f)
             PROVE  Touched(g)
  BY DEF Environment
<1>1. disk \in [Files -> DiskFile] /\ disk[f] \in DiskFile /\ clock \in Nat /\ clock <= clock + 1
  BY DEF TypeOK
<1>2. ASSUME g # f, disk'[g] = disk[g], clock' \in {clock, clock + 1},
             g \notin rotted' => g \notin rotted
      PROVE  Touched(g)
  BY <1>1, <1>2 DEF Touched
<1>3. CASE EnvWrite(f)
  <2>1. PICK d \in Contents :
          disk' = [disk EXCEPT ![f] = [data |-> d, blocks |-> Len(d),
                                       mtime |-> clock + 1, ctime |-> clock + 1]]
    BY <1>3 DEF EnvWrite
  <2>2. disk'[f].mtime = clock + 1 /\ disk'[f].ctime = clock + 1
    BY <1>1, <2>1
  <2>3. g # f => disk'[g] = disk[g]
    BY <1>1, <2>1
  <2> QED
    BY <1>2, <1>3, <2>2, <2>3 DEF EnvWrite, Touched, Key
<1>4. CASE EnvChmod(f)
  <2>1. disk' = [disk EXCEPT ![f] = [disk[f] EXCEPT !.ctime = clock + 1]]
    BY <1>1, <1>4 DEF EnvChmod
  <2>2. disk'[f] = [disk[f] EXCEPT !.ctime = clock + 1]
    BY <1>1, <2>1
  <2>3. disk'[f].ctime = clock + 1 /\ disk'[f].mtime = disk[f].mtime
        /\ disk'[f].data = disk[f].data
    BY <1>1, <2>2 DEF DiskFile
  <2>4. g # f => disk'[g] = disk[g]
    BY <1>1, <2>1
  <2> QED
    BY <1>1, <1>2, <1>4, <2>3, <2>4 DEF EnvChmod, Touched, Key
<1>5. CASE EnvRealloc(f)
  <2> DEFINE b == disk[f].blocks + 1
  <2>1. disk' = [disk EXCEPT ![f] = [disk[f] EXCEPT !.blocks = b]]
    BY <1>1, <1>5 DEF EnvRealloc
  <2> HIDE DEF b
  <2>2. disk'[f] = [disk[f] EXCEPT !.blocks = b]
    BY <1>1, <2>1
  <2>3. disk'[f].ctime = disk[f].ctime /\ disk'[f].mtime = disk[f].mtime
        /\ disk'[f].data = disk[f].data
    BY <1>1, <2>2 DEF DiskFile
  <2>4. g # f => disk'[g] = disk[g]
    BY <1>1, <2>1
  <2> QED
    BY <1>1, <1>2, <1>5, <2>3, <2>4 DEF EnvRealloc, Touched, Key
<1>6. CASE EnvRot(f)
  <2>1. PICK d \in Contents : Len(d) = Len(disk[f].data) /\ disk' = [disk EXCEPT ![f].data = d]
    BY <1>6 DEF EnvRot
  <2>2. disk' = [disk EXCEPT ![f] = [disk[f] EXCEPT !.data = d]]
    BY <1>1, <2>1
  <2>3. disk'[f] = [disk[f] EXCEPT !.data = d]
    BY <1>1, <2>2
  <2>4. disk'[f].ctime = disk[f].ctime /\ disk'[f].mtime = disk[f].mtime
        /\ disk'[f].data = d
    BY <1>1, <2>3 DEF DiskFile
  <2>5. g # f => disk'[g] = disk[g]
    BY <1>1, <2>2
  <2> QED
    BY <1>1, <1>2, <1>6, <2>1, <2>4, <2>5 DEF EnvRot, Touched, Key
<1>7. CASE EnvBackdate(f)
  <2>1. PICK d \in Contents : disk' = [disk EXCEPT ![f].data = d, ![f].ctime = clock + 1]
    BY <1>7 DEF EnvBackdate
  <2>2. disk' = [disk EXCEPT ![f] = [disk[f] EXCEPT !.data = d, !.ctime = clock + 1]]
    BY <1>1, <2>1
  <2>3. disk'[f] = [disk[f] EXCEPT !.data = d, !.ctime = clock + 1]
    BY <1>1, <2>2
  <2>4. disk'[f].ctime = clock + 1
    BY <1>1, <2>3 DEF DiskFile
  <2>5. g # f => disk'[g] = disk[g]
    BY <1>1, <2>2
  <2> QED
    BY <1>2, <1>7, <2>4, <2>5 DEF EnvBackdate, Edit, Touched, Key
<1>8. CASE EnvAccess(f)
  BY <1>1, <1>8 DEF EnvAccess, Touched
<1> QED
  BY <1>3, <1>4, <1>5, <1>6, <1>7, <1>8

\* A change of the file system, at whatever moment, makes no row and no hash
\* state in hand both fresh and wrong.
LEMMA EnvTruth == ASSUME TypeOK, TruthInv, Environment PROVE TruthInv'
<1>1. UNCHANGED <<durable, working, pc, job, snap, opts, interrupted>>
  BY DEF Environment, EnvWrite, EnvChmod, EnvRealloc, EnvRot, EnvBackdate, EnvAccess, Edit,
         storeVars, flowVars
<1>2. clock \in Nat /\ clock' \in Nat /\ clock <= clock'
  BY EnvTouches, TypeNext DEF TypeOK, Environment, Touched, Next,
     EnvWrite, EnvChmod, EnvRealloc, EnvRot, EnvBackdate, EnvAccess
<1>3. ASSUME NEW g \in Files, NEW s, Key(s) \in Nat, Key(s) <= clock, Key(s) = Key(disk'[g])
      PROVE  /\ Key(s) = Key(disk[g]) /\ Len(disk'[g].data) = Len(disk[g].data)
             /\ g \notin rotted' \cup Unseekable =>
                   Trusted(g) /\ disk'[g].data = disk[g].data
  BY <1>2, <1>3, EnvTouches DEF Touched, Trusted
<1>4. RowsTrue'
  <2> SUFFICES ASSUME NEW g \in Files PROVE RowTrue(durable[g], g)' /\ RowTrue(working[g], g)'
    BY DEF RowsTrue
  <2>1. ASSUME NEW row, RowTrue(row, g), Known(row) => Key(row.stat) \in Nat
        PROVE  Known(row) =>
                  /\ Key(row.stat) <= clock'
                  /\ g \notin rotted' \cup Unseekable /\ Key(row.stat) = Key(disk'[g]) =>
                        Describes(row, disk'[g].data)
    <3> SUFFICES ASSUME Known(row)
                 PROVE  /\ Key(row.stat) <= clock'
                        /\ g \notin rotted' \cup Unseekable /\ Key(row.stat) = Key(disk'[g]) =>
                              Describes(row, disk'[g].data)
      OBVIOUS
    <3>1. Key(row.stat) \in Nat /\ Key(row.stat) <= clock
      BY <2>1 DEF RowTrue
    <3>2. Key(row.stat) <= clock'
      BY <1>2, <3>1
    <3>3. ASSUME g \notin rotted' \cup Unseekable, Key(row.stat) = Key(disk'[g])
          PROVE  Describes(row, disk'[g].data)
      BY <1>3, <2>1, <3>1, <3>3 DEF RowTrue, Fresh
    <3> QED
      BY <3>2, <3>3
  <2>2. RowTrue(durable[g], g) /\ RowTrue(working[g], g)
    BY DEF TruthInv, RowsTrue
  <2> QED
    BY <1>1, <2>1, <2>2, KeyNat DEF RowTrue, Trusted, Fresh, Describes, PrefixOf
<1>5. Snapshot'
  <2> SUFFICES ASSUME NEW g \in Files
               PROVE  /\ Key(disk'[g]) <= clock' /\ Key(snap[g]) <= clock'
                      /\ pc # "idle" /\ Key(snap[g]) = Key(disk'[g]) =>
                            snap[g].size = Len(disk'[g].data)
    BY <1>1 DEF TruthInv, Snapshot, Fresh
  <2>1. Key(disk[g]) \in Nat /\ Key(snap[g]) \in Nat /\ Key(snap[g]) <= clock
        /\ Key(disk[g]) <= clock
    BY KeyNat DEF TruthInv, Snapshot
  <2>2. Key(disk'[g]) <= clock' /\ Key(snap[g]) <= clock'
    BY <1>2, <2>1, EnvTouches DEF Touched
  <2>3. ASSUME pc # "idle", Key(snap[g]) = Key(disk'[g])
        PROVE  snap[g].size = Len(disk'[g].data)
    BY <1>3, <2>1, <2>3 DEF TruthInv, Snapshot, Fresh
  <2> QED
    BY <2>2, <2>3
<1>6. ASSUME job # NoJob
      PROVE  /\ job.file \in Files
             /\ /\ job.file \notin rotted' \cup Unseekable
                /\ Key(snap[job.file]) = Key(disk'[job.file])
                => /\ Trusted(job.file) /\ Fresh(snap[job.file], job.file)
                   /\ disk'[job.file].data = disk[job.file].data
  <2>1. job.file \in Files
    BY <1>6 DEF TypeOK, Job
  <2>2. Key(snap[job.file]) \in Nat /\ Key(snap[job.file]) <= clock
    BY <2>1, KeyNat DEF TruthInv, Snapshot
  <2> QED
    BY <1>3, <2>1, <2>2 DEF Fresh
<1>7. pc \in {"open", "hash", "checkpoint", "conclude"} => job # NoJob
  BY DEF TypeOK
<1>8. Hashing'
  BY <1>1, <1>6, <1>7 DEF TruthInv, Hashing, Trusted, Fresh, PrefixOf
<1>9. Concluding'
  <2>1. RecordOf(job)' = RecordOf(job) /\ (NothingToKeep(job)' <=> NothingToKeep(job))
    BY <1>1 DEF RecordOf, NothingToKeep
  <2> QED
    BY <1>1, <1>6, <1>7, <2>1 DEF TruthInv, Concluding, Trusted, Fresh, Describes, PrefixOf
<1> QED
  BY <1>4, <1>5, <1>8, <1>9 DEF TruthInv

-----------------------------------------------------------------------------
\* Every step preserves the truth of the rows and of the hash state in hand.
LEMMA TruthNext ==
    ASSUME BackdatesAreWatched, TypeOK, TruthInv, [Next]_vars
    PROVE  TruthInv'
<1>1. CASE UNCHANGED vars
  <2>1. UNCHANGED <<disk, rotted, clock, durable, working, pc, job, snap, opts, interrupted>>
    BY <1>1 DEF vars, envVars, storeVars, flowVars
  <2>2. RowsTrue'
    BY <2>1, RowsStep DEF TruthInv, RowsTrue
  <2>3. Snapshot'
    BY <2>1, SnapshotStays DEF TruthInv
  <2>4. RecordOf(job)' = RecordOf(job) /\ (NothingToKeep(job)' <=> NothingToKeep(job))
    BY <2>1 DEF RecordOf, NothingToKeep
  <2>5. Hashing' /\ Concluding'
    BY <2>1, <2>4 DEF TruthInv, Hashing, Concluding, Trusted, Fresh, Describes, PrefixOf
  <2> QED
    BY <2>2, <2>3, <2>5 DEF TruthInv
<1>2. CASE Next
  BY <1>2, VisitTruth, HashTruth, SaveTruth, FlowTruth, EnvTruth DEF Next, Program
<1> QED
  BY <1>1, <1>2

\* However files are written, touched, truncated and replaced while precizer
\* hashes them, wherever it is interrupted or killed, whichever read, INSERT,
\* UPDATE or COMMIT fails: a row whose metadata is that of the file now holds the
\* digest of the file's content now, or a context from which that digest can be
\* completed.  Content that changes under an old mtime is covered if the runs
\* watch ctime; content that rots under unchanged metadata is not.
THEOREM RowsStayTrue == ASSUME BackdatesAreWatched PROVE Spec => []RowsAreTrue
<1>1. TypeOK /\ TruthInv /\ [Next]_vars => TruthInv'
  BY TruthNext
<1>2. Spec => [](TypeOK /\ TruthInv)
  BY <1>1, TypeInit, TypeNext, TruthInit, PTL DEF Spec
<1> QED
  BY <1>2, TruthImplies, PTL
-----------------------------------------------------------------------------
(***************************************************************************)
(* What a run achieves and what it never undoes: hashing work is kept,     *)
(* sealed digests are kept, an undisturbed run is complete, finds what is  *)
(* wrong with the protected files and raises no false alarm.               *)
(***************************************************************************)

\* The shape of a row: a digest belongs to a hash that is final and to a file that
\* is not empty; an offset belongs to a file that can be read and is not empty.
Shaped(row, f) ==
    Known(row) =>
        /\ row.sha512 # NoDigest => row.offset = 0 /\ row.stat.size # 0
        /\ row.offset > 0 => row.stat.size # 0 /\ f \notin Unseekable

\* Both views of the database hold shaped rows, and differ only on files that this
\* run has dealt with.
Rows ==
    /\ \A f \in Files : Shaped(durable[f], f) /\ Shaped(working[f], f)
    /\ \A f \in pending : working[f] = durable[f]
    /\ pc = "idle" => pending = {}

\* The row that a checkpoint of the file in hand has put in the place of job.db.
Checkpointed ==
    LET row == durable[job.file]
    IN  /\ HasSavedOffset(row) /\ row.stat = snap[job.file]
        /\ ~(Locked(job.file) /\ Complete(job.db))
        /\ job.offset >= row.offset \/ (pc = "conclude" /\ job.offset = 0)

\* Why the file in hand was taken up, from the row it had then.
Taken ==
    LET f == job.file
    IN  /\ f \in Files /\ f \notin pending
        /\ Shaped(job.db, f)
        /\ Complete(job.db) /\ Identical(job.db, snap[f]) => Locked(f) /\ opts.rehash_locked
        /\ Locked(f) /\ Complete(job.db) => job.db.stat.size = snap[f].size
        /\ job.rehash => snap[f].size # 0
        /\ ~job.rehash => pc = "conclude" /\ job.offset = 0
        /\ ~job.rehash /\ Locked(f) /\ Complete(job.db) /\ opts.rehash_locked =>
              snap[f].size = 0

\* How far the hashing of the file in hand has come.
Advanced ==
    LET f == job.file
    IN  /\ working[f] = durable[f]
        /\ durable[f] = job.db \/ Checkpointed
        /\ HasSavedOffset(job.db) /\ Identical(job.db, snap[f]) =>
              job.offset >= job.db.offset \/ (pc = "conclude" /\ job.offset = 0)
        /\ job.offset > 0 => f \notin Unseekable
        /\ job.wrong_file_type => f \in Unseekable /\ pc = "conclude"
        /\ pc \in {"hash", "checkpoint"} => f \notin Unseekable /\ PerformHashing
        /\ pc = "conclude" /\ job.rehash /\ ~interrupted /\ ~job.read_error
              /\ ~job.wrong_file_type /\ PerformHashing => job.offset = 0

\* The inductive invariant of this module, next to BatchInv.
RunInv == Rows /\ (job # NoJob => Taken /\ Advanced)

\* The run so far, when nothing but the program has acted since it began.
CalmInv ==
    calm /\ pc # "idle" =>
        /\ ~interrupted /\ ~failed /\ ~BatchLost
        /\ \A f \in Files : snap[f] = StatOf(f)
        /\ pc = "close" => pending = {}
        /\ job # NoJob => access[job.file] = "ALLOWED" /\ ~job.read_error

\* The hashing of a file that nothing is resumed for, when nothing has disturbed it.
CalmHashing ==
    calm /\ job # NoJob /\ ~HasSavedOffset(job.db) =>
        LET data == disk[job.file].data
        IN  /\ pc \in {"open", "hash", "checkpoint"} =>
                  job.offset = Len(job.mdContext) /\ PrefixOf(job.mdContext, data)
            /\ pc = "conclude" /\ job.rehash /\ ~job.wrong_file_type /\ PerformHashing =>
                  job.sha512 = data

\* The run is done with f.
Over(f) == f \notin pending /\ (job # NoJob => job.file # f)

\* What CalmRunIsComplete says, of the files that the run is done with.
CompleteSoFar ==
    calm /\ pc # "idle" /\ ~opts.dry_run =>
        \A f \in Files : Over(f) /\ access[f] = "ALLOWED" /\ ~IgnoredFile(f) =>
            /\ Complete(working[f])
            /\ Locked(f) \/ Identical(working[f], snap[f])

\* The files that were sealed when the run began still are.
SealedHolds ==
    calm /\ pc # "idle" =>
        \A f \in sealed \ Unseekable : Locked(f) /\ HoldsDigest(durable[f])

\* What CorruptionIsReported says, of the files that the run is done with.
ReportedSoFar ==
    calm /\ pc # "idle" /\ PerformHashing /\ ~violation =>
        \A f \in sealed \ Unseekable : Over(f) =>
            /\ access[f] # "NOT_FOUND" => access[f] = "ALLOWED"
            /\ access[f] = "ALLOWED" =>
                  /\ working[f].stat.size = snap[f].size
                  /\ opts.rehash_locked => working[f].sha512 = disk[f].data

\* What differs between a row and its file.
Differs(row, f) ==
    /\ Complete(row)
    /\ \/ Changes(row.stat, snap[f]) # {}
       \/ row.sha512 # IF disk[f].data = << >> THEN NoDigest ELSE disk[f].data

\* What AlarmHasCause says, of the files that the run is done with.
CausedSoFar ==
    calm /\ pc # "idle" /\ violation /\ (opts.rehash_locked => PerformHashing) =>
        \E f \in opts.locked :
            /\ Over(f) /\ Known(working[f])
            /\ access[f] # "ALLOWED" \/ Differs(working[f], f)

\* What one row may become in the eyes of NoRegress.
Progress(f, old, new) ==
    Known(old) => /\ Known(new)
                  /\ new.stat = old.stat /\ ~(Locked(f) /\ opts.rehash_locked) =>
                        \/ Complete(new)
                        \/ HasSavedOffset(old) /\ new.offset >= old.offset

\* The open batch holds progress only.
ProgressInv == \A f \in Files : Progress(f, durable[f], working[f])

\* The open batch keeps the digest of every sealed row.
SealInv ==
    \A f \in Files \ Unseekable :
        Sealed(f) /\ ~(opts.rehash_locked /\ interrupted) =>
            Known(working[f]) /\ working[f].sha512 = durable[f].sha512

-----------------------------------------------------------------------------
(***************************************************************************)
(* Rows, and the steps that write them.                                    *)
(***************************************************************************)

\* Identical metadata: the size is the same.
LEMMA IdenticalSize ==
    ASSUME NEW row, NEW now, Identical(row, now)
    PROVE  row.stat.size = now.size
<1>1. "SIZE" \notin Changes(row.stat, now)
  BY DEF Identical
<1> QED
  BY <1>1 DEF Changes

\* Other metadata is not the same metadata.
LEMMA SameIsIdentical ==
    ASSUME NEW stat \in CmpctStat
    PROVE  Changes(stat, stat) = {}
BY DEF Changes

\* While a file is in hand, it is one, and its parts have their types.
LEMMA JobTyped ==
    ASSUME TypeOK, job # NoJob
    PROVE  /\ job \in Job /\ job.file \in Files
           /\ job.db \in Row \cup {NoRow} /\ job.known \in BOOLEAN /\ job.rehash \in BOOLEAN
           /\ job.offset \in Nat /\ job.mdContext \in Seq(Block) /\ job.sha512 \in Digest
           /\ job.read_error \in BOOLEAN /\ job.wrong_file_type \in BOOLEAN
           /\ pc \in {"open", "hash", "checkpoint", "conclude"}
BY DEF TypeOK, Job

\* The fields of a row.
LEMMA RowTyped ==
    ASSUME NEW row \in Row \cup {NoRow}, Known(row)
    PROVE  /\ row.offset \in Nat /\ row.stat \in CmpctStat /\ row.stat.size \in Nat
           /\ row.mdContext \in Seq(Block) /\ row.sha512 \in Digest
BY DEF Known, Row, CmpctStat

\* A written row is that of the file in hand, and no other row changes.
LEMMA WrittenRows ==
    ASSUME TypeOK, job # NoJob, working' = Written(job)
    PROVE  /\ working'[job.file] = RecordOf(job)
           /\ \A g \in Files : g # job.file => working'[g] = working[g]
BY JobTyped DEF TypeOK, Written

\* The row that would be written has the right shape.
LEMMA RecordShaped ==
    ASSUME BatchInv, RunInv, job # NoJob
    PROVE  /\ Known(RecordOf(job)) /\ Shaped(RecordOf(job), job.file)
           /\ RecordOf(job).offset = job.offset /\ RecordOf(job).stat = snap[job.file]
<1>1. /\ RecordOf(job).offset = job.offset /\ RecordOf(job).stat = snap[job.file]
      /\ RecordOf(job).sha512 # NoDigest => job.offset = 0 /\ snap[job.file].size # 0
  BY DEF RecordOf
<1>2. Known(RecordOf(job))
  BY JobTyped, RecordOfType DEF BatchInv, Known
<1>3. job.offset > 0 => snap[job.file].size # 0 /\ job.file \notin Unseekable
  BY JobTyped DEF BatchInv, RunInv, Taken, Advanced
<1> QED
  BY <1>1, <1>2, <1>3 DEF Shaped

\* The two views of the database after a step that only moves rows between them.
LEMMA RowsMove ==
    ASSUME Rows, working' \in {working, durable}, durable' \in {working, durable},
           pending' \subseteq pending, pc' = "idle" => pending' = {}
    PROVE  Rows'
<1>1. \A f \in Files : /\ Shaped(durable'[f], f) /\ Shaped(working'[f], f)
                       /\ f \in pending => working'[f] = durable'[f]
  BY DEF Rows
<1> QED
  BY <1>1 DEF Rows, Shaped

-----------------------------------------------------------------------------
(***************************************************************************)
(* What the steps of the program do to the state that matters here.        *)
(***************************************************************************)

\* A failed SQLite call publishes nothing, and disturbs the run.
LEMMA FailingCall ==
    ASSUME NEW saving \in BOOLEAN, SqliteFails(saving) \/ FindLost
    PROVE  /\ working' \in {working, durable} /\ durable' = durable /\ failed'
           /\ calm' => calm /\ BatchLost /\ working' = working
BY DEF SqliteFails, FindLost, storeVars

\* What neither a file nor a run begins or ends with.
Around == <<disk, access, rotted, opts, snap, sealed, interrupted, violation>>

\* A step of the loop between two files, and the end of the loop.
LEMMA LoopStep ==
    ASSUME TypeOK, BatchDeadline \/ ReadRowFails \/ RememberFails \/ FinishScan
    PROVE  /\ pc = "walk" /\ pc' \in {"walk", "close"} /\ job = NoJob /\ job' = NoJob
           /\ UNCHANGED Around /\ pending' = pending
           /\ working' \in {working, durable} /\ durable' \in {working, durable}
           /\ durable' = durable \/ working' = durable'
           /\ calm' => calm /\ (failed \/ BatchLost \/
                (/\ working' = working /\ ~failed'
                 /\ active' => UNCHANGED <<active, autocommit>>))
           /\ pc' = "close" => pending = {} \/ interrupted \/ failed
<1> USE DEF Around, envVars, flowVars
<1>j. pc = "walk" => job = NoJob
  BY DEF TypeOK
<1>t. active \in BOOLEAN /\ failed \in BOOLEAN
  BY DEF TypeOK
<1>1. CASE BatchDeadline
  <2>1. CASE SqliteFails(FALSE) \/ FindLost
    BY <1>1, <1>j, <2>1, FailingCall DEF BatchDeadline, Walking
  <2>2. CASE Commit(active, working) /\ UNCHANGED <<working, failed, calm, faults>>
    BY <1>1, <1>j, <1>t, <2>2 DEF BatchDeadline, Walking, Commit
  <2> QED
    BY <1>1, <2>1, <2>2 DEF BatchDeadline
<1>2. CASE ReadRowFails
  BY <1>2, <1>j, FailingCall DEF ReadRowFails, Walking
<1>3. CASE RememberFails
  BY <1>3, <1>j DEF RememberFails
<1>4. CASE FinishScan
  BY <1>4, <1>j, <1>t DEF FinishScan, Commit, Rollback
<1> QED
  BY <1>1, <1>2, <1>3, <1>4

\* The decision about one file.
LEMMA VisitStep ==
    ASSUME TypeOK, NEW f \in Files, Visit(f)
    PROVE  /\ pc = "walk" /\ job = NoJob /\ f \in pending /\ pending' = pending \ {f}
           /\ UNCHANGED <<disk, access, rotted, opts, snap, sealed, interrupted, failed, calm>>
           /\ UNCHANGED storeVars
           /\ \/ job' = NoJob /\ pc' = "walk" /\ (LeaveFile(f) \/ ReportFile(f))
              \/ /\ ProcessFile(f) /\ job' = NewJob(f) /\ violation' = violation
                 /\ pc' = IF Rehash(f) THEN "open" ELSE "conclude"
BY DEF Visit, Walking, NextEntry, LeaveFile, ReportFile, ProcessFile, TypeOK, envVars

\* A step of sha512sum() but the checkpoint.
Hash == OpenFile \/ StopHashing \/ HashBlock \/ HashEof \/ HashReadError

\* It changes the file in hand, and nothing else that matters.
LEMMA HashStep ==
    ASSUME TypeOK, Hash
    PROVE  /\ pc \in {"open", "hash"} /\ pc' \in {"hash", "checkpoint", "conclude"}
           /\ job # NoJob /\ job' # NoJob
           /\ UNCHANGED Around /\ UNCHANGED storeVars /\ UNCHANGED <<pending, failed>>
           /\ job'.file = job.file /\ job'.db = job.db /\ job'.rehash = job.rehash
           /\ calm' => calm /\ ~HashReadError
<1> USE DEF Around, envVars, flowVars
<1>1. pc \in {"open", "hash"}
  BY DEF Hash, OpenFile, StopHashing, HashBlock, HashEof, HashReadError
<1>2. job # NoJob /\ job \in Job
  BY <1>1 DEF TypeOK
<1>3. /\ pc' \in {"hash", "checkpoint", "conclude"}
      /\ UNCHANGED Around /\ UNCHANGED storeVars /\ UNCHANGED <<pending, failed>>
  BY DEF Hash, OpenFile, StopHashing, HashBlock, HashEof, HashReadError
<1>4. job' # NoJob
  <2>1. TypeOK'
    BY TypeNext DEF Hash, Next, Program
  <2> QED
    BY <1>3, <2>1 DEF TypeOK
<1>5. /\ job'.file = job.file /\ job'.db = job.db /\ job'.rehash = job.rehash
      /\ calm' => calm /\ ~HashReadError
  <2>1. CASE OpenFile
    BY <1>2, <2>1 DEF OpenFile, HashReadError, Job
  <2>2. CASE StopHashing
    BY <2>2 DEF StopHashing, HashReadError
  <2>3. CASE HashBlock
    BY <1>2, <2>3 DEF HashBlock, HashReadError, Job
  <2>4. CASE HashEof
    BY <1>2, <2>4 DEF HashEof, HashReadError, Finalised, Job
  <2>5. CASE HashReadError
    BY <1>2, <2>5 DEF HashReadError, Finalised, Job
  <2> QED
    BY <2>1, <2>2, <2>3, <2>4, <2>5 DEF Hash
<1> QED
  BY <1>1, <1>2, <1>3, <1>4, <1>5

\* A checkpoint fails, or saves the partial hash, or finds that it may not.
LEMMA CheckpointStep ==
    ASSUME BatchInv, Checkpoint
    PROVE  /\ pc = "checkpoint" /\ job # NoJob /\ UNCHANGED Around /\ pending' = pending
           /\ \/ /\ job' = NoJob /\ pc' = "walk" /\ failed'
                 /\ working' \in {working, durable} /\ durable' = durable
                 /\ calm' => calm /\ BatchLost
              \/ /\ job' # NoJob /\ pc' = "hash" /\ UNCHANGED <<failed, calm>>
                 /\ ~active' /\ autocommit'
                 /\ job' = [job EXCEPT !.known = job'.known]
                 /\ \/ /\ CheckpointAllowed(job)
                       /\ working' = Written(job) /\ durable' = working'
                    \/ working' = working /\ durable' \in {working, durable}
<1> USE DEF Around, envVars, flowVars
<1>1. pc = "checkpoint" /\ UNCHANGED Around /\ pending' = pending
  BY DEF Checkpoint, Written
<1>2. job # NoJob /\ job \in Job
  BY <1>1 DEF BatchInv, TypeOK
<1>3. CASE /\ SqliteFails(CheckpointAllowed(job)) \/ FindLost
           /\ job' = NoJob /\ pc' = "walk"
  <2>1. CheckpointAllowed(job) \in BOOLEAN
    BY DEF CheckpointAllowed
  <2> QED
    BY <1>1, <1>2, <1>3, <2>1, FailingCall
<1> DEFINE Done == /\ pc' = "hash" /\ UNCHANGED <<failed, calm>>
                   /\ IF CheckpointAllowed(job)
                      THEN /\ working' = Written(job)
                           /\ job' = [job EXCEPT !.known = TRUE]
                      ELSE UNCHANGED <<working, job>>
                   /\ Commit(active \/ CheckpointAllowed(job), working')
<1>4. ASSUME Done PROVE
      /\ job' # NoJob /\ pc' = "hash" /\ UNCHANGED <<failed, calm>>
      /\ ~active' /\ autocommit'
      /\ job' = [job EXCEPT !.known = job'.known]
      /\ \/ /\ CheckpointAllowed(job)
            /\ working' = Written(job) /\ durable' = working'
         \/ working' = working /\ durable' \in {working, durable}
  <2>1. Done
    BY <1>4
  <2>2. TypeOK'
    BY TypeNext DEF BatchInv, Next, Program
  <2>3. job' # NoJob
    BY <2>1, <2>2 DEF TypeOK
  <2>4. CASE CheckpointAllowed(job)
    <3>1. job' = [job EXCEPT !.known = job'.known]
      BY <1>2, <2>1, <2>4 DEF Job
    <3> QED
      BY <2>1, <2>3, <2>4, <3>1 DEF Commit
  <2>5. CASE ~CheckpointAllowed(job)
    <3>1. job' = [job EXCEPT !.known = job'.known]
      BY <1>2, <2>1, <2>5 DEF Job
    <3> QED
      BY <2>1, <2>3, <2>5, <3>1 DEF Commit
  <2> QED
    BY <2>4, <2>5
<1>5. Done \/ (/\ SqliteFails(CheckpointAllowed(job)) \/ FindLost
              /\ job' = NoJob /\ pc' = "walk")
  BY DEF Checkpoint
<1> HIDE DEF Done
<1> QED
  BY <1>1, <1>2, <1>3, <1>4, <1>5

\* What is written at the end of a file, and what that takes.
SaveRow ==
    /\ ~NothingToKeep(job) /\ ~job.read_error /\ ~ChecksumMismatch(job)
    /\ ShouldSave(job) /\ ~opts.dry_run
    /\ working' = Written(job)
    /\ active' /\ ~autocommit'
    /\ UNCHANGED <<violation, failed, calm>>

\* What leaves the rows as they are: nothing to keep, another digest, or nothing
\* that has to be saved.
KeepRows ==
    /\ \/ DropFile
       \/ ReportMismatch
       \/ /\ ~NothingToKeep(job) /\ ~job.read_error /\ ~ChecksumMismatch(job)
          /\ ~ShouldSave(job) \/ opts.dry_run
          /\ violation' = violation
    /\ UNCHANGED <<storeVars, failed, calm>>

\* The end of a file keeps the rows, writes one, or fails.
LEMMA ConcludeStep ==
    ASSUME TypeOK, Conclude
    PROVE  /\ pc = "conclude" /\ job # NoJob /\ job' = NoJob /\ pc' = "walk"
           /\ UNCHANGED <<disk, access, rotted, opts, snap, sealed, interrupted>>
           /\ pending' = pending /\ durable' = durable
           /\ \/ KeepRows
              \/ SaveRow
              \/ /\ working' \in {working, durable} /\ failed' /\ violation' = violation
                 /\ calm' => calm /\ BatchLost
<1> USE DEF envVars, flowVars
<1>1. /\ pc = "conclude" /\ job' = NoJob /\ pc' = "walk"
      /\ UNCHANGED <<disk, access, rotted, opts, snap, sealed, interrupted>>
      /\ pending' = pending
  BY DEF Conclude
<1>2. job # NoJob
  BY <1>1 DEF TypeOK
<1>3. CASE DropFile \/ ReportMismatch
  BY <1>1, <1>2, <1>3 DEF KeepRows, DropFile, ReportMismatch, storeVars
<1>4. CASE SaveFile
  <2>1. CASE SqliteFails(TRUE) \/ FindLost
    BY <1>1, <1>2, <1>4, <2>1, FailingCall DEF SaveFile
  <2>2. CASE ShouldSave(job) /\ ~opts.dry_run /\ ~(SqliteFails(TRUE) \/ FindLost)
    <3>1. SaveRow /\ durable' = durable
      BY <1>4, <2>2 DEF SaveFile, Save, Written, SaveRow
    <3> QED
      BY <1>1, <1>2, <3>1
  <2>3. CASE (~ShouldSave(job) \/ opts.dry_run) /\ ~(SqliteFails(TRUE) \/ FindLost)
    <3>1. KeepRows /\ durable' = durable
      BY <1>4, <2>3 DEF SaveFile, Save, Written, KeepRows, storeVars
    <3> QED
      BY <1>1, <1>2, <3>1
  <2> QED
    BY <2>1, <2>2, <2>3
<1> QED
  BY <1>3, <1>4 DEF Conclude

\* The process ends; a crash takes the open batch with it.
LEMMA EndStep ==
    ASSUME BatchInv, Exit \/ Crash
    PROVE  /\ pc' = "idle" /\ job' = NoJob /\ pending' = {} /\ opts' = DefaultOptions
           /\ durable' = durable /\ working' \in {working, durable}
           /\ working' = durable'
BY DEF BatchInv, StoreInv, Exit, Crash, ProcessEnds, Rollback, storeVars

\* A run begins, on a database without an open batch.
LEMMA StartStep ==
    ASSUME BatchInv, StartRun
    PROVE  /\ pc = "idle" /\ pc' = "walk" /\ job = NoJob /\ job' = NoJob
           /\ UNCHANGED <<disk, access>> /\ UNCHANGED storeVars
           /\ opts' \in RunOptions /\ calm' /\ ~interrupted' /\ ~failed' /\ ~violation'
           /\ pending' = {f \in Files : access[f] # "NOT_FOUND"}
           /\ snap' = [f \in Files |-> StatOf(f)]
           /\ sealed' = {f \in opts'.locked : HoldsDigest(durable[f])}
           /\ working = durable /\ ~active
BY DEF BatchInv, TypeOK, StoreInv, StartRun, envVars, storeVars

\* The file system, Ctrl+C, and nothing at all: whatever they do, the run is not
\* undisturbed any more, and the program has not moved.
LEMMA OutsideStep ==
    ASSUME Environment \/ Interrupt \/ UNCHANGED vars
    PROVE  /\ UNCHANGED storeVars /\ UNCHANGED flowVars
           /\ UNCHANGED <<pc, job, failed, violation>>
           /\ interrupted' = interrupted \/ (interrupted' = TRUE /\ ~calm' /\ pc # "idle")
           /\ calm' => UNCHANGED vars
BY DEF Environment, EnvWrite, EnvChmod, EnvRealloc, EnvRot, EnvBackdate, EnvAccess, Edit,
       Interrupt, vars, storeVars, flowVars

\* Every step is one of these.
LEMMA Steps ==
    ASSUME [Next]_vars
    PROVE  \/ BatchDeadline \/ ReadRowFails \/ RememberFails \/ FinishScan
           \/ \E f \in Files : Visit(f)
           \/ Hash \/ Checkpoint \/ Conclude \/ Exit \/ Crash \/ StartRun
           \/ Environment \/ Interrupt \/ UNCHANGED vars
BY DEF Next, Program, Hash

-----------------------------------------------------------------------------
(***************************************************************************)
(* RunInv is inductive.                                                    *)
(***************************************************************************)

\* The decision about a file takes it up for a reason, and from the right offset.
LEMMA VisitRun ==
    ASSUME BatchInv, RunInv, NEW f \in Files, Visit(f)
    PROVE  RunInv'
<1>1. /\ pc = "walk" /\ job = NoJob /\ f \in pending /\ pending' = pending \ {f}
      /\ UNCHANGED <<opts, snap, interrupted, durable, working>>
  BY VisitStep DEF BatchInv, storeVars
<1>2. pc' # "idle" /\ Rows'
  BY <1>1, VisitStep, RowsMove DEF BatchInv, RunInv
<1>3. CASE job' = NoJob
  BY <1>2, <1>3 DEF RunInv
<1>4. CASE job' # NoJob
  <2> DEFINE row == working[f]
             now == snap[f]
  <2>1. /\ ProcessFile(f) /\ job' = NewJob(f)
        /\ pc' = IF Rehash(f) THEN "open" ELSE "conclude"
    BY <1>4, VisitStep DEF BatchInv
  <2>2. /\ job'.file = f /\ job'.db = row /\ job'.rehash = Rehash(f)
        /\ ~job'.wrong_file_type /\ ~job'.read_error
        /\ job'.offset = IF CanResume(f) THEN row.offset ELSE 0
    BY <2>1 DEF NewJob
  <2>3. row \in Row \cup {NoRow} /\ (Known(row) => row.offset \in Nat) /\ row = durable[f]
        /\ Shaped(row, f)
    BY <1>1, RowTyped DEF BatchInv, RunInv, Rows, TypeOK
  <2>4. ~UpToDate(f) /\ ~LockChecksumViolation(f)
    BY <2>1 DEF ProcessFile
  <2>5. Locked(f) /\ Complete(row) => Ready(f)
    BY <2>3 DEF Ready, LockChecksumReady, Complete, HasSavedOffset
  <2>6. Complete(row) /\ Identical(row, now) => Locked(f) /\ opts.rehash_locked
    BY <2>3, <2>4 DEF UpToDate, UnchangedAndComplete, Ready, LockChecksumReady, Complete,
       HasSavedOffset
  <2>7. Locked(f) /\ Complete(row) => row.stat.size = now.size
    BY <2>4, <2>5 DEF LockChecksumViolation, SizeChanged, Changes
  <2>8. Rehash(f) => now.size # 0
    BY DEF Rehash
  <2>9. ~Rehash(f) => ~CanResume(f)
    BY <2>3, IdenticalSize DEF Rehash, UnwatchedOnly, CanResume, Shaped, HasSavedOffset
  <2>10. ~Rehash(f) /\ Locked(f) /\ Complete(row) /\ opts.rehash_locked => now.size = 0
    BY <2>5 DEF Rehash
  <2>11. CanResume(f) => f \notin Unseekable
    BY <2>3 DEF CanResume, HasSavedOffset, Shaped
  <2>12. Locked(f)' = Locked(f) /\ PerformHashing' = PerformHashing
    BY <1>1 DEF Locked, PerformHashing
  <2>13. Taken'
    BY <1>1, <2>1, <2>2, <2>3, <2>6, <2>7, <2>8, <2>9, <2>10, <2>12 DEF Taken, Locked
  <2>14. HasSavedOffset(row) /\ Identical(row, now) => CanResume(f)
    BY DEF CanResume
  <2>15. Advanced'
    BY <1>1, <2>1, <2>2, <2>3, <2>11, <2>14 DEF Advanced, HasSavedOffset
  <2> QED
    BY <1>2, <2>13, <2>15 DEF RunInv
<1> QED
  BY <1>3, <1>4

\* Hashing goes forward only, and ends at the end of the file unless Ctrl+C or an
\* error ends it.
LEMMA HashRun ==
    ASSUME BatchInv, RunInv, Hash
    PROVE  RunInv'
<1> DEFINE f == job.file
<1>1. /\ pc \in {"open", "hash"} /\ pc' \in {"hash", "checkpoint", "conclude"}
      /\ job # NoJob /\ job' # NoJob
      /\ UNCHANGED <<opts, snap, interrupted, durable, working, pending>>
      /\ job'.file = f /\ job'.db = job.db /\ job'.rehash = job.rehash
  BY HashStep DEF BatchInv, Around, storeVars
<1>2. job \in Job /\ f \in Files /\ job.offset \in Nat /\ job.db \in Row \cup {NoRow}
      /\ (Known(job.db) => job.db.offset \in Nat)
  BY <1>1, JobTyped, RowTyped DEF BatchInv
<1>3. Rows'
  BY <1>1, RowsMove DEF RunInv
<1>4. Locked(f)' = Locked(f) /\ PerformHashing' = PerformHashing
  BY <1>1 DEF Locked, PerformHashing
<1>5. job.rehash
  BY <1>1 DEF RunInv, Taken
<1>6. Taken'
  BY <1>1, <1>4, <1>5 DEF RunInv, Taken, Locked
<1>7. /\ ~job.wrong_file_type
      /\ HasSavedOffset(durable[f]) /\ durable[f] # job.db => job.offset >= durable[f].offset
      /\ HasSavedOffset(job.db) /\ Identical(job.db, snap[f]) => job.offset >= job.db.offset
  BY <1>1 DEF RunInv, Advanced, Checkpointed
<1>8. /\ job'.offset >= job.offset \/ (pc' = "conclude" /\ job'.offset = 0)
      /\ job'.offset \in Nat
      /\ job'.offset > 0 => f \notin Unseekable
      /\ job'.wrong_file_type => f \in Unseekable /\ pc' = "conclude"
      /\ pc' \in {"hash", "checkpoint"} => f \notin Unseekable /\ PerformHashing
      /\ pc' = "conclude" /\ ~interrupted /\ ~job'.read_error
            /\ ~job'.wrong_file_type /\ PerformHashing => job'.offset = 0
  <2>1. CASE OpenFile
    <3>1. /\ job' = [job EXCEPT !.read_error = access[f] # "ALLOWED",
                                !.wrong_file_type = access[f] = "ALLOWED" /\ f \in Unseekable]
          /\ pc' = IF access[f] # "ALLOWED" \/ f \in Unseekable \/ ~PerformHashing
                   THEN "conclude" ELSE "hash"
      BY <2>1 DEF OpenFile
    <3>2. /\ job'.offset = job.offset
          /\ job'.read_error = (access[f] # "ALLOWED")
          /\ job'.wrong_file_type = (access[f] = "ALLOWED" /\ f \in Unseekable)
      BY <1>2, <3>1 DEF Job
    <3>3. job.offset > 0 => f \notin Unseekable
      BY <1>1 DEF RunInv, Advanced
    <3>4. job'.wrong_file_type => f \in Unseekable /\ pc' = "conclude"
      BY <3>1, <3>2
    <3>5. pc' # "conclude" => f \notin Unseekable /\ PerformHashing
      BY <3>1
    <3>6. pc' = "conclude" /\ ~job'.read_error /\ ~job'.wrong_file_type => ~PerformHashing
      BY <3>1, <3>2
    <3> QED
      BY <1>1, <1>2, <3>2, <3>3, <3>4, <3>5, <3>6
  <2>2. CASE ~OpenFile
    <3>1. pc = "hash" /\ f \notin Unseekable /\ PerformHashing
      BY <1>1, <2>2 DEF Hash, StopHashing, HashBlock, HashEof, HashReadError, RunInv, Advanced
    <3>2. job'.wrong_file_type = job.wrong_file_type
          /\ (job'.offset = job.offset \/ job'.offset = job.offset + 1 \/
                (pc' = "conclude" /\ job'.offset = 0))
          /\ (pc' = "conclude" /\ ~interrupted => job'.offset = 0)
      <4>1. CASE StopHashing
        BY <4>1 DEF StopHashing
      <4>2. CASE HashBlock
        BY <1>2, <4>2 DEF HashBlock, Job
      <4>3. CASE HashEof
        BY <1>2, <4>3 DEF HashEof, Finalised, Job
      <4>4. CASE HashReadError
        BY <1>2, <4>4 DEF HashReadError, Finalised, Job
      <4> QED
        BY <2>2, <4>1, <4>2, <4>3, <4>4 DEF Hash
    <3> QED
      BY <1>2, <1>7, <3>1, <3>2
  <2> QED
    BY <2>1, <2>2
<1>9. Advanced'
  <2>1. durable[f] = job.db \/ Checkpointed
    BY <1>1 DEF RunInv, Advanced
  <2>2. durable[f]' = job'.db \/ Checkpointed'
    <3>1. CASE Checkpointed
      <4>1. Known(durable[f]) /\ durable[f].offset \in Nat
        BY <1>2, <3>1, RowTyped DEF Checkpointed, HasSavedOffset, BatchInv, TypeOK
      <4>2. job.offset >= durable[f].offset
        BY <1>1, <3>1 DEF Checkpointed
      <4> QED
        BY <1>1, <1>2, <1>4, <1>8, <3>1, <4>1, <4>2 DEF Checkpointed, Locked
    <3> QED
      BY <1>1, <2>1, <3>1
  <2>3. working[f] = durable[f]
    BY <1>1 DEF RunInv, Advanced
  <2>4. HasSavedOffset(job.db) /\ Identical(job.db, snap[f]) =>
           job'.offset >= job.db.offset \/ (pc' = "conclude" /\ job'.offset = 0)
    BY <1>2, <1>7, <1>8 DEF HasSavedOffset
  <2> QED
    BY <1>1, <1>4, <1>8, <2>2, <2>3, <2>4 DEF Advanced
<1> QED
  BY <1>3, <1>6, <1>9 DEF RunInv

\* Saving a row of the right shape, in place of the row of the file in hand.
LEMMA SavedRows ==
    ASSUME BatchInv, RunInv, job # NoJob, pc # "idle", working' = Written(job),
           durable' \in {durable, working'}, pending' = pending, pc' # "idle"
    PROVE  Rows'
<1>1. job.file \in Files /\ job.file \notin pending
  BY JobTyped DEF BatchInv, RunInv, Taken
<1>2. \A g \in Files : Shaped(working'[g], g)
  BY <1>1, WrittenRows, RecordShaped DEF BatchInv, RunInv, Rows, Shaped
<1>3. \A g \in Files : Shaped(durable'[g], g)
  BY <1>2 DEF RunInv, Rows
<1>4. \A g \in pending : working'[g] = durable'[g]
  BY <1>1, WrittenRows DEF BatchInv, TypeOK, RunInv, Rows
<1> QED
  BY <1>2, <1>3, <1>4 DEF Rows, Shaped

\* A checkpoint writes a row with the offset that hashing goes on from.
LEMMA CheckpointRun ==
    ASSUME BatchInv, RunInv, Checkpoint
    PROVE  RunInv'
<1> DEFINE f == job.file
<1>1. /\ pc = "checkpoint" /\ job # NoJob /\ UNCHANGED <<opts, snap, interrupted>>
      /\ pending' = pending
  BY CheckpointStep DEF Around
<1>2. CASE job' = NoJob
  <2>1. Rows'
    BY <1>1, <1>2, CheckpointStep, RowsMove DEF RunInv
  <2> QED
    BY <1>2, <2>1 DEF RunInv
<1>3. CASE job' # NoJob
  <2>1. /\ pc' = "hash" /\ job' = [job EXCEPT !.known = job'.known]
        /\ \/ CheckpointAllowed(job) /\ working' = Written(job) /\ durable' = working'
           \/ working' = working /\ durable' \in {working, durable}
    BY <1>3, CheckpointStep
  <2>2. job \in Job /\ f \in Files /\ job.offset \in Nat /\ job.db \in Row \cup {NoRow}
        /\ (Known(job.db) => job.db.offset \in Nat)
    BY <1>1, JobTyped, RowTyped DEF BatchInv
  <2>3. /\ job'.file = f /\ job'.db = job.db /\ job'.rehash = job.rehash
        /\ job'.offset = job.offset /\ job'.wrong_file_type = job.wrong_file_type
        /\ job'.read_error = job.read_error
    BY <2>1, <2>2 DEF Job
  <2>4. Locked(f)' = Locked(f) /\ PerformHashing' = PerformHashing
    BY <1>1, <2>3 DEF Locked, PerformHashing
  <2>5. job.rehash
    BY <1>1 DEF RunInv, Taken
  <2>6. Taken'
    BY <1>1, <2>3, <2>4, <2>5 DEF RunInv, Taken, Locked
  <2>7. /\ working[f] = durable[f] /\ (durable[f] = job.db \/ Checkpointed)
        /\ ~job.wrong_file_type /\ f \notin Unseekable /\ PerformHashing
        /\ HasSavedOffset(job.db) /\ Identical(job.db, snap[f]) => job.offset >= job.db.offset
    BY <1>1 DEF RunInv, Advanced
  <2>8. CASE CheckpointAllowed(job) /\ working' = Written(job) /\ durable' = working'
    <3>1. Rows'
      BY <1>1, <2>1, <2>8, SavedRows
    <3>2. durable'[f] = RecordOf(job) /\ working'[f] = durable'[f]
      BY <1>1, <2>8, WrittenRows DEF BatchInv
    <3>3. /\ Known(durable'[f]) /\ durable'[f].offset = job.offset
          /\ durable'[f].stat = snap[f]
      BY <1>1, <3>2, RecordShaped
    <3>4. job.offset > 0 /\ ~(Locked(f) /\ Complete(job.db))
      BY <2>8 DEF CheckpointAllowed, Complete
    <3>5. Checkpointed'
      BY <1>1, <2>1, <2>2, <2>3, <3>3, <3>4 DEF Checkpointed, HasSavedOffset, Locked
    <3>6. Advanced'
      BY <1>1, <2>1, <2>3, <2>4, <2>7, <3>2, <3>5 DEF Advanced
    <3> QED
      BY <2>6, <3>1, <3>6 DEF RunInv
  <2>9. CASE working' = working /\ durable' \in {working, durable}
    <3>1. Rows'
      BY <1>1, <2>1, <2>9, RowsMove DEF RunInv
    <3>2. durable'[f] = durable[f] /\ working'[f] = working[f]
      BY <2>7, <2>9
    <3>3. Checkpointed => Checkpointed'
      BY <1>1, <2>1, <2>3, <3>2 DEF Checkpointed, Locked
    <3>4. Advanced'
      BY <1>1, <2>1, <2>3, <2>4, <2>7, <3>2, <3>3 DEF Advanced
    <3> QED
      BY <2>6, <3>1, <3>4 DEF RunInv
  <2> QED
    BY <2>1, <2>8, <2>9
<1> QED
  BY <1>2, <1>3

\* Every other step leaves the file in hand alone, or there is none.
LEMMA RunNext == BatchInv /\ RunInv /\ [Next]_vars => RunInv'
<1> SUFFICES ASSUME BatchInv, RunInv, [Next]_vars PROVE RunInv'
  OBVIOUS
<1>1. CASE BatchDeadline \/ ReadRowFails \/ RememberFails \/ FinishScan
  <2>1. pc' # "idle" /\ job' = NoJob
    BY <1>1, LoopStep DEF BatchInv
  <2>2. Rows'
    BY <1>1, <2>1, LoopStep, RowsMove DEF BatchInv, RunInv
  <2> QED
    BY <2>1, <2>2 DEF RunInv
<1>2. ASSUME NEW f \in Files, Visit(f) PROVE RunInv'
  BY <1>2, VisitRun
<1>3. CASE Hash
  BY <1>3, HashRun
<1>4. CASE Checkpoint
  BY <1>4, CheckpointRun
<1>5. CASE Conclude
  <2>1. pc = "conclude" /\ job # NoJob /\ job' = NoJob /\ pc' = "walk" /\ pending' = pending
        /\ durable' = durable
    BY <1>5, ConcludeStep DEF BatchInv
  <2>2. CASE SaveRow
    <3>1. Rows'
      BY <2>1, <2>2, SavedRows DEF SaveRow
    <3> QED
      BY <2>1, <3>1 DEF RunInv
  <2>3. CASE ~SaveRow
    <3>1. working' \in {working, durable}
      BY <1>5, <2>3, ConcludeStep DEF BatchInv, KeepRows, storeVars
    <3>2. Rows'
      BY <2>1, <3>1, RowsMove DEF RunInv
    <3> QED
      BY <2>1, <3>2 DEF RunInv
  <2> QED
    BY <2>2, <2>3
<1>6. CASE Exit \/ Crash
  <2>1. Rows'
    BY <1>6, EndStep, RowsMove DEF RunInv
  <2> QED
    BY <1>6, <2>1, EndStep DEF RunInv
<1>7. CASE StartRun
  <2>1. /\ working' = working /\ durable' = durable /\ working = durable
        /\ pc' # "idle" /\ job' = NoJob /\ pending' \subseteq Files
    BY <1>7, StartStep DEF storeVars
  <2>2. Rows'
    BY <2>1 DEF RunInv, Rows, Shaped
  <2> QED
    BY <2>1, <2>2 DEF RunInv
<1>8. CASE Environment \/ Interrupt \/ UNCHANGED vars
  <2>0. interrupted => interrupted'
    BY <1>8, OutsideStep
  <2>1. /\ UNCHANGED <<durable, working, pending, opts, snap, pc, job>>
        /\ interrupted => interrupted'
    BY <1>8, <2>0, OutsideStep DEF storeVars, flowVars
  <2>2. Rows'
    BY <2>1 DEF RunInv, Rows, Shaped
  <2>3. Checkpointed' = Checkpointed /\ Taken' = Taken /\ PerformHashing' = PerformHashing
    BY <2>1 DEF Checkpointed, Taken, Locked, Shaped, PerformHashing
  <2>4. Advanced /\ job # NoJob => Advanced'
    BY <2>1, <2>3 DEF Advanced
  <2> QED
    BY <2>1, <2>2, <2>3, <2>4 DEF RunInv
<1> QED
  BY <1>1, <1>2, <1>3, <1>4, <1>5, <1>6, <1>7, <1>8, Steps

\* The initial database has no row but complete ones of files that can be read.
LEMMA RunInit == Init => RunInv
<1> SUFFICES ASSUME Init PROVE RunInv
  OBVIOUS
<1>1. job = NoJob /\ pending = {} /\ working = durable
  BY DEF Init
<1>2. ASSUME NEW f \in Files PROVE Shaped(durable[f], f)
  <2>1. PICK legacy \in SUBSET (Files \ Unseekable) :
           durable = [g \in Files |-> IF g \in legacy THEN MigratedRow(g) ELSE NoRow]
    BY DEF Init
  <2>2. CASE f \in legacy
    <3>1. /\ durable[f].offset = 0 /\ durable[f].stat.size = Len(disk[f].data)
          /\ durable[f].sha512 = IF disk[f].data = << >> THEN NoDigest ELSE disk[f].data
      BY <2>1, <2>2 DEF MigratedRow, StatOf
    <3>2. disk[f].data \in Seq(Block)
      BY ScanAssumption DEF Init
    <3>3. disk[f].data # << >> => Len(disk[f].data) # 0
      BY <3>2, EmptySeq
    <3> QED
      BY <3>1, <3>3 DEF Shaped
  <2>3. CASE f \notin legacy
    BY <2>1, <2>3 DEF Shaped, Known
  <2> QED
    BY <2>2, <2>3
<1> QED
  BY <1>1, <1>2 DEF RunInv, Rows

\* Both invariants hold in every reachable state.
LEMMA RunCorrect == Spec => [](BatchInv /\ RunInv)
BY RunInit, RunNext, TypeInit, TypeNext, StoreInit, StoreNext, PTL DEF Spec, BatchInv

-----------------------------------------------------------------------------
(***************************************************************************)
(* What is stored is kept.                                                 *)
(***************************************************************************)

\* What a step may do to the two views of the database: make them equal, leave them
\* as they are, or save the row of the file in hand.
LEMMA StoreStep ==
    ASSUME BatchInv, RunInv, [Next]_vars
    PROVE  \/ working' = durable' /\ durable' \in {working, durable}
           \/ UNCHANGED <<working, durable, opts>> /\ (interrupted => interrupted')
           \/ /\ pc = "checkpoint" /\ job # NoJob /\ UNCHANGED <<opts, interrupted>>
              /\ CheckpointAllowed(job) /\ working' = Written(job) /\ durable' = working'
           \/ /\ pc = "conclude" /\ job # NoJob /\ UNCHANGED <<opts, interrupted>>
              /\ SaveRow /\ durable' = durable
<1> DEFINE Goal ==
           \/ working' = durable' /\ durable' \in {working, durable}
           \/ UNCHANGED <<working, durable, opts>> /\ (interrupted => interrupted')
           \/ /\ pc = "checkpoint" /\ job # NoJob /\ UNCHANGED <<opts, interrupted>>
              /\ CheckpointAllowed(job) /\ working' = Written(job) /\ durable' = working'
           \/ /\ pc = "conclude" /\ job # NoJob /\ UNCHANGED <<opts, interrupted>>
              /\ SaveRow /\ durable' = durable
<1>1. CASE BatchDeadline \/ ReadRowFails \/ RememberFails \/ FinishScan
  BY <1>1, LoopStep DEF BatchInv, Around
<1>2. ASSUME NEW f \in Files, Visit(f) PROVE Goal
  BY <1>2, VisitStep DEF BatchInv, storeVars
<1>3. CASE Hash
  BY <1>3, HashStep DEF BatchInv, storeVars, Around
<1>4. CASE Checkpoint
  BY <1>4, CheckpointStep DEF Around
<1>5. CASE Conclude
  <2>1. CASE KeepRows
    BY <1>5, <2>1, ConcludeStep DEF BatchInv, KeepRows, storeVars
  <2>2. CASE ~KeepRows
    BY <1>5, <2>2, ConcludeStep DEF BatchInv
  <2> QED
    BY <2>1, <2>2
<1>6. CASE Exit \/ Crash
  BY <1>6, EndStep
<1>7. CASE StartRun
  BY <1>7, StartStep DEF storeVars
<1>8. CASE Environment \/ Interrupt \/ UNCHANGED vars
  <2>1. interrupted => interrupted'
    BY <1>8, OutsideStep
  <2> QED
    BY <1>8, <2>1, OutsideStep DEF storeVars, flowVars
<1> QED
  BY <1>1, <1>2, <1>3, <1>4, <1>5, <1>6, <1>7, <1>8, Steps

\* What a checkpoint or the end of a file writes is progress over the durable row,
\* unless a sealed file is being hashed again.
LEMMA RecordProgress ==
    ASSUME BatchInv, RunInv, job # NoJob, pc \in {"checkpoint", "conclude"}
    PROVE  Progress(job.file, durable[job.file], RecordOf(job))
<1> DEFINE f == job.file
           row == durable[f]
           new == RecordOf(job)
<1>1. Known(new) /\ new.offset = job.offset /\ new.stat = snap[f]
  BY RecordShaped
<1> HIDE DEF new
<1>2. SUFFICES ASSUME Known(row), snap[f] = row.stat, ~(Locked(f) /\ opts.rehash_locked)
               PROVE  job.offset = 0 \/ (HasSavedOffset(row) /\ job.offset >= row.offset)
  BY <1>1 DEF Progress, Complete, new
<1>3. row \in Row \cup {NoRow} /\ row.offset \in Nat /\ row.stat \in CmpctStat
  BY <1>2, JobTyped, RowTyped DEF BatchInv, TypeOK
<1>4. CASE row = job.db
  <2>1. Identical(job.db, snap[f])
    BY <1>2, <1>3, <1>4, SameIsIdentical DEF Identical
  <2>2. HasSavedOffset(job.db)
    BY <1>2, <1>3, <1>4, <2>1 DEF RunInv, Taken, Complete, HasSavedOffset
  <2> QED
    BY <1>4, <2>1, <2>2 DEF RunInv, Advanced
<1>5. CASE Checkpointed
  BY <1>5 DEF Checkpointed
<1> QED
  BY <1>4, <1>5 DEF RunInv, Advanced

\* No step publishes anything but progress.
LEMMA ProgressNext ==
    ASSUME BatchInv, RunInv, ProgressInv, [Next]_vars
    PROVE  ProgressInv' /\ \A f \in Files : Progress(f, durable[f], durable'[f])
<1>1. \A row \in Row \cup {NoRow} :
        Known(row) => \/ Complete(row)
                      \/ HasSavedOffset(row) /\ row.offset >= row.offset
  BY RowTyped DEF Complete, HasSavedOffset
<1>2. \A f \in Files : durable[f] \in Row \cup {NoRow} /\ working[f] \in Row \cup {NoRow}
  BY DEF BatchInv, TypeOK
<1>3. CASE working' = durable' /\ durable' \in {working, durable}
  BY <1>1, <1>2, <1>3 DEF ProgressInv, Progress
<1>4. CASE UNCHANGED <<working, durable, opts>>
  BY <1>1, <1>2, <1>4 DEF ProgressInv, Progress, Locked
<1>5. CASE /\ pc \in {"checkpoint", "conclude"} /\ job # NoJob /\ opts' = opts
           /\ working' = Written(job) /\ durable' \in {durable, working'}
  <2>1. \A f \in Files : Progress(f, durable[f], working'[f])
    BY <1>5, RecordProgress, WrittenRows DEF ProgressInv, BatchInv
  <2>2. \A f \in Files : working'[f] \in Row \cup {NoRow}
    BY TypeNext DEF BatchInv, TypeOK
  <2>3. CASE durable' = durable
    BY <1>1, <1>2, <1>5, <2>1, <2>3 DEF ProgressInv, Progress, Locked
  <2>4. CASE durable' = working'
    BY <1>1, <2>1, <2>2, <2>4 DEF ProgressInv, Progress
  <2> QED
    BY <1>5, <2>3, <2>4
<1> QED
  BY <1>3, <1>4, <1>5, StoreStep DEF SaveRow

\* Hashing work that is stored is kept: no row disappears and, while the metadata of
\* a row stays the same, the row stays complete or its offset grows until it is,
\* whatever checkpoints, Ctrl+C, failures and crashes do.
THEOREM WorkIsKept == Spec => NoRegress
<1>1. Init => ProgressInv
  <2> SUFFICES ASSUME Init, NEW f \in Files PROVE Progress(f, durable[f], working[f])
    BY DEF ProgressInv
  <2>1. working = durable /\ durable[f] \in Row \cup {NoRow}
    BY TypeInit DEF Init, TypeOK
  <2> QED
    BY <2>1, RowTyped DEF Progress, Complete, HasSavedOffset
<1>2. BatchInv /\ RunInv /\ ProgressInv /\ [Next]_vars => ProgressInv'
  BY ProgressNext
<1>3. BatchInv /\ RunInv /\ ProgressInv /\ [Next]_vars =>
        [\A f \in Files : Known(durable[f]) =>
          /\ Known(durable[f]')
          /\ durable[f]'.stat = durable[f].stat /\ ~(Locked(f) /\ opts.rehash_locked) =>
                \/ Complete(durable[f]')
                \/ HasSavedOffset(durable[f]) /\ durable[f]'.offset >= durable[f].offset]_durable
  BY ProgressNext DEF Progress
<1> QED
  BY <1>1, <1>2, <1>3, RunCorrect, PTL DEF Spec, NoRegress

\* A sealed row that is written keeps its digest: the file was hashed to the end,
\* and ChecksumMismatch compared the result.
LEMMA RecordSeal ==
    ASSUME BatchInv, RunInv, job # NoJob, pc = "conclude", SaveRow, Sealed(job.file),
           job.file \notin Unseekable, ~(opts.rehash_locked /\ interrupted)
    PROVE  RecordOf(job).sha512 = durable[job.file].sha512 /\ job.db = durable[job.file]
<1> DEFINE f == job.file
<1>1. Locked(f) /\ Complete(durable[f]) /\ durable[f].sha512 # NoDigest
  BY DEF Sealed, HoldsDigest
<1>2. durable[f] = job.db
  BY <1>1 DEF RunInv, Advanced, Checkpointed, Complete, HasSavedOffset
<1>3. Complete(job.db) /\ ~HasSavedOffset(job.db)
  BY <1>1, <1>2 DEF Complete, HasSavedOffset
<1>4. opts.rehash_locked /\ ~interrupted
  BY <1>1, <1>3 DEF SaveRow, ShouldSave, Complete
<1>5. ~job.read_error /\ ~job.wrong_file_type /\ PerformHashing
  BY DEF SaveRow, RunInv, Advanced, PerformHashing
<1>6. job.db.stat.size = snap[f].size /\ snap[f].size # 0
  BY <1>1, <1>2, <1>3 DEF RunInv, Taken, Shaped, Complete
<1>7. job.rehash
  BY <1>1, <1>3, <1>4, <1>6 DEF RunInv, Taken
<1>8. job.offset = 0
  BY <1>4, <1>5, <1>7 DEF RunInv, Advanced
<1>9. job.sha512 = LoadedDigest(job.db)
  BY <1>1, <1>3, <1>4, <1>5, <1>7, <1>8
     DEF SaveRow, ChecksumMismatch, LockChecksumReady, Complete
<1>10. LoadedDigest(job.db) = durable[f].sha512
  BY <1>1, <1>2 DEF LoadedDigest, Complete
<1>11. RecordOf(job).sha512 = job.sha512
  BY <1>5, <1>6, <1>8 DEF RecordOf
<1> QED
  BY <1>2, <1>9, <1>10, <1>11

\* No step loses the digest of a sealed row, from the view of this connection or
\* from that of the next one.
LEMMA SealNext ==
    ASSUME BatchInv, RunInv, SealInv, [Next]_vars
    PROVE  /\ SealInv'
           /\ \A f \in Files \ Unseekable :
                 Sealed(f) /\ ~(opts.rehash_locked /\ interrupted) =>
                     Known(durable'[f]) /\ durable'[f].sha512 = durable[f].sha512
<1>1. \A f \in Files : Sealed(f) => Known(durable[f])
  BY DEF Sealed, HoldsDigest, Complete
<1>2. CASE working' = durable' /\ durable' \in {working, durable}
  BY <1>1, <1>2 DEF SealInv, Sealed, HoldsDigest, Complete
<1>3. CASE UNCHANGED <<working, durable, opts>> /\ (interrupted => interrupted')
  BY <1>1, <1>3 DEF SealInv, Sealed, Locked
<1>4. CASE /\ pc = "checkpoint" /\ job # NoJob /\ UNCHANGED <<opts, interrupted>>
           /\ CheckpointAllowed(job) /\ working' = Written(job) /\ durable' = working'
  <2>1. job.db = durable[job.file] \/ ~Complete(durable[job.file])
    BY <1>4 DEF RunInv, Advanced, Checkpointed, Complete, HasSavedOffset
  <2>2. ~Sealed(job.file)
    BY <1>4, <2>1 DEF CheckpointAllowed, Sealed, HoldsDigest, Complete
  <2>3. \A g \in Files : g # job.file => durable'[g] = working[g]
    BY <1>4, WrittenRows DEF BatchInv
  <2> QED
    BY <1>4, <2>2, <2>3 DEF SealInv, Sealed, HoldsDigest, Complete
<1>5. CASE /\ pc = "conclude" /\ job # NoJob /\ UNCHANGED <<opts, interrupted>>
           /\ SaveRow /\ durable' = durable
  <2>1. \A g \in Files : g # job.file => working'[g] = working[g]
    BY <1>5, WrittenRows DEF BatchInv, SaveRow
  <2>2. working'[job.file] = RecordOf(job) /\ Known(RecordOf(job))
    BY <1>5, WrittenRows, RecordShaped DEF BatchInv, SaveRow
  <2>3. Sealed(job.file) /\ job.file \notin Unseekable /\ ~(opts.rehash_locked /\ interrupted)
          => RecordOf(job).sha512 = durable[job.file].sha512
    BY <1>5, RecordSeal
  <2>4. \A f \in Files : Sealed(f)' <=> Sealed(f)
    BY <1>5 DEF Sealed, Locked
  <2>5. SealInv'
    BY <1>5, <2>1, <2>2, <2>3, <2>4 DEF SealInv
  <2> QED
    BY <1>1, <1>5, <2>5
<1> QED
  BY <1>2, <1>3, <1>4, <1>5, StoreStep

\* The digest of a sealed file is kept: no run replaces or removes it, except a
\* --rehash-locked run that Ctrl+C interrupts (the defect the README describes),
\* however the file changes, whatever fails and wherever the program dies.
THEOREM SealedStaysSealed == Spec => SealedIsKeptUnlessInterrupted
<1>1. Init => SealInv
  BY DEF Init, SealInv, Sealed, HoldsDigest, Complete
<1>2. BatchInv /\ RunInv /\ SealInv /\ [Next]_vars => SealInv'
  BY SealNext
<1>3. BatchInv /\ RunInv /\ SealInv /\ [Next]_vars =>
        [\A f \in Files \ Unseekable : Sealed(f) /\ ~(opts.rehash_locked /\ interrupted) =>
          Known(durable[f]') /\ durable[f]'.sha512 = durable[f].sha512]_durable
  BY SealNext
<1> QED
  BY <1>1, <1>2, <1>3, RunCorrect, PTL DEF Spec, SealedIsKeptUnlessInterrupted

-----------------------------------------------------------------------------
(***************************************************************************)
(* An undisturbed run.                                                     *)
(***************************************************************************)

\* While nothing but the program acts, nothing fails and the stat of the directory
\* entries stays that of the files.
LEMMA CalmNext == BatchInv /\ RunInv /\ CalmInv /\ [Next]_vars => CalmInv'
<1> SUFFICES ASSUME BatchInv, RunInv, CalmInv, [Next]_vars, calm', pc' # "idle" PROVE CalmInv'
  BY DEF CalmInv
<1>s. ASSUME UNCHANGED <<disk, access, snap, interrupted>>, calm, pc # "idle",
             ~failed', ~BatchLost', pc' = "close" => pending' = {},
             job' # NoJob => access[job'.file] = "ALLOWED" /\ ~job'.read_error
      PROVE  CalmInv'
  BY <1>s DEF CalmInv, StatOf
<1>1. CASE BatchDeadline \/ ReadRowFails \/ RememberFails \/ FinishScan
  <2>1. /\ pc = "walk" /\ job' = NoJob /\ UNCHANGED Around /\ pending' = pending
        /\ calm /\ (failed \/ BatchLost \/
              (~failed' /\ (active' => UNCHANGED <<active, autocommit>>)))
        /\ pc' = "close" => pending = {} \/ interrupted \/ failed
    BY <1>1, LoopStep DEF BatchInv
  <2>2. ~failed /\ ~BatchLost /\ ~interrupted
    BY <2>1 DEF CalmInv
  <2>3. ~failed' /\ ~BatchLost'
    BY <2>1, <2>2 DEF BatchLost
  <2> QED
    BY <1>s, <2>1, <2>2, <2>3 DEF Around
<1>2. ASSUME NEW f \in Files, Visit(f) PROVE CalmInv'
  <2>1. /\ pc = "walk" /\ UNCHANGED <<disk, access, snap, interrupted, failed, calm>>
        /\ UNCHANGED storeVars /\ pc' # "close"
        /\ job' # NoJob => ProcessFile(f) /\ job' = NewJob(f)
    BY <1>2, VisitStep DEF BatchInv
  <2>2. job' # NoJob => access[job'.file] = "ALLOWED" /\ ~job'.read_error
    BY <2>1 DEF ProcessFile, NewJob
  <2>3. ~failed' /\ ~BatchLost'
    BY <2>1 DEF CalmInv, BatchLost, storeVars
  <2> QED
    BY <1>s, <2>1, <2>2, <2>3
<1>3. CASE Hash
  <2>1. /\ pc \in {"open", "hash"} /\ pc' # "close" /\ job # NoJob
        /\ UNCHANGED Around /\ UNCHANGED storeVars /\ failed' = failed
        /\ job'.file = job.file /\ calm /\ ~HashReadError
    BY <1>3, HashStep DEF BatchInv
  <2>2. job \in Job /\ access[job.file] = "ALLOWED" /\ ~job.read_error
    BY <2>1, JobTyped DEF CalmInv, BatchInv
  <2>3. ~job'.read_error
    <3>1. CASE OpenFile
      <4>1. job'.read_error = (access[job.file] # "ALLOWED")
        BY <2>2, <3>1 DEF OpenFile, Job
      <4> QED
        BY <2>2, <4>1
    <3>2. CASE StopHashing
      BY <2>2, <3>2 DEF StopHashing
    <3>3. CASE HashBlock
      BY <2>2, <3>3 DEF HashBlock, Job
    <3>4. CASE HashEof
      BY <2>2, <3>4 DEF HashEof, Finalised, Job
    <3> QED
      BY <1>3, <2>1, <3>1, <3>2, <3>3, <3>4 DEF Hash
  <2>4. ~failed' /\ ~BatchLost'
    BY <2>1 DEF CalmInv, BatchLost, storeVars
  <2> QED
    BY <1>s, <2>1, <2>2, <2>3, <2>4 DEF Around
<1>4. CASE Checkpoint
  <2>1. pc = "checkpoint" /\ job # NoJob /\ UNCHANGED Around
    BY <1>4, CheckpointStep
  <2>2. job \in Job /\ (calm => ~BatchLost /\ ~failed /\ access[job.file] = "ALLOWED" /\ ~job.read_error)
    BY <2>1, JobTyped DEF CalmInv, BatchInv
  <2>3. /\ calm /\ pc' = "hash" /\ failed' = failed /\ ~active' /\ autocommit'
        /\ job' = [job EXCEPT !.known = job'.known]
    BY <1>4, <2>2, CheckpointStep
  <2>4. job'.file = job.file /\ job'.read_error = job.read_error
    BY <2>2, <2>3 DEF Job
  <2>5. ~failed' /\ ~BatchLost'
    BY <2>2, <2>3 DEF BatchLost
  <2> QED
    BY <1>s, <2>1, <2>2, <2>3, <2>4, <2>5 DEF Around
<1>5. CASE Conclude
  <2>1. /\ pc = "conclude" /\ job' = NoJob /\ pc' = "walk"
        /\ UNCHANGED <<disk, access, snap, interrupted>>
        /\ \/ KeepRows \/ SaveRow \/ (calm /\ BatchLost)
    BY <1>5, ConcludeStep DEF BatchInv
  <2>2. calm /\ failed' = failed /\ (UNCHANGED storeVars \/ ~autocommit')
    BY <2>1 DEF CalmInv, KeepRows, SaveRow
  <2>3. ~failed' /\ ~BatchLost'
    BY <2>1, <2>2 DEF CalmInv, BatchLost, storeVars
  <2> QED
    BY <1>s, <2>1, <2>2, <2>3
<1>6. CASE Exit \/ Crash
  BY <1>6, EndStep
<1>7. CASE StartRun
  <2>1. /\ ~interrupted' /\ ~failed' /\ job' = NoJob /\ pc' = "walk" /\ ~active /\ disk' = disk
        /\ UNCHANGED storeVars /\ snap' = [f \in Files |-> StatOf(f)]
    BY <1>7, StartStep
  <2>2. \A f \in Files : snap'[f] = StatOf(f)'
    BY <2>1 DEF StatOf
  <2> QED
    BY <2>1, <2>2 DEF CalmInv, BatchLost, storeVars
<1>8. CASE Environment \/ Interrupt \/ UNCHANGED vars
  <2>1. UNCHANGED vars
    BY <1>8, OutsideStep
  <2> QED
    BY <2>1 DEF vars, envVars, storeVars, flowVars, CalmInv, BatchLost, StatOf
<1> QED
  BY <1>1, <1>2, <1>3, <1>4, <1>5, <1>6, <1>7, <1>8, Steps

\* Appending the next element of a sequence to a prefix of it.
LEMMA LongerPrefix ==
    ASSUME NEW d \in Seq(Block), NEW s \in Seq(Block), PrefixOf(s, d), Len(s) < Len(d)
    PROVE  LET t == Append(s, d[Len(s) + 1]) IN Len(t) = Len(s) + 1 /\ PrefixOf(t, d)
<1> DEFINE t == Append(s, d[Len(s) + 1])
<1>1. Len(s) \in Nat /\ Len(d) \in Nat
  OBVIOUS
<1>2. d[Len(s) + 1] \in Block
  BY <1>1
<1>3. /\ Len(t) = Len(s) + 1 /\ t[Len(s) + 1] = d[Len(s) + 1]
      /\ \A i \in 1..Len(s) : t[i] = s[i]
  BY <1>2, AppendProperties
<1> HIDE DEF t
<1>4. ASSUME NEW i \in 1..Len(t) PROVE t[i] = d[i]
  <2>1. CASE i = Len(s) + 1
    BY <1>3, <2>1
  <2>2. CASE i # Len(s) + 1
    <3>1. i \in 1..Len(s)
      BY <1>1, <1>3, <2>2
    <3> QED
      BY <1>3, <3>1 DEF PrefixOf
  <2> QED
    BY <2>1, <2>2
<1>5. PrefixOf(t, d)
  BY <1>1, <1>3, <1>4 DEF PrefixOf
<1> QED
  BY <1>3, <1>5 DEF t

\* A prefix as long as the sequence is the sequence.
LEMMA WholePrefix ==
    ASSUME NEW d \in Seq(Block), NEW s \in Seq(Block), PrefixOf(s, d), Len(s) >= Len(d)
    PROVE  s = d
<1>1. Len(s) = Len(d)
  BY DEF PrefixOf
<1> QED
  BY <1>1, SeqEqual DEF PrefixOf

\* A file that is hashed from its beginning in an undisturbed run is hashed as it is.
LEMMA CalmHashingNext ==
    BatchInv /\ RunInv /\ CalmInv /\ CalmHashing /\ [Next]_vars => CalmHashing'
<1> SUFFICES ASSUME BatchInv, RunInv, CalmInv, CalmHashing, [Next]_vars,
                    calm', job' # NoJob, ~HasSavedOffset(job'.db)
             PROVE  CalmHashing'
  BY DEF CalmHashing
<1>1. CASE BatchDeadline \/ ReadRowFails \/ RememberFails \/ FinishScan
  BY <1>1, LoopStep DEF BatchInv
<1>2. ASSUME NEW f \in Files, Visit(f) PROVE CalmHashing'
  <2>1. /\ job' = NewJob(f) /\ disk' = disk
        /\ pc' = IF Rehash(f) THEN "open" ELSE "conclude"
    BY <1>2, VisitStep DEF BatchInv
  <2>2. job'.file = f /\ job'.db = working[f] /\ job'.rehash = Rehash(f)
        /\ job'.offset = (IF CanResume(f) THEN working[f].offset ELSE 0)
        /\ job'.mdContext = (IF CanResume(f) THEN working[f].mdContext ELSE << >>)
    BY <2>1 DEF NewJob
  <2>3. job'.offset = 0 /\ job'.mdContext = << >>
    BY <2>2 DEF CanResume
  <2>4. disk[f].data \in Seq(Block)
    BY DEF BatchInv, TypeOK, DiskFile
  <2>5. PrefixOf(<< >>, disk[f].data) /\ Len(<< >>) = 0
    BY <2>4 DEF PrefixOf
  <2> QED
    BY <2>1, <2>2, <2>3, <2>5 DEF CalmHashing, PrefixOf
<1>3. CASE Hash
  <2> DEFINE f == job.file
             data == disk[f].data
  <2>1. /\ pc \in {"open", "hash"} /\ pc' \in {"hash", "checkpoint", "conclude"} /\ job # NoJob
        /\ job'.file = f /\ job'.db = job.db /\ job'.rehash = job.rehash
        /\ UNCHANGED <<disk, opts>> /\ calm /\ ~HashReadError
    BY <1>3, HashStep DEF BatchInv, Around
  <2>2. job \in Job /\ job.mdContext \in Seq(Block) /\ job.offset \in Nat /\ f \in Files
    BY <2>1, JobTyped DEF BatchInv
  <2>3. data \in Seq(Block) /\ Len(data) \in Nat
    BY <2>2 DEF BatchInv, TypeOK, DiskFile
  <2>4. job.offset = Len(job.mdContext) /\ PrefixOf(job.mdContext, data)
    BY <2>1 DEF CalmHashing
  <2>5. ~interrupted /\ access[f] = "ALLOWED"
    BY <2>1 DEF CalmInv
  <2>6. PerformHashing' = PerformHashing
    BY <2>1 DEF PerformHashing
  <2> HIDE DEF data
  <2>7. CASE OpenFile
    <3>1. /\ job' = [job EXCEPT !.read_error = access[f] # "ALLOWED",
                                !.wrong_file_type = access[f] = "ALLOWED" /\ f \in Unseekable]
          /\ pc' = IF access[f] # "ALLOWED" \/ f \in Unseekable \/ ~PerformHashing
                   THEN "conclude" ELSE "hash"
      BY <2>7 DEF OpenFile
    <3>2. job'.offset = job.offset /\ job'.mdContext = job.mdContext
          /\ job'.wrong_file_type = (access[f] = "ALLOWED" /\ f \in Unseekable)
      BY <2>2, <3>1 DEF Job
    <3>3. /\ pc' \in {"open", "hash", "checkpoint"} =>
                job'.offset = Len(job'.mdContext) /\ PrefixOf(job'.mdContext, data)
          /\ ~(pc' = "conclude" /\ ~job'.wrong_file_type /\ PerformHashing)
      BY <2>4, <2>5, <3>1, <3>2
    <3> QED
      BY <2>1, <2>6, <3>3 DEF CalmHashing, PrefixOf, data
  <2>8. CASE StopHashing
    BY <2>5, <2>8 DEF StopHashing
  <2>9. CASE HashBlock
    <3>1. /\ pc' \in {"hash", "checkpoint"} /\ job.offset < Len(data)
          /\ job'.offset = job.offset + 1
          /\ job'.mdContext = Append(job.mdContext, data[job.offset + 1])
      BY <2>2, <2>9 DEF HashBlock, Job, data
    <3>2. /\ Len(job'.mdContext) = job.offset + 1
          /\ PrefixOf(job'.mdContext, data)
      BY <2>2, <2>3, <2>4, <3>1, LongerPrefix
    <3> QED
      BY <2>1, <3>1, <3>2 DEF CalmHashing, PrefixOf, data
  <2>10. CASE HashEof
    <3>1. pc' = "conclude" /\ job.offset >= Len(data) /\ job'.sha512 = job.mdContext
      BY <2>2, <2>10 DEF HashEof, Finalised, Job, data
    <3>2. job.mdContext = data
      BY <2>2, <2>3, <2>4, <3>1, WholePrefix
    <3> QED
      BY <2>1, <3>1, <3>2 DEF CalmHashing, data
  <2> QED
    BY <1>3, <2>1, <2>7, <2>8, <2>9, <2>10 DEF Hash
<1>4. CASE Checkpoint
  <2>1. /\ pc = "checkpoint" /\ job # NoJob /\ disk' = disk /\ pc' = "hash" /\ calm
        /\ job' = [job EXCEPT !.known = job'.known]
    BY <1>4, CheckpointStep DEF Around
  <2>2. job \in Job
    BY <2>1, JobTyped DEF BatchInv
  <2>3. job'.file = job.file /\ job'.db = job.db /\ job'.offset = job.offset
        /\ job'.mdContext = job.mdContext
    BY <2>1, <2>2 DEF Job
  <2> QED
    BY <2>1, <2>3 DEF CalmHashing, PrefixOf
<1>5. CASE Conclude
  BY <1>5, ConcludeStep DEF BatchInv
<1>6. CASE Exit \/ Crash
  BY <1>6, EndStep
<1>7. CASE StartRun
  BY <1>7, StartStep
<1>8. CASE Environment \/ Interrupt \/ UNCHANGED vars
  <2>1. UNCHANGED vars
    BY <1>8, OutsideStep
  <2> QED
    BY <2>1 DEF vars, envVars, storeVars, flowVars, CalmHashing, PerformHashing, PrefixOf
<1> QED
  BY <1>1, <1>2, <1>3, <1>4, <1>5, <1>6, <1>7, <1>8, Steps

\* The invariant of an undisturbed run.
CalmRun == BatchInv /\ RunInv /\ CalmInv /\ CalmHashing

\* It holds in every reachable state.
LEMMA CalmCorrect == Spec => []CalmRun
<1>1. Init => CalmInv /\ CalmHashing
  BY DEF Init, CalmInv, CalmHashing
<1> QED
  BY <1>1, CalmNext, CalmHashingNext, RunCorrect, PTL DEF Spec, CalmRun

\* What a step of an undisturbed run does to the files that the run is done with: it
\* adds at most one file, and leaves the rows of the others as they are.
LEMMA CalmStep ==
    ASSUME CalmRun, [Next]_vars, calm', pc # "idle", pc' # "idle"
    PROVE  /\ calm /\ UNCHANGED <<disk, access, opts, snap, sealed>>
           /\ \A g \in Files : Over(g) => Over(g)' /\ working'[g] = working[g]
           /\ \/ /\ \A g \in Files : Over(g)' => Over(g)
                 /\ violation' = violation
              \/ \E f \in Files :
                    /\ Visit(f) /\ working' = working
                    /\ LeaveFile(f) \/ ReportFile(f)
                    /\ Over(f)'
                    /\ \A g \in Files : Over(g)' => Over(g) \/ g = f
              \/ \E f \in Files :
                    /\ pc = "conclude" /\ job # NoJob /\ job.file = f
                    /\ KeepRows \/ SaveRow
                    /\ Over(f)'
                    /\ \A g \in Files : Over(g)' => Over(g) \/ g = f
<1> USE DEF CalmRun
<1> DEFINE Goal ==
           /\ calm /\ UNCHANGED <<disk, access, opts, snap, sealed>>
           /\ \A g \in Files : Over(g) => Over(g)' /\ working'[g] = working[g]
           /\ \/ /\ \A g \in Files : Over(g)' => Over(g)
                 /\ violation' = violation
              \/ \E f \in Files :
                    /\ Visit(f) /\ working' = working
                    /\ LeaveFile(f) \/ ReportFile(f)
                    /\ Over(f)'
                    /\ \A g \in Files : Over(g)' => Over(g) \/ g = f
              \/ \E f \in Files :
                    /\ pc = "conclude" /\ job # NoJob /\ job.file = f
                    /\ KeepRows \/ SaveRow
                    /\ Over(f)'
                    /\ \A g \in Files : Over(g)' => Over(g) \/ g = f
<1>1. CASE BatchDeadline \/ ReadRowFails \/ RememberFails \/ FinishScan
  <2>1. /\ job = NoJob /\ job' = NoJob /\ UNCHANGED Around /\ pending' = pending
        /\ calm /\ (failed \/ BatchLost \/ working' = working)
    BY <1>1, LoopStep DEF BatchInv
  <2>2. working' = working
    BY <2>1 DEF CalmInv
  <2> QED
    BY <2>1, <2>2 DEF Over, Around
<1>2. ASSUME NEW f \in Files, Visit(f) PROVE Goal
  <2>1. /\ job = NoJob /\ f \in pending /\ pending' = pending \ {f}
        /\ UNCHANGED <<disk, access, opts, snap, sealed, calm, working>>
        /\ \/ job' = NoJob /\ (LeaveFile(f) \/ ReportFile(f))
           \/ job' = NewJob(f) /\ violation' = violation
    BY <1>2, VisitStep DEF BatchInv, storeVars
  <2>2. NewJob(f).file = f
    BY DEF NewJob
  <2>3. \A g \in Files : Over(g) => Over(g)'
    BY <2>1, <2>2 DEF Over
  <2>4. \A g \in Files : Over(g)' => Over(g) \/ g = f
    BY <2>1 DEF Over
  <2>5. CASE job' = NoJob
    <3>1. Over(f)'
      BY <2>1, <2>5 DEF Over
    <3>2. CASE LeaveFile(f) \/ ReportFile(f)
      BY <1>2, <2>1, <2>3, <2>4, <3>1, <3>2
    <3>3. CASE job' = NewJob(f)
      BY <2>5, <3>3, NewJobType, JobAssumption DEF BatchInv
    <3> QED
      BY <2>1, <3>2, <3>3
  <2>6. CASE job' # NoJob
    <3>1. job'.file = f /\ violation' = violation
      BY <2>1, <2>2, <2>6
    <3>2. \A g \in Files : Over(g)' => Over(g)
      BY <2>1, <2>4, <2>6, <3>1 DEF Over
    <3> QED
      BY <2>1, <2>3, <3>1, <3>2
  <2> QED
    BY <2>5, <2>6
<1>3. CASE Hash
  <2>1. /\ job # NoJob /\ job' # NoJob /\ job'.file = job.file /\ UNCHANGED Around
        /\ UNCHANGED storeVars /\ pending' = pending /\ calm
    BY <1>3, HashStep DEF BatchInv
  <2> QED
    BY <2>1 DEF Over, Around, storeVars
<1>4. CASE Checkpoint
  <2>1. pc = "checkpoint" /\ job # NoJob /\ UNCHANGED Around /\ pending' = pending
    BY <1>4, CheckpointStep
  <2>2. calm => ~BatchLost
    BY <2>1 DEF CalmInv
  <2>3. /\ calm /\ job' # NoJob /\ job' = [job EXCEPT !.known = job'.known]
        /\ working' = Written(job) \/ working' = working
    BY <1>4, <2>2, CheckpointStep
  <2>4. job \in Job
    BY <2>1, JobTyped DEF BatchInv
  <2>5. job'.file = job.file
    BY <2>3, <2>4 DEF Job
  <2>6. \A g \in Files : Over(g) => working'[g] = working[g]
    BY <2>1, <2>3, WrittenRows DEF Over, BatchInv
  <2> QED
    BY <2>1, <2>3, <2>5, <2>6 DEF Over, Around
<1>5. CASE Conclude
  <2>1. /\ pc = "conclude" /\ job # NoJob /\ job' = NoJob /\ pending' = pending
        /\ UNCHANGED <<disk, access, opts, snap, sealed>>
        /\ \/ KeepRows \/ SaveRow \/ (calm /\ BatchLost)
    BY <1>5, ConcludeStep DEF BatchInv
  <2>2. calm /\ (KeepRows \/ SaveRow)
    BY <2>1 DEF CalmInv, KeepRows, SaveRow
  <2>3. \A g \in Files : Over(g) => working'[g] = working[g]
    BY <2>1, <2>2, WrittenRows DEF Over, BatchInv, KeepRows, SaveRow, storeVars
  <2>4. PICK f \in Files : f = job.file /\ f \notin pending
    BY <2>1, JobTyped DEF BatchInv, RunInv, Taken
  <2>5. Over(f)' /\ \A g \in Files : (Over(g) => Over(g)') /\ (Over(g)' => Over(g) \/ g = f)
    BY <2>1, <2>4 DEF Over
  <2> QED
    BY <2>1, <2>2, <2>3, <2>4, <2>5
<1>6. CASE Exit \/ Crash
  BY <1>6, EndStep
<1>7. CASE StartRun
  BY <1>7, StartStep
<1>8. CASE Environment \/ Interrupt \/ UNCHANGED vars
  <2>1. UNCHANGED vars
    BY <1>8, OutsideStep
  <2> QED
    BY <2>1 DEF vars, envVars, storeVars, flowVars, Over
<1> QED
  BY <1>1, <1>2, <1>3, <1>4, <1>5, <1>6, <1>7, <1>8, Steps

\* The end of a file in an undisturbed run: it was not dropped, its row is the one
\* it was taken up with unless that one had no final hash, and its hash is final.
LEMMA CalmConclude ==
    ASSUME CalmRun, calm, pc = "conclude", job # NoJob, KeepRows \/ SaveRow
    PROVE  /\ job.file \in Files /\ access[job.file] = "ALLOWED"
           /\ ~NothingToKeep(job) /\ ~job.read_error
           /\ working[job.file] = durable[job.file]
           /\ Locked(job.file) /\ Complete(job.db) => working[job.file] = job.db
           /\ Complete(working[job.file]) => working[job.file] = job.db
           /\ PerformHashing => job.offset = 0
           /\ SaveRow \/ (KeepRows /\ ReportMismatch)
                \/ (/\ KeepRows /\ ~ChecksumMismatch(job) /\ violation' = violation
                    /\ ~ShouldSave(job) \/ opts.dry_run)
<1> USE DEF CalmRun
<1>1. ~interrupted /\ access[job.file] = "ALLOWED" /\ ~job.read_error
  BY DEF CalmInv
<1>2. ~NothingToKeep(job)
  BY <1>1 DEF NothingToKeep
<1>3. SaveRow \/ (KeepRows /\ ReportMismatch)
        \/ (/\ KeepRows /\ ~ChecksumMismatch(job) /\ violation' = violation
            /\ ~ShouldSave(job) \/ opts.dry_run)
  BY <1>1, <1>2 DEF KeepRows, DropFile
<1>4. job.file \in Files /\ job.offset \in Nat
  BY JobTyped DEF BatchInv
<1>5. /\ working[job.file] = durable[job.file]
      /\ durable[job.file] = job.db \/ Checkpointed
  BY DEF RunInv, Advanced
<1>6. Locked(job.file) /\ Complete(job.db) => working[job.file] = job.db
  BY <1>5 DEF Checkpointed
<1>7. Complete(working[job.file]) => working[job.file] = job.db
  BY <1>5 DEF Checkpointed, Complete, HasSavedOffset
<1>8. PerformHashing => job.offset = 0
  BY <1>1, <1>4 DEF RunInv, Taken, Advanced
<1> QED
  BY <1>1, <1>2, <1>3, <1>4, <1>5, <1>6, <1>7, <1>8

\* A sealed file that was hashed again in an undisturbed run and whose digest was
\* not reported to differ has the content that the digest is of; and a difference
\* that is reported is one.
LEMMA CalmMismatch ==
    ASSUME CalmRun, calm, pc = "conclude", job # NoJob, KeepRows \/ SaveRow,
           Locked(job.file), Complete(job.db), opts.rehash_locked, PerformHashing,
           job.rehash, ~job.wrong_file_type
    PROVE  LET data == disk[job.file].data
           IN  /\ ~ChecksumMismatch(job) /\ job.db.sha512 # NoDigest => job.db.sha512 = data
               /\ ChecksumMismatch(job) => job.db.sha512 # data /\ data # << >>
<1> USE DEF CalmRun
<1> DEFINE data == disk[job.file].data
<1>1. ~job.read_error /\ job.offset = 0 /\ job.file \in Files
  BY CalmConclude
<1>2. ~HasSavedOffset(job.db)
  BY DEF Complete, HasSavedOffset
<1>3. job.sha512 = data
  BY <1>2 DEF CalmHashing
<1>4. ChecksumMismatch(job) <=> data # LoadedDigest(job.db)
  BY <1>1, <1>2, <1>3 DEF ChecksumMismatch, LockChecksumReady, Complete
<1>5. snap[job.file].size # 0 /\ snap[job.file].size = Len(data)
  <2>1. snap[job.file] = StatOf(job.file)
    BY <1>1 DEF CalmInv
  <2>2. snap[job.file].size # 0
    BY DEF RunInv, Taken
  <2> QED
    BY <2>1, <2>2 DEF StatOf
<1>6. data \in Seq(Block)
  BY <1>1 DEF BatchInv, TypeOK, DiskFile
<1>7. data # << >>
  BY <1>5, <1>6, EmptySeq
<1>8. data # LoadedDigest(job.db) => job.db.sha512 # data
  BY <1>6, DigestAssumption DEF LoadedDigest, Complete
<1>9. job.db.sha512 # NoDigest => LoadedDigest(job.db) = job.db.sha512
  BY DEF LoadedDigest, Complete
<1> QED
  BY <1>4, <1>7, <1>8, <1>9

-----------------------------------------------------------------------------
\* A step of an undisturbed run leaves no file behind without a complete row.
LEMMA CompleteNext == CalmRun /\ CompleteSoFar /\ [Next]_vars => CompleteSoFar'
<1> SUFFICES ASSUME CalmRun, CompleteSoFar, [Next]_vars, calm', pc' # "idle",
                    ~opts'.dry_run, NEW f \in Files, Over(f)', access'[f] = "ALLOWED",
                    ~IgnoredFile(f)'
             PROVE  /\ Complete(working'[f])
                    /\ Locked(f)' \/ Identical(working'[f], snap'[f])
  BY DEF CompleteSoFar
<1> USE DEF CalmRun
<1>1. CASE pc = "idle"
  <2>1. CASE StartRun
    <3>1. access[f] = "NOT_FOUND"
      BY <2>1, StartStep DEF Over
    <3> QED
      BY <2>1, <3>1, StartStep
  <2>2. CASE ~StartRun
    BY <1>1, <2>2, Steps, LoopStep, VisitStep, HashStep, CheckpointStep, ConcludeStep, EndStep,
       OutsideStep DEF BatchInv
  <2> QED
    BY <2>1, <2>2
<1>2. CASE pc # "idle"
  <2>1. /\ calm /\ UNCHANGED <<disk, access, opts, snap, sealed>>
        /\ Over(f) => working'[f] = working[f]
    BY <1>2, CalmStep
  <2>2. /\ Locked(f)' = Locked(f) /\ IgnoredFile(f)' = IgnoredFile(f)
        /\ ~opts.dry_run /\ PerformHashing
    BY <2>1 DEF Locked, IgnoredFile, PerformHashing
  <2>3. CASE Over(f)
    BY <1>2, <2>1, <2>2, <2>3 DEF CompleteSoFar
  <2>4. CASE Visit(f) /\ working' = working /\ (LeaveFile(f) \/ ReportFile(f))
    <3>1. Known(working[f]) => working[f].offset \in Nat
      BY RowTyped DEF BatchInv, TypeOK
    <3>2. UpToDate(f) \/ LockChecksumViolation(f)
      BY <2>1, <2>2, <2>4 DEF LeaveFile, ReportFile, LockedUnavailable
    <3> QED
      BY <2>1, <2>2, <2>4, <3>1, <3>2 DEF UpToDate, LockChecksumViolation, UnchangedAndComplete,
         LockedDriftOnly, Ready, LockChecksumReady, Identical, Complete, HasSavedOffset
  <2>5. CASE pc = "conclude" /\ job # NoJob /\ job.file = f /\ (KeepRows \/ SaveRow)
    <3>1. /\ Locked(f) /\ Complete(job.db) => working[f] = job.db
          /\ job.offset = 0
      BY <2>1, <2>2, <2>5, CalmConclude
    <3>2. job.db \in Row \cup {NoRow} /\ (Known(job.db) => job.db.offset \in Nat)
      BY <2>5, JobTyped, RowTyped DEF BatchInv
    <3>3. CASE SaveRow
      <4>1. working'[f] = RecordOf(job)
        BY <2>5, <3>3, WrittenRows DEF SaveRow, BatchInv
      <4>2. /\ Known(working'[f]) /\ working'[f].offset = 0 /\ working'[f].stat = snap[f]
        BY <2>5, <3>1, <4>1, RecordShaped
      <4>3. snap[f] \in CmpctStat
        BY DEF BatchInv, TypeOK
      <4> QED
        BY <2>1, <4>2, <4>3, SameIsIdentical DEF Complete, Identical
    <3>4. CASE KeepRows /\ ReportMismatch
      <4>1. Locked(f) /\ Complete(job.db)
        BY <2>5, <3>2, <3>4 DEF ReportMismatch, ChecksumMismatch, LockChecksumReady,
           Complete, HasSavedOffset
      <4>2. working' = working
        BY <3>4 DEF KeepRows, storeVars
      <4> QED
        BY <2>2, <3>1, <4>1, <4>2
    <3>5. CASE KeepRows /\ ~ShouldSave(job)
      <4>1. working' = working
        BY <3>5 DEF KeepRows, storeVars
      <4>2. Complete(job.db)
        BY <2>5, <3>1, <3>2, <3>5 DEF ShouldSave, Complete, HasSavedOffset
      <4>3. Locked(f)
        BY <2>5, <3>5, <4>2 DEF ShouldSave, RunInv, Taken
      <4> QED
        BY <2>2, <3>1, <4>1, <4>2, <4>3
    <3> QED
      BY <2>1, <2>2, <2>5, <3>3, <3>4, <3>5, CalmConclude
  <2> QED
    BY <1>2, <2>3, <2>4, <2>5, CalmStep
<1> QED
  BY <1>1, <1>2

\* An undisturbed run is complete: every file that it could read and was not told to
\* ignore has a complete row with its present metadata, or the row that
\* --lock-checksum seals, however much an earlier run left undone.
THEOREM CalmRunsComplete == Spec => []CalmRunIsComplete
<1>1. Init => CompleteSoFar
  BY DEF Init, CompleteSoFar
<1>2. CalmRun /\ CompleteSoFar => CalmRunIsComplete
  <2> SUFFICES ASSUME CalmRun, CompleteSoFar, pc = "close", calm, ~opts.dry_run,
                      NEW f \in Files, access[f] = "ALLOWED", ~IgnoredFile(f)
               PROVE  /\ Complete(durable[f])
                      /\ Locked(f) \/ Identical(durable[f], StatOf(f))
    BY DEF CalmRunIsComplete
  <2>1. pending = {} /\ snap[f] = StatOf(f)
    BY DEF CalmRun, CalmInv
  <2>2. job = NoJob /\ working = durable
    BY DEF CalmRun, BatchInv, TypeOK, StoreInv
  <2> QED
    BY <2>1, <2>2 DEF CompleteSoFar, Over
<1> QED
  BY <1>1, <1>2, CompleteNext, CalmCorrect, PTL DEF Spec

-----------------------------------------------------------------------------
\* A file that was sealed when an undisturbed run began still is.
LEMMA SealedHoldsNext ==
    CalmRun /\ SealInv /\ SealedHolds /\ [Next]_vars => SealedHolds'
<1> SUFFICES ASSUME CalmRun, SealInv, SealedHolds, [Next]_vars, calm', pc' # "idle",
                    NEW f \in sealed' \ Unseekable
             PROVE  Locked(f)' /\ HoldsDigest(durable'[f])
  BY DEF SealedHolds
<1> USE DEF CalmRun
<1>f. f \in Files
  BY TypeNext DEF BatchInv, TypeOK
<1>1. CASE StartRun
  BY <1>1, <1>f, StartStep DEF Locked, storeVars
<1>2. CASE ~StartRun
  <2>1. pc # "idle"
    BY <1>2, Steps, LoopStep, VisitStep, HashStep, CheckpointStep, ConcludeStep, EndStep,
       OutsideStep DEF BatchInv
  <2>2. calm /\ opts' = opts /\ sealed' = sealed
    BY <2>1, CalmStep
  <2>3. Locked(f) /\ HoldsDigest(durable[f]) /\ ~interrupted
    BY <1>f, <2>1, <2>2 DEF SealedHolds, CalmInv
  <2>4. Known(durable'[f]) /\ durable'[f].sha512 = durable[f].sha512
    BY <1>f, <2>3, SealNext DEF Sealed
  <2>5. RunInv'
    BY RunNext
  <2> QED
    BY <1>f, <2>2, <2>3, <2>4, <2>5 DEF RunInv, Rows, Shaped, HoldsDigest, Complete, Locked
<1> QED
  BY <1>1, <1>2

\* A sealed row of this connection is the durable one, or one with the same digest.
LEMMA SealedWorking ==
    ASSUME CalmRun, SealInv, SealedHolds, calm, pc # "idle", NEW f \in sealed \ Unseekable
    PROVE  Locked(f) /\ HoldsDigest(working[f]) /\ Ready(f)
<1> USE DEF CalmRun
<1>1. f \in Files /\ Locked(f) /\ HoldsDigest(durable[f]) /\ ~interrupted
  BY DEF SealedHolds, CalmInv, BatchInv, TypeOK
<1>2. Known(working[f]) /\ working[f].sha512 = durable[f].sha512
  BY <1>1 DEF SealInv, Sealed
<1>3. working[f].offset = 0
  BY <1>1, <1>2 DEF RunInv, Rows, Shaped, HoldsDigest
<1> QED
  BY <1>1, <1>2, <1>3 DEF HoldsDigest, Complete, Ready, LockChecksumReady, HasSavedOffset

\* A step of an undisturbed run passes no sealed file without looking at it.
LEMMA ReportedNext ==
    CalmRun /\ SealInv /\ SealedHolds /\ ReportedSoFar /\ [Next]_vars => ReportedSoFar'
<1> SUFFICES ASSUME CalmRun, SealInv, SealedHolds, ReportedSoFar, [Next]_vars, calm',
                    pc' # "idle", PerformHashing', ~violation',
                    NEW f \in sealed' \ Unseekable, Over(f)'
             PROVE  /\ access'[f] # "NOT_FOUND" => access'[f] = "ALLOWED"
                    /\ access'[f] = "ALLOWED" =>
                          /\ working'[f].stat.size = snap'[f].size
                          /\ opts'.rehash_locked => working'[f].sha512 = disk'[f].data
  BY DEF ReportedSoFar
<1> USE DEF CalmRun
<1>f. f \in Files
  BY TypeNext DEF BatchInv, TypeOK
<1>1. CASE pc = "idle"
  <2>1. CASE StartRun
    <3>1. access[f] = "NOT_FOUND"
      BY <1>f, <2>1, StartStep DEF Over
    <3> QED
      BY <2>1, <3>1, StartStep
  <2>2. CASE ~StartRun
    BY <1>1, <2>2, Steps, LoopStep, VisitStep, HashStep, CheckpointStep, ConcludeStep, EndStep,
       OutsideStep DEF BatchInv
  <2> QED
    BY <2>1, <2>2
<1>2. CASE pc # "idle"
  <2>1. /\ calm /\ UNCHANGED <<disk, access, opts, snap, sealed>>
        /\ Over(f) => working'[f] = working[f]
    BY <1>f, <1>2, CalmStep
  <2>2. Locked(f) /\ HoldsDigest(working[f]) /\ Ready(f) /\ PerformHashing
    BY <1>2, <2>1, SealedWorking DEF PerformHashing
  <2>3. CASE Over(f) /\ ~violation
    BY <1>2, <2>1, <2>2, <2>3 DEF ReportedSoFar
  <2>4. CASE Visit(f) /\ working' = working /\ (LeaveFile(f) \/ ReportFile(f))
    <3>1. LeaveFile(f)
      BY <2>4 DEF ReportFile
    <3>2. access[f] = "ALLOWED"
      BY <2>2, <3>1 DEF LeaveFile, LockedUnavailable, HoldsDigest, Complete
    <3>3. UpToDate(f)
      BY <2>2, <3>1, <3>2 DEF LeaveFile, IgnoredFile
    <3>4. ~opts.rehash_locked
      BY <2>2, <3>3 DEF UpToDate, LockedDriftOnly
    <3>5. working[f].stat.size = snap[f].size
      BY <3>3, IdenticalSize DEF UpToDate, UnchangedAndComplete, LockedDriftOnly, SizeChanged,
         Changes
    <3> QED
      BY <2>1, <2>4, <3>2, <3>4, <3>5
  <2>5. CASE pc = "conclude" /\ job # NoJob /\ job.file = f /\ (KeepRows \/ SaveRow)
    <3>1. /\ working[f] = job.db /\ durable[f] = job.db /\ access[f] = "ALLOWED"
      BY <2>1, <2>2, <2>5, CalmConclude DEF HoldsDigest
    <3>2. Complete(job.db) /\ job.db.sha512 # NoDigest
      BY <2>2, <3>1 DEF HoldsDigest
    <3>3. job.db.stat.size = snap[f].size /\ snap[f].size # 0
      BY <2>2, <2>5, <3>2 DEF RunInv, Taken, Shaped, Complete
    <3>4. ~ChecksumMismatch(job)
      BY <2>1, <2>5, CalmConclude DEF ReportMismatch, SaveRow
    <3>5. opts.rehash_locked => job.db.sha512 = disk[f].data
      <4> SUFFICES ASSUME opts.rehash_locked PROVE job.db.sha512 = disk[f].data
        OBVIOUS
      <4>1. job.rehash /\ ~job.wrong_file_type
        BY <2>2, <2>5, <3>2, <3>3 DEF RunInv, Taken, Advanced
      <4> QED
        BY <2>1, <2>2, <2>5, <3>2, <3>4, <4>1, CalmMismatch
    <3>6. CASE KeepRows
      BY <2>1, <3>1, <3>3, <3>5, <3>6 DEF KeepRows, storeVars
    <3>7. CASE SaveRow
      <4>1. working'[f] = RecordOf(job)
        BY <2>5, <3>7, WrittenRows DEF SaveRow, BatchInv
      <4>2. working'[f].stat = snap[f]
        BY <2>5, <4>1, RecordShaped
      <4>3. working'[f].sha512 = job.db.sha512
        BY <2>1, <2>2, <2>5, <3>1, <3>7, <4>1, RecordSeal DEF Sealed, CalmInv
      <4> QED
        BY <2>1, <3>1, <3>5, <4>2, <4>3
    <3> QED
      BY <2>5, <3>6, <3>7
  <2>6. violation => violation'
    BY <1>2, CalmStep, CalmConclude DEF LeaveFile, ReportFile, KeepRows, SaveRow, ReportMismatch
  <2> QED
    BY <1>f, <1>2, <2>3, <2>4, <2>5, <2>6, CalmStep
<1> QED
  BY <1>1, <1>2

\* An undisturbed run that reports no violation has found the protected data in
\* place: no sealed file has become unavailable or has another size, and, where
\* --rehash-locked read it, none has another content.
THEOREM CorruptionComesToLight == Spec => []CorruptionIsReported
<1>1. Init => SealInv /\ SealedHolds /\ ReportedSoFar
  BY DEF Init, SealInv, Sealed, HoldsDigest, Complete, SealedHolds, ReportedSoFar
<1>2. CalmRun /\ SealInv /\ SealedHolds /\ ReportedSoFar => CorruptionIsReported
  <2> SUFFICES ASSUME CalmRun, SealInv, SealedHolds, ReportedSoFar, pc = "close", calm,
                      PerformHashing, ~violation, NEW f \in sealed \ Unseekable
               PROVE  /\ access[f] # "NOT_FOUND" => access[f] = "ALLOWED"
                      /\ access[f] = "ALLOWED" =>
                            /\ durable[f].stat.size = Len(disk[f].data)
                            /\ opts.rehash_locked => durable[f].sha512 = disk[f].data
    BY DEF CorruptionIsReported
  <2>1. f \in Files /\ job = NoJob /\ working = durable
    BY DEF CalmRun, BatchInv, TypeOK, StoreInv
  <2>2. pending = {} /\ snap[f] = StatOf(f)
    BY <2>1 DEF CalmRun, CalmInv
  <2>3. snap[f].size = Len(disk[f].data)
    BY <2>2 DEF StatOf
  <2> QED
    BY <2>1, <2>2, <2>3 DEF ReportedSoFar, Over
<1>3. CalmRun /\ SealInv /\ [Next]_vars => SealInv'
  BY SealNext DEF CalmRun
<1> QED
  BY <1>1, <1>2, <1>3, SealedHoldsNext, ReportedNext, CalmCorrect, PTL DEF Spec

-----------------------------------------------------------------------------
\* A step of an undisturbed run raises the alarm only over a file that differs, and
\* no later step makes the difference disappear.
LEMMA CausedNext == CalmRun /\ CausedSoFar /\ [Next]_vars => CausedSoFar'
<1> SUFFICES ASSUME CalmRun, CausedSoFar, [Next]_vars, calm', pc' # "idle", violation',
                    opts'.rehash_locked => PerformHashing'
             PROVE  \E f \in opts'.locked :
                       /\ Over(f)' /\ Known(working'[f])
                       /\ access'[f] # "ALLOWED" \/ Differs(working[f], f)'
  BY DEF CausedSoFar
<1> USE DEF CalmRun
<1>1. CASE pc = "idle"
  BY <1>1, Steps, StartStep, LoopStep, VisitStep, HashStep, CheckpointStep, ConcludeStep,
     EndStep, OutsideStep DEF BatchInv
<1>2. CASE pc # "idle"
  <2>1. calm /\ UNCHANGED <<disk, access, opts, snap, sealed>>
    BY <1>2, CalmStep
  <2>2. opts.rehash_locked => PerformHashing
    BY <2>1 DEF PerformHashing
  <2>3. opts.locked \subseteq Files
    BY DEF BatchInv, TypeOK, Options
  <2>4. CASE violation
    <3>1. PICK f \in opts.locked :
             /\ Over(f) /\ Known(working[f])
             /\ access[f] # "ALLOWED" \/ Differs(working[f], f)
      BY <1>2, <2>1, <2>2, <2>4 DEF CausedSoFar
    <3>2. Over(f)' /\ working'[f] = working[f]
      BY <1>2, <2>3, <3>1, CalmStep
    <3>3. Differs(working[f], f)' <=> Differs(working[f], f)
      BY <2>1, <3>2 DEF Differs
    <3> QED
      BY <2>1, <3>1, <3>2, <3>3
  <2>5. ASSUME NEW f \in Files, Visit(f), working' = working, ReportFile(f), Over(f)'
        PROVE  \E g \in opts'.locked :
                  /\ Over(g)' /\ Known(working'[g])
                  /\ access'[g] # "ALLOWED" \/ Differs(working[g], g)'
    <3>1. CASE LockedUnavailable(f)
      BY <2>1, <2>5, <3>1 DEF LockedUnavailable, Locked
    <3>2. CASE LockChecksumViolation(f)
      <4>1. Locked(f) /\ Complete(working[f])
        <5>1. Known(working[f]) => working[f].offset \in Nat
          BY RowTyped DEF BatchInv, TypeOK
        <5> QED
          BY <3>2, <5>1 DEF LockChecksumViolation, Ready, LockChecksumReady, HasSavedOffset,
             Complete
      <4>2. Changes(working[f].stat, snap[f]) # {}
        BY <3>2 DEF LockChecksumViolation, SizeChanged, TimestampsChanged
      <4>3. Differs(working[f], f)'
        BY <2>1, <2>5, <4>1, <4>2 DEF Differs
      <4> QED
        BY <2>1, <2>5, <4>1, <4>3 DEF Locked, Complete
    <3> QED
      BY <2>5, <3>1, <3>2 DEF ReportFile
  <2>6. ASSUME NEW f \in Files, pc = "conclude", job # NoJob, job.file = f, KeepRows,
               ChecksumMismatch(job), Over(f)'
        PROVE  \E g \in opts'.locked :
                  /\ Over(g)' /\ Known(working'[g])
                  /\ access'[g] # "ALLOWED" \/ Differs(working[g], g)'
    <3>1. job.db \in Row \cup {NoRow} /\ (Known(job.db) => job.db.offset \in Nat)
      BY <2>6, JobTyped, RowTyped DEF BatchInv
    <3>2. /\ Locked(f) /\ Complete(job.db) /\ opts.rehash_locked /\ job.rehash
          /\ ~job.wrong_file_type
      BY <2>6, <3>1 DEF ChecksumMismatch, LockChecksumReady, Complete, HasSavedOffset
    <3>3. PerformHashing
      BY <2>2, <3>2
    <3>4. job.db.sha512 # disk[f].data /\ disk[f].data # << >>
      BY <2>1, <2>6, <3>2, <3>3, CalmMismatch
    <3>5. working[f] = job.db /\ working' = working
      BY <2>1, <2>6, <3>2, CalmConclude DEF KeepRows, storeVars
    <3>6. Differs(working[f], f)'
      BY <2>1, <3>2, <3>4, <3>5 DEF Differs
    <3> QED
      BY <2>1, <2>6, <3>2, <3>5, <3>6 DEF Locked, Complete
  <2>7. CASE ~violation
    <3>1. ~UNCHANGED violation
      BY <2>7
    <3>2. CASE \E f \in Files : Visit(f) /\ working' = working
                                /\ (LeaveFile(f) \/ ReportFile(f)) /\ Over(f)'
      BY <2>5, <3>1, <3>2 DEF LeaveFile
    <3>3. CASE \E f \in Files : pc = "conclude" /\ job # NoJob /\ job.file = f
                                /\ (KeepRows \/ SaveRow) /\ Over(f)'
      BY <2>1, <2>6, <3>1, <3>3, CalmConclude DEF SaveRow, ReportMismatch
    <3> QED
      BY <1>2, <3>1, <3>2, <3>3, CalmStep
  <2> QED
    BY <2>4, <2>7
<1> QED
  BY <1>1, <1>2

\* A corruption warning of an undisturbed run is no false alarm: a locked file of
\* the database is unavailable, or differs from its row in metadata or in content.
THEOREM AlarmsHaveCauses == Spec => []AlarmHasCause
<1>1. Init => CausedSoFar
  BY DEF Init, CausedSoFar
<1>2. CalmRun /\ CausedSoFar => AlarmHasCause
  <2> SUFFICES ASSUME CalmRun, CausedSoFar, pc = "close", calm, violation,
                      opts.rehash_locked => PerformHashing
               PROVE  \E f \in opts.locked :
                        /\ Known(durable[f])
                        /\ \/ access[f] # "ALLOWED"
                           \/ /\ Complete(durable[f])
                              /\ \/ Changes(durable[f].stat, StatOf(f)) # {}
                                 \/ durable[f].sha512 # IF disk[f].data = << >> THEN NoDigest
                                                        ELSE disk[f].data
    BY DEF AlarmHasCause
  <2>1. working = durable /\ opts.locked \subseteq Files
    BY DEF CalmRun, BatchInv, TypeOK, StoreInv, Options
  <2>2. PICK f \in opts.locked : /\ Known(working[f])
                                 /\ access[f] # "ALLOWED" \/ Differs(working[f], f)
    BY DEF CausedSoFar
  <2>3. snap[f] = StatOf(f)
    BY <2>1 DEF CalmRun, CalmInv
  <2> QED
    BY <2>1, <2>2, <2>3 DEF Differs
<1> QED
  BY <1>1, <1>2, CausedNext, CalmCorrect, PTL DEF Spec

=============================================================================
