----------------------- MODULE IdempotencyLedger_proofs -----------------------
(***************************************************************************)
(* What IdempotencyLedger guarantees for every set of processes and        *)
(* fingerprints and every number of retries, events and faults.            *)
(***************************************************************************)
EXTENDS IdempotencyLedger, LedgerReplay_proofs

\* A process inside a mutation knows which call it serves, and looks at a lock
\* file only while it has attempts left.
OpOK ==
    \A p \in Procs :
        /\ pc[p] \in Locked \cup Acquiring => op[p] \in Calls
        /\ pc[p] \in {"stat", "unlink"} => attempt[p] < LockRetries

TypeInv == TypeOK /\ OpOK

-----------------------------------------------------------------------------
(* Types.                                                                  *)

LEMMA WriteLineType ==
    ASSUME TypeOK, NEW e \in Event, NEW extent \in {"clean", "whole", "partial"},
           WriteLine(e, extent)
    PROVE  /\ snapshot' = snapshot
           /\ journal' \in Seq(Event)
           /\ tail' \in {"clean", "whole", "partial"}
           /\ glued' \in BOOLEAN
<1>1. journal \in Seq(Event)
  BY DEF TypeOK
<1>2. Append(journal, e) \in Seq(Event)
  BY <1>1
<1>3. SubSeq(journal, 1, Len(journal) - 1) \in Seq(Event)
  BY <1>1
<1>4. journal' \in {Append(journal, e), SubSeq(journal, 1, Len(journal) - 1), journal}
  BY DEF WriteLine
<1>5. journal' \in Seq(Event)
  BY <1>1, <1>2, <1>3, <1>4
<1>6. QED
  BY <1>5 DEF WriteLine, TypeOK

LEMMA LeaveType ==
    ASSUME TypeInv, NEW p \in Procs, NEW stage \in {"idle", "dead"}, Leave(p, stage)
    PROVE  /\ pc' \in [Procs -> Stages]
           /\ op' \in [Procs -> Calls \cup {NoOp}]
           /\ attempt' \in [Procs -> 0 .. LockRetries]
           /\ mem' \in [Procs -> Ledger]
           /\ count' \in [Procs -> Nat]
           /\ granted' \in [Procs -> BOOLEAN]
           /\ OpOK'
<1>1. EmptyLedger \in Ledger
  BY DEF EmptyLedger, Ledger, Statuses
<1>2. 0 \in 0 .. LockRetries
  BY ConstantsAssumption
<1>3. pc' \in [Procs -> Stages]
  BY DEF Leave, Goto, TypeInv, TypeOK, Stages
<1>4. OpOK'
  BY DEF Leave, Goto, TypeInv, TypeOK, OpOK, Stages, Locked, Acquiring
<1>5. QED
  BY <1>1, <1>2, <1>3, <1>4 DEF Leave, TypeInv, TypeOK

\* A step to another stage of the same call.
LEMMA GotoType ==
    ASSUME TypeInv, NEW p \in Procs, NEW stage \in Stages, Goto(p, stage), op' = op,
           \A q \in Procs \ {p} : attempt'[q] = attempt[q],
           stage \in Locked \cup Acquiring => pc[p] \in Locked \cup Acquiring,
           stage \in {"stat", "unlink"} => attempt'[p] < LockRetries
    PROVE  /\ pc' \in [Procs -> Stages]
           /\ op' \in [Procs -> Calls \cup {NoOp}]
           /\ OpOK'
BY DEF Goto, TypeInv, TypeOK, OpOK

LEMMA TypeInit == Init => TypeInv
<1> SUFFICES ASSUME Init PROVE TypeInv
  OBVIOUS
<1>1. EmptyLedger \in Ledger
  BY DEF EmptyLedger, Ledger, Statuses
<1>2. pc \in [Procs -> Stages] /\ OpOK
  BY DEF Init, Stages, OpOK, Locked, Acquiring
<1>3. 0 \in 0 .. LockRetries /\ 0 \in 0 .. MaxFaults
  BY ConstantsAssumption
<1>4. op \in [Procs -> Calls \cup {NoOp}]
  BY DEF Init
<1>5. journal \in Seq(Event)
  BY DEF Init
<1>6. QED
  BY <1>1, <1>2, <1>3, <1>4, <1>5 DEF Init, TypeInv, TypeOK

LEMMA TypeNext == TypeInv /\ [Next]_vars => TypeInv'
<1> SUFFICES ASSUME TypeInv, [Next]_vars
             PROVE  TypeInv'
  OBVIOUS
<1> USE ConstantsAssumption
<1>1. CASE AgeLock
  BY <1>1 DEF AgeLock, TypeInv, TypeOK, OpOK, LockFile, NoLock, fileVars, procVars
<1>2. ASSUME NEW p \in Procs, Call(p)
      PROVE  TypeInv'
  <2>1. pc' \in [Procs -> Stages]
    BY <1>2 DEF Call, Goto, TypeInv, TypeOK, Stages, Acquiring
  <2>2. op' \in [Procs -> Calls \cup {NoOp}] /\ OpOK'
    BY <1>2 DEF Call, Goto, TypeInv, TypeOK, OpOK
  <2>3. QED
    BY <1>2, <2>1, <2>2 DEF Call, TypeInv, TypeOK, fileVars
<1>3. ASSUME NEW p \in Procs, BeginPeek(p)
      PROVE  TypeInv'
  <2>1. "peekSnapshot" \in Stages \ (Locked \cup Acquiring)
    BY <1>3 DEF BeginPeek, Stages, Locked, Acquiring, Reading
  <2> QED
    BY <1>3, <2>1, GotoType DEF BeginPeek, TypeInv, TypeOK, fileVars
<1>4. ASSUME NEW p \in Procs, CreateLock(p)
      PROVE  TypeInv'
  <2>1. "snapshot" \in Stages \cap Locked /\ pc[p] \in Acquiring
    BY <1>4 DEF CreateLock, Stages, Locked, Acquiring, Reading
  <2>2. lock' \in LockFile
    BY <1>4 DEF CreateLock, LockFile
  <2>3. "snapshot" \notin {"stat", "unlink"}
    OBVIOUS
  <2> QED
    BY <1>4, <2>1, <2>2, <2>3, GotoType DEF CreateLock, TypeInv, TypeOK, fileVars
<1>5. ASSUME NEW p \in Procs, LeakLock(p)
      PROVE  TypeInv'
  <2>1. lock' \in LockFile
    BY <1>5 DEF LeakLock, LockFile
  <2>2. faults' \in 0 .. MaxFaults
    BY <1>5 DEF LeakLock, Fault, TypeInv, TypeOK
  <2> QED
    BY <1>5, <2>1, <2>2, LeaveType DEF LeakLock, TypeInv, TypeOK, fileVars
<1>6. ASSUME NEW p \in Procs, LockBusy(p)
      PROVE  TypeInv'
  <2>1. "stat" \in Stages /\ pc[p] \in Acquiring
    BY <1>6 DEF LockBusy, Stages, Acquiring
  <2> QED
    BY <1>6, <2>1, GotoType DEF LockBusy, TypeInv, TypeOK, fileVars
<1>7. ASSUME NEW p \in Procs, StatLock(p)
      PROVE  TypeInv'
  <2>1. /\ "open" \in Stages /\ "unlink" \in Stages
        /\ pc[p] \in Acquiring
        /\ attempt[p] < LockRetries
    BY <1>7 DEF StatLock, Stages, Acquiring, TypeInv, OpOK
  <2>2. CASE Goto(p, "unlink") /\ UNCHANGED attempt
    BY <1>7, <2>1, <2>2, GotoType DEF StatLock, TypeInv, TypeOK, fileVars
  <2>3. CASE Goto(p, "open") /\ attempt' = [attempt EXCEPT ![p] = @ + 1]
    <3>1. attempt' \in [Procs -> 0 .. LockRetries]
      BY <2>1, <2>3 DEF TypeInv, TypeOK
    <3>2. \A q \in Procs \ {p} : attempt'[q] = attempt[q]
      BY <2>3 DEF TypeInv, TypeOK
    <3> QED
      BY <1>7, <2>1, <2>3, <3>1, <3>2, GotoType DEF StatLock, TypeInv, TypeOK, fileVars
  <2> QED
    BY <1>7, <2>2, <2>3 DEF StatLock
<1>8. ASSUME NEW p \in Procs, UnlinkStale(p)
      PROVE  TypeInv'
  <2>1. "open" \in Stages /\ pc[p] \in Acquiring /\ attempt[p] < LockRetries
    BY <1>8 DEF UnlinkStale, Stages, Acquiring, TypeInv, OpOK
  <2>2. attempt' \in [Procs -> 0 .. LockRetries]
    BY <1>8, <2>1 DEF UnlinkStale, TypeInv, TypeOK
  <2>3. \A q \in Procs \ {p} : attempt'[q] = attempt[q]
    BY <1>8 DEF UnlinkStale, TypeInv, TypeOK
  <2>4. stolen' \in BOOLEAN
    BY <1>8 DEF UnlinkStale
  <2> QED
    BY <1>8, <2>1, <2>2, <2>3, <2>4, GotoType DEF UnlinkStale, TypeInv, TypeOK, fileVars
<1>9. ASSUME NEW p \in Procs, GiveUp(p)
      PROVE  TypeInv'
  BY <1>9, LeaveType DEF GiveUp, TypeInv, TypeOK, fileVars
<1>10. ASSUME NEW p \in Procs, ReleaseLock(p)
       PROVE  TypeInv'
  <2>1. stolen' \in BOOLEAN
    BY <1>10 DEF ReleaseLock
  <2>2. op[p].fp \in Fingerprints
    BY <1>10 DEF ReleaseLock, TypeInv, OpOK, Locked, Calls
  <2>3. claims' \in [Fingerprints -> Nat]
    BY <1>10, <2>2 DEF ReleaseLock, TypeInv, TypeOK
  <2> QED
    BY <1>10, <2>1, <2>3, LeaveType DEF ReleaseLock, TypeInv, TypeOK, fileVars
<1>11. ASSUME NEW p \in Procs, ReadSnapshot(p)
       PROVE  TypeInv'
  <2>1. /\ "journal" \in Stages /\ "peekJournal" \in Stages \ (Locked \cup Acquiring)
        /\ "snapshot" \in Locked
    BY DEF Stages, Locked, Acquiring, Reading
  <2>2. mem' \in [Procs -> Ledger]
    BY <1>11 DEF ReadSnapshot, TypeInv, TypeOK
  <2> QED
    BY <1>11, <2>1, <2>2, GotoType DEF ReadSnapshot, TypeInv, TypeOK, fileVars
<1>12. ASSUME NEW p \in Procs, ReadJournal(p)
       PROVE  TypeInv'
  <2>1. /\ "mutate" \in Stages /\ "peeked" \in Stages \ (Locked \cup Acquiring)
        /\ "journal" \in Locked
    BY DEF Stages, Locked, Acquiring, Reading
  <2>2. mem' \in [Procs -> Ledger]
    BY <1>12, ReplayType DEF ReadJournal, TypeInv, TypeOK
  <2>3. Len(journal) \in Nat
    BY DEF TypeInv, TypeOK
  <2> QED
    BY <1>12, <2>1, <2>2, <2>3, GotoType DEF ReadJournal, TypeInv, TypeOK, fileVars
<1>13. ASSUME NEW p \in Procs, EndPeek(p)
       PROVE  TypeInv'
  BY <1>13, LeaveType DEF EndPeek, TypeInv, TypeOK, fileVars
<1>14. ASSUME NEW p \in Procs, Refuse(p)
       PROVE  TypeInv'
  <2>1. "release" \in Stages /\ pc[p] \in Locked
    BY <1>14 DEF Refuse, Stages, Locked
  <2> QED
    BY <1>14, <2>1, GotoType DEF Refuse, TypeInv, TypeOK, fileVars
<1>15. ASSUME NEW p \in Procs, AppendEvent(p)
       PROVE  TypeInv'
  <2>1. "release" \in Stages /\ "compact" \in Stages /\ pc[p] \in Locked
    BY <1>15 DEF AppendEvent, Stages, Locked
  <2>2. op[p] \in Event
    BY <2>1 DEF TypeInv, OpOK, Calls, Event
  <2>3. /\ snapshot' = snapshot
        /\ journal' \in Seq(Event)
        /\ tail' \in {"clean", "whole", "partial"}
        /\ glued' \in BOOLEAN
    BY <1>15, <2>2, WriteLineType DEF AppendEvent, TypeInv
  <2>4. mem' \in [Procs -> Ledger]
    BY <1>15, <2>2, ApplyEventType DEF AppendEvent, TypeInv, TypeOK
  <2>5. granted' \in [Procs -> BOOLEAN] /\ count' \in [Procs -> Nat]
    BY <1>15 DEF AppendEvent, TypeInv, TypeOK
  <2> QED
    BY <1>15, <2>1, <2>3, <2>4, <2>5, GotoType DEF AppendEvent, TypeInv, TypeOK
<1>16. ASSUME NEW p \in Procs, AppendFails(p)
       PROVE  TypeInv'
  <2>1. "release" \in Stages /\ pc[p] \in Locked
    BY <1>16 DEF AppendFails, Stages, Locked
  <2>2. op[p] \in Event
    BY <2>1 DEF TypeInv, OpOK, Calls, Event
  <2>3. /\ snapshot' = snapshot
        /\ journal' \in Seq(Event)
        /\ tail' \in {"clean", "whole", "partial"}
        /\ glued' \in BOOLEAN
    BY <1>16, <2>2, WriteLineType DEF AppendFails, TypeInv, TypeOK, fileVars
  <2>4. faults' \in 0 .. MaxFaults
    BY <1>16 DEF AppendFails, Fault, TypeInv, TypeOK
  <2> QED
    BY <1>16, <2>1, <2>3, <2>4, GotoType DEF AppendFails, TypeInv, TypeOK
<1>17. ASSUME NEW p \in Procs, WriteSnapshot(p)
       PROVE  TypeInv'
  <2>1. "truncate" \in Stages /\ pc[p] \in Locked
    BY <1>17 DEF WriteSnapshot, Stages, Locked
  <2> QED
    BY <1>17, <2>1, GotoType DEF WriteSnapshot, TypeInv, TypeOK
<1>18. ASSUME NEW p \in Procs, TruncateJournal(p)
       PROVE  TypeInv'
  <2>1. "release" \in Stages /\ pc[p] \in Locked
    BY <1>18 DEF TruncateJournal, Stages, Locked
  <2>2. journal' \in Seq(Event)
    BY <1>18 DEF TruncateJournal
  <2> QED
    BY <1>18, <2>1, <2>2, GotoType DEF TruncateJournal, TypeInv, TypeOK
<1>19. ASSUME NEW p \in Procs, CompactionFails(p)
       PROVE  TypeInv'
  <2>1. "release" \in Stages /\ pc[p] \in Locked
    BY <1>19 DEF CompactionFails, Stages, Locked
  <2>2. faults' \in 0 .. MaxFaults
    BY <1>19 DEF CompactionFails, Fault, TypeInv, TypeOK
  <2> QED
    BY <1>19, <2>1, <2>2, GotoType DEF CompactionFails, TypeInv, TypeOK, fileVars
<1>20. ASSUME NEW p \in Procs, Crash(p)
       PROVE  TypeInv'
  <2>1. /\ snapshot' = snapshot
        /\ journal' \in Seq(Event)
        /\ tail' \in {"clean", "whole", "partial"}
        /\ glued' \in BOOLEAN
    <3>1. CASE UNCHANGED <<fileVars, glued>>
      BY <3>1 DEF fileVars, TypeInv, TypeOK
    <3>2. CASE /\ pc[p] = "mutate"
               /\ \E extent \in {"whole", "partial"} : WriteLine(op[p], extent)
      <4>1. op[p] \in Event
        BY <3>2 DEF TypeInv, OpOK, Calls, Event, Locked
      <4> QED
        BY <3>2, <4>1, WriteLineType DEF TypeInv
    <3> QED
      BY <1>20, <3>1, <3>2 DEF Crash
  <2> QED
    BY <1>20, <2>1, LeaveType DEF Crash, TypeInv, TypeOK
<1>21. CASE UNCHANGED vars
  BY <1>21 DEF vars, fileVars, procVars, TypeInv, TypeOK, OpOK
<1>22. ASSUME NEW p \in Procs, UnreadSnapshot(p)
       PROVE  TypeInv'
  <2>1. /\ "journal" \in Stages /\ "peekJournal" \in Stages \ (Locked \cup Acquiring)
        /\ "snapshot" \in Locked
    BY DEF Stages, Locked, Acquiring, Reading
  <2>2. mem' \in [Procs -> Ledger]
    BY <1>22 DEF UnreadSnapshot, TypeInv, TypeOK, EmptyLedger, Ledger, Statuses
  <2>3. faults' \in 0 .. MaxFaults
    BY <1>22 DEF UnreadSnapshot, Fault, TypeInv, TypeOK
  <2>4. misread' \in BOOLEAN
    BY <1>22 DEF UnreadSnapshot, TypeInv, TypeOK
  <2>5. \E stage \in {"journal", "peekJournal"} :
          Goto(p, stage) /\ (stage = "journal" => pc[p] = "snapshot")
    BY <1>22 DEF UnreadSnapshot
  <2>6. PICK stage \in {"journal", "peekJournal"} :
          Goto(p, stage) /\ (stage = "journal" => pc[p] = "snapshot")
    BY <2>5
  <2>7. pc' \in [Procs -> Stages] /\ op' \in [Procs -> Calls \cup {NoOp}] /\ OpOK'
    BY <1>22, <2>1, <2>6, GotoType DEF UnreadSnapshot
  <2> QED
    BY <1>22, <2>2, <2>3, <2>4, <2>7 DEF UnreadSnapshot, TypeInv, TypeOK, fileVars
<1>23. ASSUME NEW p \in Procs, UnreadJournal(p)
       PROVE  TypeInv'
  <2>1. faults' \in 0 .. MaxFaults
    BY <1>23 DEF UnreadJournal, Fault, TypeInv, TypeOK
  <2>2. CASE /\ pc[p] = "journal" /\ Goto(p, "release")
             /\ UNCHANGED <<op, attempt, mem, count, granted>>
    <3>1. "release" \in Stages /\ pc[p] \in Locked
      BY <2>2 DEF Stages, Locked
    <3> QED
      BY <1>23, <2>1, <2>2, <3>1, GotoType DEF UnreadJournal, TypeInv, TypeOK, fileVars
  <2>3. CASE Leave(p, "idle")
    BY <1>23, <2>1, <2>3, LeaveType DEF UnreadJournal, TypeInv, TypeOK, fileVars
  <2> QED
    BY <1>23, <2>2, <2>3 DEF UnreadJournal
<1> QED
  BY <1>1, <1>2, <1>3, <1>4, <1>5, <1>6, <1>7, <1>8, <1>9, <1>10, <1>11, <1>12,
     <1>13, <1>14, <1>15, <1>16, <1>17, <1>18, <1>19, <1>20, <1>21, <1>22, <1>23
     DEF Next, Run

\* TypeCorrect: every reachable state has the types TypeOK gives it; for the
\* lock, no process passes the attempts it is allowed.
THEOREM TypeCorrect == Spec => []TypeOK
<1>1. TypeInv => TypeOK
  BY DEF TypeInv
<1> QED
  BY <1>1, TypeInit, TypeNext, PTL DEF Spec

-----------------------------------------------------------------------------
(* The lock.                                                               *)

\* While no lock file was stolen, whoever is inside a mutation owns it.
OwnerInv ==
    ~stolen => \A p \in Procs : pc[p] \in Locked => lock.there /\ lock.owner = p

LEMMA OwnerNext == TypeInv /\ OwnerInv /\ [Next]_vars => OwnerInv'
<1> SUFFICES ASSUME TypeInv, OwnerInv, [Next]_vars, ~stolen',
                    NEW q \in Procs, pc'[q] \in Locked
             PROVE  lock'.there /\ lock'.owner = q
  BY DEF OwnerInv
<1> DEFINE Goal == lock'.there /\ lock'.owner = q
<1> USE DEF TypeInv, TypeOK
<1>1. CASE AgeLock
  <2>1. pc'[q] = pc[q] /\ ~stolen
    BY <1>1 DEF AgeLock, procVars
  <2>2. lock.there /\ lock.owner = q
    BY <2>1 DEF OwnerInv
  <2>3. lock \in LockFile
    BY <2>2 DEF NoLock
  <2> QED
    BY <1>1, <2>2, <2>3 DEF AgeLock, LockFile
\* A step that leaves the lock file alone, and does not enter a mutation.
<1>2. ASSUME lock' = lock, stolen' = stolen,
             pc[q] \in Locked
      PROVE  Goal
  BY <1>2 DEF OwnerInv
<1>3. ASSUME NEW p \in Procs, Call(p) \/ BeginPeek(p) \/ LockBusy(p) \/ StatLock(p)
                                \/ GiveUp(p) \/ ReadSnapshot(p) \/ ReadJournal(p) \/ EndPeek(p)
                                \/ UnreadSnapshot(p) \/ UnreadJournal(p)
      PROVE  Goal
  <2>1. lock' = lock /\ stolen' = stolen
    BY <1>3 DEF Call, BeginPeek, LockBusy, StatLock, GiveUp, ReadSnapshot, ReadJournal, EndPeek,
                UnreadSnapshot, UnreadJournal
  <2>2. pc[q] \in Locked
    BY <1>3 DEF Call, BeginPeek, LockBusy, StatLock, GiveUp, ReadSnapshot, ReadJournal, EndPeek,
                UnreadSnapshot, UnreadJournal, Goto, Leave, Locked
  <2> QED
    BY <1>2, <2>1, <2>2
<1>4. ASSUME NEW p \in Procs, Refuse(p) \/ AppendEvent(p) \/ AppendFails(p) \/ WriteSnapshot(p)
                                \/ TruncateJournal(p) \/ CompactionFails(p) \/ Crash(p)
      PROVE  Goal
  <2>1. lock' = lock /\ stolen' = stolen
    BY <1>4 DEF Refuse, AppendEvent, AppendFails, WriteSnapshot, TruncateJournal,
                CompactionFails, Crash
  <2>2. pc[q] \in Locked
    BY <1>4 DEF Refuse, AppendEvent, AppendFails, WriteSnapshot, TruncateJournal,
                CompactionFails, Crash, Goto, Leave, Locked
  <2> QED
    BY <1>2, <2>1, <2>2
<1>5. ASSUME NEW p \in Procs, CreateLock(p)
      PROVE  Goal
  <2>1. q # p => pc[q] \in Locked
    BY <1>5 DEF CreateLock, Goto
  <2>2. ~lock.there /\ ~stolen
    BY <1>5 DEF CreateLock
  <2>3. q = p
    BY <2>1, <2>2 DEF OwnerInv
  <2> QED
    BY <1>5, <2>3 DEF CreateLock
<1>6. ASSUME NEW p \in Procs, LeakLock(p)
      PROVE  Goal
  <2>1. pc[q] \in Locked
    BY <1>6 DEF LeakLock, Leave, Goto, Locked
  <2> QED
    BY <1>6, <2>1 DEF LeakLock, OwnerInv
<1>7. ASSUME NEW p \in Procs, UnlinkStale(p)
      PROVE  Goal
  <2>1. pc[q] \in Locked
    BY <1>7 DEF UnlinkStale, Goto, Locked
  <2> QED
    BY <1>7, <2>1 DEF UnlinkStale, OwnerInv, Held
<1>8. ASSUME NEW p \in Procs, ReleaseLock(p)
      PROVE  Goal
  <2>1. pc[p] \in Locked /\ ~stolen
    BY <1>8 DEF ReleaseLock, Locked
  <2>2. q # p /\ pc[q] \in Locked
    BY <1>8 DEF ReleaseLock, Leave, Goto, Locked
  <2> QED
    BY <2>1, <2>2 DEF OwnerInv
<1>9. CASE UNCHANGED vars
  BY <1>2, <1>9 DEF vars, procVars
<1> QED
  BY <1>1, <1>3, <1>4, <1>5, <1>6, <1>7, <1>8, <1>9 DEF Next, Run

\* LockWorks: MutualExclusion holds in every reachable state.
THEOREM LockWorks == Spec => []MutualExclusion
<1>1. Init => OwnerInv
  BY DEF Init, OwnerInv, Locked
<1>2. OwnerInv => MutualExclusion
  BY DEF OwnerInv, MutualExclusion
<1> QED
  BY <1>1, <1>2, TypeInit, TypeNext, OwnerNext, PTL DEF Spec

-----------------------------------------------------------------------------
(* The files.                                                              *)

\* What the state of one process owes to the files, stage by stage.  A process
\* inside a mutation has in memory what is on disk; one that will answer
\* "claimed" is the first to do so.
ProcOK(p) ==
    /\ pc[p] = "journal" => mem[p] = snapshot
    /\ pc[p] \in {"mutate", "compact", "truncate"} => mem[p] = OnDisk
    /\ pc[p] = "truncate" => snapshot = OnDisk
    /\ granted[p] => /\ pc[p] \in {"compact", "truncate", "release"}
                     /\ OnDisk[op[p].fp] # "none"
                     /\ claims[op[p].fp] = 0
    /\ pc[p] \in {"peekJournal", "peeked"} =>
          \A f \in Fingerprints : mem[p][f] # "none" => OnDisk[f] # "none"

ClaimOK(f) == claims[f] <= 1 /\ (claims[f] > 0 => OnDisk[f] # "none")

FilesInv ==
    Undisturbed => /\ \A p \in Procs : ProcOK(p)
                   /\ \A f \in Fingerprints : ClaimOK(f)

Inv == TypeInv /\ OwnerInv /\ FilesInv

OthersKeep(p) ==
    \A q \in Procs \ {p} : /\ pc'[q] = pc[q] /\ mem'[q] = mem[q]
                           /\ granted'[q] = granted[q] /\ op'[q] = op[q]

\* A step of p that touches neither the files nor the answers given.
LEMMA QuietStep ==
    ASSUME FilesInv, Undisturbed, NEW p \in Procs, OthersKeep(p),
           UNCHANGED <<snapshot, journal, claims>>, ProcOK(p)'
    PROVE  FilesInv'
<1>1. OnDisk' = OnDisk
  BY DEF OnDisk
<1>2. ASSUME NEW q \in Procs \ {p} PROVE ProcOK(q)'
  BY <1>1 DEF FilesInv, ProcOK, OthersKeep
<1>3. ASSUME NEW f \in Fingerprints PROVE ClaimOK(f)'
  BY <1>1 DEF FilesInv, ClaimOK
<1> QED
  BY <1>2, <1>3 DEF FilesInv

\* A step of p inside its mutation that loses nothing from disk.
LEMMA MutationStep ==
    ASSUME OwnerInv, FilesInv, Undisturbed, NEW p \in Procs, pc[p] \in Locked,
           OthersKeep(p), claims' = claims, ProcOK(p)',
           \A f \in Fingerprints : OnDisk[f] # "none" => OnDisk'[f] # "none"
    PROVE  FilesInv'
<1>1. ASSUME NEW q \in Procs \ {p} PROVE ProcOK(q)'
  <2>1. pc[q] \notin Locked
    BY DEF OwnerInv, Undisturbed
  <2>2. ~granted[q]
    BY <2>1 DEF FilesInv, ProcOK, Locked
  <2> QED
    BY <2>1, <2>2 DEF FilesInv, ProcOK, OthersKeep, Locked
<1>2. ASSUME NEW f \in Fingerprints PROVE ClaimOK(f)'
  BY DEF FilesInv, ClaimOK
<1> QED
  BY <1>1, <1>2 DEF FilesInv

LEMMA LeaveKeeps ==
    ASSUME TypeInv, NEW p \in Procs, NEW stage \in {"idle", "dead"}, Leave(p, stage)
    PROVE  OthersKeep(p) /\ ProcOK(p)'
BY DEF Leave, Goto, OthersKeep, ProcOK, TypeInv, TypeOK

LEMMA ApplyEventGrows ==
    ASSUME NEW ledger \in Ledger, NEW e \in Event, NEW f \in Fingerprints,
           ledger[f] # "none"
    PROVE  ApplyEvent(ledger, e)[f] # "none"
BY DEF ApplyEvent, Ledger, Event, Kinds

\* Appending to a terminated file is folding the event in; a line cut short
\* before its last brace is no event.
LEMMA WriteLineDisk ==
    ASSUME TypeOK, NEW e \in Event, NEW extent \in {"clean", "whole", "partial"},
           WriteLine(e, extent), ~glued'
    PROVE  /\ snapshot' = snapshot
           /\ extent # "partial" => OnDisk' = ApplyEvent(OnDisk, e)
           /\ extent = "partial" => OnDisk' = OnDisk
           /\ \A f \in Fingerprints : OnDisk[f] # "none" => OnDisk'[f] # "none"
<1>1. tail = "clean" /\ snapshot' = snapshot
  BY DEF WriteLine
<1>2. OnDisk \in Ledger
  BY ReplayType DEF OnDisk, TypeOK
<1>3. CASE extent # "partial"
  <2>1. journal' = Append(journal, e)
    BY <1>1, <1>3 DEF WriteLine
  <2>2. OnDisk' = ApplyEvent(OnDisk, e)
    BY <1>1, <2>1, ReplayAppend DEF OnDisk, TypeOK
  <2> QED
    BY <1>1, <1>2, <1>3, <2>2, ApplyEventGrows
<1>4. CASE extent = "partial"
  <2>1. journal' = journal
    BY <1>1, <1>4 DEF WriteLine
  <2>2. OnDisk' = OnDisk
    BY <1>1, <2>1 DEF OnDisk
  <2> QED
    BY <1>1, <1>4, <2>2
<1> QED
  BY <1>3, <1>4

LEMMA FilesInit == Init => FilesInv
<1> SUFFICES ASSUME Init PROVE FilesInv
  OBVIOUS
<1>1. \A p \in Procs : ProcOK(p)
  BY DEF Init, ProcOK
<1>2. ASSUME NEW f \in Fingerprints PROVE ClaimOK(f)
  <2>1. claims[f] = 0
    BY DEF Init
  <2> QED
    BY <2>1 DEF ClaimOK
<1> QED
  BY <1>1, <1>2 DEF FilesInv

LEMMA FilesNext == Inv /\ [Next]_vars => FilesInv'
<1> SUFFICES ASSUME Inv, [Next]_vars, Undisturbed'
             PROVE  FilesInv'
  BY DEF FilesInv
<1> USE DEF Inv
<1>0. Undisturbed
  <2>1. stolen => stolen'
    BY DEF Next, Run, vars, AgeLock, Call, BeginPeek, CreateLock, LeakLock, LockBusy, StatLock,
           UnlinkStale, GiveUp, ReleaseLock, ReadSnapshot, ReadJournal, UnreadSnapshot,
           UnreadJournal, EndPeek, Refuse,
           AppendEvent, AppendFails, WriteSnapshot, TruncateJournal, CompactionFails, Crash
  <2>2. glued => glued'
    BY DEF Next, Run, vars, AgeLock, Call, BeginPeek, CreateLock, LeakLock, LockBusy, StatLock,
           UnlinkStale, GiveUp, ReleaseLock, ReadSnapshot, ReadJournal, UnreadSnapshot,
           UnreadJournal, EndPeek, Refuse,
           AppendEvent, AppendFails, WriteSnapshot, TruncateJournal, CompactionFails, Crash,
           WriteLine
  <2>3. misread => misread'
    BY DEF Next, Run, vars, AgeLock, Call, BeginPeek, CreateLock, LeakLock, LockBusy, StatLock,
           UnlinkStale, GiveUp, ReleaseLock, ReadSnapshot, ReadJournal, UnreadSnapshot,
           UnreadJournal, EndPeek, Refuse, AppendEvent, AppendFails, WriteSnapshot,
           TruncateJournal, CompactionFails, Crash
  <2> QED
    BY <2>1, <2>2, <2>3 DEF Undisturbed
<1>1. CASE AgeLock \/ UNCHANGED vars
  <2>1. /\ UNCHANGED <<snapshot, journal, claims, pc, mem, granted, op>>
    BY <1>1 DEF AgeLock, vars, fileVars, procVars
  <2>2. OnDisk' = OnDisk
    BY <2>1 DEF OnDisk
  <2> QED
    BY <1>0, <2>1, <2>2 DEF FilesInv, ProcOK, ClaimOK
<1>2. ASSUME NEW p \in Procs, Call(p)
      PROVE  FilesInv'
  <2>1. ~granted[p]
    BY <1>0, <1>2 DEF FilesInv, ProcOK, Call
  <2>2. OthersKeep(p) /\ UNCHANGED <<snapshot, journal, claims>>
    BY <1>2 DEF Call, OthersKeep, Goto, TypeInv, TypeOK, fileVars
  <2>3. ProcOK(p)'
    BY <1>2, <2>1 DEF Call, ProcOK, Goto, TypeInv, TypeOK
  <2> QED
    BY <1>0, <2>2, <2>3, QuietStep
<1>3. ASSUME NEW p \in Procs, BeginPeek(p)
      PROVE  FilesInv'
  <2>1. ~granted[p]
    BY <1>0, <1>3 DEF FilesInv, ProcOK, BeginPeek
  <2>2. OthersKeep(p) /\ UNCHANGED <<snapshot, journal, claims>>
    BY <1>3 DEF BeginPeek, OthersKeep, Goto, TypeInv, TypeOK, fileVars
  <2>3. ProcOK(p)'
    BY <1>3, <2>1 DEF BeginPeek, ProcOK, Goto, TypeInv, TypeOK
  <2> QED
    BY <1>0, <2>2, <2>3, QuietStep
<1>4. ASSUME NEW p \in Procs, CreateLock(p)
      PROVE  FilesInv'
  <2>1. ~granted[p]
    BY <1>0, <1>4 DEF FilesInv, ProcOK, CreateLock
  <2>2. OthersKeep(p) /\ UNCHANGED <<snapshot, journal, claims>>
    BY <1>4 DEF CreateLock, OthersKeep, Goto, TypeInv, TypeOK, fileVars
  <2>3. ProcOK(p)'
    BY <1>4, <2>1 DEF CreateLock, ProcOK, Goto, TypeInv, TypeOK
  <2> QED
    BY <1>0, <2>2, <2>3, QuietStep
<1>5. ASSUME NEW p \in Procs, LockBusy(p)
      PROVE  FilesInv'
  <2>1. ~granted[p]
    BY <1>0, <1>5 DEF FilesInv, ProcOK, LockBusy
  <2>2. OthersKeep(p) /\ UNCHANGED <<snapshot, journal, claims>>
    BY <1>5 DEF LockBusy, OthersKeep, Goto, TypeInv, TypeOK, fileVars
  <2>3. ProcOK(p)'
    BY <1>5, <2>1 DEF LockBusy, ProcOK, Goto, TypeInv, TypeOK
  <2> QED
    BY <1>0, <2>2, <2>3, QuietStep
<1>6. ASSUME NEW p \in Procs, StatLock(p)
      PROVE  FilesInv'
  <2>1. ~granted[p]
    BY <1>0, <1>6 DEF FilesInv, ProcOK, StatLock
  <2>2. OthersKeep(p) /\ UNCHANGED <<snapshot, journal, claims>>
    BY <1>6 DEF StatLock, OthersKeep, Goto, TypeInv, TypeOK, fileVars
  <2>3. ProcOK(p)'
    BY <1>6, <2>1 DEF StatLock, ProcOK, Goto, TypeInv, TypeOK
  <2> QED
    BY <1>0, <2>2, <2>3, QuietStep
<1>7. ASSUME NEW p \in Procs, UnlinkStale(p)
      PROVE  FilesInv'
  <2>1. ~granted[p]
    BY <1>0, <1>7 DEF FilesInv, ProcOK, UnlinkStale
  <2>2. OthersKeep(p) /\ UNCHANGED <<snapshot, journal, claims>>
    BY <1>7 DEF UnlinkStale, OthersKeep, Goto, TypeInv, TypeOK, fileVars
  <2>3. ProcOK(p)'
    BY <1>7, <2>1 DEF UnlinkStale, ProcOK, Goto, TypeInv, TypeOK
  <2> QED
    BY <1>0, <2>2, <2>3, QuietStep
<1>8. ASSUME NEW p \in Procs, LeakLock(p)
      PROVE  FilesInv'
  BY <1>0, <1>8, LeaveKeeps, QuietStep DEF LeakLock, fileVars
<1>9. ASSUME NEW p \in Procs, GiveUp(p)
      PROVE  FilesInv'
  BY <1>0, <1>9, LeaveKeeps, QuietStep DEF GiveUp, fileVars
<1>10. ASSUME NEW p \in Procs, EndPeek(p)
      PROVE  FilesInv'
  BY <1>0, <1>10, LeaveKeeps, QuietStep DEF EndPeek, fileVars
<1>11. ASSUME NEW p \in Procs, ReadSnapshot(p)
       PROVE  FilesInv'
  <2>1. ~granted[p]
    BY <1>0, <1>11 DEF FilesInv, ProcOK, ReadSnapshot
  <2>2. OthersKeep(p) /\ UNCHANGED <<snapshot, journal, claims, granted>>
    BY <1>11 DEF ReadSnapshot, OthersKeep, Goto, TypeInv, TypeOK, fileVars
  <2>3. mem'[p] = snapshot /\ pc'[p] \in {"journal", "peekJournal"}
    BY <1>11 DEF ReadSnapshot, Goto, TypeInv, TypeOK
  <2>4. \A f \in Fingerprints : snapshot[f] # "none" => OnDisk[f] # "none"
    BY ReplayKnown DEF OnDisk, IsKnown, TypeInv, TypeOK
  <2>5. OnDisk' = OnDisk
    BY <2>2 DEF OnDisk
  <2>6. ProcOK(p)'
    BY <2>1, <2>2, <2>3, <2>4, <2>5 DEF ProcOK
  <2> QED
    BY <1>0, <2>2, <2>6, QuietStep
<1>12. ASSUME NEW p \in Procs, ReadJournal(p)
       PROVE  FilesInv'
  <2>1. ~granted[p]
    BY <1>0, <1>12 DEF FilesInv, ProcOK, ReadJournal
  <2>2. OthersKeep(p) /\ UNCHANGED <<snapshot, journal, claims, granted>>
    BY <1>12 DEF ReadJournal, OthersKeep, Goto, TypeInv, TypeOK, fileVars
  <2>3. mem'[p] = Replay(mem[p], journal)
    BY <1>12 DEF ReadJournal, TypeInv, TypeOK
  <2>4. OnDisk' = OnDisk
    BY <2>2 DEF OnDisk
  <2>5. CASE pc[p] = "journal"
    <3>1. mem'[p] = OnDisk'
      BY <1>0, <2>3, <2>4, <2>5 DEF FilesInv, ProcOK, OnDisk
    <3>2. pc'[p] = "mutate"
      BY <1>12, <2>5 DEF ReadJournal, Goto, TypeInv, TypeOK
    <3>3. ProcOK(p)'
      BY <2>1, <2>2, <3>1, <3>2 DEF ProcOK
    <3> QED
      BY <1>0, <2>2, <3>3, QuietStep
  <2>6. CASE pc[p] = "peekJournal"
    <3>1. pc'[p] = "peeked"
      BY <1>12, <2>6 DEF ReadJournal, Goto, TypeInv, TypeOK
    <3>2. ASSUME NEW f \in Fingerprints, mem'[p][f] # "none"
          PROVE  OnDisk[f] # "none"
      <4>1. IsKnown(mem[p], journal, f)
        BY <2>3, <3>2, ReplayKnown DEF TypeInv, TypeOK
      <4>2. IsKnown(snapshot, journal, f) \/ OnDisk[f] # "none"
        BY <1>0, <2>6, <4>1 DEF IsKnown, FilesInv, ProcOK
      <4> QED
        BY <4>2, ReplayKnown DEF OnDisk, TypeInv, TypeOK
    <3>3. ProcOK(p)'
      BY <2>1, <2>2, <2>4, <3>1, <3>2 DEF ProcOK
    <3> QED
      BY <1>0, <2>2, <3>3, QuietStep
  <2> QED
    BY <1>12, <2>5, <2>6 DEF ReadJournal
<1>13. ASSUME NEW p \in Procs, Refuse(p)
       PROVE  FilesInv'
  <2>1. ~granted[p]
    BY <1>0, <1>13 DEF FilesInv, ProcOK, Refuse
  <2>2. OthersKeep(p) /\ UNCHANGED <<snapshot, journal, claims>>
    BY <1>13 DEF Refuse, OthersKeep, Goto, TypeInv, TypeOK, fileVars
  <2>3. ProcOK(p)'
    BY <1>13, <2>1 DEF Refuse, ProcOK, Goto, TypeInv, TypeOK
  <2> QED
    BY <1>0, <2>2, <2>3, QuietStep
<1>14. ASSUME NEW p \in Procs, AppendEvent(p)
       PROVE  FilesInv'
  <2>1. pc[p] \in Locked /\ op[p] \in Event
    BY <1>14 DEF AppendEvent, Locked, TypeInv, OpOK, Calls, Event
  <2>2. mem[p] = OnDisk
    BY <1>0, <1>14 DEF AppendEvent, FilesInv, ProcOK
  <2>3. /\ snapshot' = snapshot
        /\ OnDisk' = ApplyEvent(OnDisk, op[p])
        /\ \A f \in Fingerprints : OnDisk[f] # "none" => OnDisk'[f] # "none"
    BY <1>14, <2>1, WriteLineDisk DEF AppendEvent, TypeInv, Undisturbed
  <2>4. /\ OthersKeep(p) /\ claims' = claims /\ op' = op
        /\ mem'[p] = ApplyEvent(mem[p], op[p])
        /\ granted'[p] = (op[p].kind = "pending")
        /\ pc'[p] \in {"compact", "release"}
    BY <1>14 DEF AppendEvent, OthersKeep, Goto, TypeInv, TypeOK
  <2>5. ASSUME op[p].kind = "pending"
        PROVE  OnDisk'[op[p].fp] # "none" /\ claims[op[p].fp] = 0
    <3>1. OnDisk[op[p].fp] = "none" /\ op[p].fp \in Fingerprints
      BY <1>14, <2>1, <2>2, <2>5 DEF AppendEvent, Admits, Event
    <3>2. claims[op[p].fp] = 0
      BY <1>0, <3>1 DEF FilesInv, ClaimOK, TypeInv, TypeOK
    <3>3. OnDisk \in Ledger
      BY ReplayType DEF OnDisk, TypeInv, TypeOK
    <3>4. OnDisk'[op[p].fp] = "pending"
      BY <2>3, <2>5, <3>1, <3>3 DEF ApplyEvent, Ledger
    <3> QED
      BY <3>2, <3>4
  <2>6. ProcOK(p)'
    BY <2>2, <2>3, <2>4, <2>5 DEF ProcOK
  <2> QED
    BY <1>0, <2>1, <2>3, <2>4, <2>6, MutationStep
<1>15. ASSUME NEW p \in Procs, AppendFails(p)
       PROVE  FilesInv'
  <2>1. pc[p] \in Locked /\ op[p] \in Event
    BY <1>15 DEF AppendFails, Locked, TypeInv, OpOK, Calls, Event
  <2>2. ~granted[p]
    BY <1>0, <1>15 DEF FilesInv, ProcOK, AppendFails
  <2>3. \A f \in Fingerprints : OnDisk[f] # "none" => OnDisk'[f] # "none"
    <3>1. CASE UNCHANGED <<fileVars, glued>>
      BY <3>1 DEF OnDisk, fileVars
    <3>2. CASE \E extent \in {"clean", "whole", "partial"} : WriteLine(op[p], extent)
      BY <3>2, <2>1, WriteLineDisk DEF TypeInv, Undisturbed
    <3> QED
      BY <1>15, <3>1, <3>2 DEF AppendFails
  <2>4. OthersKeep(p) /\ claims' = claims /\ granted' = granted /\ pc'[p] = "release"
    BY <1>15 DEF AppendFails, OthersKeep, Goto, TypeInv, TypeOK
  <2>5. ProcOK(p)'
    BY <2>2, <2>4 DEF ProcOK
  <2> QED
    BY <1>0, <2>1, <2>3, <2>4, <2>5, MutationStep
<1>16. ASSUME NEW p \in Procs, WriteSnapshot(p)
       PROVE  FilesInv'
  <2>1. pc[p] \in Locked /\ mem[p] = OnDisk
    BY <1>0, <1>16 DEF WriteSnapshot, Locked, FilesInv, ProcOK
  <2>2. OnDisk' = OnDisk
    BY <1>16, <2>1, ReplayAgain DEF WriteSnapshot, OnDisk, TypeInv, TypeOK
  <2>3. /\ OthersKeep(p) /\ claims' = claims /\ granted' = granted /\ op' = op
        /\ pc'[p] = "truncate" /\ mem' = mem /\ snapshot' = OnDisk
    BY <1>16, <2>1 DEF WriteSnapshot, OthersKeep, Goto, TypeInv, TypeOK
  <2>4. ProcOK(p)'
    BY <1>0, <1>16, <2>1, <2>2, <2>3 DEF ProcOK, FilesInv, WriteSnapshot
  <2> QED
    BY <1>0, <2>1, <2>2, <2>3, <2>4, MutationStep
<1>17. ASSUME NEW p \in Procs, TruncateJournal(p)
       PROVE  FilesInv'
  <2>1. pc[p] \in Locked /\ snapshot = OnDisk
    BY <1>0, <1>17 DEF TruncateJournal, Locked, FilesInv, ProcOK
  <2>2. OnDisk' = OnDisk
    BY <1>17, <2>1, ReplayEmpty DEF TruncateJournal, OnDisk, TypeInv, TypeOK
  <2>3. /\ OthersKeep(p) /\ claims' = claims /\ granted' = granted /\ op' = op
        /\ pc'[p] = "release"
    BY <1>17 DEF TruncateJournal, OthersKeep, Goto, TypeInv, TypeOK
  <2>4. ProcOK(p)'
    BY <1>0, <2>2, <2>3 DEF ProcOK, FilesInv
  <2> QED
    BY <1>0, <2>1, <2>2, <2>3, <2>4, MutationStep
<1>18. ASSUME NEW p \in Procs, CompactionFails(p)
       PROVE  FilesInv'
  <2>1. OthersKeep(p) /\ UNCHANGED <<snapshot, journal, claims>>
    BY <1>18 DEF CompactionFails, OthersKeep, Goto, TypeInv, TypeOK, fileVars
  <2>2. pc'[p] = "release" /\ ~granted'[p]
    BY <1>18 DEF CompactionFails, Goto, TypeInv, TypeOK
  <2>3. ProcOK(p)'
    BY <2>2 DEF ProcOK
  <2> QED
    BY <1>0, <2>1, <2>3, QuietStep
<1>19. ASSUME NEW p \in Procs, Crash(p)
       PROVE  FilesInv'
  <2>1. OthersKeep(p) /\ ProcOK(p)' /\ claims' = claims
    BY <1>19, LeaveKeeps DEF Crash
  <2>2. CASE UNCHANGED <<fileVars, glued>>
    BY <1>0, <2>1, <2>2, QuietStep DEF fileVars
  <2>3. CASE /\ pc[p] = "mutate"
             /\ \E extent \in {"whole", "partial"} : WriteLine(op[p], extent)
    <3>1. pc[p] \in Locked /\ op[p] \in Event
      BY <2>3 DEF Locked, TypeInv, OpOK, Calls, Event
    <3>2. \A f \in Fingerprints : OnDisk[f] # "none" => OnDisk'[f] # "none"
      BY <2>3, <3>1, WriteLineDisk DEF TypeInv, Undisturbed
    <3> QED
      BY <1>0, <2>1, <3>1, <3>2, MutationStep
  <2> QED
    BY <1>19, <2>2, <2>3 DEF Crash
<1>20. ASSUME NEW p \in Procs, ReleaseLock(p)
       PROVE  FilesInv'
  <2>1. OthersKeep(p) /\ ProcOK(p)' /\ OnDisk' = OnDisk
    BY <1>20, LeaveKeeps DEF ReleaseLock, OnDisk, fileVars
  <2>2. pc[p] \in Locked /\ op[p].fp \in Fingerprints
    BY <1>20 DEF ReleaseLock, Locked, TypeInv, OpOK, Calls
  <2>3. ASSUME NEW f \in Fingerprints PROVE ClaimOK(f)'
    <3>1. CASE granted[p] /\ f = op[p].fp
      <4>1. claims[f] = 0 /\ OnDisk[f] # "none"
        BY <1>0, <3>1 DEF FilesInv, ProcOK
      <4>2. claims'[f] = 1
        BY <1>20, <2>2, <3>1, <4>1 DEF ReleaseLock, TypeInv, TypeOK
      <4> QED
        BY <2>1, <4>1, <4>2 DEF ClaimOK
    <3>2. CASE ~(granted[p] /\ f = op[p].fp)
      <4>1. claims'[f] = claims[f]
        BY <1>20, <2>2, <3>2 DEF ReleaseLock, TypeInv, TypeOK
      <4> QED
        BY <1>0, <2>1, <4>1 DEF FilesInv, ClaimOK
    <3> QED
      BY <3>1, <3>2
  <2>4. ASSUME NEW q \in Procs \ {p} PROVE ProcOK(q)'
    <3>1. pc[q] \notin Locked
      BY <1>0, <2>2 DEF OwnerInv, Undisturbed
    <3>2. ~granted[q]
      BY <1>0, <3>1 DEF FilesInv, ProcOK, Locked
    <3> QED
      BY <1>0, <2>1, <3>1, <3>2 DEF FilesInv, ProcOK, OthersKeep, Locked
  <2> QED
    BY <2>1, <2>3, <2>4 DEF FilesInv
\* A mutation that goes on without the snapshot has missed nothing, or is the disturbance;
\* a reader that does reports less.
<1>21. ASSUME NEW p \in Procs, UnreadSnapshot(p)
       PROVE  FilesInv'
  <2>1. ~granted[p]
    BY <1>0, <1>21 DEF FilesInv, ProcOK, UnreadSnapshot
  <2>2. OthersKeep(p) /\ UNCHANGED <<snapshot, journal, claims, granted>>
    BY <1>21 DEF UnreadSnapshot, OthersKeep, Goto, TypeInv, TypeOK, fileVars
  <2>3. mem'[p] = EmptyLedger /\ pc'[p] \in {"journal", "peekJournal"}
    BY <1>21 DEF UnreadSnapshot, Goto, TypeInv, TypeOK
  <2>4. pc'[p] = "journal" => snapshot = EmptyLedger
    BY <1>21 DEF UnreadSnapshot, Undisturbed, Goto, TypeInv, TypeOK
  <2>5. \A f \in Fingerprints : mem'[p][f] = "none"
    BY <2>3 DEF EmptyLedger
  <2>6. ProcOK(p)'
    BY <2>1, <2>2, <2>3, <2>4, <2>5 DEF ProcOK
  <2> QED
    BY <1>0, <2>2, <2>6, QuietStep
<1>22. ASSUME NEW p \in Procs, UnreadJournal(p)
       PROVE  FilesInv'
  <2>1. CASE Leave(p, "idle")
    BY <1>0, <1>22, <2>1, LeaveKeeps, QuietStep DEF UnreadJournal, fileVars
  <2>2. CASE /\ pc[p] = "journal" /\ Goto(p, "release")
             /\ UNCHANGED <<op, attempt, mem, count, granted>>
    <3>1. ~granted[p]
      BY <1>0, <2>2 DEF FilesInv, ProcOK
    <3>2. OthersKeep(p) /\ UNCHANGED <<snapshot, journal, claims>>
      BY <1>22, <2>2 DEF UnreadJournal, OthersKeep, Goto, TypeInv, TypeOK, fileVars
    <3>3. ProcOK(p)'
      BY <2>2, <3>1 DEF ProcOK, Goto, TypeInv, TypeOK
    <3> QED
      BY <1>0, <3>2, <3>3, QuietStep
  <2> QED
    BY <1>22, <2>1, <2>2 DEF UnreadJournal
<1> QED
  BY <1>1, <1>2, <1>3, <1>4, <1>5, <1>6, <1>7, <1>8, <1>9, <1>10, <1>11, <1>12, <1>13, <1>14,
     <1>15, <1>16, <1>17, <1>18, <1>19, <1>20, <1>21, <1>22
     DEF Next, Run

LEMMA Invariance == Spec => []Inv
<1>1. Init => Inv
  BY TypeInit, FilesInit DEF Inv, Init, OwnerInv, Locked
<1>2. Inv /\ [Next]_vars => Inv'
  BY TypeNext, OwnerNext, FilesNext DEF Inv
<1> QED
  BY <1>1, <1>2, PTL DEF Spec

\* AdmittedOnce: undisturbed, the ledger admits each write intent at most once.
THEOREM AdmittedOnce == Spec => []AtMostOneClaim
<1>1. Inv => AtMostOneClaim
  BY DEF Inv, FilesInv, ClaimOK, AtMostOneClaim
<1> QED
  BY <1>1, Invariance, PTL

\* NeverForgotten: undisturbed, an admitted write intent stays on disk.
THEOREM NeverForgotten == Spec => []ClaimsSurvive
<1>1. Inv => ClaimsSurvive
  BY DEF Inv, FilesInv, ClaimOK, ClaimsSurvive
<1> QED
  BY <1>1, Invariance, PTL

\* ReadersSound: undisturbed, an unlocked read reports no unknown fingerprint.
THEOREM ReadersSound == Spec => []ReadersInventNothing
<1>1. Inv => ReadersInventNothing
  BY DEF Inv, FilesInv, ProcOK, ReadersInventNothing
<1> QED
  BY <1>1, Invariance, PTL

-----------------------------------------------------------------------------
(* The files implement the abstract table.                                 *)

LEMMA SafeInvariance == SafeSpec => [](Inv /\ Undisturbed)
<1>1. Init => Inv /\ Undisturbed
  BY TypeInit, FilesInit DEF Inv, Init, OwnerInv, Locked, Undisturbed
<1>2. Inv /\ Undisturbed /\ [Next /\ ~stolen' /\ ~glued' /\ ~misread']_vars => (Inv /\ Undisturbed)'
  <2> SUFFICES ASSUME Inv, Undisturbed, [Next /\ ~stolen' /\ ~glued' /\ ~misread']_vars
               PROVE  Inv' /\ Undisturbed'
    OBVIOUS
  <2>1. [Next]_vars
    OBVIOUS
  <2>2. Inv'
    BY <2>1, TypeNext, OwnerNext, FilesNext DEF Inv
  <2>3. Undisturbed'
    BY DEF Undisturbed, vars
  <2> QED
    BY <2>2, <2>3
<1> QED
  BY <1>1, <1>2, PTL DEF SafeSpec

AbstractStep == Abstract!ANext \/ UNCHANGED <<OnDisk, claims>>

\* Recording an admitted event is a claim of an absent fingerprint or a mark of
\* a present one.
LEMMA RecordStep ==
    ASSUME Inv, Undisturbed, NEW p \in Procs, pc[p] = "mutate", Admits(p), claims' = claims,
           OnDisk' = ApplyEvent(OnDisk, op[p])
    PROVE  AbstractStep
<1>1. op[p] \in Event /\ mem[p] = OnDisk
  BY DEF Inv, TypeInv, OpOK, Locked, Calls, Event, FilesInv, ProcOK
<1>2. op[p].fp \in Fingerprints /\ op[p].kind \in Kinds
  BY <1>1 DEF Event
<1>3. CASE op[p].kind = "pending"
  <2>1. Abstract!ARecord(op[p].fp)
    BY <1>1, <1>3 DEF Abstract!ARecord, Admits, ApplyEvent
  <2> QED
    BY <1>2, <2>1 DEF AbstractStep, Abstract!ANext
<1>4. CASE op[p].kind # "pending"
  <2>1. Abstract!AMark(op[p].fp, op[p].kind)
    BY <1>1, <1>4 DEF Abstract!AMark, Admits, ApplyEvent
  <2>2. op[p].kind \in {"executed", "ambiguous"}
    BY <1>2, <1>4 DEF Kinds
  <2> QED
    BY <1>2, <2>1, <2>2 DEF AbstractStep, Abstract!ANext
<1> QED
  BY <1>3, <1>4

LEMMA LineStep ==
    ASSUME Inv, Undisturbed, Undisturbed', NEW p \in Procs, pc[p] = "mutate", Admits(p),
           claims' = claims, NEW extent \in {"clean", "whole", "partial"},
           WriteLine(op[p], extent)
    PROVE  AbstractStep
<1>1. op[p] \in Event
  BY DEF Inv, TypeInv, OpOK, Locked, Calls, Event
<1>2. OnDisk' = ApplyEvent(OnDisk, op[p]) \/ OnDisk' = OnDisk
  BY <1>1, WriteLineDisk DEF Inv, TypeInv, Undisturbed
<1> QED
  BY <1>2, RecordStep DEF AbstractStep

LEMMA StepImplements ==
    ASSUME Inv, Undisturbed, Undisturbed', [Next]_vars
    PROVE  AbstractStep
<1>1. ASSUME UNCHANGED <<snapshot, journal, claims>> PROVE AbstractStep
  BY <1>1 DEF AbstractStep, OnDisk
<1>2. CASE AgeLock \/ UNCHANGED vars
  BY <1>1, <1>2 DEF AgeLock, vars, fileVars
<1>3. ASSUME NEW p \in Procs,
             \/ Call(p) \/ BeginPeek(p) \/ CreateLock(p) \/ LeakLock(p) \/ LockBusy(p)
             \/ StatLock(p) \/ UnlinkStale(p) \/ GiveUp(p) \/ ReadSnapshot(p)
             \/ ReadJournal(p) \/ UnreadSnapshot(p) \/ UnreadJournal(p) \/ EndPeek(p)
             \/ Refuse(p) \/ CompactionFails(p)
      PROVE  AbstractStep
  BY <1>1, <1>3 DEF Call, BeginPeek, CreateLock, LeakLock, LockBusy, StatLock, UnlinkStale,
                    GiveUp, ReadSnapshot, ReadJournal, UnreadSnapshot, UnreadJournal, EndPeek,
                    Refuse, CompactionFails, fileVars
<1>4. ASSUME NEW p \in Procs, AppendEvent(p) PROVE AbstractStep
  BY <1>4, LineStep DEF AppendEvent
<1>5. ASSUME NEW p \in Procs, AppendFails(p) PROVE AbstractStep
  BY <1>1, <1>5, LineStep DEF AppendFails, fileVars
<1>6. ASSUME NEW p \in Procs, Crash(p) PROVE AbstractStep
  BY <1>1, <1>6, LineStep DEF Crash, fileVars
<1>7. ASSUME NEW p \in Procs, WriteSnapshot(p) PROVE AbstractStep
  <2>1. mem[p] = OnDisk
    BY <1>7 DEF WriteSnapshot, Inv, FilesInv, ProcOK
  <2>2. OnDisk' = OnDisk /\ claims' = claims
    BY <1>7, <2>1, ReplayAgain DEF WriteSnapshot, OnDisk, Inv, TypeInv, TypeOK
  <2> QED
    BY <2>2 DEF AbstractStep
<1>8. ASSUME NEW p \in Procs, TruncateJournal(p) PROVE AbstractStep
  <2>1. snapshot = OnDisk
    BY <1>8 DEF TruncateJournal, Inv, FilesInv, ProcOK
  <2>2. OnDisk' = OnDisk /\ claims' = claims
    BY <1>8, <2>1, ReplayEmpty DEF TruncateJournal, OnDisk, Inv, TypeInv, TypeOK
  <2> QED
    BY <2>2 DEF AbstractStep
<1>9. ASSUME NEW p \in Procs, ReleaseLock(p) PROVE AbstractStep
  <2>1. CASE granted[p]
    <3>1. /\ op[p].fp \in Fingerprints
          /\ OnDisk[op[p].fp] # "none"
          /\ claims[op[p].fp] = 0
      BY <1>9, <2>1 DEF ReleaseLock, Inv, TypeInv, OpOK, Locked, Calls, FilesInv, ProcOK
    <3>2. OnDisk' = OnDisk
      BY <1>9 DEF ReleaseLock, OnDisk, fileVars
    <3>3. Abstract!AGrant(op[p].fp)
      BY <1>9, <2>1, <3>1, <3>2 DEF ReleaseLock, Abstract!AGrant
    <3> QED
      BY <3>1, <3>3 DEF AbstractStep, Abstract!ANext
  <2>2. CASE ~granted[p]
    BY <1>1, <1>9, <2>2 DEF ReleaseLock, fileVars
  <2> QED
    BY <2>1, <2>2
<1> QED
  BY <1>2, <1>3, <1>4, <1>5, <1>6, <1>7, <1>8, <1>9 DEF Next, Run

\* FilesImplementTable: undisturbed, the three files behave as the atomic table.
THEOREM FilesImplementTable == SafeSpec => Implements
<1>1. Init => Abstract!AInit
  BY ReplayEmpty DEF Init, Abstract!AInit, OnDisk, EmptyLedger, Ledger, Statuses
<1>2. Inv /\ Undisturbed /\ (Inv /\ Undisturbed)' /\ [Next /\ ~stolen' /\ ~glued' /\ ~misread']_vars
      => [Abstract!ANext]_(Abstract!aVars)
  BY StepImplements DEF AbstractStep, Abstract!aVars
<1> QED
  BY <1>1, <1>2, SafeInvariance, PTL DEF SafeSpec, Implements, Abstract!ASpec
================================================================================
