--------------------------- MODULE IdempotencyLedger ---------------------------
(***************************************************************************)
(* runtime/idempotency.ts: the v3 write-intent ledger.  Several CLI        *)
(* processes share three files: a lock file created with O_EXCL, a journal *)
(* of events, one JSON line each, and a snapshot the journal is folded     *)
(* into.  A mutation is: take the lock, load snapshot and journal, decide, *)
(* append one event, perhaps compact, release.  Readers take no lock.      *)
(*                                                                         *)
(* Abstracted: the fields of an entry other than its status, seq (written  *)
(* and never read back for a decision), and file creation (a missing file  *)
(* reads as an empty one).                                                 *)
(***************************************************************************)
EXTENDS LedgerReplay

CONSTANTS
    Procs,          \* the CLI processes; a process that dies never returns
    LockRetries,    \* LOCK_RETRIES
    CompactAfter,   \* COMPACT_EVENT_THRESHOLD
    MaxFaults,      \* bound on system calls that fail (ENOSPC, EIO)
    SlowHolders     \* may a live process hold the lock for LOCK_STALE_MS?

ASSUME ConstantsAssumption ==
    /\ LockRetries \in Nat
    /\ CompactAfter \in Nat
    /\ MaxFaults \in Nat
    /\ SlowHolders \in BOOLEAN

VARIABLES
    lock,      \* the lock file: is it there, who made it, is it past 120 s
    snapshot,  \* the snapshot file, parsed
    journal,   \* the journal lines that parse, in file order
    tail,      \* how the journal file ends
    pc,        \* what each process does next
    op,        \* the call each process is serving
    attempt,   \* iterations of the acquire loop so far
    mem,       \* LedgerState.ledger of each process
    count,     \* LedgerState.journalEventCount of each process
    granted,   \* will the call return "claimed"?
    claims,    \* history: "claimed" answers per fingerprint
    faults,    \* failed system calls so far
    stolen,    \* history: a lock file was unlinked under a live holder
    glued,     \* history: an event was appended to an unterminated line
    misread    \* history: a mutation took a snapshot it could not read for an empty one

procVars == <<pc, op, attempt, mem, count, granted>>
fileVars == <<snapshot, journal, tail>>
vars == <<lock, fileVars, procVars, claims, faults, stolen, glued, misread>>

\* What a process that loads now, undisturbed, gets.
OnDisk == Replay(snapshot, journal)
-----------------------------------------------------------------------------
NoOp == [kind |-> "none"]
Calls == [kind : Kinds, fp : Fingerprints]
NoLock == [there |-> FALSE]
LockFile == [there : {TRUE}, owner : Procs, aged : BOOLEAN]

Locked == {"snapshot", "journal", "mutate", "compact", "truncate", "release"}
Acquiring == {"open", "stat", "unlink"}
Reading == {"peekSnapshot", "peekJournal", "peeked"}
Stages == {"idle", "dead"} \cup Acquiring \cup Locked \cup Reading

\* The lock file belongs to a process that is still inside its mutation.
Held == lock.there /\ pc[lock.owner] \in Locked

Init ==
    /\ lock = NoLock
    /\ snapshot = EmptyLedger /\ journal = << >> /\ tail = "clean"
    /\ pc = [p \in Procs |-> "idle"]
    /\ op = [p \in Procs |-> NoOp]
    /\ attempt = [p \in Procs |-> 0]
    /\ mem = [p \in Procs |-> EmptyLedger]
    /\ count = [p \in Procs |-> 0]
    /\ granted = [p \in Procs |-> FALSE]
    /\ claims = [f \in Fingerprints |-> 0]
    /\ faults = 0
    /\ stolen = FALSE
    /\ glued = FALSE
    /\ misread = FALSE

Goto(p, stage) == pc' = [pc EXCEPT ![p] = stage]

\* The call is over: its process keeps nothing of it.
Leave(p, stage) ==
    /\ Goto(p, stage)
    /\ op' = [op EXCEPT ![p] = NoOp]
    /\ attempt' = [attempt EXCEPT ![p] = 0]
    /\ mem' = [mem EXCEPT ![p] = EmptyLedger]
    /\ count' = [count EXCEPT ![p] = 0]
    /\ granted' = [granted EXCEPT ![p] = FALSE]

Fault == faults < MaxFaults /\ faults' = faults + 1
-----------------------------------------------------------------------------
(* The lock.                                                               *)

\* claimWriteIntentForExecution, markWriteIntentExecuted and
\* markWriteIntentAmbiguous are called with any fingerprint at any time.
Call(p) ==
    /\ pc[p] = "idle"
    /\ \E c \in Calls : op' = [op EXCEPT ![p] = c]
    /\ Goto(p, "open")
    /\ UNCHANGED <<lock, fileVars, attempt, mem, count, granted,
                   claims, faults, stolen, glued, misread>>

\* Mutant: open without O_EXCL.
CreateLockMutant(p) ==
    /\ pc[p] = "open" /\ attempt[p] < LockRetries
    /\ lock' = [there |-> TRUE, owner |-> p, aged |-> FALSE]
    /\ Goto(p, "snapshot")
    /\ UNCHANGED <<fileVars, op, attempt, mem, count, granted,
                   claims, faults, stolen, glued, misread>>

\* open(O_CREAT | O_EXCL) succeeds.
CreateLock(p) ==
    /\ pc[p] = "open" /\ attempt[p] < LockRetries
    /\ ~lock.there
    /\ lock' = [there |-> TRUE, owner |-> p, aged |-> FALSE]
    /\ Goto(p, "snapshot")
    /\ UNCHANGED <<fileVars, op, attempt, mem, count, granted,
                   claims, faults, stolen, glued, misread>>

\* The file is created, then writing the pid into it fails: the call throws
\* before there is a LedgerLock to release, and the file stays.
LeakLock(p) ==
    /\ pc[p] = "open" /\ attempt[p] < LockRetries
    /\ ~lock.there
    /\ Fault
    /\ lock' = [there |-> TRUE, owner |-> p, aged |-> FALSE]
    /\ Leave(p, "idle")
    /\ UNCHANGED <<fileVars, claims, stolen, glued, misread>>

\* Mutant: one attempt too many (attempt <= LOCK_RETRIES).
LockBusyMutant(p) ==
    /\ pc[p] = "open" /\ attempt[p] <= LockRetries
    /\ lock.there
    /\ Goto(p, "stat")
    /\ UNCHANGED <<lock, fileVars, op, attempt, mem, count, granted,
                   claims, faults, stolen, glued, misread>>

\* open fails with EEXIST.
LockBusy(p) ==
    /\ pc[p] = "open" /\ attempt[p] < LockRetries
    /\ lock.there
    /\ Goto(p, "stat")
    /\ UNCHANGED <<lock, fileVars, op, attempt, mem, count, granted,
                   claims, faults, stolen, glued, misread>>

\* Mutant: sleeping does not count as an attempt.
StatLockMutant(p) ==
    /\ pc[p] = "stat"
    /\ Goto(p, IF lock.there /\ lock.aged THEN "unlink" ELSE "open")
    /\ UNCHANGED <<lock, fileVars, op, attempt, mem, count, granted,
                   claims, faults, stolen, glued, misread>>

\* clearStaleLock up to its await of stat: a young or vanished lock file means
\* sleep and try again.
StatLock(p) ==
    /\ pc[p] = "stat"
    /\ \/ /\ lock.there /\ lock.aged
          /\ Goto(p, "unlink")
          /\ UNCHANGED attempt
       \/ /\ lock.there => ~lock.aged
          /\ Goto(p, "open")
          /\ attempt' = [attempt EXCEPT ![p] = @ + 1]
    /\ UNCHANGED <<lock, fileVars, op, mem, count, granted,
                   claims, faults, stolen, glued, misread>>

\* clearStaleLock after stat: unlink whatever file has the path by now.
UnlinkStale(p) ==
    /\ pc[p] = "unlink"
    /\ lock' = NoLock
    /\ stolen' = (stolen \/ Held)
    /\ Goto(p, "open")
    /\ attempt' = [attempt EXCEPT ![p] = @ + 1]
    /\ UNCHANGED <<fileVars, op, mem, count, granted,
                   claims, faults, glued, misread>>

\* IdempotencyLockError.
GiveUp(p) ==
    /\ pc[p] = "open" /\ attempt[p] = LockRetries
    /\ Leave(p, "idle")
    /\ UNCHANGED <<lock, fileVars, claims, faults, stolen, glued, misread>>

\* 120 seconds pass over a lock file.
AgeLock ==
    /\ lock.there /\ ~lock.aged
    /\ SlowHolders \/ ~Held
    /\ lock' = [lock EXCEPT !.aged = TRUE]
    /\ UNCHANGED <<fileVars, procVars, claims, faults, stolen, glued, misread>>

\* releaseLock unlinks the path, whoever made the file that is there.
ReleaseLock(p) ==
    /\ pc[p] = "release"
    /\ lock' = NoLock
    /\ stolen' = (stolen \/ (Held /\ lock.owner # p))
    /\ claims' = IF granted[p] THEN [claims EXCEPT ![op[p].fp] = @ + 1] ELSE claims
    /\ Leave(p, "idle")
    /\ UNCHANGED <<fileVars, faults, glued, misread>>
-----------------------------------------------------------------------------
(* loadStateFromDisk: two reads, with or without the lock.  A snapshot that *)
(* cannot be read counts as an empty one; a journal that cannot be read     *)
(* makes the call throw.                                                    *)

ReadSnapshot(p) ==
    /\ \/ pc[p] = "snapshot" /\ Goto(p, "journal")
       \/ pc[p] = "peekSnapshot" /\ Goto(p, "peekJournal")
    /\ mem' = [mem EXCEPT ![p] = snapshot]
    /\ UNCHANGED <<lock, fileVars, op, attempt, count, granted,
                   claims, faults, stolen, glued, misread>>

\* readFile or JSON.parse throws, and the catch goes on with emptyLedger().
UnreadSnapshot(p) ==
    /\ Fault
    /\ \/ /\ pc[p] = "snapshot" /\ Goto(p, "journal")
          /\ misread' = (misread \/ snapshot # EmptyLedger)
       \/ pc[p] = "peekSnapshot" /\ Goto(p, "peekJournal") /\ UNCHANGED misread
    /\ mem' = [mem EXCEPT ![p] = EmptyLedger]
    /\ UNCHANGED <<lock, fileVars, op, attempt, count, granted,
                   claims, stolen, glued>>

ReadJournal(p) ==
    /\ \/ pc[p] = "journal" /\ Goto(p, "mutate")
       \/ pc[p] = "peekJournal" /\ Goto(p, "peeked")
    /\ mem' = [mem EXCEPT ![p] = Replay(mem[p], journal)]
    /\ count' = [count EXCEPT ![p] = Len(journal)]
    /\ UNCHANGED <<lock, fileVars, op, attempt, granted,
                   claims, faults, stolen, glued, misread>>

\* readFile throws: out of a mutation through its finally block, out of a reader at once.
UnreadJournal(p) ==
    /\ Fault
    /\ \/ /\ pc[p] = "journal"
          /\ Goto(p, "release")
          /\ UNCHANGED <<op, attempt, mem, count, granted>>
       \/ pc[p] = "peekJournal" /\ Leave(p, "idle")
    /\ UNCHANGED <<lock, fileVars, claims, stolen, glued, misread>>

\* checkWriteIntentIdempotency and loadIdempotencyLedger take no lock.
BeginPeek(p) ==
    /\ pc[p] = "idle"
    /\ Goto(p, "peekSnapshot")
    /\ UNCHANGED <<lock, fileVars, op, attempt, mem, count, granted,
                   claims, faults, stolen, glued, misread>>

EndPeek(p) ==
    /\ pc[p] = "peeked"
    /\ Leave(p, "idle")
    /\ UNCHANGED <<lock, fileVars, claims, faults, stolen, glued, misread>>
-----------------------------------------------------------------------------
(* The mutation, under the lock.                                           *)

\* Mutant: an ambiguous intent may be claimed again.
AdmitsMutant(p) ==
    (op[p].kind = "pending") <=> (mem[p][op[p].fp] \in {"none", "ambiguous"})

\* A claim is recorded only for an unknown fingerprint, a mark only for a
\* known one.
Admits(p) == (op[p].kind = "pending") <=> (mem[p][op[p].fp] = "none")

\* The claim answers executed_hit, pending or ambiguous; the mark answers null.
Refuse(p) ==
    /\ pc[p] = "mutate"
    /\ ~Admits(p)
    /\ Goto(p, "release")
    /\ UNCHANGED <<lock, fileVars, op, attempt, mem, count, granted,
                   claims, faults, stolen, glued, misread>>

\* What appending the line of e does to the file when all of it ("clean"),
\* all but the newline ("whole") or less ("partial") is written.  A line
\* appended to an unterminated one is one line with it, and does not parse.
WriteLine(e, extent) ==
    /\ journal' = IF tail = "clean" /\ extent # "partial" THEN Append(journal, e)
                  ELSE IF tail = "whole" THEN SubSeq(journal, 1, Len(journal) - 1)
                  ELSE journal
    /\ tail' = IF tail = "clean" \/ extent = "clean" THEN extent ELSE "partial"
    /\ glued' = (glued \/ tail # "clean")
    /\ UNCHANGED snapshot

ShouldCompact(n) == n > CompactAfter

\* appendAndApplyEvent up to the compaction.
AppendEvent(p) ==
    /\ pc[p] = "mutate"
    /\ Admits(p)
    /\ WriteLine(op[p], "clean")
    /\ mem' = [mem EXCEPT ![p] = ApplyEvent(@, op[p])]
    /\ count' = [count EXCEPT ![p] = @ + 1]
    /\ granted' = [granted EXCEPT ![p] = op[p].kind = "pending"]
    /\ Goto(p, IF ShouldCompact(count[p] + 1) THEN "compact" ELSE "release")
    /\ UNCHANGED <<lock, op, attempt, claims, faults, stolen, misread>>

\* The write or the fsync fails after some of the line, none of it, or all of
\* it: the mutation throws and the finally block releases the lock.
AppendFails(p) ==
    /\ pc[p] = "mutate"
    /\ Admits(p)
    /\ Fault
    /\ \/ \E extent \in {"clean", "whole", "partial"} : WriteLine(op[p], extent)
       \/ UNCHANGED <<fileVars, glued>>
    /\ Goto(p, "release")
    /\ UNCHANGED <<lock, op, attempt, mem, count, granted, claims, stolen, misread>>

\* Mutant: the temporary file is never renamed.
WriteSnapshotMutant(p) ==
    /\ pc[p] = "compact"
    /\ Goto(p, "truncate")
    /\ UNCHANGED <<lock, fileVars, op, attempt, mem, count, granted,
                   claims, faults, stolen, glued, misread>>

\* writeSnapshot: a temporary file renamed over the snapshot.
WriteSnapshot(p) ==
    /\ pc[p] = "compact"
    /\ snapshot' = mem[p]
    /\ Goto(p, "truncate")
    /\ UNCHANGED <<lock, journal, tail, op, attempt, mem, count, granted,
                   claims, faults, stolen, glued, misread>>

\* truncateJournal: an empty temporary file renamed over the journal.
TruncateJournal(p) ==
    /\ pc[p] = "truncate"
    /\ journal' = << >> /\ tail' = "clean"
    /\ Goto(p, "release")
    /\ UNCHANGED <<lock, snapshot, op, attempt, mem, count, granted,
                   claims, faults, stolen, glued, misread>>

\* Either temporary file cannot be written: the call throws although its event
\* is in the journal.
CompactionFails(p) ==
    /\ pc[p] \in {"compact", "truncate"}
    /\ Fault
    /\ granted' = [granted EXCEPT ![p] = FALSE]
    /\ Goto(p, "release")
    /\ UNCHANGED <<lock, fileVars, op, attempt, mem, count,
                   claims, stolen, glued, misread>>

\* The process is killed between two system calls, or inside the append.
Crash(p) ==
    /\ pc[p] \notin {"idle", "dead"}
    /\ \/ UNCHANGED <<fileVars, glued>>
       \/ /\ pc[p] = "mutate" /\ Admits(p)
          /\ \E extent \in {"whole", "partial"} : WriteLine(op[p], extent)
    /\ Leave(p, "dead")
    /\ UNCHANGED <<lock, claims, faults, stolen, misread>>
-----------------------------------------------------------------------------
\* What the scheduler owes a process that is inside a call.
Run(p) ==
    \/ CreateLock(p) \/ LockBusy(p) \/ StatLock(p) \/ UnlinkStale(p) \/ GiveUp(p)
    \/ ReadSnapshot(p) \/ ReadJournal(p) \/ EndPeek(p)
    \/ Refuse(p) \/ AppendEvent(p) \/ WriteSnapshot(p) \/ TruncateJournal(p)
    \/ ReleaseLock(p)

Next ==
    \/ AgeLock
    \/ \E p \in Procs :
        \/ Call(p) \/ BeginPeek(p) \/ Run(p)
        \/ LeakLock(p) \/ UnreadSnapshot(p) \/ UnreadJournal(p)
        \/ AppendFails(p) \/ CompactionFails(p) \/ Crash(p)

Spec == Init /\ [][Next]_vars

FairSpec == Spec /\ \A p \in Procs : WF_vars(Run(p))

\* Executions in which no lock is stolen, no line glued and no snapshot misread: the
\* conditions the ledger's promises turn out to need.
SafeSpec == Init /\ [][Next /\ ~stolen' /\ ~glued' /\ ~misread']_vars
-----------------------------------------------------------------------------
TypeOK ==
    /\ lock \in LockFile \cup {NoLock}
    /\ snapshot \in Ledger
    /\ journal \in Seq(Event)
    /\ tail \in {"clean", "whole", "partial"}
    /\ pc \in [Procs -> Stages]
    /\ op \in [Procs -> Calls \cup {NoOp}]
    /\ attempt \in [Procs -> 0 .. LockRetries]
    /\ mem \in [Procs -> Ledger]
    /\ count \in [Procs -> Nat]
    /\ granted \in [Procs -> BOOLEAN]
    /\ claims \in [Fingerprints -> Nat]
    /\ faults \in 0 .. MaxFaults
    /\ stolen \in BOOLEAN
    /\ glued \in BOOLEAN
    /\ misread \in BOOLEAN

\* What the promises below need: no lock unlinked under its holder, no event appended to a
\* torn line, and no mutation that read a snapshot with entries in it as an empty one.
\* After any of the three the code may claim a fingerprint twice.
Undisturbed == ~stolen /\ ~glued /\ ~misread

\* MutualExclusion: as long as nobody's lock file was unlinked under it, at most
\* one process is between acquireLock and releaseLock (idempotency.ts:475), and
\* the lock file is the one it made.
MutualExclusion ==
    ~stolen => \A p \in Procs : pc[p] \in Locked =>
        /\ lock.there /\ lock.owner = p
        /\ \A q \in Procs : pc[q] \in Locked => q = p

\* AtMostOneClaim: undisturbed, over any number of processes, crashes, failed writes,
\* failed reads of the journal and compactions, claimWriteIntentForExecution answers
\* "claimed" at most once for a fingerprint, so at most one submission is ever admitted.
AtMostOneClaim ==
    Undisturbed => \A f \in Fingerprints : claims[f] <= 1

\* ClaimsSurvive: undisturbed, a fingerprint once answered "claimed" is on disk from then on,
\* in the snapshot or in the journal, at every point where a crash may hit.
ClaimsSurvive ==
    Undisturbed => \A f \in Fingerprints : claims[f] > 0 => OnDisk[f] # "none"

\* ReadersInventNothing: undisturbed, the unlocked reader behind the idempotency gate
\* may pair an old snapshot, or one it could not read, with a new journal, but every
\* fingerprint it reports is one the ledger holds.
ReadersInventNothing ==
    Undisturbed => \A p \in Procs : pc[p] = "peeked" =>
        \A f \in Fingerprints : mem[p][f] # "none" => OnDisk[f] # "none"

\* CallsReturn: whatever the other processes do to the lock, a call that its
\* process keeps running comes back, if only with IdempotencyLockError.
CallsReturn ==
    \A p \in Procs : pc[p] \notin {"idle", "dead"} ~> pc[p] \in {"idle", "dead"}

\* Implements: with its files undisturbed the ledger is the atomic table of
\* WriteIntentLedger, whose entries are what a load of the files would return.
Abstract == INSTANCE WriteIntentLedger WITH entries <- OnDisk
Implements == Abstract!ASpec

\* ClearingIsSafe (README.md:185, "lock prevents duplicate writes under
\* concurrent execution"): at most one claim whatever happens to the lock.
ClearingIsSafe ==
    ~glued /\ ~misread => \A f \in Fingerprints : claims[f] <= 1

\* TornLinesAreSafe (same line, "v3 journal + snapshot + lock prevents duplicate
\* writes"): at most one claim whatever a crash leaves at the journal's end.
TornLinesAreSafe ==
    ~stolen /\ ~misread => \A f \in Fingerprints : claims[f] <= 1
================================================================================
