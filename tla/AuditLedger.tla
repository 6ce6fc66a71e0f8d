----------------------------- MODULE AuditLedger -----------------------------
(***************************************************************************)
(* The hash-chained audit ledger of src/src/muraqib/observability/audit.py *)
(* as used by the assessment pipeline and by the runtime governance        *)
(* engine: several threads record through one AuditLedger object, every    *)
(* record is appended to memory and then to a JSONL file, the process can  *)
(* die or a write can fail between the two, a later process can open the   *)
(* same path again, and `muraqib verify-ledger` loads the file and walks   *)
(* its chain.                                                              *)
(*                                                                         *)
(* SHA-256 is taken to be collision-free.  The digest of an entry is then  *)
(* determined by, and determines, the entry's body and the digest before   *)
(* it, so a digest is represented by the sequence of bodies it covers.     *)
(***************************************************************************)
EXTENDS Naturals, Sequences, SequencesExt

CONSTANTS
  Threads,      \* threads that share one AuditLedger object
  Events,       \* what a record is about: event, actor and payload
  SplitEvents,  \* those whose payload has a Unicode line separator in it
  MaxSessions,  \* how often the path is opened by an AuditLedger(path)
  MaxRecords,   \* bound on the entries recorded by one session
  MaxFaults,    \* bound on the record() calls whose file write raises
  MaxEdits,     \* bound on edits made to the closed file by somebody else
  NoThread      \* the lock's value when nobody holds it

ASSUME ConstantsAssumption ==
  /\ MaxSessions \in Nat /\ MaxRecords \in Nat
  /\ MaxFaults \in Nat /\ MaxEdits \in Nat
  /\ NoThread \notin Threads
  /\ SplitEvents \subseteq Events

-----------------------------------------------------------------------------
(***************************************************************************)
(* Entries, digests and verification.                                      *)
(***************************************************************************)

\* What an entry's hash covers besides prev_hash.  The wall clock is told
\* apart only between sessions: ts is the number of the session.
Body == [seq : Nat, ts : Nat, event : Events]

Digest == Seq(Body)

GENESIS == << >>

LedgerEntry == [body : Body, prev_hash : Digest, entry_hash : Digest]

compute_hash(e) == Append(e.prev_hash, e.body)

\* A line that json.loads refuses: an unfinished append (TORN, no newline
\* yet) or what a later append made of it (GARBLED).
TORN == [bad |-> "torn"]
GARBLED == [bad |-> "garbled"]
Line == LedgerEntry \union {TORN, GARBLED}

\* Mutant of HeadHash: continues the entry before the last one.
HeadHash_Stale(es) == IF es = << >> THEN GENESIS ELSE es[Len(es)].prev_hash

HeadHash(es) == IF es = << >> THEN GENESIS ELSE es[Len(es)].entry_hash

\* Mutant of verify: the hashes are recomputed, the links are not compared.
verify_NoLinks(es) == \A i \in 1..Len(es) : es[i].entry_hash = compute_hash(es[i])

\* verify(): each entry continues the one before it and hashes to its hash.
verify(es) ==
  \A i \in 1..Len(es) :
    /\ es[i].prev_hash = IF i = 1 THEN GENESIS ELSE es[i - 1].entry_hash
    /\ es[i].entry_hash = compute_hash(es[i])

Whole(lines) == \A i \in 1..Len(lines) : lines[i] \notin {TORN, GARBLED}

\* json.dumps(ensure_ascii=False) writes U+0085, U+2028 and U+2029 as they are,
\* and splitlines() takes each for the end of a line.
Unsplit(lines) ==
  \A i \in 1..Len(lines) :
    lines[i] \notin {TORN, GARBLED} => lines[i].body.event \notin SplitEvents

Readable(lines) == Whole(lines) /\ Unsplit(lines)

\* `muraqib verify-ledger`: load(path) raises on a line that is not JSON.
LoadVerdict(lines) ==
  IF ~Readable(lines) THEN "unreadable"
  ELSE IF verify(lines) THEN "verified" ELSE "tampered"

\* Appending to a file whose last line has no newline glues the new entry
\* to what is there.
AppendLine(lines, x) ==
  IF lines # << >> /\ lines[Len(lines)] = TORN
  THEN [lines EXCEPT ![Len(lines)] = IF x = TORN THEN TORN ELSE GARBLED]
  ELSE Append(lines, x)

-----------------------------------------------------------------------------
VARIABLES
  entries,   \* AuditLedger._entries of the live session
  file,      \* the lines of the JSONL file
  lock,      \* AuditLedger._lock: the thread inside record(), or NoThread
  pc,        \* where each thread is in record()
  entry,     \* record()'s local `entry`, per thread
  session,   \* number of AuditLedger(path) objects made so far
  up,        \* the process that owns the ledger is alive
  faults,    \* record() calls whose file write raised
  written,   \* history: the file's lines when an outsider first edited it
  edits      \* history: the edits made by outsiders, in order

vars == <<entries, file, lock, pc, entry, session, up, faults, written, edits>>

NoEntry == [bad |-> "unset"]

Init ==
  /\ entries = << >>
  /\ file = << >>
  /\ lock = NoThread
  /\ pc = [t \in Threads |-> "idle"]
  /\ entry = [t \in Threads |-> NoEntry]
  /\ session = 1
  /\ up = TRUE
  /\ faults = 0
  /\ written = << >>
  /\ edits = << >>

\* Mutant of Acquire: record() takes no lock.
Acquire_NoLock(t) ==
  /\ up
  /\ pc[t] = "idle"
  /\ Len(entries) < MaxRecords
  /\ lock' = t
  /\ pc' = [pc EXCEPT ![t] = "locked"]
  /\ UNCHANGED <<entries, file, entry, session, up, faults, written, edits>>

\* `with self._lock:` - MaxRecords bounds the entries of one session.
Acquire(t) ==
  /\ up
  /\ pc[t] = "idle"
  /\ lock = NoThread
  /\ Len(entries) < MaxRecords
  /\ lock' = t
  /\ pc' = [pc EXCEPT ![t] = "locked"]
  /\ UNCHANGED <<entries, file, entry, session, up, faults, written, edits>>

\* Reads the last hash and the length, builds the entry and hashes it.
Build(t) ==
  /\ up
  /\ pc[t] = "locked"
  /\ \E ev \in Events :
       LET body == [seq |-> Len(entries), ts |-> session, event |-> ev]
           prev == HeadHash(entries)
       IN  entry' = [entry EXCEPT ![t] =
                       [body |-> body, prev_hash |-> prev,
                        entry_hash |-> Append(prev, body)]]
  /\ pc' = [pc EXCEPT ![t] = "built"]
  /\ UNCHANGED <<entries, file, lock, session, up, faults, written, edits>>

\* Mutant of Remember: the with block ends here and the file is written outside it.
Remember_ReleasesLock(t) ==
  /\ up
  /\ pc[t] = "built"
  /\ entries' = Append(entries, entry[t])
  /\ pc' = [pc EXCEPT ![t] = "remembered"]
  /\ lock' = NoThread
  /\ UNCHANGED <<file, entry, session, up, faults, written, edits>>

\* self._entries.append(entry): memory is ahead of the file from here on.
Remember(t) ==
  /\ up
  /\ pc[t] = "built"
  /\ entries' = Append(entries, entry[t])
  /\ pc' = [pc EXCEPT ![t] = "remembered"]
  /\ UNCHANGED <<file, lock, entry, session, up, faults, written, edits>>

\* Leaving the with block.
Release(t) ==
  /\ lock' = NoThread
  /\ pc' = [pc EXCEPT ![t] = "idle"]

\* open("a"), write, flush, fsync.
Persist(t) ==
  /\ up
  /\ pc[t] = "remembered"
  /\ file' = AppendLine(file, entry[t])
  /\ Release(t)
  /\ UNCHANGED <<entries, entry, session, up, faults, written, edits>>

\* The write raises: nothing, a part of the line or (fsync failing) all of it
\* has reached the file.  record() raises, the entry stays in memory.
PersistFails(t) ==
  /\ up
  /\ pc[t] = "remembered"
  /\ faults < MaxFaults
  /\ faults' = faults + 1
  /\ file' \in {file, AppendLine(file, TORN), AppendLine(file, entry[t])}
  /\ Release(t)
  /\ UNCHANGED <<entries, entry, session, up, written, edits>>

\* The process ends, normally or not.  Dying inside record() can leave none,
\* a part or all of the line behind.
Stop ==
  /\ up
  /\ up' = FALSE
  /\ file' \in {file} \union
       {AppendLine(file, TORN) : t \in {u \in Threads : pc[u] = "remembered"}} \union
       {AppendLine(file, entry[t]) : t \in {u \in Threads : pc[u] = "remembered"}}
  /\ entries' = << >>
  /\ lock' = NoThread
  /\ pc' = [t \in Threads |-> "idle"]
  /\ entry' = [t \in Threads |-> NoEntry]
  /\ UNCHANGED <<session, faults, written, edits>>

\* AuditLedger(run_id, path) on a path that may hold an earlier session's
\* lines: __init__ starts from an empty list and never reads the file.
Open ==
  /\ ~up
  /\ edits = << >>
  /\ session < MaxSessions
  /\ session' = session + 1
  /\ up' = TRUE
  /\ entries' = << >>
  /\ UNCHANGED <<file, lock, pc, entry, faults, written, edits>>

-----------------------------------------------------------------------------
(***************************************************************************)
(* Edits of the closed file by somebody else (external to the program).    *)
(* MaxEdits bounds them.                                                   *)
(***************************************************************************)
Outsider(kind, i) ==
  /\ ~up
  /\ Len(edits) < MaxEdits
  /\ written' = IF edits = << >> THEN file ELSE written
  /\ edits' = Append(edits, [kind |-> kind, at |-> i])
  /\ UNCHANGED <<entries, lock, pc, entry, session, up, faults>>

\* A line's event is changed, and its own hash recomputed or left alone.
EditLine ==
  \E i \in 1..Len(file), ev \in Events, rehash \in BOOLEAN :
    /\ file[i] \notin {TORN, GARBLED}
    /\ ev # file[i].body.event
    /\ LET body == [file[i].body EXCEPT !.event = ev]
           hash == IF rehash THEN Append(file[i].prev_hash, body)
                             ELSE file[i].entry_hash
       IN  file' = ReplaceAt(file, i, [body |-> body, entry_hash |-> hash,
                                       prev_hash |-> file[i].prev_hash])
    /\ Outsider("edit", i)

DeleteLine ==
  \E i \in 1..Len(file) :
    /\ file' = RemoveAt(file, i)
    /\ Outsider("delete", i)

\* A well-formed entry that continues line i is put after it.
InsertLine ==
  \E i \in 0..Len(file), ev \in Events :
    /\ Whole(file)
    /\ LET body == [seq |-> i, ts |-> session, event |-> ev]
           prev == HeadHash(SubSeq(file, 1, i))
           new  == [body |-> body, prev_hash |-> prev, entry_hash |-> Append(prev, body)]
       IN  file' = InsertAt(file, i + 1, new)
    /\ Outsider("insert", i)

Tamper == EditLine \/ DeleteLine \/ InsertLine

-----------------------------------------------------------------------------
record(t) == Acquire(t) \/ Build(t) \/ Remember(t) \/ Persist(t) \/ PersistFails(t)

Next == (\E t \in Threads : record(t)) \/ Stop \/ Open \/ Tamper

Spec == Init /\ [][Next]_vars

-----------------------------------------------------------------------------
(***************************************************************************)
(* Properties.                                                             *)
(***************************************************************************)

TypeOK ==
  /\ entries \in Seq(LedgerEntry)
  /\ file \in Seq(Line)
  /\ lock \in Threads \union {NoThread}
  /\ pc \in [Threads -> {"idle", "locked", "built", "remembered"}]
  /\ entry \in [Threads -> LedgerEntry \union {NoEntry}]
  /\ \A t \in Threads : pc[t] \in {"built", "remembered"} => entry[t] \in LedgerEntry
  /\ session \in Nat \ {0}
  /\ up \in BOOLEAN
  /\ faults \in Nat
  /\ written \in Seq(Line)
  /\ edits \in Seq([kind : {"edit", "delete", "insert"}, at : Nat])

\* Whatever the interleaving of the threads that record, the chain in memory
\* verifies in every state, in the middle of a record() too
\* (AuditLedger.verify reads _entries without taking the lock).
MemoryVerifies == verify(entries)

Pending == {t \in Threads : pc[t] = "remembered"}

\* As long as one session wrote the file and no write failed, the file is what
\* memory holds, less the one entry a thread is still writing.
FileFollowsMemory ==
  (up /\ session = 1 /\ faults = 0 /\ edits = << >>) =>
    /\ Pending = {} => entries = file
    /\ \A t \in Pending : entries = Append(file, entry[t])

\* Under the same conditions what a dead process leaves behind verifies, when
\* no payload splits its line, unless its very last line is a torn append - and
\* then all before it does.
CrashedFileVerifies ==
  (session = 1 /\ faults = 0 /\ edits = << >> /\ Unsplit(file)) =>
    \/ LoadVerdict(file) = "verified"
    \/ file[Len(file)] = TORN /\ LoadVerdict(SubSeq(file, 1, Len(file) - 1)) = "verified"

\* Each entry starts a session's chain or continues, in number and in hash, the
\* entry before it.
Chained(lines) ==
  \A i \in 1..Len(lines) :
    /\ lines[i].entry_hash = compute_hash(lines[i])
    /\ IF lines[i].body.seq = 0 THEN lines[i].prev_hash = GENESIS
       ELSE /\ i > 1 /\ lines[i].body.seq = lines[i - 1].body.seq + 1
            /\ lines[i].prev_hash = lines[i - 1].entry_hash

\* When several sessions wrote one file, each without a torn or failed write,
\* what each of them wrote is still an unbroken chain of its own.
SessionsStayChained == (faults = 0 /\ edits = << >> /\ Whole(file)) => Chained(file)

\* One edit, deletion or insertion in the middle of a file that verified makes
\* it fail verification, even when the changed line's own hash is recomputed.
MiddleEditEvident ==
  (Len(edits) = 1 /\ LoadVerdict(written) = "verified") =>
    (edits[1].at < Len(written) => LoadVerdict(file) # "verified")

\* The file only grows while the program runs: no complete line a session wrote
\* is ever altered by a later record(), crash, failed write or reopening.
FileAppendOnly ==
  [][edits' = edits =>
       \A i \in 1..Len(file) :
         /\ i \in 1..Len(file')
         /\ file[i] # TORN => file'[i] = file[i]]_vars

\* The lock at work, as an inductive strengthening of MemoryVerifies: one
\* thread is inside record(), what it built continues the chain, what it
\* remembered is the last entry; only a closed file is edited.
LockInv == \A t \in Threads : pc[t] # "idle" => lock = t
BuiltInv ==
  \A t \in Threads : pc[t] = "built" =>
    /\ entry[t].prev_hash = HeadHash(entries)
    /\ entry[t].entry_hash = compute_hash(entry[t])
RememberedInv ==
  \A t \in Threads : pc[t] = "remembered" =>
    entries # << >> /\ entry[t] = entries[Len(entries)]
ClosedInv ==
  /\ edits # << >> => ~up
  /\ ~up => \A t \in Threads : pc[t] = "idle"

\* The same of a file of several sessions: entries are numbered from 0, and the
\* last line is what the next entry of the live session continues.
NumberedInv ==
  /\ \A i \in 1..Len(entries) : entries[i].body.seq = i - 1
  /\ \A t \in Threads : pc[t] = "built" => entry[t].body.seq = Len(entries)
Saved == IF Pending = {} THEN Len(entries) ELSE Len(entries) - 1
TailInv ==
  (up /\ faults = 0 /\ edits = << >> /\ Whole(file) /\ Saved > 0) =>
    file # << >> /\ file[Len(file)] = entries[Saved]
SessionsInv == NumberedInv /\ TailInv /\ SessionsStayChained

LedgerInv ==
  /\ LockInv
  /\ BuiltInv
  /\ RememberedInv
  /\ ClosedInv
  /\ MemoryVerifies
  /\ FileFollowsMemory
  /\ CrashedFileVerifies
  /\ MiddleEditEvident

(***************************************************************************)
(* What the documents say of the ledger and the code does not do.          *)
(***************************************************************************)

\* cli.py prints TAMPERED for a file that loads and does not verify: that is
\* said of a file nobody but the program wrote, opened by a second session.
UneditedNeverTampered ==
  edits = << >> /\ faults = 0 => LoadVerdict(file) # "tampered"

\* tests/test_audit_and_reporting.py: what one session recorded without a crash,
\* a failed write or an edit reloads and verifies.
RecordedReloads ==
  (edits = << >> /\ faults = 0 /\ session = 1 /\ Whole(file)) =>
    LoadVerdict(file) = "verified"
=============================================================================
