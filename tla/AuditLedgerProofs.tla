-------------------------- MODULE AuditLedgerProofs --------------------------
(***************************************************************************)
(* What holds of AuditLedger for every number of threads, events, records, *)
(* sessions, faults and edits.                                             *)
(***************************************************************************)
EXTENDS AuditLedger, SequenceTheorems, TLAPS

-----------------------------------------------------------------------------
(* Typing.                                                                 *)

\* AppendLine keeps a file a sequence of lines.
LEMMA AppendLineType ==
  ASSUME NEW lines \in Seq(Line), NEW x \in Line
  PROVE  AppendLine(lines, x) \in Seq(Line)
  <1>1. TORN \in Line /\ GARBLED \in Line
    BY DEF Line
  <1>2. CASE lines # << >> /\ lines[Len(lines)] = TORN
    <2>1. Len(lines) \in 1..Len(lines)
      BY <1>2, LenProperties, EmptySeq
    <2>2. QED
      BY <1>1, <1>2, <2>1 DEF AppendLine
  <1>3. CASE ~(lines # << >> /\ lines[Len(lines)] = TORN)
    BY <1>3 DEF AppendLine
  <1>4. QED BY <1>2, <1>3

\* The last hash of a sequence of entries is a digest.
LEMMA HeadHashType ==
  ASSUME NEW es \in Seq(LedgerEntry)
  PROVE  HeadHash(es) \in Digest
  <1>1. CASE es = << >>
    BY <1>1 DEF HeadHash, GENESIS, Digest
  <1>2. CASE es # << >>
    <2>1. Len(es) \in 1..Len(es)
      BY <1>2, EmptySeq
    <2>2. es[Len(es)] \in LedgerEntry
      BY <2>1, ElementOfSeq
    <2>3. QED BY <1>2, <2>2 DEF HeadHash, LedgerEntry
  <1>3. QED BY <1>1, <1>2

\* An outsider's step is recorded in the history of edits.
LEMMA TamperShape ==
  ASSUME TypeOK, Tamper
  PROVE  /\ ~up /\ UNCHANGED <<entries, lock, pc, entry, session, up, faults>>
         /\ edits' # << >> /\ Len(edits') = Len(edits) + 1
         /\ edits = << >> => written' = file /\ Len(edits) = 0
  <1>1. PICK kind \in {"edit", "delete", "insert"}, i \in Nat : Outsider(kind, i)
    <2>1. \A i \in 0..Len(file) : i \in Nat
      BY LenProperties DEF TypeOK
    <2>2. CASE EditLine
      BY <2>1, <2>2 DEF EditLine
    <2>3. CASE DeleteLine
      BY <2>1, <2>3 DEF DeleteLine
    <2>4. CASE InsertLine
      BY <2>1, <2>4 DEF InsertLine
    <2>5. QED BY <2>2, <2>3, <2>4 DEF Tamper
  <1>2. edits' = Append(edits, [kind |-> kind, at |-> i])
    BY <1>1 DEF Outsider
  <1>3. QED
    BY <1>1, <1>2, AppendProperties DEF Outsider, TypeOK

\* Lines that are whole are ledger entries.
LEMMA WholeEntries ==
  ASSUME NEW lines \in Seq(Line), Whole(lines)
  PROVE  lines \in Seq(LedgerEntry)
  BY DEF Whole, Line

\* Every step of a thread in record() preserves the types.
LEMMA RecordType ==
  ASSUME TypeOK, NEW t \in Threads, record(t)
  PROVE  TypeOK'
  <1> USE DEF TypeOK
  <1>1. CASE Acquire(t)
    BY <1>1 DEF Acquire
  <1>2. CASE Build(t)
    <2>1. PICK ev \in Events :
             entry' = [entry EXCEPT ![t] =
               [body |-> [seq |-> Len(entries), ts |-> session, event |-> ev],
                prev_hash |-> HeadHash(entries),
                entry_hash |-> Append(HeadHash(entries),
                  [seq |-> Len(entries), ts |-> session, event |-> ev])]]
      BY <1>2 DEF Build
    <2>2. [seq |-> Len(entries), ts |-> session, event |-> ev] \in Body
      BY DEF Body
    <2>3. HeadHash(entries) \in Digest
      BY HeadHashType
    <2>4. Append(HeadHash(entries),
            [seq |-> Len(entries), ts |-> session, event |-> ev]) \in Digest
      BY <2>2, <2>3 DEF Digest
    <2> DEFINE new == [body |-> [seq |-> Len(entries), ts |-> session, event |-> ev],
                       prev_hash |-> HeadHash(entries),
                       entry_hash |-> Append(HeadHash(entries),
                         [seq |-> Len(entries), ts |-> session, event |-> ev])]
    <2>5. new \in LedgerEntry
      BY <2>2, <2>3, <2>4 DEF LedgerEntry
    <2>6. entry' = [entry EXCEPT ![t] = new]
      BY <2>1
    <2> HIDE DEF new
    <2>7. entry' \in [Threads -> LedgerEntry \union {NoEntry}]
      BY <2>5, <2>6
    <2>8. \A u \in Threads : pc'[u] \in {"built", "remembered"} => entry'[u] \in LedgerEntry
      BY <1>2, <2>5, <2>6 DEF Build
    <2>9. QED BY <1>2, <2>7, <2>8 DEF Build
  <1>3. CASE Remember(t)
    BY <1>3 DEF Remember
  <1>4. CASE Persist(t)
    BY <1>4, AppendLineType DEF Persist, Release, Line
  <1>5. CASE PersistFails(t)
    <2>1. entry[t] \in Line /\ TORN \in Line
      BY <1>5 DEF PersistFails, Line
    <2>2. AppendLine(file, entry[t]) \in Seq(Line) /\ AppendLine(file, TORN) \in Seq(Line)
      BY <2>1, AppendLineType
    <2>3. file' \in Seq(Line)
      BY <1>5, <2>2 DEF PersistFails
    <2>4. QED BY <1>5, <2>3 DEF PersistFails, Release
  <1>6. QED BY <1>1, <1>2, <1>3, <1>4, <1>5 DEF record

-----------------------------------------------------------------------------
(* What a change of a verified chain does to verification.  No lemma needs *)
(* more of the hash than that it is injective and never its own input.     *)

\* Verification compares every entry's links: consecutive entries of a chain
\* that verifies.
LEMMA VerifiedLinks ==
  ASSUME NEW s \in Seq(LedgerEntry), verify(s), NEW i \in 1..Len(s)
  PROVE  /\ s[i] \in LedgerEntry
         /\ s[i].entry_hash = Append(s[i].prev_hash, s[i].body)
         /\ i > 1 => s[i].prev_hash = s[i - 1].entry_hash
         /\ i = 1 => s[i].prev_hash = GENESIS
         /\ i < Len(s) => s[i + 1].prev_hash = s[i].entry_hash
  <1>1. s[i] \in LedgerEntry
    BY ElementOfSeq
  <1>2. i < Len(s) => (i + 1 \in 1..Len(s) /\ (i + 1) - 1 = i /\ i + 1 # 1)
    BY LenProperties
  <1>3. QED
    BY <1>1, <1>2 DEF verify, compute_hash

\* A digest is never the digest of something that starts with it.
LEMMA DigestGrows ==
  ASSUME NEW d \in Digest, NEW b \in Body
  PROVE  Append(d, b) # d /\ Append(d, b) \in Digest
  BY AppendProperties DEF Digest

\* Replacing an entry that is not the last one breaks a verified chain,
\* whatever hash the new entry carries.
LEMMA EditDetected ==
  ASSUME NEW s \in Seq(LedgerEntry), verify(s),
         NEW i \in 1..Len(s), i < Len(s),
         NEW e \in LedgerEntry, e # s[i]
  PROVE  ~verify(ReplaceAt(s, i, e))
  <1> DEFINE t == ReplaceAt(s, i, e)
  <1>1. /\ t \in Seq(LedgerEntry) /\ Len(t) = Len(s) /\ t[i] = e
        /\ \A j \in 1..Len(s) : j # i => t[j] = s[j]
    BY DEF ReplaceAt
  <1> HIDE DEF t
  <1>2. SUFFICES ASSUME verify(t) PROVE FALSE
    BY DEF t
  <1>3. i \in 1..Len(t) /\ i < Len(t) /\ i + 1 \in 1..Len(s)
    BY <1>1, LenProperties
  <1>4. s[i + 1] = t[i + 1] /\ (i > 1 => t[i - 1] = s[i - 1])
    BY <1>1, <1>3
  <1>5. e.prev_hash = s[i].prev_hash
    BY <1>1, <1>2, <1>3, <1>4, VerifiedLinks
  <1>6. e.entry_hash = s[i].entry_hash
    BY <1>1, <1>2, <1>3, <1>4, VerifiedLinks
  <1>7. Append(e.prev_hash, e.body) = Append(s[i].prev_hash, s[i].body)
    <2>1. t[i].entry_hash = Append(t[i].prev_hash, t[i].body)
      BY <1>1, <1>2, <1>3, VerifiedLinks
    <2>2. s[i].entry_hash = Append(s[i].prev_hash, s[i].body)
      BY VerifiedLinks
    <2>3. QED BY <1>1, <1>6, <2>1, <2>2
  <1>8. s[i] \in LedgerEntry
    BY VerifiedLinks
  <1>9. e.body = s[i].body
    BY <1>5, <1>7, <1>8, AppendInjective DEF LedgerEntry, Digest
  <1>10. e = s[i]
    BY <1>5, <1>6, <1>8, <1>9 DEF LedgerEntry
  <1>11. QED BY <1>10

\* Deleting an entry that is not the last one breaks a verified chain.
LEMMA DeletionDetected ==
  ASSUME NEW s \in Seq(LedgerEntry), verify(s),
         NEW i \in 1..Len(s), i < Len(s)
  PROVE  ~verify(RemoveAt(s, i))
  <1> DEFINE t == RemoveAt(s, i)
  <1>1. /\ t \in Seq(LedgerEntry) /\ Len(t) = Len(s) - 1 /\ t[i] = s[i + 1]
        /\ i > 1 => t[i - 1] = s[i - 1]
    <2> DEFINE p == SubSeq(s, 1, i - 1)
               q == SubSeq(s, i + 1, Len(s))
    <2>1. Len(s) \in Nat /\ i \in Nat
      BY LenProperties
    <2>2. \A j \in 1..Len(s) : s[j] \in LedgerEntry
      BY ElementOfSeq
    <2>3. /\ p \in Seq(LedgerEntry) /\ Len(p) = i - 1
          /\ \A j \in 1..i - 1 : p[j] = s[j]
      BY <2>1, <2>2, SubSeqProperties
    <2>4. /\ q \in Seq(LedgerEntry) /\ Len(q) = Len(s) - i
          /\ q[1] = s[i + 1]
      BY <2>1, <2>2, SubSeqProperties
    <2>5. t = p \o q
      BY DEF RemoveAt
    <2> HIDE DEF p, q, t
    <2>6. /\ t \in Seq(LedgerEntry) /\ Len(t) = Len(p) + Len(q)
          /\ \A j \in 1..Len(p) + Len(q) :
               t[j] = IF j <= Len(p) THEN p[j] ELSE q[j - Len(p)]
      BY <2>3, <2>4, <2>5, ConcatProperties
    <2>7. i \in 1..Len(p) + Len(q) /\ i - Len(p) = 1
      BY <2>1, <2>3, <2>4
    <2>8. t[i] = s[i + 1]
      BY <2>1, <2>3, <2>4, <2>6, <2>7
    <2>9. i > 1 => t[i - 1] = s[i - 1]
      BY <2>1, <2>3, <2>6, <2>7
    <2>10. Len(t) = Len(s) - 1
      BY <2>1, <2>3, <2>4, <2>6
    <2>11. QED BY <2>6, <2>8, <2>9, <2>10
  <1> HIDE DEF t
  <1>2. SUFFICES ASSUME verify(t) PROVE FALSE
    BY DEF t
  <1>3. i \in 1..Len(t) /\ i + 1 \in 1..Len(s)
    BY <1>1, LenProperties
  <1>4. s[i + 1].prev_hash = s[i].prev_hash
    <2>1. /\ i = 1 => s[i].prev_hash = GENESIS /\ t[i].prev_hash = GENESIS
          /\ i > 1 => s[i].prev_hash = s[i - 1].entry_hash /\ t[i].prev_hash = t[i - 1].entry_hash
      BY <1>1, <1>2, <1>3, VerifiedLinks
    <2>2. QED BY <1>1, <1>3, <2>1, LenProperties
  <1>5. s[i].entry_hash = s[i].prev_hash
    BY <1>4, VerifiedLinks
  <1>6. s[i] \in LedgerEntry /\ s[i].entry_hash = Append(s[i].prev_hash, s[i].body)
    BY VerifiedLinks
  <1>7. QED BY <1>5, <1>6, DigestGrows DEF LedgerEntry

\* Putting an entry before another one breaks a verified chain.
LEMMA InsertionDetected ==
  ASSUME NEW s \in Seq(LedgerEntry), verify(s),
         NEW i \in 1..Len(s), NEW e \in LedgerEntry
  PROVE  ~verify(InsertAt(s, i, e))
  <1> DEFINE t == InsertAt(s, i, e)
  <1>1. /\ t \in Seq(LedgerEntry) /\ Len(t) = Len(s) + 1
        /\ t[i] = e /\ t[i + 1] = s[i]
        /\ i > 1 => t[i - 1] = s[i - 1]
    BY LenProperties DEF InsertAt
  <1> HIDE DEF t
  <1>2. SUFFICES ASSUME verify(t) PROVE FALSE
    BY DEF t
  <1>3. i \in 1..Len(t) /\ i < Len(t)
    BY <1>1, LenProperties
  <1>4. e.prev_hash = s[i].prev_hash
    <2>1. /\ i = 1 => s[i].prev_hash = GENESIS /\ t[i].prev_hash = GENESIS
          /\ i > 1 => s[i].prev_hash = s[i - 1].entry_hash /\ t[i].prev_hash = t[i - 1].entry_hash
      BY <1>1, <1>2, <1>3, VerifiedLinks
    <2>2. QED BY <1>1, <1>3, <2>1, LenProperties
  <1>5. e.entry_hash = s[i].prev_hash
    BY <1>1, <1>2, <1>3, VerifiedLinks
  <1>6. e.entry_hash = Append(e.prev_hash, e.body)
    BY <1>1, <1>2, <1>3, VerifiedLinks
  <1>7. QED BY <1>4, <1>5, <1>6, DigestGrows DEF LedgerEntry

-----------------------------------------------------------------------------
(* Typing, continued: the steps of the process and of outsiders.           *)

\* Every step of an outsider puts ledger entries into the file.
LEMMA TamperType ==
  ASSUME TypeOK, Tamper
  PROVE  TypeOK'
  <1>1. Line = LedgerEntry \union {TORN, GARBLED}
    BY DEF Line
  <1>2. CASE EditLine
    <2>1. PICK i \in 1..Len(file), ev \in Events, hash \in Digest :
            /\ file[i] \in LedgerEntry
            /\ file' = ReplaceAt(file, i, [body |-> [file[i].body EXCEPT !.event = ev],
                         entry_hash |-> hash, prev_hash |-> file[i].prev_hash])
            /\ Outsider("edit", i)
      <3>1. PICK i \in 1..Len(file), ev \in Events, rehash \in BOOLEAN :
              /\ file[i] \notin {TORN, GARBLED}
              /\ file' = ReplaceAt(file, i, [body |-> [file[i].body EXCEPT !.event = ev],
                   entry_hash |-> IF rehash THEN Append(file[i].prev_hash, [file[i].body EXCEPT !.event = ev])
                                            ELSE file[i].entry_hash,
                   prev_hash |-> file[i].prev_hash])
              /\ Outsider("edit", i)
        BY <1>2 DEF EditLine
      <3>2. file[i] \in LedgerEntry
        BY <1>1, <3>1, ElementOfSeq DEF TypeOK
      <3>3. [file[i].body EXCEPT !.event = ev] \in Body
        BY <3>2 DEF LedgerEntry, Body
      <3>4. Append(file[i].prev_hash, [file[i].body EXCEPT !.event = ev]) \in Digest
        BY <3>2, <3>3 DEF LedgerEntry, Digest
      <3>5. file[i].entry_hash \in Digest
        BY <3>2 DEF LedgerEntry
      <3>6. QED BY <3>1, <3>2, <3>4, <3>5
    <2>2. [body |-> [file[i].body EXCEPT !.event = ev], entry_hash |-> hash,
           prev_hash |-> file[i].prev_hash] \in Line
      BY <1>1, <2>1 DEF LedgerEntry, Body
    <2>3. file' \in Seq(Line)
      BY <2>1, <2>2, ExceptSeq DEF ReplaceAt, TypeOK
    <2>4. QED BY <2>1, <2>3 DEF Outsider, TypeOK
  <1>3. CASE DeleteLine
    <2>1. PICK i \in 1..Len(file) : file' = RemoveAt(file, i) /\ Outsider("delete", i)
      BY <1>3 DEF DeleteLine
    <2>2. file' \in Seq(Line)
      BY <2>1 DEF RemoveAt, TypeOK
    <2>3. QED BY <2>1, <2>2 DEF Outsider, TypeOK
  <1>4. CASE InsertLine
    <2>1. PICK i \in 0..Len(file), ev \in Events :
            /\ Whole(file)
            /\ file' = InsertAt(file, i + 1,
                 [body |-> [seq |-> i, ts |-> session, event |-> ev],
                  prev_hash |-> HeadHash(SubSeq(file, 1, i)),
                  entry_hash |-> Append(HeadHash(SubSeq(file, 1, i)),
                                   [seq |-> i, ts |-> session, event |-> ev])])
            /\ Outsider("insert", i)
      BY <1>4 DEF InsertLine
    <2>2. file \in Seq(LedgerEntry)
      BY <2>1, WholeEntries DEF TypeOK
    <2>3. HeadHash(SubSeq(file, 1, i)) \in Digest
      <3>1. SubSeq(file, 1, i) \in Seq(LedgerEntry)
        BY <2>2, LenProperties, ElementOfSeq, SubSeqProperties
      <3>2. QED BY <3>1, HeadHashType
    <2>4. [seq |-> i, ts |-> session, event |-> ev] \in Body
      BY LenProperties DEF TypeOK, Body
    <2>5. [body |-> [seq |-> i, ts |-> session, event |-> ev],
           prev_hash |-> HeadHash(SubSeq(file, 1, i)),
           entry_hash |-> Append(HeadHash(SubSeq(file, 1, i)),
                            [seq |-> i, ts |-> session, event |-> ev])] \in LedgerEntry
      BY <2>3, <2>4 DEF LedgerEntry, Digest
    <2>6. file' \in Seq(Line)
      BY <1>1, <2>1, <2>5 DEF InsertAt, TypeOK
    <2>7. QED BY <2>1, <2>6 DEF Outsider, TypeOK
  <1>5. QED BY <1>2, <1>3, <1>4 DEF Tamper

\* Starting, stopping and reopening preserve the types.
LEMMA SessionType ==
  ASSUME TypeOK, Stop \/ Open \/ UNCHANGED vars
  PROVE  TypeOK'
  <1>1. CASE Stop
    <2>1. TORN \in Line
      BY DEF Line
    <2>2. \A t \in Threads : pc[t] = "remembered" => entry[t] \in Line
      BY DEF TypeOK, Line
    <2>3. \A t \in Threads : pc[t] = "remembered" => AppendLine(file, entry[t]) \in Seq(Line)
      BY <2>2, AppendLineType DEF TypeOK
    <2>4. AppendLine(file, TORN) \in Seq(Line)
      BY <2>1, AppendLineType DEF TypeOK
    <2>5. file' \in Seq(Line)
      BY <1>1, <2>3, <2>4 DEF Stop, TypeOK
    <2>6. /\ pc' = [t \in Threads |-> "idle"]
          /\ entry' = [t \in Threads |-> NoEntry]
          /\ entries' = << >> /\ lock' = NoThread /\ up' = FALSE
          /\ UNCHANGED <<session, faults, written, edits>>
      BY <1>1 DEF Stop
    <2>7. \A t \in Threads : pc'[t] = "idle"
      BY <2>6
    <2>8. pc' \in [Threads -> {"idle", "locked", "built", "remembered"}]
      BY <2>6
    <2>9. entry' \in [Threads -> LedgerEntry \union {NoEntry}]
      BY <2>6
    <2>10. entries' \in Seq(LedgerEntry)
      BY <2>6
    <2>11. \A t \in Threads : pc'[t] \in {"built", "remembered"} => entry'[t] \in LedgerEntry
      BY <2>7
    <2>12. QED BY <2>5, <2>6, <2>8, <2>9, <2>10, <2>11 DEF TypeOK
  <1>2. CASE Open
    BY <1>2 DEF Open, TypeOK
  <1>3. CASE UNCHANGED vars
    BY <1>3 DEF vars, TypeOK
  <1>4. QED BY <1>1, <1>2, <1>3

\* The types of all variables, the local `entry` of record() being set
\* whenever it is used.
THEOREM LedgerTypeOK == Spec => []TypeOK
  <1>1. Init => TypeOK
    BY DEF Init, TypeOK
  <1>2. TypeOK /\ [Next]_vars => TypeOK'
    BY RecordType, TamperType, SessionType DEF Next
  <1>3. QED BY <1>1, <1>2, PTL DEF Spec

-----------------------------------------------------------------------------
(* The chain in memory.                                                    *)

\* A torn or garbled line is not a ledger entry.
LEMMA BadLines == TORN \notin LedgerEntry /\ GARBLED \notin LedgerEntry
  BY DEF TORN, GARBLED, LedgerEntry

\* An entry that continues a verified chain extends it to a verified chain.
LEMMA VerifyAppend ==
  ASSUME NEW s \in Seq(LedgerEntry), verify(s), NEW e \in LedgerEntry,
         e.prev_hash = HeadHash(s), e.entry_hash = compute_hash(e)
  PROVE  verify(Append(s, e))
  <1> DEFINE a == Append(s, e)
  <1>1. /\ Len(a) = Len(s) + 1 /\ a[Len(s) + 1] = e /\ Len(s) \in Nat
        /\ \A i \in 1..Len(s) : a[i] = s[i]
    BY AppendProperties, LenProperties
  <1> HIDE DEF a
  <1>2. SUFFICES ASSUME NEW i \in 1..Len(a)
                 PROVE  /\ a[i].prev_hash = IF i = 1 THEN GENESIS ELSE a[i - 1].entry_hash
                        /\ a[i].entry_hash = compute_hash(a[i])
    BY DEF verify, a
  <1>3. CASE i \in 1..Len(s)
    <2>1. i # 1 => i - 1 \in 1..Len(s)
      BY <1>1, <1>3
    <2>2. QED BY <1>1, <1>3, <2>1 DEF verify
  <1>4. CASE i = Len(s) + 1
    <2>1. CASE s = << >>
      <3>1. Len(s) = 0
        BY <2>1
      <3>2. QED BY <1>1, <1>4, <2>1, <3>1 DEF HeadHash
    <2>2. CASE s # << >>
      <3>1. Len(s) \in 1..Len(s) /\ i - 1 = Len(s) /\ i # 1
        BY <1>1, <1>4, <2>2, EmptySeq
      <3>2. QED BY <1>1, <1>4, <2>2, <3>1 DEF HeadHash
    <2>3. QED BY <2>1, <2>2
  <1>5. QED BY <1>1, <1>3, <1>4

\* All but the last entry of a verified chain are a verified chain.
LEMMA VerifyFront ==
  ASSUME NEW s \in Seq(Line), NEW e \in Line, verify(Append(s, e))
  PROVE  verify(s)
  <1>1. /\ Len(Append(s, e)) = Len(s) + 1 /\ Len(s) \in Nat
        /\ \A i \in 1..Len(s) : Append(s, e)[i] = s[i]
    BY AppendProperties, LenProperties
  <1>2. QED BY <1>1 DEF verify

\* One thread at a time: the lock orders every record().
LEMMA OneInRecord ==
  ASSUME LockInv, NEW t \in Threads, NEW u \in Threads,
         pc[t] # "idle", pc[u] # "idle"
  PROVE  t = u
  BY DEF LockInv

\* The invariants of the thread that holds the lock.
LEMMA ChainStep ==
  ASSUME TypeOK, LockInv, BuiltInv, RememberedInv, ClosedInv, MemoryVerifies, [Next]_vars
  PROVE  LockInv' /\ BuiltInv' /\ RememberedInv' /\ ClosedInv' /\ MemoryVerifies'
  <1> USE DEF LockInv, BuiltInv, RememberedInv, ClosedInv, MemoryVerifies, TypeOK
  <1>1. ASSUME NEW t \in Threads, Acquire(t)
        PROVE  LockInv' /\ BuiltInv' /\ RememberedInv' /\ ClosedInv' /\ MemoryVerifies'
    BY <1>1, ConstantsAssumption DEF Acquire
  <1>2. ASSUME NEW t \in Threads, Build(t)
        PROVE  LockInv' /\ BuiltInv' /\ RememberedInv' /\ ClosedInv' /\ MemoryVerifies'
    BY <1>2 DEF Build, compute_hash
  <1>3. ASSUME NEW t \in Threads, Remember(t)
        PROVE  LockInv' /\ BuiltInv' /\ RememberedInv' /\ ClosedInv' /\ MemoryVerifies'
    <2>1. entry[t] \in LedgerEntry /\ entries' = Append(entries, entry[t])
      BY <1>3 DEF Remember
    <2>2. MemoryVerifies'
      BY <1>3, <2>1, VerifyAppend DEF Remember
    <2>3. entries' # << >> /\ entries'[Len(entries')] = entry[t]
      BY <2>1, AppendProperties
    <2>4. \A u \in Threads : pc[u] # "idle" => u = t
      BY <1>3, OneInRecord DEF Remember
    <2>5. QED BY <1>3, <2>2, <2>3, <2>4 DEF Remember
  <1>4. ASSUME NEW t \in Threads, Persist(t) \/ PersistFails(t)
        PROVE  LockInv' /\ BuiltInv' /\ RememberedInv' /\ ClosedInv' /\ MemoryVerifies'
    <2>1. \A u \in Threads : pc[u] # "idle" => u = t
      BY <1>4, OneInRecord DEF Persist, PersistFails
    <2>2. QED BY <1>4, <2>1 DEF Persist, PersistFails, Release
  <1>0. verify(<< >>)
    BY EmptySeq DEF verify
  <1>5. CASE Stop
    <2>1. /\ \A t \in Threads : pc'[t] = "idle"
          /\ entries' = << >> /\ up' = FALSE
      BY <1>5 DEF Stop
    <2>2. QED BY <1>0, <2>1
  <1>6. CASE Open
    BY <1>0, <1>6 DEF Open
  <1>7. CASE Tamper
    BY <1>7, TamperShape
  <1>8. CASE UNCHANGED vars
    BY <1>8 DEF vars
  <1>9. QED BY <1>1, <1>2, <1>3, <1>4, <1>5, <1>6, <1>7, <1>8 DEF Next, record

-----------------------------------------------------------------------------
(* The file of the first session.                                          *)

\* The file a session without faults writes holds entries only.
LEMMA FollowingFile ==
  ASSUME TypeOK, LockInv, MemoryVerifies, FileFollowsMemory,
         up, session = 1, faults = 0, edits = << >>
  PROVE  file \in Seq(LedgerEntry) /\ verify(file)
  <1>1. CASE Pending = {}
    BY <1>1 DEF FileFollowsMemory, MemoryVerifies, TypeOK
  <1>2. CASE Pending # {}
    <2>1. PICK t \in Pending : entries = Append(file, entry[t])
      BY <1>2 DEF FileFollowsMemory
    <2>2. entry[t] \in LedgerEntry /\ file \in Seq(Line)
      BY <2>1 DEF TypeOK, Pending
    <2>3. verify(file)
      BY <2>1, <2>2, VerifyFront DEF MemoryVerifies, Line
    <2>4. /\ Len(entries) = Len(file) + 1 /\ Len(file) \in Nat
          /\ \A i \in 1..Len(file) : entries[i] = file[i]
      BY <2>1, <2>2, AppendProperties, LenProperties DEF Line
    <2>5. \A i \in 1..Len(file) : file[i] \in LedgerEntry
      BY <2>4, ElementOfSeq DEF TypeOK
    <2>6. QED BY <2>2, <2>3, <2>5
  <1>3. QED BY <1>1, <1>2

\* Appending to a file of entries adds a line.
LEMMA AppendToEntries ==
  ASSUME NEW s \in Seq(LedgerEntry), NEW x
  PROVE  AppendLine(s, x) = Append(s, x)
  <1>1. s # << >> => s[Len(s)] # TORN
    BY EmptySeq, ElementOfSeq, BadLines
  <1>2. QED BY <1>1 DEF AppendLine

\* A file of entries none of which splits its line loads.
LEMMA EntriesLoad ==
  ASSUME NEW s \in Seq(LedgerEntry), verify(s), Unsplit(s)
  PROVE  LoadVerdict(s) = "verified"
  BY ElementOfSeq, BadLines DEF LoadVerdict, Readable, Whole

\* While the first session runs, what it has written verifies; a crash adds
\* nothing, the pending entry or a torn line.
LEMMA FileStep ==
  ASSUME TypeOK, LockInv, BuiltInv, RememberedInv, ClosedInv, MemoryVerifies,
         FileFollowsMemory, CrashedFileVerifies, [Next]_vars
  PROVE  FileFollowsMemory' /\ CrashedFileVerifies'
  <1>1. ASSUME NEW t \in Threads, Acquire(t) \/ Build(t)
        PROVE  FileFollowsMemory' /\ CrashedFileVerifies'
    <2>1. Pending' = Pending /\ \A u \in Pending : entry'[u] = entry[u]
      <3>1. pc[t] # "remembered" /\ pc'[t] # "remembered"
        BY <1>1 DEF Acquire, Build, TypeOK
      <3>2. \A u \in Threads : u # t => pc'[u] = pc[u] /\ entry'[u] = entry[u]
        BY <1>1 DEF Acquire, Build, TypeOK
      <3>3. QED BY <3>1, <3>2 DEF Pending
    <2>2. UNCHANGED <<entries, file, session, up, faults, edits>>
      BY <1>1 DEF Acquire, Build
    <2>3. QED BY <2>1, <2>2 DEF FileFollowsMemory, CrashedFileVerifies
  <1>2. ASSUME NEW t \in Threads, Remember(t)
        PROVE  FileFollowsMemory' /\ CrashedFileVerifies'
    <2>1. Pending = {} /\ Pending' = {t}
      <3>1. \A u \in Threads : pc[u] # "idle" => u = t
        BY <1>2, OneInRecord DEF Remember
      <3>2. QED BY <1>2, <3>1 DEF Remember, Pending, TypeOK
    <2>2. entries' = Append(entries, entry[t]) /\ entry' = entry
      BY <1>2 DEF Remember
    <2>3. UNCHANGED <<file, session, up, faults, edits>>
      BY <1>2 DEF Remember
    <2>4. QED BY <2>1, <2>2, <2>3 DEF FileFollowsMemory, CrashedFileVerifies
  <1>3. ASSUME NEW t \in Threads, Persist(t)
        PROVE  FileFollowsMemory' /\ CrashedFileVerifies'
    <2>1. t \in Pending /\ Pending' = {}
      <3>1. \A u \in Threads : pc[u] # "idle" => u = t
        BY <1>3, OneInRecord DEF Persist
      <3>2. QED BY <1>3, <3>1 DEF Persist, Release, Pending, TypeOK
    <2>2. UNCHANGED <<entries, session, up, faults, edits>> /\ up
      BY <1>3 DEF Persist
    <2>3. SUFFICES ASSUME session = 1, faults = 0, edits = << >>
                   PROVE  FileFollowsMemory' /\ CrashedFileVerifies'
      BY <2>2 DEF FileFollowsMemory, CrashedFileVerifies
    <2>4. file' = entries
      BY <1>3, <2>1, <2>2, <2>3, FollowingFile, AppendToEntries DEF Persist, FileFollowsMemory
    <2>5. Unsplit(file') => LoadVerdict(file') = "verified"
      BY <2>4, EntriesLoad DEF TypeOK, MemoryVerifies
    <2>6. QED BY <2>1, <2>2, <2>4, <2>5 DEF FileFollowsMemory, CrashedFileVerifies
  <1>4. ASSUME NEW t \in Threads, PersistFails(t)
        PROVE  FileFollowsMemory' /\ CrashedFileVerifies'
    <2>1. faults' # 0
      BY <1>4 DEF PersistFails, TypeOK
    <2>2. QED BY <2>1 DEF FileFollowsMemory, CrashedFileVerifies
  <1>5. CASE Stop
    <2>1. SUFFICES ASSUME session = 1, faults = 0, edits = << >>, Unsplit(file')
                   PROVE  CrashedFileVerifies'
      BY <1>5 DEF Stop, FileFollowsMemory, CrashedFileVerifies
    <2>2. file \in Seq(LedgerEntry) /\ verify(file)
      BY <1>5, <2>1, FollowingFile DEF Stop
    <2>3. CASE file' = file
      BY <2>1, <2>2, <2>3, EntriesLoad DEF CrashedFileVerifies
    <2>4. CASE file' = AppendLine(file, TORN)
      <3>1. file' = Append(file, TORN)
        BY <2>2, <2>4, AppendToEntries
      <3>2. /\ Len(file') = Len(file) + 1 /\ file'[Len(file')] = TORN
            /\ SubSeq(file', 1, Len(file') - 1) = file
            /\ \A i \in 1..Len(file) : i \in 1..Len(file') /\ file'[i] = file[i]
        BY <2>2, <3>1, AppendProperties, LenProperties
      <3>3. Unsplit(file)
        BY <2>1, <3>2 DEF Unsplit
      <3>4. QED BY <2>2, <3>2, <3>3, EntriesLoad DEF CrashedFileVerifies
    <2>5. ASSUME NEW t \in Pending, file' = AppendLine(file, entry[t])
          PROVE  CrashedFileVerifies'
      <3>1. file' = entries
        BY <1>5, <2>1, <2>2, <2>5, AppendToEntries DEF Stop, FileFollowsMemory
      <3>2. QED BY <2>1, <3>1, EntriesLoad DEF CrashedFileVerifies, TypeOK, MemoryVerifies
    <2>6. QED BY <1>5, <2>3, <2>4, <2>5 DEF Stop, Pending
  <1>6. CASE Open
    <2>1. session' # 1
      BY <1>6 DEF Open, TypeOK
    <2>2. QED BY <2>1 DEF FileFollowsMemory, CrashedFileVerifies
  <1>7. CASE Tamper
    <2>1. edits' # << >>
      BY <1>7, TamperShape
    <2>2. QED BY <2>1 DEF FileFollowsMemory, CrashedFileVerifies
  <1>8. CASE UNCHANGED vars
    BY <1>8 DEF vars, FileFollowsMemory, CrashedFileVerifies, Pending
  <1>9. QED BY <1>1, <1>2, <1>3, <1>4, <1>5, <1>6, <1>7, <1>8 DEF Next, record

-----------------------------------------------------------------------------
(* The file of several sessions.                                           *)

\* A line that continues the last one extends the chains of a file.
LEMMA ChainedAppend ==
  ASSUME NEW lines \in Seq(LedgerEntry), Chained(lines), NEW e \in LedgerEntry,
         e.entry_hash = compute_hash(e),
         IF e.body.seq = 0 THEN e.prev_hash = GENESIS
         ELSE /\ lines # << >> /\ e.body.seq = lines[Len(lines)].body.seq + 1
              /\ e.prev_hash = lines[Len(lines)].entry_hash
  PROVE  Chained(Append(lines, e))
  <1> DEFINE a == Append(lines, e)
  <1>1. /\ Len(a) = Len(lines) + 1 /\ a[Len(lines) + 1] = e /\ Len(lines) \in Nat
        /\ \A i \in 1..Len(lines) : a[i] = lines[i]
    BY AppendProperties, LenProperties
  <1> HIDE DEF a
  <1>2. SUFFICES ASSUME NEW i \in 1..Len(a)
                 PROVE  /\ a[i].entry_hash = compute_hash(a[i])
                        /\ IF a[i].body.seq = 0 THEN a[i].prev_hash = GENESIS
                           ELSE /\ i > 1 /\ a[i].body.seq = a[i - 1].body.seq + 1
                                /\ a[i].prev_hash = a[i - 1].entry_hash
    BY DEF Chained, a
  <1>3. CASE i \in 1..Len(lines)
    <2>1. i > 1 => i - 1 \in 1..Len(lines)
      BY <1>1, <1>3
    <2>2. QED BY <1>1, <1>3, <2>1 DEF Chained
  <1>4. CASE i = Len(lines) + 1
    <2>1. CASE lines = << >>
      BY <1>1, <1>4, <2>1
    <2>2. CASE lines # << >>
      <3>1. i > 1 /\ i - 1 = Len(lines) /\ Len(lines) \in 1..Len(lines)
        BY <1>1, <1>4, <2>2, EmptySeq
      <3>2. QED BY <1>1, <1>4, <2>2, <3>1
    <2>3. QED BY <2>1, <2>2
  <1>5. QED BY <1>1, <1>3, <1>4

\* No append makes a file whole that was not.
LEMMA NeverWholeAgain ==
  ASSUME NEW lines \in Seq(Line), NEW x \in Line, Whole(AppendLine(lines, x))
  PROVE  Whole(lines)
  <1>1. CASE lines # << >> /\ lines[Len(lines)] = TORN
    <2>1. Len(lines) \in 1..Len(lines)
      BY <1>1, EmptySeq
    <2>2. Len(AppendLine(lines, x)) = Len(lines)
      BY <1>1 DEF AppendLine
    <2>3. AppendLine(lines, x)[Len(lines)] \in {TORN, GARBLED}
      BY <1>1, <2>1 DEF AppendLine
    <2>4. QED BY <2>1, <2>2, <2>3 DEF Whole
  <1>2. CASE ~(lines # << >> /\ lines[Len(lines)] = TORN)
    BY <1>2, AppendProperties, LenProperties DEF AppendLine, Whole
  <1>3. QED BY <1>1, <1>2

\* The entry a thread is about to write continues the file.
LEMMA PendingContinues ==
  ASSUME TypeOK, LockInv, RememberedInv, MemoryVerifies, SessionsInv,
         up, faults = 0, edits = << >>, Whole(file),
         NEW t \in Threads, pc[t] = "remembered"
  PROVE  Chained(AppendLine(file, entry[t]))
  <1> DEFINE n == Len(entries)
  <1>1. file \in Seq(LedgerEntry) /\ entry[t] \in LedgerEntry
    BY WholeEntries DEF TypeOK
  <1>2. entry[t] = entries[n] /\ n \in 1..n /\ n \in Nat
    BY EmptySeq, LenProperties DEF RememberedInv, TypeOK
  <1>3. Saved = n - 1
    BY DEF Saved, Pending
  <1>4. entries[n].body.seq = n - 1
    BY <1>2 DEF SessionsInv, NumberedInv
  <1>5. /\ entries[n].entry_hash = compute_hash(entries[n])
        /\ entries[n].prev_hash = IF n = 1 THEN GENESIS ELSE entries[n - 1].entry_hash
    BY <1>2 DEF MemoryVerifies, verify
  <1>6. n > 1 => /\ file # << >> /\ file[Len(file)] = entries[n - 1]
                 /\ entries[n - 1].body.seq = n - 2
    <2> SUFFICES ASSUME n > 1
                 PROVE  /\ file # << >> /\ file[Len(file)] = entries[n - 1]
                        /\ entries[n - 1].body.seq = n - 2
      OBVIOUS
    <2>1. n - 1 \in 1..n /\ n - 1 > 0
      BY <1>2
    <2>2. file # << >> /\ file[Len(file)] = entries[n - 1]
      BY <1>3, <2>1 DEF SessionsInv, TailInv
    <2>3. entries[n - 1].body.seq = (n - 1) - 1
      BY <2>1 DEF SessionsInv, NumberedInv
    <2>4. QED BY <1>2, <2>2, <2>3
  <1>7. Chained(file)
    BY DEF SessionsInv, SessionsStayChained
  <1>8. Chained(Append(file, entry[t]))
    <2>1. CASE n = 1
      BY <1>1, <1>2, <1>4, <1>5, <1>7, <2>1, ChainedAppend
    <2>2. CASE n > 1
      <3>1. /\ entry[t].body.seq # 0
            /\ entry[t].body.seq = file[Len(file)].body.seq + 1
            /\ entry[t].prev_hash = file[Len(file)].entry_hash
        BY <1>2, <1>4, <1>5, <1>6, <2>2
      <3>2. QED BY <1>1, <1>2, <1>5, <1>6, <1>7, <2>2, <3>1, ChainedAppend
    <2>3. n = 1 \/ n > 1
      <3>1. n \in Nat /\ n \in 1..n
        BY <1>2
      <3> HIDE DEF n
      <3>2. QED BY <3>1
    <2>4. QED BY <2>1, <2>2, <2>3
  <1>9. QED BY <1>1, <1>8, AppendToEntries

\* Every step keeps each session's part of the file a chain of its own, and
\* what the live session adds next attached to it.
LEMMA SessionsStep ==
  ASSUME TypeOK, LockInv, BuiltInv, RememberedInv, ClosedInv, MemoryVerifies,
         SessionsInv, [Next]_vars
  PROVE  SessionsInv'
  <1> USE DEF SessionsInv
  <1>1. ASSUME NEW t \in Threads, Acquire(t) \/ Build(t)
        PROVE  SessionsInv'
    <2>1. UNCHANGED <<entries, file, up, faults, edits>>
      BY <1>1 DEF Acquire, Build
    <2>2. Pending' = Pending
      BY <1>1 DEF Acquire, Build, Pending, TypeOK
    <2>3. NumberedInv'
      <3>1. CASE Acquire(t)
        BY <3>1 DEF Acquire, NumberedInv, TypeOK
      <3>2. CASE Build(t)
        BY <3>2 DEF Build, NumberedInv, TypeOK
      <3>3. QED BY <1>1, <3>1, <3>2
    <2>4. QED BY <2>1, <2>2, <2>3 DEF TailInv, Saved, SessionsStayChained
  <1>2. ASSUME NEW t \in Threads, Remember(t)
        PROVE  SessionsInv'
    <2>1. /\ entries' = Append(entries, entry[t]) /\ entry[t] \in LedgerEntry
          /\ UNCHANGED <<file, entry, up, faults, edits>>
      BY <1>2 DEF Remember, TypeOK
    <2>2. \A u \in Threads : pc[u] # "idle" => u = t
      BY <1>2, OneInRecord DEF Remember
    <2>3. Pending = {} /\ Pending' = {t}
      BY <1>2, <2>2 DEF Remember, Pending, TypeOK
    <2>4. /\ Len(entries') = Len(entries) + 1 /\ Len(entries) \in Nat
          /\ entries'[Len(entries) + 1] = entry[t]
          /\ \A i \in 1..Len(entries) : entries'[i] = entries[i]
      BY <2>1, AppendProperties, LenProperties DEF TypeOK
    <2>5. NumberedInv'
      <3>1. \A u \in Threads : pc'[u] # "built"
        BY <1>2, <2>2 DEF Remember, TypeOK
      <3>2. entry[t].body.seq = Len(entries)
        BY <1>2 DEF Remember, NumberedInv
      <3>3. \A i \in 1..Len(entries') : entries'[i].body.seq = i - 1
        BY <2>4, <3>2 DEF NumberedInv
      <3>4. QED BY <3>1, <3>3 DEF NumberedInv
    <2>6. Saved' = Saved /\ Saved = Len(entries)
      BY <2>3, <2>4 DEF Saved
    <2>7. TailInv'
      BY <2>1, <2>4, <2>6 DEF TailInv
    <2>8. QED BY <2>1, <2>5, <2>7 DEF SessionsStayChained
  <1>3. ASSUME NEW t \in Threads, Persist(t)
        PROVE  SessionsInv'
    <2>1. /\ file' = AppendLine(file, entry[t]) /\ pc[t] = "remembered" /\ up
          /\ UNCHANGED <<entries, entry, up, faults, edits>>
      BY <1>3 DEF Persist
    <2>2. \A u \in Threads : pc[u] # "idle" => u = t
      BY <1>3, OneInRecord DEF Persist
    <2>3. Pending' = {} /\ \A u \in Threads : pc'[u] = "idle"
      BY <1>3, <2>2 DEF Persist, Release, Pending, TypeOK
    <2>4. NumberedInv'
      BY <2>1, <2>3 DEF NumberedInv
    <2>5. SUFFICES ASSUME faults = 0, edits = << >>, Whole(file')
                   PROVE  TailInv' /\ SessionsStayChained'
      BY <2>1, <2>4 DEF TailInv, SessionsStayChained
    <2>6. entry[t] \in LedgerEntry /\ entry[t] \in Line
      BY <2>1 DEF TypeOK, Line
    <2>7. Whole(file)
      BY <2>1, <2>5, <2>6, NeverWholeAgain DEF TypeOK
    <2>8. Chained(file')
      BY <2>1, <2>5, <2>7, PendingContinues
    <2>9. file' # << >> /\ file'[Len(file')] = entry[t]
      <3>1. file \in Seq(LedgerEntry)
        BY <2>7, WholeEntries DEF TypeOK
      <3>2. file' = Append(file, entry[t])
        BY <2>1, <3>1, AppendToEntries
      <3>3. QED BY <2>6, <3>1, <3>2, AppendProperties
    <2>10. entry[t] = entries[Len(entries)]
      BY <2>1 DEF RememberedInv
    <2>11. Saved' = Len(entries)
      BY <2>1, <2>3 DEF Saved
    <2>12. QED BY <2>1, <2>8, <2>9, <2>10, <2>11 DEF TailInv, SessionsStayChained
  <1>4. ASSUME NEW t \in Threads, PersistFails(t)
        PROVE  SessionsInv'
    <2>1. faults' # 0 /\ UNCHANGED <<entries, entry>>
      BY <1>4 DEF PersistFails, TypeOK
    <2>2. \A u \in Threads : pc'[u] = "built" => pc[u] = "built"
      BY <1>4 DEF PersistFails, Release, TypeOK
    <2>3. QED BY <2>1, <2>2 DEF NumberedInv, TailInv, SessionsStayChained
  <1>5. CASE Stop
    <2>1. /\ entries' = << >> /\ up' = FALSE /\ \A t \in Threads : pc'[t] = "idle"
          /\ up /\ UNCHANGED <<faults, edits>>
      BY <1>5 DEF Stop
    <2>2. NumberedInv' /\ TailInv'
      BY <2>1 DEF NumberedInv, TailInv
    <2>3. SUFFICES ASSUME faults = 0, edits = << >>, Whole(file')
                   PROVE  Chained(file')
      BY <2>1, <2>2 DEF SessionsStayChained
    <2>4. CASE file' = file
      BY <2>3, <2>4 DEF SessionsStayChained
    <2>5. CASE file' = AppendLine(file, TORN)
      <3>1. TORN \in Line /\ TORN # GARBLED
        BY DEF Line, TORN, GARBLED
      <3>2. file \in Seq(Line) /\ Whole(file)
        BY <2>3, <2>5, <3>1, NeverWholeAgain DEF TypeOK
      <3>3. file' = Append(file, TORN)
        BY <2>5, <3>2, WholeEntries, AppendToEntries
      <3>4. Len(file') \in 1..Len(file') /\ file'[Len(file')] = TORN
        BY <3>1, <3>2, <3>3, AppendProperties, LenProperties
      <3>5. QED BY <2>3, <3>4 DEF Whole
    <2>6. ASSUME NEW t \in Threads, pc[t] = "remembered", file' = AppendLine(file, entry[t])
          PROVE  Chained(file')
      <3>1. Whole(file)
        BY <2>3, <2>6, NeverWholeAgain DEF TypeOK, Line
      <3>2. QED BY <2>1, <2>3, <2>6, <3>1, PendingContinues
    <2>7. QED BY <1>5, <2>4, <2>5, <2>6 DEF Stop
  <1>6. CASE Open
    <2>1. entries' = << >> /\ pc' = pc /\ UNCHANGED <<file, faults, edits>>
      BY <1>6 DEF Open
    <2>2. \A t \in Threads : pc'[t] = "idle"
      BY <1>6, <2>1 DEF Open, ClosedInv
    <2>3. Pending' = {} /\ Saved' = 0
      BY <2>1, <2>2 DEF Pending, Saved
    <2>4. QED BY <2>1, <2>2, <2>3 DEF NumberedInv, TailInv, SessionsStayChained
  <1>7. CASE Tamper
    BY <1>7, TamperShape DEF NumberedInv, TailInv, SessionsStayChained
  <1>8. CASE UNCHANGED vars
    BY <1>8 DEF vars, NumberedInv, TailInv, Saved, Pending, SessionsStayChained
  <1>9. QED BY <1>1, <1>2, <1>3, <1>4, <1>5, <1>6, <1>7, <1>8 DEF Next, record

-----------------------------------------------------------------------------
(* Edits of a closed file.                                                 *)

\* A file that verified holds entries only.
LEMMA VerifiedFile ==
  ASSUME NEW s \in Seq(Line), LoadVerdict(s) = "verified"
  PROVE  s \in Seq(LedgerEntry) /\ verify(s)
  BY WholeEntries DEF LoadVerdict, Readable

\* The one edit made so far, if it was made before the last line, is evident.
LEMMA EditStep ==
  ASSUME TypeOK, ClosedInv, MiddleEditEvident, [Next]_vars
  PROVE  MiddleEditEvident'
  <1>1. CASE Tamper
    <2>1. SUFFICES ASSUME Len(edits') = 1, LoadVerdict(file) = "verified",
                          edits'[1].at < Len(file), edits = << >>
                   PROVE  LoadVerdict(file') # "verified"
      <3>1. Len(edits) = 0 => edits = << >>
        BY EmptySeq DEF TypeOK
      <3>2. Len(edits) \in Nat
        BY LenProperties DEF TypeOK
      <3>3. Len(edits') = 1 => edits = << >>
        BY <1>1, TamperShape, <3>1, <3>2
      <3>4. QED BY <1>1, TamperShape, <3>3 DEF MiddleEditEvident
    <2>2. file \in Seq(LedgerEntry) /\ verify(file)
      BY <2>1, VerifiedFile DEF TypeOK
    <2>3. \A kind, i : edits' = Append(edits, [kind |-> kind, at |-> i]) => edits'[1].at = i
      BY <2>1
    <2>4. CASE EditLine
      <3>0. PICK i \in 1..Len(file), ev \in Events, rehash \in BOOLEAN :
              /\ ev # file[i].body.event
              /\ file' = ReplaceAt(file, i, [body |-> [file[i].body EXCEPT !.event = ev],
                   entry_hash |-> IF rehash THEN Append(file[i].prev_hash, [file[i].body EXCEPT !.event = ev])
                                            ELSE file[i].entry_hash,
                   prev_hash |-> file[i].prev_hash])
              /\ Outsider("edit", i)
        BY <2>4 DEF EditLine
      <3> DEFINE e == [body |-> [file[i].body EXCEPT !.event = ev],
                   entry_hash |-> IF rehash THEN Append(file[i].prev_hash, [file[i].body EXCEPT !.event = ev])
                                            ELSE file[i].entry_hash,
                   prev_hash |-> file[i].prev_hash]
      <3>1. file' = ReplaceAt(file, i, e) /\ Outsider("edit", i)
        BY <3>0
      <3>2. i < Len(file) /\ e # file[i]
        <4>0. file[i] \in LedgerEntry
          BY <2>2, ElementOfSeq
        <4>1. file[i].body \in Body
          BY <4>0 DEF LedgerEntry
        <4>2. e.body.event = ev
          BY <4>1 DEF Body
        <4>3. QED BY <2>1, <2>3, <3>0, <4>2 DEF Outsider
      <3> HIDE DEF e
      <3>3. TypeOK'
        BY <1>1, TamperType
      <3>4. file'[i] = e
        BY <2>2, <3>1 DEF ReplaceAt
      <3>5. SUFFICES ASSUME LoadVerdict(file') = "verified" PROVE FALSE
        OBVIOUS
      <3>6. file' \in Seq(LedgerEntry) /\ verify(file') /\ Len(file') = Len(file)
        <4>1. file' \in Seq(Line)
          BY <3>3 DEF TypeOK
        <4>2. file' \in Seq(LedgerEntry) /\ verify(file')
          BY <3>5, <4>1, VerifiedFile
        <4>3. QED BY <2>2, <3>1, <4>2 DEF ReplaceAt
      <3>7. e \in LedgerEntry
        BY <3>4, <3>6, ElementOfSeq
      <3>8. QED BY <2>2, <3>1, <3>2, <3>6, <3>7, EditDetected
    <2>5. CASE DeleteLine
      <3>1. PICK i \in 1..Len(file) : file' = RemoveAt(file, i) /\ Outsider("delete", i)
        BY <2>5 DEF DeleteLine
      <3>2. i < Len(file)
        BY <2>1, <2>3, <3>1 DEF Outsider
      <3>3. QED BY <2>2, <3>1, <3>2, DeletionDetected DEF LoadVerdict
    <2>6. CASE InsertLine
      <3>1. PICK i \in 0..Len(file) :
              /\ \E e : file' = InsertAt(file, i + 1, e)
              /\ Outsider("insert", i)
        BY <2>6, Zenon DEF InsertLine
      <3> PICK e : file' = InsertAt(file, i + 1, e)
        BY <3>1
      <3>2. i < Len(file) /\ i + 1 \in 1..Len(file)
        BY <2>1, <2>2, <2>3, <3>1, LenProperties DEF Outsider
      <3>3. SUFFICES ASSUME LoadVerdict(file') = "verified" PROVE FALSE
        OBVIOUS
      <3>4. file' \in Seq(LedgerEntry) /\ verify(file')
        <4>1. file' \in Seq(Line)
          BY <1>1, TamperType DEF TypeOK
        <4>2. QED BY <3>3, <4>1, VerifiedFile
      <3>5. e \in LedgerEntry
        <4>1. Len(file') = Len(file) + 1 /\ file'[i + 1] = e
          BY <2>2, <3>1, <3>2, LenProperties DEF InsertAt
        <4>2. QED BY <3>2, <3>4, <4>1, ElementOfSeq, LenProperties
      <3>6. QED BY <2>2, <3>1, <3>2, <3>4, <3>5, InsertionDetected
    <2>7. QED BY <1>1, <2>4, <2>5, <2>6 DEF Tamper
  <1>2. CASE (\E t \in Threads : record(t)) \/ Stop \/ Open \/ UNCHANGED vars
    <2>1. edits = << >> => edits' = << >>
      BY <1>2 DEF record, Acquire, Build, Remember, Persist, PersistFails, Stop, Open, vars
    <2>2. edits # << >> => UNCHANGED <<edits, file, written>>
      BY <1>2 DEF ClosedInv, record, Acquire, Build, Remember, Persist, PersistFails, Stop, Open, vars
    <2>3. QED BY <2>1, <2>2, EmptySeq DEF MiddleEditEvident
  <1>3. QED BY <1>1, <1>2 DEF Next

-----------------------------------------------------------------------------
(* The theorems.                                                           *)

\* The strengthened invariant of the ledger.
THEOREM LedgerInvariant == Spec => []LedgerInv
  <1>1. Init => LedgerInv
    <2> SUFFICES ASSUME Init PROVE LedgerInv
      OBVIOUS
    <2>1. verify(<< >>) /\ LoadVerdict(<< >>) = "verified"
      BY EmptySeq DEF verify, LoadVerdict, Readable, Whole, Unsplit
    <2>2. LockInv /\ BuiltInv /\ RememberedInv /\ ClosedInv /\ Pending = {}
      BY DEF Init, LockInv, BuiltInv, RememberedInv, ClosedInv, Pending
    <2>3. MemoryVerifies /\ FileFollowsMemory /\ CrashedFileVerifies
      BY <2>1, <2>2 DEF Init, MemoryVerifies, FileFollowsMemory, CrashedFileVerifies
    <2>4. MiddleEditEvident
      BY EmptySeq DEF Init, MiddleEditEvident
    <2>5. QED BY <2>2, <2>3, <2>4 DEF LedgerInv
  <1>2. TypeOK /\ LedgerInv /\ [Next]_vars => LedgerInv'
    BY ChainStep, FileStep, EditStep DEF LedgerInv
  <1>3. QED BY <1>1, <1>2, LedgerTypeOK, PTL DEF Spec

\* However the recording threads interleave, the chain in memory verifies.
THEOREM MemoryAlwaysVerifies == Spec => []MemoryVerifies
  BY LedgerInvariant, PTL DEF LedgerInv

\* The file of a first session without failed writes is what memory holds, less
\* the entry being written.
THEOREM FileAlwaysFollowsMemory == Spec => []FileFollowsMemory
  BY LedgerInvariant, PTL DEF LedgerInv

\* What a crash of the first session leaves verifies up to a torn last line.
THEOREM CrashedFileAlwaysVerifies == Spec => []CrashedFileVerifies
  BY LedgerInvariant, PTL DEF LedgerInv

\* However many sessions write one file, as long as no write fails or is torn,
\* the file is the chains of its sessions one after the other: an auditor who
\* splits it at the entries numbered 0 can verify each part.
THEOREM SessionsAlwaysChained == Spec => []SessionsStayChained
  <1>1. Init => SessionsInv
    <2> SUFFICES ASSUME Init PROVE SessionsInv
      OBVIOUS
    <2>1. Len(<< >>) = 0 /\ Pending = {} /\ Saved = 0
      BY EmptySeq DEF Init, Pending, Saved
    <2>2. QED BY <2>1 DEF Init, SessionsInv, NumberedInv, TailInv, SessionsStayChained, Chained
  <1>2. TypeOK /\ LedgerInv /\ SessionsInv /\ [Next]_vars => SessionsInv'
    BY SessionsStep DEF LedgerInv
  <1>3. SessionsInv => SessionsStayChained
    BY DEF SessionsInv
  <1>4. QED BY <1>1, <1>2, <1>3, LedgerTypeOK, LedgerInvariant, PTL DEF Spec

\* One change before the last line of a file that verified is always evident.
THEOREM MiddleEditAlwaysEvident == Spec => []MiddleEditEvident
  BY LedgerInvariant, PTL DEF LedgerInv

\* A record(), a failed write, a crash or a reopening never alters a complete
\* line of the file.
THEOREM FileOnlyGrows == Spec => FileAppendOnly
  <1> DEFINE Grows == \A i \in 1..Len(file) :
                        i \in 1..Len(file') /\ (file[i] # TORN => file'[i] = file[i])
  <1>1. ASSUME TypeOK, NEW x \in Line, file' = AppendLine(file, x)
        PROVE  Grows
    <2>1. CASE file # << >> /\ file[Len(file)] = TORN
      BY <1>1, <2>1, LenProperties DEF AppendLine, TypeOK
    <2>2. CASE ~(file # << >> /\ file[Len(file)] = TORN)
      BY <1>1, <2>2, AppendProperties, LenProperties DEF AppendLine, TypeOK
    <2>3. QED BY <2>1, <2>2
  <1>2. ASSUME TypeOK, Next, edits' = edits PROVE Grows
    <2>1. \/ file' = file
          \/ file' = AppendLine(file, TORN)
          \/ \E t \in Threads : pc[t] = "remembered" /\ file' = AppendLine(file, entry[t])
      <3>1. CASE Tamper
        BY <1>2, <3>1, TamperShape, LenProperties DEF TypeOK
      <3>2. CASE (\E t \in Threads : record(t)) \/ Stop \/ Open
        BY <3>2 DEF record, Acquire, Build, Remember, Persist, PersistFails, Stop, Open
      <3>3. QED BY <1>2, <3>1, <3>2 DEF Next
    <2>2. CASE file' = file
      BY <2>2
    <2>3. CASE file' = AppendLine(file, TORN)
      BY <1>1, <1>2, <2>3 DEF Line
    <2>4. ASSUME NEW t \in Threads, pc[t] = "remembered", file' = AppendLine(file, entry[t])
          PROVE  Grows
      BY <1>1, <1>2, <2>4 DEF Line, TypeOK
    <2>5. QED BY <2>1, <2>2, <2>3, <2>4
  <1>3. TypeOK /\ [Next]_vars =>
          [edits' = edits =>
             \A i \in 1..Len(file) :
               /\ i \in 1..Len(file')
               /\ file[i] # TORN => file'[i] = file[i]]_vars
    BY <1>2
  <1>4. QED BY <1>3, LedgerTypeOK, PTL DEF Spec, FileAppendOnly
=============================================================================
