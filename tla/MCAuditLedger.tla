---------------------------- MODULE MCAuditLedger ----------------------------
(* Small instances of AuditLedger.                                          *)
EXTENDS AuditLedger, TLC

CONSTANTS t1, t2, e1, e2, e3

RecordSym == Permutations(Threads) \union Permutations(Events \ SplitEvents)
=============================================================================
