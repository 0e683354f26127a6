----------------------------- MODULE AuditChain -----------------------------
(***************************************************************************)
(* The audit chain of the voters database: numbered entries, of which each *)
(* carries the hash of the one before.                                     *)
(*                                                                         *)
(* A writer appends one entry.  It does so in a transaction of its own, or *)
(* in the transaction of the change that the entry tells of (stripping,    *)
(* counting, certifying, demo reset), which holds the election's row when  *)
(* it comes to the table.  PostgreSQL aborts the whole transaction at the  *)
(* first error in it.                                                      *)
(***************************************************************************)
EXTENDS Naturals, Sequences, FiniteSets, SequencesExt

CONSTANTS
    Writers,         \* one call of recordAuditEvent each
    InTransaction,   \* those that hand in the client of a caller's transaction
    RootOf,          \* the urn root an entry carries: only LINK_CLEARED does
    Roots,           \* urn roots
    MaxFailures,     \* bound on failing statements, lost connections, timeouts
    MaxTampering,    \* bound on writes to the table past the application
    Nothing

ASSUME AuditAssumption ==
    /\ InTransaction \subseteq Writers
    /\ Nothing \notin Writers
    /\ MaxFailures \in Nat /\ MaxTampering \in Nat

VARIABLES
    chain,        \* audit_event as committed, in the order of `sequence`
    row,          \* who holds the election's row
    table,        \* who holds the table: SHARE ROW EXCLUSIVE
    previous,     \* per writer, the last entry it read
    staged,       \* per writer, the entry in its open transaction
    writer,       \* per writer, where it is
    changed,      \* the callers' changes that are committed
    written,      \* every entry the application has committed
    recomputed,   \* somebody has recomputed hashes
    failures,
    tampering

auditVars == <<chain, row, table, previous, staged, writer, changed, written, recomputed,
               failures, tampering>>

WriterStages == {"out", "lock", "read", "create", "commit"}
WriterEnds == {"said", "lost", "failed"}

AuditTypeOK ==
    /\ row \in InTransaction \cup {Nothing}
    /\ table \in Writers \cup {Nothing}
    /\ writer \in [Writers -> WriterStages \cup WriterEnds]
    /\ changed \subseteq InTransaction
    /\ recomputed \in BOOLEAN
    /\ failures \in 0..MaxFailures /\ tampering \in 0..MaxTampering

----------------------------------------------------------------------------
\* Flawed: the urn root stands in the entry and not in its hash.
auditEntryHash_WithoutRoot(sequence, event, before, root) == <<sequence, event, before>>

\* SHA-256 over all an entry carries: different contents, different hashes. An
\* entry without a root is hashed without one.
auditEntryHash(sequence, event, before, root) ==
    IF root = Nothing THEN <<sequence, event, before>> ELSE <<sequence, event, before, root>>

Entry(sequence, event, before, root) ==
    [sequence |-> sequence, event |-> event, previousHash |-> before, urnRoot |-> root,
     entryHash |-> auditEntryHash(sequence, event, before, root)]

\* What stands before the first entry.
Genesis == [sequence |-> 0, entryHash |-> Nothing]

LastOf(c) == IF c = <<>> THEN Genesis ELSE Last(c)

(***************************************************************************)
(* verifyAuditChain: the places where the numbers have a hole, an entry    *)
(* does not point at the one before, or its hash is not that of what it    *)
(* says.  The verdict names the first of them.                             *)
(***************************************************************************)
BrokenAt(c) ==
    {i \in 1..Len(c) :
        \/ c[i].sequence # i
        \/ c[i].previousHash # LastOf(SubSeq(c, 1, i - 1)).entryHash
        \/ c[i].entryHash #
               auditEntryHash(c[i].sequence, c[i].event, c[i].previousHash, c[i].urnRoot)}

Intact(c) == BrokenAt(c) = {}

AuditInit ==
    /\ chain = <<>>
    /\ row = Nothing /\ table = Nothing
    /\ previous = [w \in Writers |-> Nothing]
    /\ staged = [w \in Writers |-> Nothing]
    /\ writer = [w \in Writers |-> "out"]
    /\ changed = {} /\ written = {}
    /\ recomputed = FALSE
    /\ failures = 0 /\ tampering = 0

----------------------------------------------------------------------------
(***************************************************************************)
(* A writer.                                                               *)
(***************************************************************************)
Goes(w, stage) == writer' = [writer EXCEPT ![w] = stage]

\* Flawed: a caller locks the table before its change takes the election's row.
FirstLock_Table(w) ==
    \/ w \notin InTransaction /\ UNCHANGED <<row, table>>
    \/ /\ w \in InTransaction
       /\ \/ table = Nothing /\ table' = w /\ UNCHANGED row
          \/ row = Nothing /\ row' = w /\ UNCHANGED table

\* The caller's compare-and-set on the election's row comes before the entry.
FirstLock(w) ==
    \/ w \notin InTransaction /\ UNCHANGED <<row, table>>
    \/ w \in InTransaction /\ row = Nothing /\ row' = w /\ UNCHANGED table

Begin(w) ==
    /\ writer[w] = "out"
    /\ FirstLock(w)
    /\ Goes(w, "lock")
    /\ UNCHANGED <<chain, previous, staged, changed, written, recomputed, failures, tampering>>

\* Flawed: the last entry is read without the table's lock.
TakesTable_Not(w) == UNCHANGED table

\* LOCK TABLE audit_event IN SHARE ROW EXCLUSIVE MODE, until the transaction ends.
TakesTable(w) == table \in {Nothing, w} /\ table' = w

\* A caller has the election's row by now, or waits for it here.
LockTable(w) ==
    /\ writer[w] = "lock"
    /\ TakesTable(w)
    /\ \/ w \in InTransaction /\ row \in {Nothing, w} /\ row' = w
       \/ w \notin InTransaction /\ UNCHANGED row
    /\ Goes(w, "read")
    /\ UNCHANGED <<chain, previous, staged, changed, written, recomputed, failures, tampering>>

\* READ COMMITTED: what stands when the statement runs.
ReadPrevious(w) ==
    /\ writer[w] = "read"
    /\ previous' = [previous EXCEPT ![w] = LastOf(chain)]
    /\ Goes(w, "create")
    /\ UNCHANGED <<chain, row, table, staged, changed, written, recomputed, failures, tampering>>

HasNumber(e, sequence) == e # Nothing /\ e.sequence = sequence

\* The unique index waits for a transaction that has the number.
CreateEntry(w) ==
    LET number == previous[w].sequence + 1 IN
    /\ writer[w] = "create"
    /\ \A v \in Writers \ {w} : ~HasNumber(staged[v], number)
    /\ \A i \in DOMAIN chain : chain[i].sequence # number
    /\ staged' = [staged EXCEPT ![w] = Entry(number, w, previous[w].entryHash, RootOf[w])]
    /\ Goes(w, "commit")
    /\ UNCHANGED <<chain, row, table, previous, changed, written, recomputed, failures, tampering>>

\* The transaction ends, and its locks.
Unlocks(w) ==
    /\ row' = IF row = w THEN Nothing ELSE row
    /\ table' = IF table = w THEN Nothing ELSE table
    /\ staged' = [staged EXCEPT ![w] = Nothing]
    /\ previous' = [previous EXCEPT ![w] = Nothing]

CommitEntry(w) ==
    /\ writer[w] = "commit"
    /\ chain' = Append(chain, staged[w])
    /\ written' = written \cup {staged[w]}
    /\ changed' = IF w \in InTransaction THEN changed \cup {w} ELSE changed
    /\ Unlocks(w)
    /\ Goes(w, "said")
    /\ UNCHANGED <<recomputed, failures, tampering>>

\* Flawed: the error is swallowed inside a caller's transaction too, whose
\* COMMIT then rolls back without a word.
AfterError_Swallowed(w) == IF w \in InTransaction THEN "said" ELSE "lost"

\* recordAuditEvent: inside a caller's transaction the error goes on; outside it
\* is logged, and the voter goes on without the entry.
AfterError(w) == IF w \in InTransaction THEN "failed" ELSE "lost"

RollsBack(w) ==
    /\ Unlocks(w)
    /\ Goes(w, AfterError(w))
    /\ UNCHANGED <<chain, changed, written, recomputed, tampering>>

\* Two entries with one number: the unique index refuses the second.
NumberIsTaken(w) ==
    /\ writer[w] = "create"
    /\ \E i \in DOMAIN chain : chain[i].sequence = previous[w].sequence + 1
    /\ RollsBack(w)
    /\ UNCHANGED failures

WriterStep(w) ==
    \/ LockTable(w) \/ ReadPrevious(w) \/ CreateEntry(w) \/ CommitEntry(w) \/ NumberIsTaken(w)

----------------------------------------------------------------------------
(***************************************************************************)
(* What goes wrong, and who writes past the application.                   *)
(***************************************************************************)
\* A statement fails, the wait for the lock times out, the connection is lost.
WriterFails(w) ==
    /\ writer[w] \in {"lock", "read", "create", "commit"}
    /\ failures < MaxFailures
    /\ failures' = failures + 1
    /\ RollsBack(w)

\* Any writing statement waits while the table is locked.
Tampers(c) ==
    /\ table = Nothing
    /\ tampering < MaxTampering
    /\ tampering' = tampering + 1
    /\ chain' = c
    /\ UNCHANGED <<row, table, previous, staged, writer, changed, written, failures>>

RemoveEntry(i) == Tampers(RemoveAt(chain, i)) /\ UNCHANGED recomputed

ChangeEntry(i) ==
    /\ \/ \E w \in Writers : Tampers([chain EXCEPT ![i].event = w])
       \/ \E r \in Roots \cup {Nothing} : Tampers([chain EXCEPT ![i].urnRoot = r])
    /\ UNCHANGED recomputed

\* Against one who recomputes the hashes from an entry on, only the tip that
\* somebody else has kept helps.
RecomputeLast ==
    /\ chain # <<>>
    /\ \E w \in Writers :
           Tampers(Front(chain)
               \o <<Entry(Len(chain), w, LastOf(Front(chain)).entryHash, Nothing)>>)
    /\ recomputed' = TRUE

AuditNext ==
    \/ \E w \in Writers : Begin(w) \/ WriterStep(w) \/ WriterFails(w)
    \/ \E i \in DOMAIN chain : RemoveEntry(i) \/ ChangeEntry(i)
    \/ RecomputeLast

\* The database answers a statement that waits for nobody, and gives a lock that
\* is free again and again to one who waits for it.
AuditFairness == \A w \in Writers : SF_auditVars(WriterStep(w))

AuditSpec == AuditInit /\ [][AuditNext]_auditVars /\ AuditFairness

----------------------------------------------------------------------------
(***************************************************************************)
(* Properties                                                              *)
(***************************************************************************)
\* Two writers at once cost nobody an entry, and leave the chain whole: while
\* nothing fails and nobody tampers, no entry is lost and no caller is refused.
NoEntryIsLost ==
    tampering = 0 =>
        /\ Intact(chain)
        /\ failures = 0 => \A w \in Writers : writer[w] \notin {"lost", "failed"}

\* An entry lives and dies with the change it tells of: a caller that is told
\* its transaction went through finds both, one that is told it failed neither.
LivesAndDiesWithTheChange ==
    \A w \in InTransaction :
        /\ writer[w] = "said" => w \in changed
        /\ tampering = 0 => (w \in changed <=> \E i \in DOMAIN chain : chain[i].event = w)

\* In a chain that verifies every entry is as the application wrote it, root and
\* all, as long as nobody recomputes hashes: an entry that was changed, or
\* removed from the middle, shows. That the end was cut off does not.
IntactIsWritten == Intact(chain) /\ ~recomputed => Range(chain) \subseteq written

\* What holds of the chain, with writers side by side, failures and tampering.
AuditHolds ==
    AuditTypeOK /\ NoEntryIsLost /\ LivesAndDiesWithTheChange /\ IntactIsWritten

\* Nobody waits in a circle for the election's row and the table.
EveryWriterEnds == \A w \in Writers : writer[w] = "lock" ~> writer[w] \in WriterEnds
=============================================================================
