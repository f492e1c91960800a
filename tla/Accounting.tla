----------------------------- MODULE Accounting -----------------------------
(***************************************************************************)
(* The lock on accounting journals: the triggers of schema.sql on          *)
(* accounting_journal and accounting_entries, and statements that write    *)
(* these tables, each in a READ COMMITTED transaction of its own.  Such a  *)
(* statement locks the row it writes, runs the trigger, whose SELECT sees  *)
(* what is committed and locks nothing, and commits later.                 *)
(*                                                                         *)
(* Every entry is one unit of debit or of credit, so that a sum is a       *)
(* number of entries.                                                      *)
(***************************************************************************)
EXTENDS FiniteSets

CONSTANTS
  Journals,  \* the rows of accounting_journal
  Entries,   \* the ids of accounting_entries, present and future
  Requests,  \* the transactions that may be in flight together
  None       \* neither a journal nor an entry

ASSUME AccountingAssumption ==
  /\ Journals \cap Entries = {}
  /\ None \notin Journals \cup Entries

VARIABLES
  isLocked,  \* isLocked[j]: the committed is_locked of journal j
  row,       \* row[e]: the committed row of entry e
  item,      \* item[q]: the journal or the entry transaction q has written
  newLock,   \* newLock[q]: the is_locked it has written there, or
  newRow,    \* newRow[q]: the row it has written there
  raced,     \* history: journals that others have written since q's trigger
  disturbed  \* history: locked journals that were raced, or lost an entry

written == <<item, newLock, newRow>>
vars    == <<isLocked, row, written, raced, disturbed>>

Sides == {"debit", "credit"}

Rows == [journal : Journals, side : Sides, deleted : BOOLEAN]

NoRow == [journal |-> None, side |-> "debit", deleted |-> FALSE]

Init ==
  /\ isLocked = [j \in Journals |-> FALSE]
  /\ row = [e \in Entries |-> NoRow]
  /\ item = [q \in Requests |-> None]
  /\ newLock = [q \in Requests |-> FALSE]
  /\ newRow = [q \in Requests |-> NoRow]
  /\ raced = [q \in Requests |-> {}]
  /\ disturbed = {}

Sum(j, side) ==
  Cardinality({e \in Entries : /\ row[e].journal = j
                               /\ row[e].side = side
                               /\ ~row[e].deleted})

Balanced(j) == Sum(j, "debit") = Sum(j, "credit")

-----------------------------------------------------------------------------
(* The first half of a statement: wait for the row's lock, run the trigger,*)
(* write the row.                                                          *)

Write(q, i, lock, aRow) ==
  /\ item[q] = None
  /\ \A p \in Requests : item[p] # i
  /\ item' = [item EXCEPT ![q] = i]
  /\ newLock' = [newLock EXCEPT ![q] = lock]
  /\ newRow' = [newRow EXCEPT ![q] = aRow]
  /\ UNCHANGED <<isLocked, row, raced, disturbed>>

(* The definitions called Slip... are plausible slips in the code; each is *)
(* used only to see that some property notices it.                         *)

SlipWriteJournalUnbalanced(q, j, lock) == Write(q, j, lock, NoRow)

SlipWriteJournalNullable(q, j, lock) == Write(q, j, None, NoRow)

(* UPDATE accounting_journal SET is_locked: locking needs a balance,       *)
(* unlocking needs nothing.                                                *)
WriteJournal(q, j, lock) ==
  /\ lock /\ ~isLocked[j] => Balanced(j)
  /\ Write(q, j, lock, NoRow)

(* COALESCE(NEW.journal_id, OLD.journal_id)                                *)
JournalOf(old, aRow) == IF aRow = NoRow THEN old.journal ELSE aRow.journal

SlipWriteEntryInserts(q, e, aRow) ==
  /\ row[e] # aRow
  /\ row[e] # NoRow => ~isLocked[JournalOf(row[e], aRow)]
  /\ Write(q, e, FALSE, aRow)

(* INSERT, UPDATE or DELETE of an entry: row[e] = NoRow before the first,  *)
(* aRow = NoRow after the last (which app.allow_delete must permit).       *)
WriteEntry(q, e, aRow) ==
  /\ row[e] # aRow
  /\ ~isLocked[JournalOf(row[e], aRow)]
  /\ Write(q, e, FALSE, aRow)

(* The second half: commit, or roll back.                                  *)

End(q) ==
  /\ item' = [item EXCEPT ![q] = None]
  /\ newLock' = [newLock EXCEPT ![q] = FALSE]
  /\ newRow' = [newRow EXCEPT ![q] = NoRow]

Announce(q, journals) ==
  raced' = [p \in Requests |->
              IF p = q \/ item[p] = None THEN {} ELSE raced[p] \cup (journals \ {None})]

CommitJournal(q) ==
  /\ item[q] \in Journals
  /\ isLocked' = [isLocked EXCEPT ![item[q]] = newLock[q]]
  /\ disturbed' = IF newLock[q] /\ item[q] \in raced[q] THEN disturbed \cup {item[q]}
                  ELSE IF newLock[q] THEN disturbed
                  ELSE disturbed \ {item[q]}
  /\ Announce(q, {item[q]})
  /\ End(q)
  /\ UNCHANGED row

CommitEntry(q) ==
  LET old == row[item[q]].journal
  IN  /\ item[q] \in Entries
      /\ row' = [row EXCEPT ![item[q]] = newRow[q]]
      /\ disturbed' = disturbed \cup
           {j \in {old, newRow[q].journal} \ {None} :
              isLocked[j] /\ (j \in raced[q] \/ j # JournalOf(row[item[q]], newRow[q]))}
      /\ Announce(q, {old, newRow[q].journal})
      /\ End(q)
      /\ UNCHANGED isLocked

Fail(q) ==
  /\ item[q] # None
  /\ End(q)
  /\ raced' = [raced EXCEPT ![q] = {}]
  /\ UNCHANGED <<isLocked, row, disturbed>>

Next ==
  \E q \in Requests :
    \/ \E j \in Journals, lock \in BOOLEAN : WriteJournal(q, j, lock)
    \/ \E e \in Entries, aRow \in Rows \cup {NoRow} : WriteEntry(q, e, aRow)
    \/ CommitJournal(q)
    \/ CommitEntry(q)
    \/ Fail(q)

Spec == Init /\ [][Next]_vars

-----------------------------------------------------------------------------
(* Properties.                                                             *)

(* Every variable has its type.                                            *)
TypeOK ==
  /\ isLocked \in [Journals -> BOOLEAN]
  /\ row \in [Entries -> Rows \cup {NoRow}]
  /\ item \in [Requests -> Journals \cup Entries \cup {None}]
  /\ newLock \in [Requests -> BOOLEAN]
  /\ newRow \in [Requests -> Rows \cup {NoRow}]
  /\ raced \in [Requests -> SUBSET Journals]
  /\ disturbed \subseteq Journals

(* A locked journal balances ("Journal kann nicht gelocked werden: Debit   *)
(* != Credit"), unless a statement whose trigger ran before a concurrent   *)
(* commit has written it, or an entry was moved to another journal: these  *)
(* two gaps are the only ones.                                             *)
LockedIsBalanced ==
  \A j \in Journals : isLocked[j] /\ j \notin disturbed => Balanced(j)

(* No statement that starts after the lock is committed adds, changes or   *)
(* deletes an entry of the journal.                                        *)
LaterWritesAreRefused ==
  [][\A q \in Requests : CommitEntry(q) =>
       LET j == JournalOf(row[item[q]], newRow[q])
       IN  isLocked[j] => j \in raced[q]]_vars

EntriesOf(j) ==
  {<<e, row[e]>> : e \in {f \in Entries : row[f].journal = j /\ ~row[f].deleted}}

(* "Journal ist locked; Entries duerfen nicht geaendert/geloescht/neu      *)
(* angelegt werden."                                                       *)
LockedEntriesAreFrozen ==
  [][\A j \in Journals : isLocked[j] => EntriesOf(j)' = EntriesOf(j)]_vars
=============================================================================
