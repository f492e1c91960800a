-------------------------- MODULE AccountingProofs --------------------------
(***************************************************************************)
(* What holds of the journal lock for every number of journals, entries    *)
(* and concurrent transactions.                                            *)
(*                                                                         *)
(* The strengthening says what a transaction in flight still knows from    *)
(* its trigger: the row it holds is its own, the journal it adds to or     *)
(* deletes from is unlocked or has been written by others since, and the   *)
(* journal it locks is balanced or has been written by others since.       *)
(*                                                                         *)
(* From it follows also which steps alone can change the entries of a      *)
(* locked journal, and that where they do not occur none changes.          *)
(***************************************************************************)
EXTENDS Accounting, TLAPS

Exclusive ==
  \A p, q \in Requests : item[p] # None /\ item[p] = item[q] => p = q

WritersKnow ==
  \A q \in Requests : item[q] \in Entries =>
    /\ JournalOf(row[item[q]], newRow[q]) \in Journals
    /\ isLocked[JournalOf(row[item[q]], newRow[q])] =>
         JournalOf(row[item[q]], newRow[q]) \in raced[q]

LockersKnow ==
  \A q \in Requests : item[q] \in Journals /\ newLock[q] =>
    isLocked[item[q]] \/ item[q] \in raced[q] \/ Balanced(item[q])

IInv == TypeOK /\ Exclusive /\ WritersKnow /\ LockersKnow /\ LockedIsBalanced

-----------------------------------------------------------------------------

LEMMA NoRowType == NoRow.journal = None
  BY DEF NoRow

LEMMA RowType ==
  ASSUME NEW r \in Rows \cup {NoRow}
  PROVE  /\ r.journal \in Journals \cup {None}
         /\ r \in Rows => r.journal \in Journals
  BY DEF Rows, NoRow

(* A journal that an entry neither leaves nor joins keeps its sums.        *)
LEMMA BalanceKept ==
  ASSUME TypeOK, NEW e \in Entries, NEW r, row' = [row EXCEPT ![e] = r],
         NEW j \in Journals, row[e].journal # j, r.journal # j
  PROVE  Balanced(j)' <=> Balanced(j)
<1>1. \A f \in Entries : f # e => row'[f] = row[f]
  BY DEF TypeOK
<1>2. row'[e] = r
  BY DEF TypeOK
<1>3. ASSUME NEW side
      PROVE  Sum(j, side)' = Sum(j, side)
  <2>1. \A f \in Entries :
          (row'[f].journal = j /\ row'[f].side = side /\ ~row'[f].deleted)
            <=> (row[f].journal = j /\ row[f].side = side /\ ~row[f].deleted)
    BY <1>1, <1>2
  <2>2. {f \in Entries : row'[f].journal = j /\ row'[f].side = side /\ ~row'[f].deleted}
          = {f \in Entries : row[f].journal = j /\ row[f].side = side /\ ~row[f].deleted}
    BY <2>1
  <2> QED
    BY <2>2 DEF Sum
<1> QED
  BY <1>3 DEF Balanced

LEMMA SumsOfRows ==
  ASSUME UNCHANGED row, NEW j
  PROVE  Balanced(j)' <=> Balanced(j)
  BY DEF Balanced, Sum

(* Every step keeps types.                                                 *)
LEMMA TypeStep == TypeOK /\ [Next]_vars => TypeOK'
<1> SUFFICES ASSUME TypeOK, [Next]_vars
             PROVE  TypeOK'
  OBVIOUS
<1>n. NoRow \in Rows \cup {NoRow}
  OBVIOUS
<1>a. ASSUME NEW q \in Requests, NEW i \in Journals \cup Entries, NEW lock \in BOOLEAN,
             NEW aRow \in Rows \cup {NoRow}, Write(q, i, lock, aRow)
      PROVE  TypeOK'
  BY <1>a DEF TypeOK, Write
<1>b. ASSUME NEW q \in Requests, End(q)
      PROVE  /\ item' \in [Requests -> Journals \cup Entries \cup {None}]
             /\ newLock' \in [Requests -> BOOLEAN]
             /\ newRow' \in [Requests -> Rows \cup {NoRow}]
  BY <1>b, <1>n DEF TypeOK, End
<1>c. ASSUME NEW q \in Requests, NEW journals \in SUBSET (Journals \cup {None}), Announce(q, journals)
      PROVE  raced' \in [Requests -> SUBSET Journals]
  BY <1>c DEF TypeOK, Announce
<1>1. ASSUME NEW q \in Requests, NEW j \in Journals, NEW lock \in BOOLEAN, WriteJournal(q, j, lock)
      PROVE  TypeOK'
  BY <1>1, <1>a, <1>n DEF WriteJournal
<1>2. ASSUME NEW q \in Requests, NEW e \in Entries, NEW aRow \in Rows \cup {NoRow}, WriteEntry(q, e, aRow)
      PROVE  TypeOK'
  BY <1>2, <1>a DEF WriteEntry
<1>3. ASSUME NEW q \in Requests, CommitJournal(q)
      PROVE  TypeOK'
  <2>1. isLocked' \in [Journals -> BOOLEAN]
    BY <1>3 DEF TypeOK, CommitJournal
  <2>2. disturbed' \subseteq Journals
    BY <1>3 DEF TypeOK, CommitJournal
  <2>3. raced' \in [Requests -> SUBSET Journals]
    BY <1>3, <1>c DEF CommitJournal
  <2> QED
    BY <1>3, <1>b, <2>1, <2>2, <2>3 DEF TypeOK, CommitJournal
<1>4. ASSUME NEW q \in Requests, CommitEntry(q)
      PROVE  TypeOK'
  <2> DEFINE touched == {row[item[q]].journal, newRow[q].journal}
  <2>1. touched \subseteq Journals \cup {None}
    BY <1>4, RowType DEF TypeOK, CommitEntry
  <2>2. row' \in [Entries -> Rows \cup {NoRow}]
    BY <1>4 DEF TypeOK, CommitEntry
  <2>3. disturbed' \subseteq Journals
    BY <1>4, <2>1 DEF TypeOK, CommitEntry
  <2>4. raced' \in [Requests -> SUBSET Journals]
    BY <1>4, <1>c, <2>1 DEF CommitEntry
  <2> QED
    BY <1>4, <1>b, <2>2, <2>3, <2>4 DEF TypeOK, CommitEntry
<1>5. ASSUME NEW q \in Requests, Fail(q)
      PROVE  TypeOK'
  BY <1>5, <1>b DEF TypeOK, Fail
<1>6. CASE UNCHANGED vars
  BY <1>6 DEF TypeOK, vars, written
<1> QED
  BY <1>1, <1>2, <1>3, <1>4, <1>5, <1>6 DEF Next

(* The journal whose lock the trigger of an entry's statement looks at.    *)
LEMMA JournalOfType ==
  ASSUME NEW old \in Rows \cup {NoRow}, NEW aRow \in Rows \cup {NoRow}, old # aRow
  PROVE  JournalOf(old, aRow) \in Journals
  BY RowType DEF JournalOf

(* A transaction that ends frees its item and disturbs nobody else's.      *)
LEMMA Others ==
  ASSUME TypeOK, NEW q \in Requests, End(q), NEW p \in Requests, item'[p] # None
  PROVE  p # q /\ item'[p] = item[p] /\ newLock'[p] = newLock[p] /\ newRow'[p] = newRow[p]
  BY DEF TypeOK, End

LEMMA ExclusiveStep == TypeOK /\ Exclusive /\ [Next]_vars => Exclusive'
<1> SUFFICES ASSUME TypeOK, Exclusive, [Next]_vars
             PROVE  Exclusive'
  OBVIOUS
<1>a. ASSUME NEW q \in Requests, NEW i, NEW lock, NEW aRow, Write(q, i, lock, aRow)
      PROVE  Exclusive'
  BY <1>a DEF TypeOK, Exclusive, Write
<1>b. ASSUME NEW q \in Requests, End(q)
      PROVE  Exclusive'
  BY <1>b DEF TypeOK, Exclusive, End
<1>1. CASE UNCHANGED vars
  BY <1>1 DEF Exclusive, vars, written
<1> QED
  BY <1>a, <1>b, <1>1 DEF Next, WriteJournal, WriteEntry, CommitJournal, CommitEntry, Fail

(* What is written while a transaction is in flight is announced to it.    *)
LEMMA Announced ==
  ASSUME TypeOK, NEW q \in Requests, End(q), NEW journals, Announce(q, journals),
         NEW p \in Requests, item'[p] # None
  PROVE  raced'[p] = raced[p] \cup (journals \ {None})
<1>1. p # q /\ item[p] # None
  BY Others
<1> QED
  BY <1>1 DEF Announce

LEMMA WritersStep ==
  TypeOK /\ Exclusive /\ WritersKnow /\ [Next]_vars => WritersKnow'
<1> SUFFICES ASSUME TypeOK, Exclusive, WritersKnow, [Next]_vars,
                    NEW p \in Requests, item'[p] \in Entries
             PROVE  LET j == JournalOf(row'[item'[p]], newRow'[p])
                    IN  j \in Journals /\ (isLocked'[j] => j \in raced'[p])
  BY DEF WritersKnow, JournalOf
<1>n. item'[p] # None /\ item'[p] \notin Journals
  BY AccountingAssumption
<1>k. ASSUME item[p] = item'[p], newRow[p] = newRow'[p], row[item[p]] = row'[item[p]]
      PROVE  LET j == JournalOf(row'[item'[p]], newRow'[p])
             IN  j \in Journals /\ (isLocked[j] => j \in raced[p])
  BY <1>k DEF WritersKnow, JournalOf
<1>a. ASSUME NEW q \in Requests, NEW i, NEW lock, NEW aRow, Write(q, i, lock, aRow), p # q
      PROVE  LET j == JournalOf(row'[item'[p]], newRow'[p])
             IN  j \in Journals /\ (isLocked'[j] => j \in raced'[p])
  <2>1. item[p] = item'[p] /\ newRow[p] = newRow'[p] /\ row[item[p]] = row'[item[p]]
    BY <1>a DEF TypeOK, Write
  <2>2. isLocked' = isLocked /\ raced' = raced
    BY <1>a DEF Write
  <2> QED
    BY <2>1, <2>2, <1>k
<1>1. ASSUME NEW q \in Requests, NEW j \in Journals, NEW lock \in BOOLEAN, WriteJournal(q, j, lock)
      PROVE  LET k == JournalOf(row'[item'[p]], newRow'[p])
             IN  k \in Journals /\ (isLocked'[k] => k \in raced'[p])
  <2>1. p # q
    BY <1>1, <1>n DEF WriteJournal, Write, TypeOK
  <2> QED
    BY <1>1, <2>1, <1>a DEF WriteJournal
<1>2. ASSUME NEW q \in Requests, NEW e \in Entries, NEW aRow \in Rows \cup {NoRow}, WriteEntry(q, e, aRow)
      PROVE  LET j == JournalOf(row'[item'[p]], newRow'[p])
             IN  j \in Journals /\ (isLocked'[j] => j \in raced'[p])
  <2>1. CASE p # q
    BY <1>2, <2>1, <1>a DEF WriteEntry
  <2>2. CASE p = q
    <3>1. item'[p] = e /\ newRow'[p] = aRow /\ row' = row /\ isLocked' = isLocked
      BY <1>2, <2>2 DEF WriteEntry, Write, TypeOK
    <3>2. row[e] \in Rows \cup {NoRow} /\ row[e] # aRow /\ ~isLocked[JournalOf(row[e], aRow)]
      BY <1>2 DEF WriteEntry, TypeOK
    <3> QED
      BY <3>1, <3>2, JournalOfType
  <2> QED
    BY <2>1, <2>2
<1>3. ASSUME NEW q \in Requests, CommitJournal(q)
      PROVE  LET j == JournalOf(row'[item'[p]], newRow'[p])
             IN  j \in Journals /\ (isLocked'[j] => j \in raced'[p])
  <2>0. End(q) /\ Announce(q, {item[q]}) /\ row' = row
    BY <1>3 DEF CommitJournal
  <2>1. item[p] = item'[p] /\ newRow[p] = newRow'[p] /\ row[item[p]] = row'[item[p]]
    BY <2>0, <1>n, Others
  <2>2. raced'[p] = raced[p] \cup ({item[q]} \ {None})
    BY <2>0, <1>n, Announced
  <2>3. \A j \in Journals : j # item[q] => isLocked'[j] = isLocked[j]
    BY <1>3 DEF CommitJournal, TypeOK
  <2>4. item[q] # None
    BY <1>3, AccountingAssumption DEF CommitJournal
  <2> QED
    BY <2>1, <2>2, <2>3, <2>4, <1>k
<1>4. ASSUME NEW q \in Requests, CommitEntry(q)
      PROVE  LET j == JournalOf(row'[item'[p]], newRow'[p])
             IN  j \in Journals /\ (isLocked'[j] => j \in raced'[p])
  <2> DEFINE touched == {row[item[q]].journal, newRow[q].journal}
  <2>0. End(q) /\ Announce(q, touched) /\ isLocked' = isLocked /\ item[q] \in Entries
    BY <1>4 DEF CommitEntry
  <2>1. p # q /\ item[p] = item'[p] /\ newRow[p] = newRow'[p]
    BY <2>0, <1>n, Others
  <2>2. item[p] # item[q]
    BY <2>1, <1>n DEF Exclusive
  <2>3. row[item[p]] = row'[item[p]]
    BY <1>4, <2>1, <2>2 DEF CommitEntry, TypeOK
  <2>4. raced[p] \subseteq raced'[p]
    BY <2>0, <1>n, Announced
  <2> QED
    BY <2>0, <2>1, <2>3, <2>4, <1>k
<1>5. ASSUME NEW q \in Requests, Fail(q)
      PROVE  LET j == JournalOf(row'[item'[p]], newRow'[p])
             IN  j \in Journals /\ (isLocked'[j] => j \in raced'[p])
  <2>1. p # q /\ item[p] = item'[p] /\ newRow[p] = newRow'[p]
    BY <1>5, <1>n, Others DEF Fail
  <2>2. row' = row /\ isLocked' = isLocked /\ raced'[p] = raced[p]
    BY <1>5, <2>1 DEF Fail, TypeOK
  <2> QED
    BY <2>1, <2>2, <1>k
<1>6. CASE UNCHANGED vars
  BY <1>6, <1>k DEF vars, written
<1> QED
  BY <1>1, <1>2, <1>3, <1>4, <1>5, <1>6 DEF Next

LEMMA LockersStep ==
  TypeOK /\ Exclusive /\ LockersKnow /\ [Next]_vars => LockersKnow'
<1> SUFFICES ASSUME TypeOK, Exclusive, LockersKnow, [Next]_vars,
                    NEW p \in Requests, NEW k \in Journals, item'[p] = k, newLock'[p]
             PROVE  isLocked'[k] \/ k \in raced'[p] \/ Balanced(k)'
  BY DEF LockersKnow, Balanced, Sum
<1> DEFINE Knows == isLocked'[k] \/ k \in raced'[p] \/ Balanced(k)'
<1>n. item'[p] # None /\ k \notin Entries
  BY AccountingAssumption
<1>k. ASSUME item[p] = k, newLock[p] = newLock'[p], raced[p] \subseteq raced'[p],
             isLocked[k] => isLocked'[k],
             Balanced(k) => Balanced(k)' \/ k \in raced'[p]
      PROVE  Knows
  BY <1>k DEF LockersKnow
<1>a. ASSUME NEW q \in Requests, NEW i, NEW lock, NEW aRow, Write(q, i, lock, aRow), p # q
      PROVE  Knows
  <2>1. item[p] = k /\ newLock[p] = newLock'[p]
    BY <1>a DEF TypeOK, Write
  <2>2. isLocked' = isLocked /\ raced' = raced /\ row' = row
    BY <1>a DEF Write
  <2> QED
    BY <2>1, <2>2, <1>k, SumsOfRows
<1>1. ASSUME NEW q \in Requests, NEW j \in Journals, NEW lock \in BOOLEAN, WriteJournal(q, j, lock)
      PROVE  Knows
  <2>1. CASE p # q
    BY <1>1, <2>1, <1>a DEF WriteJournal
  <2>2. CASE p = q
    <3>1. j = k /\ newLock'[p] = lock /\ row' = row /\ isLocked' = isLocked
      BY <1>1, <2>2 DEF WriteJournal, Write, TypeOK
    <3>2. isLocked[j] \/ Balanced(j)
      BY <1>1, <3>1 DEF WriteJournal
    <3> QED
      BY <3>1, <3>2, SumsOfRows
  <2> QED
    BY <2>1, <2>2
<1>2. ASSUME NEW q \in Requests, NEW e \in Entries, NEW aRow \in Rows \cup {NoRow}, WriteEntry(q, e, aRow)
      PROVE  Knows
  <2>1. p # q
    BY <1>2, <1>n DEF WriteEntry, Write, TypeOK
  <2> QED
    BY <1>2, <2>1, <1>a DEF WriteEntry
<1>3. ASSUME NEW q \in Requests, CommitJournal(q)
      PROVE  Knows
  <2>0. End(q) /\ Announce(q, {item[q]}) /\ row' = row
    BY <1>3 DEF CommitJournal
  <2>1. p # q /\ item[p] = k /\ newLock[p] = newLock'[p]
    BY <2>0, <1>n, Others
  <2>2. item[p] # item[q]
    BY <2>1, <1>n DEF Exclusive
  <2>3. isLocked'[item[p]] = isLocked[item[p]]
    BY <1>3, <2>1, <2>2 DEF CommitJournal, TypeOK
  <2>4. raced[p] \subseteq raced'[p]
    BY <2>0, <1>n, Announced
  <2>5. Balanced(k) => Balanced(k)'
    BY <2>0, SumsOfRows
  <2> QED
    BY <2>1, <2>3, <2>4, <2>5, <1>k
<1>4. ASSUME NEW q \in Requests, CommitEntry(q)
      PROVE  Knows
  <2> DEFINE touched == {row[item[q]].journal, newRow[q].journal}
  <2>0. End(q) /\ Announce(q, touched) /\ isLocked' = isLocked /\ item[q] \in Entries
    BY <1>4 DEF CommitEntry
  <2>1. p # q /\ item[p] = k /\ newLock[p] = newLock'[p]
    BY <2>0, <1>n, Others
  <2>2. raced'[p] = raced[p] \cup (touched \ {None})
    BY <2>0, <1>n, Announced
  <2>3. CASE k \in touched
    BY <2>2, <2>3, <1>n
  <2>4. CASE k \notin touched
    <3>1. Balanced(k)' <=> Balanced(k)
      BY <1>4, <2>0, <2>4, BalanceKept DEF CommitEntry
    <3> QED
      BY <2>0, <2>1, <2>2, <3>1, <1>k
  <2> QED
    BY <2>3, <2>4
<1>5. ASSUME NEW q \in Requests, Fail(q)
      PROVE  Knows
  <2>1. p # q /\ item[p] = k /\ newLock[p] = newLock'[p]
    BY <1>5, <1>n, Others DEF Fail
  <2>2. row' = row /\ isLocked' = isLocked /\ raced'[p] = raced[p]
    BY <1>5, <2>1 DEF Fail, TypeOK
  <2> QED
    BY <2>1, <2>2, <1>k, SumsOfRows
<1>6. CASE UNCHANGED vars
  <2>1. row' = row /\ isLocked' = isLocked /\ raced' = raced /\ item' = item /\ newLock' = newLock
    BY <1>6 DEF vars, written
  <2> QED
    BY <2>1, <1>k, SumsOfRows
<1> QED
  BY <1>1, <1>2, <1>3, <1>4, <1>5, <1>6 DEF Next

LEMMA BalancedStep == IInv /\ [Next]_vars => LockedIsBalanced'
<1> SUFFICES ASSUME IInv, [Next]_vars,
                    NEW j \in Journals, isLocked'[j], j \notin disturbed'
             PROVE  Balanced(j)'
  BY DEF LockedIsBalanced, Balanced, Sum
<1>k. ASSUME isLocked[j], j \notin disturbed, Balanced(j) => Balanced(j)'
      PROVE  Balanced(j)'
  BY <1>k DEF IInv, LockedIsBalanced
<1>a. ASSUME row' = row, isLocked' = isLocked, disturbed' = disturbed
      PROVE  Balanced(j)'
  BY <1>a, <1>k, SumsOfRows
<1>1. ASSUME NEW q \in Requests, CommitJournal(q)
      PROVE  Balanced(j)'
  <2>1. row' = row /\ isLocked' = [isLocked EXCEPT ![item[q]] = newLock[q]] /\ item[q] \in Journals
    BY <1>1 DEF CommitJournal
  <2>2. CASE j # item[q]
    <3>1. isLocked[j] /\ j \notin disturbed
      BY <1>1, <2>1, <2>2 DEF CommitJournal, IInv, TypeOK
    <3> QED
      BY <3>1, <2>1, <1>k, SumsOfRows
  <2>3. CASE j = item[q]
    <3>1. newLock[q]
      BY <2>1, <2>3 DEF IInv, TypeOK
    <3>2. j \notin raced[q] /\ j \notin disturbed
      BY <1>1, <2>3, <3>1 DEF CommitJournal
    <3>3. isLocked[j] \/ Balanced(j)
      BY <2>1, <2>3, <3>1, <3>2 DEF IInv, LockersKnow
    <3>4. Balanced(j)
      BY <3>2, <3>3 DEF IInv, LockedIsBalanced
    <3> QED
      BY <3>4, <2>1, SumsOfRows
  <2> QED
    BY <2>2, <2>3
<1>2. ASSUME NEW q \in Requests, CommitEntry(q)
      PROVE  Balanced(j)'
  <2> DEFINE touched == {row[item[q]].journal, newRow[q].journal}
             checked == JournalOf(row[item[q]], newRow[q])
  <2>1. isLocked[j] /\ j \notin disturbed
    BY <1>2 DEF CommitEntry
  <2>2. j \notin touched
    <3> SUFFICES ASSUME j \in touched
                 PROVE  FALSE
      OBVIOUS
    <3>1. j \notin raced[q] /\ j = checked
      BY <1>2, <2>1, AccountingAssumption DEF CommitEntry
    <3>2. isLocked[checked] => checked \in raced[q]
      BY <1>2 DEF CommitEntry, IInv, WritersKnow
    <3> QED
      BY <2>1, <3>1, <3>2
  <2>3. Balanced(j)' <=> Balanced(j)
    BY <1>2, <2>2, BalanceKept DEF CommitEntry, IInv
  <2> QED
    BY <2>1, <2>3, <1>k
<1>3. CASE UNCHANGED vars
  BY <1>3, <1>a DEF vars
<1> QED
  BY <1>1, <1>2, <1>3, <1>a DEF Next, WriteJournal, WriteEntry, Write, Fail

LEMMA IInvInit == Init => IInv
<1> SUFFICES ASSUME Init
             PROVE  IInv
  OBVIOUS
<1>1. TypeOK
  BY DEF Init, TypeOK
<1>2. \A q \in Requests : item[q] = None
  BY DEF Init
<1>3. \A j \in Journals : ~isLocked[j]
  BY DEF Init
<1> QED
  BY <1>1, <1>2, <1>3, AccountingAssumption
  DEF IInv, Exclusive, WritersKnow, LockersKnow, LockedIsBalanced

LEMMA IInvStep == IInv /\ [Next]_vars => IInv'
  BY TypeStep, ExclusiveStep, WritersStep, LockersStep, BalancedStep DEF IInv

LEMMA IInvHolds == Spec => []IInv
  BY IInvInit, IInvStep, PTL DEF Spec

(* Type correctness.                                                       *)
THEOREM TypeCorrect == Spec => []TypeOK
<1>1. IInv => TypeOK
  BY DEF IInv
<1> QED
  BY <1>1, IInvHolds, PTL

(* The race with the lock and moving an entry away are the only ways to    *)
(* unbalance a locked journal, whatever the number of transactions.        *)
THEOREM LockedJournalsBalance == Spec => []LockedIsBalanced
<1>1. IInv => LockedIsBalanced
  BY DEF IInv
<1> QED
  BY <1>1, IInvHolds, PTL

(* A statement that starts after the lock is committed does not get in.    *)
THEOREM LockExcludesLaterWrites == Spec => LaterWritesAreRefused
<1>1. IInv /\ [Next]_vars =>
        [\A q \in Requests : CommitEntry(q) =>
           LET j == JournalOf(row[item[q]], newRow[q])
           IN  isLocked[j] => j \in raced[q]]_vars
  BY DEF IInv, WritersKnow, CommitEntry
<1> QED
  BY <1>1, IInvHolds, PTL DEF Spec, LaterWritesAreRefused

-----------------------------------------------------------------------------
(* The entries of a locked journal.                                        *)

(* The two gaps, seen at the commit of an entry: another transaction has   *)
(* written the journal since the trigger looked at its lock, or the        *)
(* statement moves the entry, when the trigger looks at one journal only.  *)
Overtaken(q) == JournalOf(row[item[q]], newRow[q]) \in raced[q]

Moves(q) == newRow[q] # NoRow /\ row[item[q]].journal \notin {None, newRow[q].journal}

(* A row that is in journal j neither before nor after is not among its    *)
(* entries.                                                                *)
LEMMA EntriesKept ==
  ASSUME TypeOK, NEW e \in Entries, NEW r, row' = [row EXCEPT ![e] = r],
         NEW j \in Journals, row[e].journal # j, r.journal # j
  PROVE  EntriesOf(j)' = EntriesOf(j)
<1>1. \A f \in Entries : f # e => row'[f] = row[f]
  BY DEF TypeOK
<1>2. row'[e] = r
  BY DEF TypeOK
<1>3. \A f \in Entries :
        (row'[f].journal = j /\ ~row'[f].deleted) <=> (row[f].journal = j /\ ~row[f].deleted)
  BY <1>1, <1>2
<1>4. {f \in Entries : row'[f].journal = j /\ ~row'[f].deleted}
        = {f \in Entries : row[f].journal = j /\ ~row[f].deleted}
  BY <1>3
<1>5. \A f \in {g \in Entries : row[g].journal = j /\ ~row[g].deleted} : row'[f] = row[f]
  BY <1>1, <1>2
<1> QED
  BY <1>4, <1>5 DEF EntriesOf

(* The commit of an entry that is neither overtaken nor moved touches no   *)
(* locked journal.                                                         *)
LEMMA TouchesUnlockedOnly ==
  ASSUME IInv, NEW q \in Requests, CommitEntry(q), NEW j \in Journals, isLocked[j],
         j \in {row[item[q]].journal, newRow[q].journal}
  PROVE  Overtaken(q) \/ (Moves(q) /\ row[item[q]].journal = j)
<1> DEFINE checked == JournalOf(row[item[q]], newRow[q])
<1>1. isLocked[checked] => Overtaken(q)
  BY DEF CommitEntry, IInv, WritersKnow, Overtaken
<1>2. j # None
  BY AccountingAssumption
<1>3. CASE newRow[q] = NoRow
  <2>1. newRow[q].journal = None /\ checked = row[item[q]].journal
    BY <1>3, NoRowType DEF JournalOf
  <2> QED
    BY <1>1, <1>2, <2>1
<1>4. CASE newRow[q] # NoRow
  <2>1. checked = newRow[q].journal
    BY <1>4 DEF JournalOf
  <2>2. CASE j = checked
    BY <1>1, <2>2
  <2>3. CASE j # checked
    BY <1>2, <1>4, <2>1, <2>3 DEF Moves
  <2> QED
    BY <2>2, <2>3
<1> QED
  BY <1>3, <1>4

(* A step that changes the entries of a locked journal is the commit of an *)
(* entry whose transaction was overtaken, or which it moves out of that    *)
(* journal: a concurrent transaction may break the lock, a later one only  *)
(* by giving the entry another journal_id.                                 *)
OnlyTheTwoGaps ==
  [][\A j \in Journals : isLocked[j] /\ EntriesOf(j)' # EntriesOf(j) =>
       \E q \in Requests :
         CommitEntry(q) /\ (Overtaken(q) \/ (Moves(q) /\ row[item[q]].journal = j))]_vars

LEMMA GapStep ==
  ASSUME IInv, [Next]_vars, NEW j \in Journals, isLocked[j], EntriesOf(j)' # EntriesOf(j)
  PROVE  \E q \in Requests :
           CommitEntry(q) /\ (Overtaken(q) \/ (Moves(q) /\ row[item[q]].journal = j))
<1>1. row' # row
  BY DEF EntriesOf
<1>2. PICK q \in Requests : CommitEntry(q)
  BY <1>1 DEF Next, vars, WriteJournal, WriteEntry, Write, CommitJournal, Fail
<1>3. j \in {row[item[q]].journal, newRow[q].journal}
  BY <1>2, EntriesKept DEF CommitEntry, IInv
<1> QED
  BY <1>2, <1>3, TouchesUnlockedOnly

THEOREM OnlyGapsBreakTheLock == Spec => OnlyTheTwoGaps
<1>1. IInv /\ [Next]_vars =>
        [\A j \in Journals : isLocked[j] /\ EntriesOf(j)' # EntriesOf(j) =>
           \E q \in Requests :
             CommitEntry(q) /\ (Overtaken(q) \/ (Moves(q) /\ row[item[q]].journal = j))]_vars
  BY GapStep
<1> QED
  BY <1>1, IInvHolds, PTL DEF Spec, OnlyTheTwoGaps

(* Where no transaction is overtaken and none moves an entry, the lock     *)
(* keeps its word.                                                         *)
Undisturbed == \A q \in Requests : CommitEntry(q) => ~Overtaken(q) /\ ~Moves(q)

THEOREM LockFreezesEntries ==
  Spec /\ [][Undisturbed]_vars => LockedEntriesAreFrozen
<1>1. ASSUME IInv, [Next]_vars, [Undisturbed]_vars
      PROVE  [\A j \in Journals : isLocked[j] => EntriesOf(j)' = EntriesOf(j)]_vars
  <2> SUFFICES ASSUME ~UNCHANGED vars, NEW j \in Journals, isLocked[j]
               PROVE  EntriesOf(j)' = EntriesOf(j)
    OBVIOUS
  <2>1. Undisturbed
    BY <1>1
  <2> QED
    BY <1>1, <2>1, GapStep DEF Undisturbed
<1>2. IInv /\ [Next]_vars /\ [Undisturbed]_vars =>
        [\A j \in Journals : isLocked[j] => EntriesOf(j)' = EntriesOf(j)]_vars
  BY <1>1
<1> QED
  BY <1>2, IInvHolds, PTL DEF Spec, LockedEntriesAreFrozen
=============================================================================
