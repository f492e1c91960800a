---------------------------- MODULE MCAccounting ----------------------------
(* Small instances of Accounting.                                          *)
EXTENDS Accounting, TLC

CONSTANTS j1, j2, e1, e2, t1, t2

TwoJournals     == {j1, j2}
TwoEntries      == {e1, e2}
OneTransaction  == {t1}
TwoTransactions == {t1, t2}

(* Journals, entries and transactions are interchangeable.                 *)
Symmetry ==
  Permutations(TwoJournals) \cup Permutations(TwoEntries) \cup Permutations(TwoTransactions)
=============================================================================
