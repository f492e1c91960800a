--------------------------- MODULE ContactsProofs ---------------------------
(***************************************************************************)
(* Why the contact endpoints implement the contact book, for any contacts  *)
(* and requests and with any waits, aborts and failures.                   *)
(*                                                                         *)
(* A transaction keeps what it knows of a row by holding its lock, of the  *)
(* row it creates by its fresh id, and of the rows it has not touched by   *)
(* its entry in the unique index: no second entry is made, so no other     *)
(* transaction can make one of them primary.                               *)
(*                                                                         *)
(* And why no set of requests waits for itself unseen: a request that      *)
(* waits, waits for one that is unfinished, so if nobody can go on, the    *)
(* unfinished requests contain a smallest set of which each waits for      *)
(* another, and that is what the deadlock detector looks for.              *)
(***************************************************************************)
EXTENDS Contacts, Integers, FiniteSetTheorems, TLAPS

Statements == {"scan", "clear", "target", "index", "commit"}

(* Which statements, and what locals, each endpoint has.                   *)
ShapeOK(q) ==
  /\ op[q] = "none" <=> pc[q] \in {"new", "done"}
  /\ op[q] = "none" => cleared[q] = {} /\ noted[q] = {}
  /\ op[q] # "none" => target[q] \in Contacts
  /\ pc[q] \in {"scan", "clear", "index"} => primary[q]
  /\ pc[q] \in {"scan", "clear"} => cleared[q] = {} /\ noted[q] = {}
  /\ pc[q] = "clear" => victim[q] \in Contacts /\ victim[q] # target[q]
  /\ ~primary[q] => cleared[q] = {}
  /\ op[q] = "delete" => ~primary[q]
  /\ target[q] \notin cleared[q]

(* The rows as its locks, its fresh id and its index entry keep them.      *)
RowsOK(q) ==
  /\ \A c \in cleared[q] : status[c] = "primary"
  /\ op[q] = "create" => status[target[q]] = "absent"
  /\ op[q] \in {"update", "delete"} =>
       /\ status[target[q]] # "absent"
       /\ Wrote(q) => status[target[q]] \in Live
  /\ HasEntry(q) => Conflicts(q) = {}

(* The rows it has written.                                                *)
Changed(q) == cleared[q] \cup (IF Wrote(q) THEN {target[q]} ELSE {})

NotesOK(q) ==
  /\ \A e \in noted[q] : /\ e.record_pk \in Changed(q)
                         /\ e.old_data = Row(e.record_pk)
                         /\ e.new_data = Written(q, e.record_pk)
  /\ \A c \in Changed(q) : \E e \in noted[q] : e.record_pk = c

(* What it still knows of the book unless another request has committed.   *)
UnracedOK(q) ==
  ~raced[q] =>
    /\ pc[q] = "clear" => status[victim[q]] = "primary"
    /\ primary[q] /\ pc[q] \in {"target", "index"} => Conflicts(q) = {}
    /\ op[q] = "update" /\ allow_contact[q] = Omitted
         => allow[q] = (target[q] \notin optedOut)

RequestOK(q) == ShapeOK(q) /\ RowsOK(q) /\ NotesOK(q) /\ UnracedOK(q)

(* No two transactions hold a lock, an entry or a fresh id in common.      *)
Apart(p, q) ==
  /\ Locked(p) \cap Locked(q) = {}
  /\ ~(HasEntry(p) /\ HasEntry(q))
  /\ op[p] = "create" /\ op[q] = "create" => target[p] # target[q]

IInv ==
  /\ TypeOK
  /\ AtMostOnePrimary
  /\ \A q \in Requests : RequestOK(q)
  /\ \A p, q \in Requests : p # q => Apart(p, q)

-----------------------------------------------------------------------------

LEMMA IInvInit == Init => IInv
<1> SUFFICES ASSUME Init PROVE IInv
  OBVIOUS
<1>1. TypeOK
  BY DEF Init, TypeOK, Statuses, Labels, Ops
<1>2. ASSUME NEW q \in Requests PROVE RequestOK(q)
  BY DEF Init, RequestOK, ShapeOK, RowsOK, NotesOK, UnracedOK, Changed, Wrote, HasEntry
<1>3. ASSUME NEW p \in Requests, NEW q \in Requests PROVE Apart(p, q)
  BY DEF Init, Apart, Locked, Wrote, HasEntry
<1> QED
  BY <1>1, <1>2, <1>3 DEF Init, IInv

(* A step of one request leaves the locals of the others alone.            *)
Untouched(p) ==
  /\ pc'[p] = pc[p] /\ op'[p] = op[p] /\ target'[p] = target[p]
  /\ primary'[p] = primary[p] /\ allow'[p] = allow[p] /\ victim'[p] = victim[p]
  /\ cleared'[p] = cleared[p] /\ noted'[p] = noted[p]

LEMMA UntouchedKeeps ==
  ASSUME NEW p, Untouched(p)
  PROVE  /\ Locked(p)' = Locked(p) /\ HasEntry(p)' = HasEntry(p)
         /\ Wrote(p)' = Wrote(p) /\ Changed(p)' = Changed(p)
<1>1. Wrote(p)' = Wrote(p)
  BY DEF Untouched, Wrote
<1>2. HasEntry(p)' = HasEntry(p)
  BY DEF Untouched, HasEntry
<1> QED
  BY <1>1, <1>2 DEF Untouched, Locked, Changed

LEMMA UntouchedOK ==
  ASSUME IInv, NEW p \in Requests, Untouched(p), raced'[p] = raced[p], UNCHANGED table
  PROVE  RequestOK(p)'
<1>1. RequestOK(p)
  BY DEF IInv
<1>2. Conflicts(p)' = Conflicts(p)
  BY DEF Untouched, Conflicts, table
<1>3. \A c : Row(c)' = Row(c) /\ Written(p, c)' = Written(p, c)
  BY DEF Untouched, Row, Written, table
<1>4. ShapeOK(p)'
  BY <1>1 DEF RequestOK, ShapeOK, Untouched
<1>5. RowsOK(p)'
  BY <1>1, <1>2, UntouchedKeeps DEF RequestOK, RowsOK, Untouched, table
<1>6. NotesOK(p)'
  BY <1>1, <1>3, UntouchedKeeps DEF RequestOK, NotesOK, Untouched
<1>7. UnracedOK(p)'
  BY <1>1, <1>2 DEF RequestOK, UnracedOK, Untouched, table
<1> QED
  BY <1>4, <1>5, <1>6, <1>7 DEF RequestOK

(* A step that commits nothing.                                            *)
LEMMA LocalStep ==
  ASSUME IInv, TypeOK', UNCHANGED table, NEW q \in Requests, RequestOK(q)',
         \A p \in Requests \ {q} : /\ Untouched(p) /\ raced'[p] = raced[p]
                                   /\ Locked(p) \cap Locked(q)' = {}
                                   /\ ~(HasEntry(p) /\ HasEntry(q)')
                                   /\ op[p] = "create" /\ op'[q] = "create"
                                        => target[p] # target'[q]
  PROVE  IInv'
<1>1. AtMostOnePrimary'
  BY DEF IInv, AtMostOnePrimary, table
<1>2. ASSUME NEW p \in Requests PROVE RequestOK(p)'
  BY UntouchedOK
<1>3. ASSUME NEW p \in Requests, NEW r \in Requests, p # r PROVE Apart(p, r)'
  <2>0. Apart(p, r)
    BY <1>3 DEF IInv
  <2>1. ASSUME NEW s \in Requests, s # q
        PROVE  /\ Locked(s)' = Locked(s) /\ HasEntry(s)' = HasEntry(s)
               /\ op'[s] = op[s] /\ target'[s] = target[s]
    BY <2>1, UntouchedKeeps DEF Untouched
  <2>2. CASE p # q /\ r # q
    BY <2>0, <2>1, <2>2 DEF Apart
  <2>3. CASE p = q
    BY <1>3, <2>1, <2>3 DEF Apart
  <2>4. CASE r = q
    BY <1>3, <2>1, <2>4 DEF Apart
  <2> QED
    BY <2>2, <2>3, <2>4
<1> QED
  BY <1>1, <1>2, <1>3 DEF IInv

-----------------------------------------------------------------------------

LEMMA BeginStep ==
  ASSUME IInv, NEW q \in Requests, NEW operation \in Ops \ {"none"}, NEW c \in Contacts,
         NEW asPrimary \in BOOLEAN, Begin(q, operation, c, asPrimary)
  PROVE  IInv'
<1>t. TypeOK
  BY DEF IInv
<1> DEFINE asked == BoolOr(allow_contact[q], operation = "create" \/ c \notin optedOut)
<1>0. asked \in BOOLEAN
  BY Zenon, AllowContactAssumption DEF BoolOr
<1>a. allow' = [allow EXCEPT ![q] = asked]
  BY DEF Begin
<1>b. operation = "update" /\ allow_contact[q] = Omitted => asked = (c \notin optedOut)
  BY DEF BoolOr
<1> HIDE DEF asked
<1>1. /\ pc[q] = "new"
      /\ pc'[q] = IF asPrimary THEN "scan" ELSE "target"
      /\ op'[q] = operation /\ target'[q] = c /\ primary'[q] = asPrimary
      /\ allow'[q] = asked /\ victim'[q] = victim[q]
      /\ cleared'[q] = cleared[q] /\ noted'[q] = noted[q] /\ raced'[q] = raced[q]
  BY <1>t, <1>a DEF Begin, TypeOK
<1>2. TypeOK'
  <2>1. /\ pc' \in [Requests -> Labels] /\ op' \in [Requests -> Ops]
        /\ target' \in [Requests -> Contacts \cup {NoContact}]
    BY <1>t DEF Begin, TypeOK, Labels
  <2>2. primary' \in [Requests -> BOOLEAN] /\ allow' \in [Requests -> BOOLEAN]
    BY <1>t, <1>0, <1>a DEF Begin, TypeOK
  <2> QED
    BY <1>t, <2>1, <2>2 DEF Begin, TypeOK, table
<1>3. cleared[q] = {} /\ noted[q] = {}
  BY <1>1 DEF IInv, RequestOK, ShapeOK
<1>4. ~Wrote(q)' /\ ~HasEntry(q)' /\ Locked(q)' = {} /\ Changed(q)' = {}
  BY <1>1, <1>3 DEF Wrote, HasEntry, Locked, Changed
<1>5. RequestOK(q)'
  <2>1. ShapeOK(q)'
    BY <1>1, <1>3 DEF Begin, ShapeOK
  <2>2. RowsOK(q)'
    BY <1>1, <1>3, <1>4 DEF Begin, RowsOK, table, Live
  <2>3. NotesOK(q)'
    BY <1>1, <1>3, <1>4 DEF NotesOK
  <2>4. UnracedOK(q)'
    BY <1>1, <1>b DEF Begin, UnracedOK, table
  <2> QED
    BY <2>1, <2>2, <2>3, <2>4 DEF RequestOK
<1>6. ASSUME NEW p \in Requests \ {q}
      PROVE  /\ Untouched(p) /\ raced'[p] = raced[p]
             /\ op[p] = "create" /\ op'[q] = "create" => target[p] # target'[q]
  BY <1>t, <1>1 DEF Begin, TypeOK, Untouched
<1> QED
  BY <1>2, <1>4, <1>5, <1>6, LocalStep DEF Begin

LEMMA ClearScanStep ==
  ASSUME IInv, NEW q \in Requests, ClearScan(q)
  PROVE  IInv'
<1>t. TypeOK
  BY DEF IInv
<1>r. RequestOK(q)
  BY DEF IInv
<1>1. /\ pc[q] = "scan" /\ pc'[q] \in {"target", "clear"}
      /\ pc'[q] = "target" => Conflicts(q) = {}
      /\ pc'[q] = "clear" => victim'[q] \in Conflicts(q)
      /\ pc' \in [Requests -> Labels] /\ victim' \in [Requests -> Contacts \cup {NoContact}]
      /\ \A p \in Requests \ {q} : pc'[p] = pc[p] /\ victim'[p] = victim[p]
  BY <1>t DEF ClearScan, TypeOK, Labels, Conflicts
<1>2. UNCHANGED <<table, request, cleared, noted, raced>>
  BY DEF ClearScan
<1>3. TypeOK'
  BY <1>t, <1>1, <1>2 DEF TypeOK, table, request
<1>4. cleared[q] = {} /\ noted[q] = {} /\ op[q] # "none"
  BY <1>1, <1>r DEF RequestOK, ShapeOK
<1>5. ~Wrote(q)' /\ ~HasEntry(q)' /\ Locked(q)' = {} /\ Changed(q)' = {}
  BY <1>1, <1>2, <1>4 DEF Wrote, HasEntry, Locked, Changed
<1>6. RequestOK(q)'
  <2>1. ShapeOK(q)'
    BY <1>1, <1>2, <1>4, <1>r DEF RequestOK, ShapeOK, request, Conflicts
  <2>2. RowsOK(q)'
    BY <1>2, <1>4, <1>5, <1>r DEF RequestOK, RowsOK, table, request
  <2>3. NotesOK(q)'
    BY <1>2, <1>4, <1>5 DEF NotesOK
  <2>4. UnracedOK(q)'
    BY <1>1, <1>2, <1>r DEF RequestOK, UnracedOK, table, request, Conflicts
  <2> QED
    BY <2>1, <2>2, <2>3, <2>4 DEF RequestOK
<1>7. ASSUME NEW p \in Requests \ {q}
      PROVE  /\ Untouched(p) /\ raced'[p] = raced[p]
             /\ op[p] = "create" /\ op'[q] = "create" => target[p] # target'[q]
  BY <1>1, <1>2, <1>4 DEF Untouched, request, IInv, Apart
<1> QED
  BY <1>2, <1>3, <1>5, <1>6, <1>7, LocalStep

LEMMA ClearLockStep ==
  ASSUME IInv, NEW q \in Requests, ClearLock(q)
  PROVE  IInv'
<1>t. TypeOK
  BY DEF IInv
<1>r. RequestOK(q)
  BY DEF IInv
<1> DEFINE v == victim[q]
<1>0. /\ pc[q] = "clear" /\ cleared[q] = {} /\ noted[q] = {} /\ primary[q]
      /\ v \in Contacts /\ v # target[q] /\ op[q] # "none"
  BY <1>r DEF ClearLock, RequestOK, ShapeOK
<1>1. /\ pc'[q] = "target" /\ pc' \in [Requests -> Labels]
      /\ \A p \in Requests \ {q} : pc'[p] = pc[p]
  BY <1>t DEF ClearLock, TypeOK, Labels
<1>2. UNCHANGED <<table, request, victim, raced>>
  BY DEF ClearLock
<1>3. ~Wrote(q)' /\ ~HasEntry(q)' /\ Locked(q)' = cleared'[q] /\ Changed(q)' = cleared'[q]
  BY <1>1 DEF Wrote, HasEntry, Locked, Changed
<1>4. CASE status[v] = "primary"
  <2> DEFINE new == [Row(v) EXCEPT !.status = "plain"]
             e == [record_pk |-> v, old_data |-> Row(v), new_data |-> new]
  <2>0. Row(v) \in Rows /\ new \in Rows
    BY <1>0, <1>t DEF Row, Rows, Statuses, TypeOK
  <2>1. cleared' = [cleared EXCEPT ![q] = {v}] /\ noted' = [noted EXCEPT ![q] = @ \cup {e}]
    BY <1>4 DEF ClearLock, Note
  <2>2. \A c : Row(c)' = Row(c) /\ (c = v => Written(q, c)' = new)
    <3>1. cleared'[q] = {v}
      BY <2>1, <1>t DEF TypeOK
    <3> QED
      BY <3>1, <1>0, <1>2 DEF Row, Written, table, request
  <2>3. e.record_pk = v /\ e.old_data = Row(v) /\ e.new_data = new
    OBVIOUS
  <2>4. e \in [record_pk : Contacts, old_data : Rows, new_data : Rows]
    BY <1>0, <2>0
  <2> HIDE DEF e, new
  <2>5. cleared'[q] = {v} /\ noted'[q] = {e}
    BY <2>1, <1>0, <1>t DEF TypeOK
  <2>6. /\ cleared' \in [Requests -> SUBSET Contacts]
        /\ noted' \in [Requests -> SUBSET [record_pk : Contacts, old_data : Rows, new_data : Rows]]
        /\ \A p \in Requests \ {q} : cleared'[p] = cleared[p] /\ noted'[p] = noted[p]
    BY <2>1, <2>4, <1>0, <1>t DEF TypeOK
  <2>7. TypeOK'
    BY <1>t, <1>1, <1>2, <2>6 DEF TypeOK, table, request
  <2>8. RequestOK(q)'
    <3>1. ShapeOK(q)'
      BY <1>0, <1>1, <1>2, <1>r, <2>5 DEF RequestOK, ShapeOK, request
    <3>2. RowsOK(q)'
      BY <1>1, <1>2, <1>3, <1>4, <1>r, <2>5 DEF RequestOK, RowsOK, table, request
    <3>3. NotesOK(q)'
      <4>2. \A x \in noted'[q] : /\ x.record_pk \in Changed(q)'
                                 /\ x.old_data = Row(x.record_pk)'
                                 /\ x.new_data = Written(q, x.record_pk)'
        BY <1>3, <2>2, <2>3, <2>5
      <4>3. \A c \in Changed(q)' : \E x \in noted'[q] : x.record_pk = c
        BY <1>3, <2>3, <2>5
      <4> QED
        BY <4>2, <4>3 DEF NotesOK
    <3>4. Conflicts(q)' = {}
      BY <1>0, <1>2, <1>4, <2>5 DEF Conflicts, table, request, IInv, AtMostOnePrimary
    <3>5. UnracedOK(q)'
      BY <1>1, <1>2, <1>r, <3>4 DEF RequestOK, UnracedOK, table, request
    <3> QED
      BY <3>1, <3>2, <3>3, <3>5 DEF RequestOK
  <2>9. ASSUME NEW p \in Requests \ {q}
        PROVE  /\ Untouched(p) /\ raced'[p] = raced[p]
               /\ Locked(p) \cap {v} = {}
               /\ op[p] = "create" /\ op'[q] = "create" => target[p] # target'[q]
    BY <1>1, <1>2, <2>6 DEF Untouched, request, IInv, Apart, ClearLock, HoldersOf
  <2> QED
    BY <1>2, <1>3, <2>5, <2>7, <2>8, <2>9, LocalStep
<1>5. CASE status[v] # "primary"
  <2>1. UNCHANGED <<cleared, noted>>
    BY <1>5 DEF ClearLock
  <2>2. TypeOK'
    BY <1>t, <1>1, <1>2, <2>1 DEF TypeOK, table, request
  <2>3. RequestOK(q)'
    <3>1. ShapeOK(q)'
      BY <1>0, <1>1, <1>2, <1>r, <2>1 DEF RequestOK, ShapeOK, request
    <3>2. RowsOK(q)'
      BY <1>0, <1>1, <1>2, <1>3, <1>r, <2>1 DEF RequestOK, RowsOK, table, request
    <3>3. NotesOK(q)'
      BY <1>0, <1>3, <2>1 DEF NotesOK
    <3>4. UnracedOK(q)'
      BY <1>0, <1>1, <1>2, <1>5, <1>r, <2>1 DEF RequestOK, UnracedOK, table, request
    <3> QED
      BY <3>1, <3>2, <3>3, <3>4 DEF RequestOK
  <2>4. ASSUME NEW p \in Requests \ {q}
        PROVE  /\ Untouched(p) /\ raced'[p] = raced[p]
               /\ op[p] = "create" /\ op'[q] = "create" => target[p] # target'[q]
    BY <1>1, <1>2, <2>1 DEF Untouched, request, IInv, Apart
  <2> QED
    BY <1>0, <1>2, <1>3, <2>1, <2>2, <2>3, <2>4, LocalStep
<1> QED
  BY <1>4, <1>5

(* The end of a transaction forgets everything about it.                   *)
LEMMA EndLocals ==
  ASSUME TypeOK, NEW q \in Requests, End(q)
  PROVE  /\ pc' \in [Requests -> Labels] /\ op' \in [Requests -> Ops]
         /\ target' \in [Requests -> Contacts \cup {NoContact}]
         /\ primary' \in [Requests -> BOOLEAN] /\ allow' \in [Requests -> BOOLEAN]
         /\ victim' \in [Requests -> Contacts \cup {NoContact}]
         /\ cleared' \in [Requests -> SUBSET Contacts]
         /\ noted' \in [Requests -> SUBSET [record_pk : Contacts, old_data : Rows, new_data : Rows]]
         /\ pc'[q] = "done" /\ op'[q] = "none" /\ primary'[q] = FALSE
         /\ cleared'[q] = {} /\ noted'[q] = {}
         /\ \A p \in Requests \ {q} : Untouched(p)
<1>1. /\ pc' \in [Requests -> Labels] /\ op' \in [Requests -> Ops]
      /\ target' \in [Requests -> Contacts \cup {NoContact}]
      /\ victim' \in [Requests -> Contacts \cup {NoContact}]
  BY DEF End, TypeOK, Labels, Ops
<1>2. /\ cleared' \in [Requests -> SUBSET Contacts]
      /\ noted' \in [Requests -> SUBSET [record_pk : Contacts, old_data : Rows, new_data : Rows]]
  BY DEF End, TypeOK
<1>3. primary' \in [Requests -> BOOLEAN] /\ allow' \in [Requests -> BOOLEAN]
  BY DEF End, TypeOK
<1>4. /\ pc'[q] = "done" /\ op'[q] = "none" /\ primary'[q] = FALSE
      /\ cleared'[q] = {} /\ noted'[q] = {}
  BY DEF End, TypeOK
<1>5. \A p \in Requests \ {q} : Untouched(p)
  BY DEF End, TypeOK, Untouched
<1> QED
  BY <1>1, <1>2, <1>3, <1>4, <1>5

LEMMA EndedOK ==
  ASSUME TypeOK, NEW q \in Requests, End(q)
  PROVE  /\ RequestOK(q)' /\ Locked(q)' = {} /\ ~HasEntry(q)'
<1>1. ~Wrote(q)' /\ ~HasEntry(q)' /\ Locked(q)' = {} /\ Changed(q)' = {}
  BY EndLocals DEF Wrote, HasEntry, Locked, Changed
<1>2. ShapeOK(q)'
  BY EndLocals DEF ShapeOK
<1>3. RowsOK(q)'
  BY <1>1, EndLocals DEF RowsOK
<1>4. NotesOK(q)' /\ UnracedOK(q)'
  BY <1>1, EndLocals DEF NotesOK, UnracedOK
<1> QED
  BY <1>1, <1>2, <1>3, <1>4 DEF RequestOK

LEMMA AbortStep ==
  ASSUME IInv, NEW q \in Requests, Abort(q)
  PROVE  IInv'
<1>t. TypeOK /\ End(q)
  BY DEF IInv, Abort
<1>1. raced' \in [Requests -> BOOLEAN] /\ \A p \in Requests \ {q} : raced'[p] = raced[p]
  BY <1>t DEF Abort, TypeOK
<1>2. TypeOK'
  BY <1>t, <1>1, EndLocals DEF Abort, TypeOK, table
<1>3. RequestOK(q)' /\ Locked(q)' = {} /\ ~HasEntry(q)' /\ op'[q] = "none"
  BY <1>t, EndLocals, EndedOK
<1>4. \A p \in Requests \ {q} : Untouched(p) /\ Locked(p) \cap Locked(q)' = {}
  BY <1>t, <1>3, EndLocals
<1> QED
  BY <1>1, <1>2, <1>3, <1>4, LocalStep DEF Abort

LEMMA WriteStep ==
  ASSUME IInv, NEW q \in Requests, Write(q)
  PROVE  IInv'
<1>t. TypeOK
  BY DEF IInv
<1>r. RequestOK(q)
  BY DEF IInv
<1>a. CASE op[q] # "create" /\ status[target[q]] = "deleted"
  BY <1>a, AbortStep DEF Write
<1>w. CASE ~(op[q] # "create" /\ status[target[q]] = "deleted")
  <2> DEFINE v == target[q]
             new == Written(q, v)
             e == [record_pk |-> v, old_data |-> Row(v), new_data |-> new]
  <2>0. pc[q] = "target" /\ op[q] # "none" /\ v \in Contacts /\ v \notin cleared[q]
    BY <1>r DEF Write, RequestOK, ShapeOK
  <2>1. /\ pc'[q] = IF primary[q] THEN "index" ELSE "commit"
        /\ pc' \in [Requests -> Labels] /\ \A p \in Requests \ {q} : pc'[p] = pc[p]
    BY <1>t, <1>w DEF Write, TypeOK, Labels
  <2>2. UNCHANGED <<table, request, victim, cleared, raced>>
    BY <1>w DEF Write
  <2>3. noted' = [noted EXCEPT ![q] = @ \cup {e}]
    BY <1>w DEF Write, Note
  <2>4. Row(v) \in Rows /\ new \in Rows
    BY <2>0, <1>t DEF Row, Written, Rows, Statuses, TypeOK
  <2>5. \A c : Row(c)' = Row(c) /\ Written(q, c)' = Written(q, c)
    BY <2>2 DEF Row, Written, table, request
  <2>6. e.record_pk = v /\ e.old_data = Row(v) /\ e.new_data = Written(q, v)
    OBVIOUS
  <2>7. e \in [record_pk : Contacts, old_data : Rows, new_data : Rows]
    BY <2>0, <2>4
  <2>8. ~Wrote(q) /\ ~HasEntry(q) /\ Wrote(q)' /\ ~HasEntry(q)'
    BY <2>0, <2>1, <2>2 DEF Wrote, HasEntry, request
  <2>9. Changed(q)' = Changed(q) \cup {v}
    BY <2>2, <2>8 DEF Changed, request
  <2> HIDE DEF e, new
  <2>10. /\ noted'[q] = noted[q] \cup {e}
         /\ noted' \in [Requests -> SUBSET [record_pk : Contacts, old_data : Rows, new_data : Rows]]
         /\ \A p \in Requests \ {q} : noted'[p] = noted[p]
    BY <2>3, <2>7, <1>t DEF TypeOK
  <2>11. TypeOK'
    BY <1>t, <2>1, <2>2, <2>10 DEF TypeOK, table, request
  <2>12. RequestOK(q)'
    <3>1. ShapeOK(q)'
      BY <1>r, <2>0, <2>1, <2>2 DEF RequestOK, ShapeOK, request
    <3>2. RowsOK(q)'
      BY <1>r, <1>w, <1>t, <2>0, <2>2, <2>8
         DEF RequestOK, RowsOK, table, request, TypeOK, Statuses, Live
    <3>3. NotesOK(q)'
      <4>1. \A x \in noted'[q] : /\ x.record_pk \in Changed(q)'
                                 /\ x.old_data = Row(x.record_pk)'
                                 /\ x.new_data = Written(q, x.record_pk)'
        BY <1>r, <2>5, <2>6, <2>9, <2>10 DEF RequestOK, NotesOK
      <4>2. \A c \in Changed(q)' : \E x \in noted'[q] : x.record_pk = c
        BY <1>r, <2>6, <2>9, <2>10 DEF RequestOK, NotesOK
      <4> QED
        BY <4>1, <4>2 DEF NotesOK
    <3>4. UnracedOK(q)'
      <4>1. Conflicts(q)' = Conflicts(q)
        BY <2>2 DEF Conflicts, table, request
      <4> QED
        BY <1>r, <2>0, <2>1, <2>2, <4>1 DEF RequestOK, UnracedOK, table, request
    <3> QED
      BY <3>1, <3>2, <3>3, <3>4 DEF RequestOK
  <2>13. ASSUME NEW p \in Requests \ {q}
         PROVE  /\ Untouched(p) /\ raced'[p] = raced[p]
                /\ Locked(p) \cap Locked(q)' = {}
                /\ op[p] = "create" /\ op'[q] = "create" => target[p] # target'[q]
    <3>1. Untouched(p) /\ raced'[p] = raced[p]
      BY <2>1, <2>2, <2>10 DEF Untouched, request
    <3>2. Apart(p, q)
      BY DEF IInv
    <3>3. op[q] # "create" => v \notin Locked(p)
      BY DEF Write, HoldersOf
    <3>4. Locked(q)' = cleared[q] \cup (IF op[q] # "create" THEN {v} ELSE {})
      BY <2>2, <2>8 DEF Locked, request
    <3>5. cleared[q] \subseteq Locked(q)
      BY DEF Locked
    <3> QED
      BY <2>2, <3>1, <3>2, <3>3, <3>4, <3>5 DEF Apart, request
  <2> QED
    BY <2>2, <2>8, <2>11, <2>12, <2>13, LocalStep
<1> QED
  BY <1>a, <1>w

LEMMA EnterIndexStep ==
  ASSUME IInv, NEW q \in Requests, EnterIndex(q)
  PROVE  IInv'
<1>t. TypeOK
  BY DEF IInv
<1>r. RequestOK(q)
  BY DEF IInv
<1>1. /\ pc[q] = "index" /\ pc'[q] = "commit" /\ Conflicts(q) = {}
      /\ pc' \in [Requests -> Labels] /\ \A p \in Requests \ {q} : pc'[p] = pc[p]
  BY <1>t DEF EnterIndex, TypeOK, Labels
<1>2. UNCHANGED <<table, request, victim, cleared, noted, raced>>
  BY DEF EnterIndex
<1>3. TypeOK'
  BY <1>t, <1>1, <1>2 DEF TypeOK, table, request
<1>4. Wrote(q)' = Wrote(q)
  BY <1>1 DEF Wrote
<1>5. Locked(q)' = Locked(q) /\ Changed(q)' = Changed(q)
  BY <1>2, <1>4 DEF Locked, Changed, request
<1>6. Conflicts(q)' = {}
  BY <1>1, <1>2 DEF Conflicts, table, request
<1>7. \A c : Row(c)' = Row(c) /\ Written(q, c)' = Written(q, c)
  BY <1>2 DEF Row, Written, table, request
<1>8. RequestOK(q)'
  <2>1. ShapeOK(q)'
    BY <1>r, <1>1, <1>2 DEF RequestOK, ShapeOK, request
  <2>2. RowsOK(q)'
    BY <1>r, <1>2, <1>4, <1>6 DEF RequestOK, RowsOK, table, request
  <2>3. NotesOK(q)'
    BY <1>r, <1>2, <1>5, <1>7 DEF RequestOK, NotesOK
  <2>4. UnracedOK(q)'
    BY <1>r, <1>1, <1>2 DEF RequestOK, UnracedOK, table, request
  <2> QED
    BY <2>1, <2>2, <2>3, <2>4 DEF RequestOK
<1>9. ASSUME NEW p \in Requests \ {q}
      PROVE  /\ Untouched(p) /\ raced'[p] = raced[p] /\ ~HasEntry(p)
             /\ Locked(p) \cap Locked(q)' = {}
             /\ op[p] = "create" /\ op'[q] = "create" => target[p] # target'[q]
  BY <1>1, <1>2, <1>5 DEF EnterIndex, Untouched, request, IInv, Apart
<1> QED
  BY <1>2, <1>3, <1>8, <1>9, LocalStep

-----------------------------------------------------------------------------
(* The commit.                                                             *)

(* What a commit leaves in the table.                                      *)
LEMMA Committed ==
  ASSUME IInv, NEW q \in Requests, Commit(q)
  PROVE  /\ pc[q] = "commit" /\ target[q] \in Contacts /\ op[q] \in Ops \ {"none"}
         /\ \A c \in Contacts : Row(c)' = Written(q, c)
         /\ \A c \in Contacts \ Changed(q) :
              /\ status'[c] = status[c] /\ (c \in optedOut' <=> c \in optedOut)
              /\ Row(c)' = Row(c)
         /\ \A c \in cleared[q] : status[c] = "primary" /\ status'[c] = "plain"
         /\ status'[target[q]] = IF op[q] = "delete" THEN "deleted"
                                 ELSE IF primary[q] THEN "primary" ELSE "plain"
         /\ primary[q] => \A c \in Contacts \ {target[q]} : status'[c] # "primary"
         /\ ~primary[q] => cleared[q] = {}
<1>t. TypeOK
  BY DEF IInv
<1>r. ShapeOK(q) /\ RowsOK(q)
  BY DEF IInv, RequestOK
<1>1. pc[q] = "commit" /\ Wrote(q) /\ target[q] \in Contacts /\ op[q] \in Ops \ {"none"}
  BY <1>t, <1>r DEF Commit, ShapeOK, Wrote, TypeOK
<1>2. cleared[q] \subseteq Contacts /\ target[q] \notin cleared[q]
  BY <1>t, <1>r DEF TypeOK, ShapeOK
<1>3. \A c \in Contacts : /\ status'[c] = Written(q, c).status
                          /\ c \in optedOut' <=> ~Written(q, c).allow
  BY DEF Commit
<1>4. ASSUME NEW c \in Contacts PROVE Row(c)' = Written(q, c)
  <2>1. Written(q, c).allow \in BOOLEAN
    BY <1>t, <1>1 DEF Written, TypeOK
  <2>2. (c \notin optedOut') = Written(q, c).allow
    BY <1>3, <2>1
  <2>3. Written(q, c) = [status |-> Written(q, c).status, allow |-> Written(q, c).allow]
    BY DEF Written
  <2> QED
    BY <1>3, <2>2, <2>3 DEF Row
<1>5. ASSUME NEW c \in Contacts \ Changed(q)
      PROVE  /\ status'[c] = status[c] /\ (c \in optedOut' <=> c \in optedOut)
             /\ Row(c)' = Row(c)
  <2>1. c # target[q] /\ c \notin cleared[q]
    BY <1>1 DEF Changed
  <2>2. status'[c] = status[c] /\ (c \in optedOut' <=> c \in optedOut)
    BY <1>3, <2>1 DEF Written
  <2> QED
    BY <2>2 DEF Row
<1>6. ASSUME NEW c \in cleared[q] PROVE status[c] = "primary" /\ status'[c] = "plain"
  BY <1>2, <1>3, <1>r DEF Written, RowsOK
<1>7. status'[target[q]] = IF op[q] = "delete" THEN "deleted"
                           ELSE IF primary[q] THEN "primary" ELSE "plain"
  <2>1. Written(q, target[q]).status = IF op[q] = "delete" THEN "deleted"
                                       ELSE IF primary[q] THEN "primary" ELSE "plain"
    BY <1>2 DEF Written
  <2> QED
    BY <1>1, <1>3, <2>1
<1>8. primary[q] => \A c \in Contacts \ {target[q]} : status'[c] # "primary"
  <2>1. primary[q] => \A c \in Contacts \ (cleared[q] \cup {target[q]}) : status[c] # "primary"
    BY <1>1, <1>r DEF RowsOK, HasEntry, Conflicts
  <2>2. \A c \in Contacts \ (cleared[q] \cup {target[q]}) : status'[c] = status[c]
    BY <1>5 DEF Changed
  <2> QED
    BY <1>6, <2>1, <2>2
<1>9. ~primary[q] => cleared[q] = {}
  BY <1>r DEF ShapeOK
<1> QED
  BY <1>1, <1>4, <1>5, <1>6, <1>7, <1>8, <1>9

(* No two transactions write the same row, and a fresh id stays fresh.     *)
LEMMA ChangedApart ==
  ASSUME IInv, NEW p \in Requests, NEW q \in Requests, p # q
  PROVE  /\ Changed(p) \cap Changed(q) = {}
         /\ op[p] = "create" => target[p] \notin Changed(q)
<1>1. ASSUME NEW r \in Requests, NEW s \in Requests, r # s, op[r] = "create"
      PROVE  target[r] \notin Changed(s)
  <2>1. RowsOK(r) /\ RowsOK(s) /\ Apart(r, s) /\ ShapeOK(s) /\ TypeOK
    BY <1>1 DEF IInv, RequestOK
  <2>2. status[target[r]] = "absent" /\ \A c \in cleared[s] : status[c] = "primary"
    BY <1>1, <2>1 DEF RowsOK
  <2>3. Wrote(s) => op[s] \in {"create", "update", "delete"}
    BY <2>1 DEF Wrote, ShapeOK, TypeOK, Ops
  <2>4. Wrote(s) => target[r] # target[s]
    BY <1>1, <2>1, <2>2, <2>3 DEF Apart, RowsOK
  <2> QED
    BY <2>2, <2>4 DEF Changed
<1>2. Locked(p) \cap Locked(q) = {}
  BY DEF IInv, Apart
<1>3. ASSUME NEW c \in Changed(p), c \in Changed(q) PROVE FALSE
  <2>1. c \in Locked(p) \/ (op[p] = "create" /\ c = target[p])
    BY <1>3 DEF Changed, Locked
  <2>2. c \in Locked(q) \/ (op[q] = "create" /\ c = target[q])
    BY <1>3 DEF Changed, Locked
  <2> QED
    BY <1>1, <1>2, <1>3, <2>1, <2>2
<1> QED
  BY <1>1, <1>3

LEMMA CommitStep ==
  ASSUME IInv, NEW q \in Requests, Commit(q)
  PROVE  IInv'
<1>t. TypeOK /\ End(q)
  BY DEF IInv, Commit
<1>c. /\ target[q] \in Contacts /\ op[q] \in Ops \ {"none"} /\ pc[q] = "commit"
      /\ \A c \in Contacts \ Changed(q) :
           status'[c] = status[c] /\ (c \in optedOut' <=> c \in optedOut)
      /\ \A c \in cleared[q] : status[c] = "primary" /\ status'[c] = "plain"
      /\ status'[target[q]] = IF op[q] = "delete" THEN "deleted"
                              ELSE IF primary[q] THEN "primary" ELSE "plain"
      /\ primary[q] => \A c \in Contacts \ {target[q]} : status'[c] # "primary"
      /\ ~primary[q] => cleared[q] = {}
  BY Committed
<1>w. Changed(q) = cleared[q] \cup {target[q]}
  BY <1>c DEF Changed, Wrote
<1>1. TypeOK'
  <2>1. status' \in [Contacts -> Statuses]
    <3>1. \A c \in Contacts : status'[c] \in Statuses
      BY <1>t, <1>c, <1>w DEF TypeOK, Statuses
    <3> QED
      BY <3>1 DEF Commit
  <2>2. optedOut' \subseteq Contacts /\ raced' \in [Requests -> BOOLEAN]
    BY DEF Commit
  <2> QED
    BY <1>t, <2>1, <2>2, EndLocals DEF TypeOK
<1>2. \A c \in Contacts : status'[c] = "primary" /\ ~primary[q] => status[c] = "primary"
  BY <1>c, <1>w
<1>3. AtMostOnePrimary'
  BY <1>c, <1>2 DEF IInv, AtMostOnePrimary
<1>4. RequestOK(q)' /\ Locked(q)' = {} /\ ~HasEntry(q)' /\ op'[q] = "none"
  BY <1>t, EndLocals, EndedOK
<1>5. ASSUME NEW p \in Requests \ {q} PROVE RequestOK(p)'
  <2>u. Untouched(p) /\ raced'[p] = (op[p] # "none")
    BY <1>t, EndLocals DEF Commit
  <2>r. ShapeOK(p) /\ RowsOK(p) /\ NotesOK(p) /\ Apart(p, q)
    BY DEF IInv, RequestOK
  <2>k. /\ Locked(p)' = Locked(p) /\ HasEntry(p)' = HasEntry(p)
        /\ Wrote(p)' = Wrote(p) /\ Changed(p)' = Changed(p)
    BY <2>u, UntouchedKeeps
  <2>a. /\ Changed(p) \cap Changed(q) = {}
        /\ op[p] = "create" => target[p] \notin Changed(q)
    BY ChangedApart
  <2>b. Changed(p) \subseteq Contacts
    BY <1>t, <2>r DEF Changed, Wrote, ShapeOK, TypeOK
  <2>1. \A c \in Changed(p) : status'[c] = status[c] /\ (c \in optedOut' <=> c \in optedOut)
    BY <1>c, <2>a, <2>b
  <2>2. ShapeOK(p)'
    BY <2>r, <2>u DEF ShapeOK, Untouched
  <2>3. RowsOK(p)'
    <3>1. \A c \in cleared'[p] : status'[c] = "primary"
      BY <2>1, <2>r, <2>u DEF RowsOK, Untouched, Changed
    <3>2. op'[p] = "create" => status'[target'[p]] = "absent"
      BY <1>c, <2>a, <2>r, <2>u DEF RowsOK, ShapeOK, Untouched
    <3>3. op'[p] \in {"update", "delete"} => status'[target'[p]] # "absent"
      BY <1>c, <1>w, <2>r, <2>u DEF RowsOK, ShapeOK, Untouched
    <3>4. op'[p] \in {"update", "delete"} /\ Wrote(p)' => status'[target'[p]] \in Live
      <4>1. Wrote(p) => target[p] \in Changed(p)
        BY DEF Changed
      <4> QED
        BY <2>1, <2>k, <2>r, <2>u, <4>1 DEF RowsOK, Untouched
    <3>5. HasEntry(p)' => Conflicts(p)' = {}
      <4>1. HasEntry(p) => ~primary[q]
        BY <1>c, <2>r DEF Apart, HasEntry
      <4> QED
        BY <1>2, <2>k, <2>r, <2>u, <4>1 DEF RowsOK, Conflicts, Untouched
    <3> QED
      BY <3>1, <3>2, <3>3, <3>4, <3>5 DEF RowsOK
  <2>4. NotesOK(p)'
    <3>1. ASSUME NEW c \in Changed(p)
          PROVE  Row(c)' = Row(c) /\ Written(p, c)' = Written(p, c)
      BY <2>1, <2>u DEF Row, Written, Untouched
    <3>2. \A e \in noted'[p] : /\ e.record_pk \in Changed(p)'
                               /\ e.old_data = Row(e.record_pk)'
                               /\ e.new_data = Written(p, e.record_pk)'
      BY <2>k, <2>r, <2>u, <3>1 DEF NotesOK, Untouched
    <3>3. \A c \in Changed(p)' : \E e \in noted'[p] : e.record_pk = c
      BY <2>k, <2>r, <2>u DEF NotesOK, Untouched
    <3> QED
      BY <3>2, <3>3 DEF NotesOK
  <2>5. UnracedOK(p)'
    BY <2>r, <2>u DEF UnracedOK, ShapeOK, Untouched
  <2> QED
    BY <2>2, <2>3, <2>4, <2>5 DEF RequestOK
<1>6. ASSUME NEW p \in Requests, NEW r \in Requests, p # r PROVE Apart(p, r)'
  <2>1. CASE p # q /\ r # q
    <3>1. Untouched(p) /\ Untouched(r)
      BY <1>t, <2>1, EndLocals
    <3>2. Apart(p, r)
      BY <1>6 DEF IInv
    <3>3. /\ Locked(p)' = Locked(p) /\ HasEntry(p)' = HasEntry(p)
          /\ Locked(r)' = Locked(r) /\ HasEntry(r)' = HasEntry(r)
      BY <3>1, UntouchedKeeps
    <3> QED
      BY <3>1, <3>2, <3>3 DEF Apart, Untouched
  <2>2. CASE p = q
    BY <1>4, <2>2 DEF Apart
  <2>3. CASE r = q
    BY <1>4, <2>3 DEF Apart
  <2> QED
    BY <2>1, <2>2, <2>3
<1> QED
  BY <1>1, <1>3, <1>4, <1>5, <1>6 DEF IInv

LEMMA IInvStep == IInv /\ [Next]_vars => IInv'
<1> SUFFICES ASSUME IInv, [Next]_vars PROVE IInv'
  OBVIOUS
<1>1. ASSUME NEW q \in Requests, NEW operation \in Ops \ {"none"}, NEW c \in Contacts,
             NEW asPrimary \in BOOLEAN, Begin(q, operation, c, asPrimary)
      PROVE  IInv'
  BY <1>1, BeginStep
<1>2. ASSUME NEW q \in Requests, Proceed(q) PROVE IInv'
  <2>1. ASSUME RefusedByIndex(q) PROVE IInv'
    BY <2>1, AbortStep DEF RefusedByIndex
  <2> QED
    BY <1>2, <2>1, ClearScanStep, ClearLockStep, WriteStep, EnterIndexStep, CommitStep
       DEF Proceed
<1>3. ASSUME NEW q \in Requests, DeadlockAbort(q) \/ Fail(q) PROVE IInv'
  BY <1>3, AbortStep DEF DeadlockAbort, Fail
<1>4. ASSUME UNCHANGED vars PROVE IInv'
  <2>1. TypeOK' /\ AtMostOnePrimary'
    BY <1>4 DEF IInv, TypeOK, AtMostOnePrimary, vars, table, request
  <2>2. ASSUME NEW q \in Requests PROVE Untouched(q) /\ raced'[q] = raced[q]
    BY <1>4 DEF Untouched, vars, request
  <2>3. ASSUME NEW q \in Requests PROVE RequestOK(q)'
    BY <1>4, <2>2, UntouchedOK DEF vars
  <2>4. ASSUME NEW p \in Requests, NEW q \in Requests, p # q PROVE Apart(p, q)'
    BY <2>2, <2>4, UntouchedKeeps DEF IInv, Apart, Untouched
  <2> QED
    BY <2>1, <2>3, <2>4 DEF IInv
<1> QED
  BY <1>1, <1>2, <1>3, <1>4 DEF Next

LEMMA IInvInvariant == Spec => []IInv
  BY IInvInit, IInvStep, PTL DEF Spec

-----------------------------------------------------------------------------
(* Every variable keeps its type, for any contacts and requests.           *)
THEOREM TypeCorrect == Spec => []TypeOK
  BY IInvInvariant, PTL DEF IInv

(* The refusals of the unique index: an unraced request that enters it has *)
(* demoted the one other primary contact, if there was one.                *)
THEOREM RefusalsAreRaced == Spec => RefusedOnlyIfRaced
<1>1. ASSUME IInv, [Next]_vars
      PROVE  [\A q \in Requests : RefusedByIndex(q) => raced[q]]_vars
  <2>1. ASSUME NEW q \in Requests, RefusedByIndex(q), ~raced[q] PROVE FALSE
    <3>1. UnracedOK(q) /\ ShapeOK(q)
      BY <1>1 DEF IInv, RequestOK
    <3> QED
      BY <2>1, <3>1 DEF RefusedByIndex, UnracedOK, ShapeOK
  <2> QED
    BY <2>1
<1> QED
  BY <1>1, IInvInvariant, PTL DEF Spec, RefusedOnlyIfRaced

(* The audit entries that a commit publishes are its changes of the book,  *)
(* each from the row before the commit to the row after it.                *)
THEOREM AuditEntriesMatchCommits == Spec => AuditMatchesCommit
<1>1. ASSUME IInv, [Next]_vars
      PROVE  [\A q \in Requests : Commit(q) =>
               /\ \A e \in noted[q] : e.old_data = Row(e.record_pk) /\ e.new_data = Row(e.record_pk)'
               /\ \A c \in Contacts : Row(c)' # Row(c) =>
                    \E e \in noted[q] : e.record_pk = c]_vars
  <2>1. ASSUME NEW q \in Requests, Commit(q)
        PROVE  /\ \A e \in noted[q] : /\ e.old_data = Row(e.record_pk)
                                      /\ e.new_data = Row(e.record_pk)'
               /\ \A c \in Contacts : Row(c)' # Row(c) =>
                    \E e \in noted[q] : e.record_pk = c
    <3>1. NotesOK(q) /\ TypeOK
      BY <1>1 DEF IInv, RequestOK
    <3>2. /\ \A c \in Contacts : Row(c)' = Written(q, c)
          /\ \A c \in Contacts \ Changed(q) : Row(c)' = Row(c)
      BY <1>1, <2>1, Committed
    <3>3. \A e \in noted[q] : e.record_pk \in Contacts
      BY <3>1 DEF TypeOK
    <3> QED
      BY <3>1, <3>2, <3>3 DEF NotesOK
  <2> QED
    BY <2>1
<1> QED
  BY <1>1, IInvInvariant, PTL DEF Spec, AuditMatchesCommit

(* An update that says nothing of consent, and that nobody has raced,      *)
(* writes the allow_contact of the row: it has read it, and nothing has    *)
(* been committed since.                                                   *)
THEOREM OptOutsAreKept == Spec => OptOutIsKept
<1>1. ASSUME IInv, [Next]_vars
      PROVE  [\A q \in Requests : Commit(q) /\ op[q] = "update" =>
               \/ target[q] \in optedOut <=> target[q] \in optedOut'
               \/ allow_contact[q] # Omitted
               \/ raced[q]]_vars
  <2>1. ASSUME NEW q \in Requests, Commit(q), op[q] = "update",
               allow_contact[q] = Omitted, ~raced[q]
        PROVE  target[q] \in optedOut <=> target[q] \in optedOut'
    <3>1. UnracedOK(q) /\ TypeOK /\ target[q] \in Contacts
      BY <1>1, <2>1, Committed DEF IInv, RequestOK
    <3>2. allow[q] = (target[q] \notin optedOut)
      BY <2>1, <3>1 DEF UnracedOK
    <3>3. target[q] \in optedOut' <=> ~allow[q]
      BY <2>1, <3>1 DEF Commit, Written
    <3> QED
      BY <3>2, <3>3
  <2> QED
    BY <2>1
<1> QED
  BY <1>1, IInvInvariant, PTL DEF Spec, OptOutIsKept

(* The contact endpoints implement the contact book: a commit is one       *)
(* change of it, and every other step leaves it alone.                     *)
THEOREM ContactsImplementBook == Spec => ImplementsContactBook
<1>1. Init => Book!Init
  BY DEF Init, Book!Init, Statuses, Book!Statuses, AtMostOnePrimary
<1>2. ASSUME IInv, [Next]_vars PROVE [Book!Next]_status
  <2>1. ASSUME NEW q \in Requests, Commit(q) PROVE [Book!Next]_status
    <3> DEFINE v == target[q]
    <3>t. TypeOK /\ RowsOK(q) /\ ShapeOK(q)
      BY <1>2 DEF IInv, RequestOK
    <3>c. /\ v \in Contacts /\ op[q] \in {"create", "update", "delete"} /\ pc[q] = "commit"
          /\ \A c \in Contacts \ Changed(q) : status'[c] = status[c]
          /\ \A c \in cleared[q] : status[c] = "primary" /\ status'[c] = "plain"
          /\ status'[v] = IF op[q] = "delete" THEN "deleted"
                          ELSE IF primary[q] THEN "primary" ELSE "plain"
          /\ primary[q] => \A c \in Contacts \ {v} : status'[c] # "primary"
          /\ ~primary[q] => cleared[q] = {}
      BY <1>2, <2>1, Committed DEF Ops
    <3>d. /\ Changed(q) = cleared[q] \cup {v}
          /\ status \in [Contacts -> Statuses]
          /\ status' = [c \in Contacts |-> status'[c]]
      BY <2>1, <3>t, <3>c DEF Changed, Wrote, TypeOK, Commit
    <3>v. /\ op[q] = "create" => status[v] = "absent"
          /\ op[q] # "create" => status[v] \in Live
      BY <3>t, <3>c DEF RowsOK, Wrote
    <3>1. CASE op[q] # "delete" /\ primary[q]
      <4>1. \A c \in Contacts : status'[c] = IF c = v THEN "primary"
                                             ELSE IF status[c] = "primary" THEN "plain"
                                             ELSE status[c]
        BY <3>1, <3>c, <3>d
      <4>2. status[v] # "deleted"
        BY <3>1, <3>v DEF Live
      <4>3. Book!MakePrimary(v)
        BY <4>1, <4>2, <3>d DEF Book!MakePrimary
      <4> QED
        BY <4>3, <3>c DEF Book!Next
    <3>2. CASE op[q] # "delete" /\ ~primary[q]
      <4>1. status' = [status EXCEPT ![v] = "plain"]
        BY <3>2, <3>c, <3>d
      <4>2. CASE status[v] = "absent"
        BY <4>1, <4>2, <3>c DEF Book!Next, Book!Create
      <4>3. CASE status[v] = "primary"
        BY <4>1, <4>3, <3>c DEF Book!Next, Book!Demote
      <4>4. CASE status[v] = "plain"
        BY <4>1, <4>4, <3>d
      <4> QED
        BY <3>v, <4>2, <4>3, <4>4 DEF Live
    <3>3. CASE op[q] = "delete"
      <4>1. cleared[q] = {}
        BY <3>3, <3>t, <3>c DEF ShapeOK
      <4>2. status' = [status EXCEPT ![v] = "deleted"]
        BY <3>3, <3>c, <3>d, <4>1
      <4>3. Book!Delete(v)
        BY <3>3, <3>v, <4>2 DEF Book!Delete, Book!Live, Live
      <4> QED
        BY <4>3, <3>c DEF Book!Next
    <3> QED
      BY <3>1, <3>2, <3>3
  <2>2. ASSUME NEW q \in Requests,
               ClearScan(q) \/ ClearLock(q) \/ Write(q) \/ EnterIndex(q) \/ RefusedByIndex(q)
        PROVE  UNCHANGED status
    BY <2>2 DEF ClearScan, ClearLock, Write, EnterIndex, RefusedByIndex, Abort, table
  <2>3. ASSUME NEW q \in Requests, DeadlockAbort(q) \/ Fail(q) PROVE UNCHANGED status
    BY <2>3 DEF DeadlockAbort, Fail, Abort, table
  <2>4. ASSUME NEW q \in Requests, NEW operation \in Ops \ {"none"}, NEW c \in Contacts,
               NEW asPrimary \in BOOLEAN, Begin(q, operation, c, asPrimary)
        PROVE  UNCHANGED status
    BY <2>4 DEF Begin, table
  <2>5. ASSUME UNCHANGED vars PROVE UNCHANGED status
    BY <2>5 DEF vars, table
  <2> QED
    BY <1>2, <2>1, <2>2, <2>3, <2>4, <2>5 DEF Next, Proceed
<1> QED
  BY <1>1, <1>2, IInvInvariant, PTL DEF Spec, ImplementsContactBook, Book!Spec

-----------------------------------------------------------------------------
(* What every behaviour of the contact book has, its implementation has.   *)

KeepsDeleted == \A c \in Contacts : status[c] = "deleted" => status'[c] = "deleted"

(* The book itself never lists two primary contacts.                       *)
THEOREM BookHasOnePrimary == Book!Spec => []AtMostOnePrimary
<1> DEFINE Inv == status \in [Contacts -> Statuses] /\ AtMostOnePrimary
<1>1. Book!Init => Inv
  BY DEF Book!Init, Book!Statuses, Statuses, AtMostOnePrimary
<1>2. ASSUME Inv, [Book!Next]_status PROVE Inv'
  <2>1. ASSUME NEW c \in Contacts, Book!Create(c) \/ Book!Demote(c) \/ Book!Delete(c)
        PROVE  Inv'
    BY <1>2, <2>1 DEF Book!Create, Book!Demote, Book!Delete, AtMostOnePrimary, Statuses
  <2>2. ASSUME NEW c \in Contacts, Book!MakePrimary(c) PROVE Inv'
    <3>1. \A d \in Contacts : /\ status'[d] \in Statuses
                              /\ status'[d] = "primary" => d = c
      BY <1>2, <2>2 DEF Book!MakePrimary, Statuses
    <3>2. status' = [d \in Contacts |-> status'[d]]
      BY <2>2 DEF Book!MakePrimary
    <3> QED
      BY <3>1, <3>2 DEF AtMostOnePrimary
  <2>3. CASE UNCHANGED status
    BY <1>2, <2>3 DEF AtMostOnePrimary
  <2> QED
    BY <1>2, <2>1, <2>2, <2>3 DEF Book!Next
<1> QED
  BY <1>1, <1>2, PTL DEF Book!Spec

(* The book itself never brings a deleted contact back.                    *)
THEOREM BookKeepsDeleted == Book!Spec => [][KeepsDeleted]_status
<1> DEFINE Typed == status \in [Contacts -> Statuses]
<1>1. Book!Init => Typed
  BY DEF Book!Init, Book!Statuses, Statuses
<1>2. ASSUME Typed, [Book!Next]_status
      PROVE  Typed'
  BY <1>2 DEF Book!Next, Book!Create, Book!MakePrimary, Book!Demote, Book!Delete, Statuses
<1>3. ASSUME Typed, [Book!Next]_status
      PROVE  [KeepsDeleted]_status
  BY <1>3 DEF Book!Next, Book!Create, Book!MakePrimary, Book!Demote, Book!Delete,
              Book!Live, KeepsDeleted
<1> QED
  BY <1>1, <1>2, <1>3, PTL DEF Book!Spec

(* So the endpoints never commit two primary contacts and never bring a    *)
(* deleted one back, whatever their transactions do to each other.         *)
THEOREM CommittedBookIsSound == Spec => []AtMostOnePrimary /\ [][KeepsDeleted]_status
  BY ContactsImplementBook, BookHasOnePrimary, BookKeepsDeleted, PTL
     DEF ImplementsContactBook

-----------------------------------------------------------------------------
(* Waiting.                                                                *)

Unfinished == {q \in Requests : pc[q] \notin {"new", "done"}}

(* Request q waits for nobody: it passes its next statement or is refused. *)
CanProceed(q) ==
  \/ pc[q] \in {"scan", "commit"}
  \/ pc[q] = "clear" /\ HoldersOf(victim[q], q) = {}
  \/ pc[q] = "target" /\ (op[q] # "create" => HoldersOf(target[q], q) = {})
  \/ pc[q] = "index" /\ Conflicts(q) = {} /\ \A p \in Requests \ {q} : ~HasEntry(p)
  \/ pc[q] = "index" /\ \E c \in Conflicts(q) : HoldersOf(c, q) = {}

(* Only a transaction under way holds anything, and waits for one.         *)
LEMMA WaitsAreForUnfinished ==
  ASSUME IInv, NEW q \in Requests
  PROVE  WaitsFor(q) \subseteq Unfinished \ {q}
<1>1. ASSUME NEW p \in Requests, p \notin Unfinished PROVE Locked(p) = {} /\ ~HasEntry(p)
  <2>1. ShapeOK(p)
    BY DEF IInv, RequestOK
  <2> QED
    BY <1>1, <2>1 DEF Unfinished, ShapeOK, Locked, Wrote, HasEntry
<1>2. \A c : HoldersOf(c, q) \subseteq Unfinished \ {q}
  BY <1>1 DEF HoldersOf
<1>3. {p \in Requests \ {q} : HasEntry(p) \/ Conflicts(q) \cap Locked(p) # {}}
        \subseteq Unfinished \ {q}
  BY <1>1
<1>4. CASE pc[q] = "clear"
  BY <1>2, <1>4 DEF WaitsFor
<1>5. CASE pc[q] = "target"
  BY <1>2, <1>5 DEF WaitsFor
<1>6. CASE pc[q] = "index"
  BY <1>3, <1>6 DEF WaitsFor
<1>7. CASE pc[q] \notin {"clear", "target", "index"}
  BY <1>7 DEF WaitsFor
<1> QED
  BY <1>4, <1>5, <1>6, <1>7

LEMMA WaitingForNobodyProceeds ==
  ASSUME IInv, NEW q \in Unfinished, WaitsFor(q) = {}
  PROVE  CanProceed(q)
<1>1. q \in Requests /\ pc[q] \in {"scan", "clear", "target", "index", "commit"}
  BY DEF Unfinished, IInv, TypeOK, Labels
<1>2. CASE pc[q] = "clear"
  BY <1>2 DEF WaitsFor, CanProceed
<1>3. CASE pc[q] = "target"
  BY <1>3 DEF WaitsFor, CanProceed
<1>4. CASE pc[q] = "index"
  <2>1. \A p \in Requests \ {q} : ~HasEntry(p) /\ Conflicts(q) \cap Locked(p) = {}
    BY <1>4 DEF WaitsFor
  <2>2. \A c \in Conflicts(q) : HoldersOf(c, q) = {}
    BY <2>1 DEF HoldersOf
  <2> QED
    BY <1>4, <2>1, <2>2 DEF CanProceed
<1>5. CASE pc[q] \in {"scan", "commit"}
  BY <1>5 DEF CanProceed
<1> QED
  BY <1>1, <1>2, <1>3, <1>4, <1>5

(* Of finitely many requests that wait for each other, some form a         *)
(* smallest such set.                                                      *)
LEMMA SmallestClosed ==
  ASSUME NEW U, IsFiniteSet(U), U # {}, Closed(U)
  PROVE  \E S \in SUBSET U : /\ S # {} /\ Closed(S)
                             /\ \A T \in (SUBSET S) \ {{}, S} : ~Closed(T)
<1> DEFINE R == StrictSubsetOrdering(U)
           closedSets == {S \in SUBSET U : S # {} /\ Closed(S)}
<1>1. IsWellFoundedOn(R, SUBSET U)
  BY FS_StrictSubsetOrderingWellFounded, FS_FiniteSubsetsOfFinite
<1>2. closedSets \subseteq SUBSET U /\ closedSets # {}
  OBVIOUS
<1>3. PICK S \in closedSets : \A T \in closedSets : ~(<<T, S>> \in R)
  <2> HIDE DEF R, closedSets
  <2> QED
    BY <1>1, <1>2, WFMin
<1>4. ASSUME NEW T \in (SUBSET S) \ {{}, S} PROVE ~Closed(T)
  BY <1>3, <1>4 DEF StrictSubsetOrdering
<1> QED
  BY <1>3, <1>4

(* While a request is unfinished, one can go on or is a victim of the      *)
(* deadlock detector: the waits for rows and for the index, which end with *)
(* transactions that themselves may wait, leave nobody stuck for good.     *)
THEOREM SomebodyGoesOn ==
  ASSUME IsFiniteSet(Requests)
  PROVE  Spec => [](Unfinished # {} => \E q \in Unfinished : CanProceed(q) \/ OnCycle(q))
<1>1. ASSUME IInv, Unfinished # {}
      PROVE  \E q \in Unfinished : CanProceed(q) \/ OnCycle(q)
  <2>1. CASE \E q \in Unfinished : WaitsFor(q) = {}
    BY <1>1, <2>1, WaitingForNobodyProceeds
  <2>2. CASE \A q \in Unfinished : WaitsFor(q) # {}
    <3>1. Unfinished \subseteq Requests /\ IsFiniteSet(Unfinished)
      BY FS_Subset DEF Unfinished
    <3>2. Closed(Unfinished)
      BY <1>1, <2>2, <3>1, WaitsAreForUnfinished DEF Closed
    <3>3. PICK S \in SUBSET Unfinished :
                 /\ S # {} /\ Closed(S)
                 /\ \A T \in (SUBSET S) \ {{}, S} : ~Closed(T)
      BY <1>1, <3>1, <3>2, SmallestClosed
    <3>4. PICK q \in S : TRUE
      BY <3>3
    <3>5. OnCycle(q)
      BY <2>2, <3>1, <3>3, <3>4 DEF OnCycle
    <3> QED
      BY <3>4, <3>5
  <2> QED
    BY <2>1, <2>2
<1> QED
  BY <1>1, IInvInvariant, PTL

(* A deadlock costs only requests that set a primary contact: any other    *)
(* writes one row, holds nothing while it waits for it, and so is waited   *)
(* for by nobody.                                                          *)
THEOREM OnlyPrimariesDeadlock ==
  Spec => [][\A q \in Requests : DeadlockAbort(q) => primary[q]]_vars
<1>1. ASSUME IInv, NEW q \in Requests, OnCycle(q) PROVE primary[q]
  <2> SUFFICES ASSUME ~primary[q] PROVE FALSE
    BY DEF IInv, TypeOK
  <2>1. WaitsFor(q) # {} /\ ShapeOK(q)
    BY <1>1 DEF IInv, RequestOK, OnCycle
  <2>2. pc[q] = "target" /\ cleared[q] = {}
    BY <2>1 DEF WaitsFor, ShapeOK
  <2>3. Locked(q) = {} /\ ~HasEntry(q)
    BY <2>2 DEF Locked, Wrote, HasEntry
  <2>4. ASSUME NEW p \in Requests PROVE q \notin WaitsFor(p)
    BY <2>3 DEF WaitsFor, HoldersOf
  <2>5. PICK S \in SUBSET Requests :
               /\ q \in S /\ Closed(S)
               /\ \A T \in (SUBSET S) \ {{}, S} : ~Closed(T)
    BY <1>1 DEF OnCycle
  <2>6. Closed(S \ {q})
    BY <2>4, <2>5 DEF Closed
  <2>7. S \ {q} # {}
    BY <1>1, <2>4, <2>5 DEF Closed
  <2> QED
    BY <2>5, <2>6, <2>7
<1>2. ASSUME IInv, [Next]_vars
      PROVE  [\A q \in Requests : DeadlockAbort(q) => primary[q]]_vars
  BY <1>1, <1>2 DEF DeadlockAbort
<1> QED
  BY <1>2, IInvInvariant, PTL DEF Spec

(* The order in which a request executes its statements.                   *)
Place == [label \in Labels |->
  CASE label = "new"    -> 0
    [] label = "scan"   -> 1
    [] label = "clear"  -> 2
    [] label = "target" -> 3
    [] label = "index"  -> 4
    [] label = "commit" -> 5
    [] label = "done"   -> 6]

(* Every step takes one request forward and leaves the others where they   *)
(* are: no statement is repeated, an aborted transaction is not retried,   *)
(* and each request is over after at most six steps.                       *)
THEOREM RequestsMoveOn ==
  Spec => [][\E q \in Requests : /\ Place[pc'[q]] > Place[pc[q]]
                                 /\ \A p \in Requests \ {q} : pc'[p] = pc[p]]_vars
<1> DEFINE MovesOn(q) == /\ Place[pc'[q]] > Place[pc[q]]
                         /\ \A p \in Requests \ {q} : pc'[p] = pc[p]
<1>p. /\ Place["new"] = 0 /\ Place["scan"] = 1 /\ Place["clear"] = 2 /\ Place["target"] = 3
      /\ Place["index"] = 4 /\ Place["commit"] = 5 /\ Place["done"] = 6
  BY DEF Place, Labels
<1>1. ASSUME TypeOK, NEW q \in Requests, NEW operation \in Ops \ {"none"}, NEW c \in Contacts,
             NEW asPrimary \in BOOLEAN, Begin(q, operation, c, asPrimary)
      PROVE  MovesOn(q)
  BY <1>1, <1>p DEF Begin, TypeOK
<1>2. ASSUME TypeOK, NEW q \in Requests, End(q), pc[q] # "done"
      PROVE  MovesOn(q)
  BY <1>2, <1>p DEF End, TypeOK, Labels
<1>3. ASSUME TypeOK, NEW q \in Requests, ClearScan(q) \/ ClearLock(q) \/ EnterIndex(q)
      PROVE  MovesOn(q)
  BY <1>3, <1>p DEF ClearScan, ClearLock, EnterIndex, TypeOK
<1>4. ASSUME TypeOK, NEW q \in Requests, Write(q) PROVE MovesOn(q)
  BY <1>2, <1>4, <1>p DEF Write, Abort, TypeOK
<1>5. ASSUME TypeOK, NEW q \in Requests, RefusedByIndex(q) \/ Commit(q) \/ Fail(q)
      PROVE  MovesOn(q)
  BY <1>2, <1>5 DEF RefusedByIndex, Commit, Fail, Abort
<1>6. ASSUME IInv, NEW q \in Requests, DeadlockAbort(q) PROVE MovesOn(q)
  <2>1. pc[q] # "done"
    BY <1>6 DEF DeadlockAbort, OnCycle, WaitsFor
  <2> QED
    BY <1>2, <1>6, <2>1 DEF DeadlockAbort, Abort, IInv
<1> HIDE DEF MovesOn
<1>7. ASSUME IInv, [Next]_vars PROVE [\E q \in Requests : MovesOn(q)]_vars
  BY <1>1, <1>3, <1>4, <1>5, <1>6, <1>7 DEF Next, Proceed, IInv
<1>8. ASSUME IInv, [Next]_vars
      PROVE  [\E q \in Requests : /\ Place[pc'[q]] > Place[pc[q]]
                                  /\ \A p \in Requests \ {q} : pc'[p] = pc[p]]_vars
  BY <1>7, <1>8 DEF MovesOn
<1> QED
  BY <1>8, IInvInvariant, PTL DEF Spec
=============================================================================
