---------------------------- MODULE GroupsProofs ----------------------------
(***************************************************************************)
(* What the two statements of a request about a group may assume of each   *)
(* other, for any groups, users and requests, any interleaving and any     *)
(* failure.                                                                *)
(***************************************************************************)
EXTENDS Groups, FiniteSetTheorems, TLAPS

(* The part of the type invariant that the walk's counters do not enter.   *)
TablesOK ==
  /\ status \in [Groups -> Statuses]
  /\ kind \in [Groups -> Kinds \cup {NoKind}]
  /\ role \in [Groups -> [Users -> Roles \cup {NoRole}]]
  /\ departed \subseteq Users

LocalsOK ==
  /\ pc \in [Requests -> Labels]
  /\ call \in [Requests -> Calls]
  /\ found \in [Requests -> Live \cup {Keep}]
  /\ late \in [Requests -> BOOLEAN]
  /\ raced \in [Requests -> BOOLEAN]
  /\ disturbed \in [Requests -> BOOLEAN]

WalkOK ==
  /\ filter \in Types \cup {AnyType, NoWalk}
  /\ offset \in Nat
  /\ seen \in [Groups -> Nat]
  /\ steady \subseteq Groups
  /\ left \in 0 .. Cardinality(Groups)
  /\ joined \in 0 .. Cardinality(Groups)

(* A request in progress has found its group, and the group stays there or *)
(* is deleted; an update that nobody has raced holds the row's is_active;  *)
(* a membership just added is there unless others have changed it.         *)
RequestOK(q) ==
  /\ ~late[q]
  /\ pc[q] = "idle" <=> call[q].op = "none"
  /\ call[q].op # "none" => /\ call[q].group \in Groups
                            /\ status[call[q].group] # "absent"
  /\ call[q].op = "update" => /\ call[q].kind \in Kinds /\ found[q] \in Live
                              /\ ~raced[q] => found[q] = status[call[q].group]
  /\ call[q].op \in {"add", "remove"} => call[q].user \in Users
  /\ call[q].op = "add" => call[q].role \in Roles
  /\ pc[q] = "list" =>
       /\ call[q].op = "add"
       /\ ~disturbed[q] => role[call[q].group][call[q].user] = call[q].role

IInv ==
  /\ TablesOK
  /\ LocalsOK
  /\ WalkOK
  /\ \A q \in Requests : RequestOK(q)

LEMMA TypesSplit == TypeOK <=> TablesOK /\ LocalsOK /\ WalkOK
BY DEF TypeOK, TablesOK, LocalsOK, WalkOK

LEMMA GroupsAreCounted == Cardinality(Groups) \in Nat
BY GroupsAssumption, FS_CardinalityType

LEMMA IInvInit == Init => IInv
<1> SUFFICES ASSUME Init PROVE IInv
  OBVIOUS
<1>1. TablesOK
  BY DEF Init, TablesOK, Statuses
<1>2. NoCall \in Calls /\ NoCall.op = "none"
  BY DEF NoCall, Calls, Ops
<1>3. LocalsOK
  BY <1>2 DEF Init, LocalsOK, Labels, Live
<1>4. WalkOK
  BY GroupsAreCounted DEF Init, WalkOK
<1>5. ASSUME NEW q \in Requests PROVE RequestOK(q)
  BY <1>2 DEF Init, RequestOK
<1> QED
  BY <1>1, <1>3, <1>4, <1>5 DEF IInv

(* The walk's history of a write.                                          *)
LEMMA RaiseCounts ==
  ASSUME NEW n \in 0 .. Cardinality(Groups), NEW raised
  PROVE  Raise(n, raised) \in 0 .. Cardinality(Groups)
BY GroupsAreCounted DEF Raise

LEMMA NoteRowsOK == WalkOK /\ NoteRows => WalkOK'
<1> SUFFICES ASSUME WalkOK, NoteRows PROVE WalkOK'
  OBVIOUS
<1>1. UNCHANGED <<filter, offset, seen>> /\ steady' \subseteq steady
  BY DEF NoteRows
<1>2. left' \in 0 .. Cardinality(Groups) /\ joined' \in 0 .. Cardinality(Groups)
  BY RaiseCounts DEF NoteRows, WalkOK
<1> QED
  BY <1>1, <1>2 DEF WalkOK

(* The end of a request.                                                   *)
LEMMA FinishLocals ==
  ASSUME LocalsOK, NEW q \in Requests, Finish(q)
  PROVE  /\ pc' \in [Requests -> Labels] /\ call' \in [Requests -> Calls]
         /\ found' \in [Requests -> Live \cup {Keep}] /\ late' \in [Requests -> BOOLEAN]
         /\ pc'[q] = "idle" /\ call'[q].op = "none" /\ late'[q] = FALSE
         /\ \A p \in Requests \ {q} :
              /\ pc'[p] = pc[p] /\ call'[p] = call[p] /\ found'[p] = found[p]
              /\ late'[p] = late[p]
<1>1. NoCall \in Calls /\ NoCall.op = "none" /\ "idle" \in Labels
  BY DEF NoCall, Calls, Ops, Labels
<1>2. late' \in [Requests -> BOOLEAN]
  BY DEF LocalsOK, Finish
<1> QED
  BY <1>1, <1>2 DEF LocalsOK, Finish

LEMMA ForgetLocals ==
  ASSUME LocalsOK, NEW q \in Requests, Forget(q)
  PROVE  /\ raced' \in [Requests -> BOOLEAN] /\ disturbed' \in [Requests -> BOOLEAN]
         /\ \A p \in Requests \ {q} : raced'[p] = raced[p] /\ disturbed'[p] = disturbed[p]
BY DEF LocalsOK, Forget

(* A request whose fields and tables are as before is still in order.      *)
LEMMA RequestKept ==
  ASSUME NEW p \in Requests, RequestOK(p),
         pc'[p] = pc[p], call'[p] = call[p], found'[p] = found[p], late'[p] = late[p],
         raced'[p] = raced[p], disturbed'[p] = disturbed[p], UNCHANGED <<status, role>>
  PROVE  RequestOK(p)'
BY DEF RequestOK

(* A request that ends and writes nothing.                                 *)
LEMMA NothingStep ==
  ASSUME IInv, NEW q \in Requests, Finish(q), Forget(q), UNCHANGED <<tables, walk>>
  PROVE  IInv'
<1>1. LocalsOK'
  BY FinishLocals, ForgetLocals DEF IInv, LocalsOK
<1>2. RequestOK(q)'
  BY FinishLocals DEF IInv, RequestOK
<1>3. ASSUME NEW p \in Requests, p # q PROVE RequestOK(p)'
  <2>1. /\ pc'[p] = pc[p] /\ call'[p] = call[p] /\ found'[p] = found[p] /\ late'[p] = late[p]
        /\ raced'[p] = raced[p] /\ disturbed'[p] = disturbed[p]
    <3>1. LocalsOK /\ p \in Requests \ {q}
      BY <1>3 DEF IInv
    <3>2. raced'[p] = raced[p] /\ disturbed'[p] = disturbed[p]
      BY <3>1, ForgetLocals
    <3> QED
      BY <3>1, <3>2, FinishLocals
  <2> QED
    BY <2>1, RequestKept DEF IInv, tables
<1> QED
  BY <1>1, <1>2, <1>3 DEF IInv, TablesOK, WalkOK, tables, walk

(* The beginning of a request.                                             *)
LEMMA EnsureStep ==
  ASSUME IInv, NEW q \in Requests, NEW request \in Calls, EnsureGroup(q, request),
         request.group \in Groups, request.op # "none",
         request.op = "update" => request.kind \in Kinds,
         request.op \in {"add", "remove"} => request.user \in Users,
         request.op = "add" => request.role \in Roles
  PROVE  IInv'
<1>t. TablesOK /\ LocalsOK
  BY DEF IInv
<1>1. /\ pc'[q] = "write" /\ call'[q] = request
      /\ found'[q] = (IF request.op = "update" THEN status[request.group] ELSE Keep)
      /\ late'[q] = FALSE /\ status[request.group] \in Live
  BY <1>t DEF EnsureGroup, LocalsOK, Live
<1>2. LocalsOK'
  <2>1. late' \in [Requests -> BOOLEAN]
    BY <1>t DEF EnsureGroup, LocalsOK
  <2>2. /\ pc' \in [Requests -> Labels] /\ call' \in [Requests -> Calls]
        /\ found' \in [Requests -> Live \cup {Keep}]
    BY <1>t, <1>1 DEF EnsureGroup, LocalsOK, Labels
  <2> QED
    BY <1>t, <2>1, <2>2 DEF EnsureGroup, LocalsOK
<1>3. RequestOK(q)'
  <2>1. UNCHANGED <<status, role>>
    BY DEF EnsureGroup, tables
  <2> QED
    BY <1>1, <2>1 DEF RequestOK, Live
<1>4. ASSUME NEW p \in Requests, p # q PROVE RequestOK(p)'
  <2>1. /\ pc'[p] = pc[p] /\ call'[p] = call[p] /\ found'[p] = found[p] /\ late'[p] = late[p]
        /\ raced'[p] = raced[p] /\ disturbed'[p] = disturbed[p]
    BY <1>4, <1>t DEF EnsureGroup, LocalsOK
  <2> QED
    BY <2>1, RequestKept DEF IInv, EnsureGroup, tables
<1> QED
  BY <1>2, <1>3, <1>4 DEF IInv, TablesOK, WalkOK, EnsureGroup, tables, walk

LEMMA AskStep ==
  ASSUME IInv, NEW q \in Requests, NEW g \in Groups, Ask(q, g)
  PROVE  IInv'
<1>1. ASSUME NEW k \in Kinds, NEW a \in Live \cup {Keep},
             EnsureGroup(q, [[NoCall EXCEPT !.group = g] EXCEPT
                               !.op = "update", !.kind = k, !.active = a])
      PROVE  IInv'
  <2> DEFINE r == [[NoCall EXCEPT !.group = g] EXCEPT
                     !.op = "update", !.kind = k, !.active = a]
  <2>1. r \in Calls /\ r.group = g /\ r.op = "update" /\ r.kind = k
    BY DEF NoCall, Calls, Ops
  <2>2. EnsureGroup(q, r)
    BY <1>1
  <2> HIDE DEF r
  <2> QED
    BY <2>1, <2>2, EnsureStep
<1>2. ASSUME EnsureGroup(q, [[NoCall EXCEPT !.group = g] EXCEPT !.op = "delete"])
      PROVE  IInv'
  <2> DEFINE r == [[NoCall EXCEPT !.group = g] EXCEPT !.op = "delete"]
  <2>1. r \in Calls /\ r.group = g /\ r.op = "delete"
    BY DEF NoCall, Calls, Ops
  <2>2. EnsureGroup(q, r)
    BY <1>2
  <2> HIDE DEF r
  <2> QED
    BY <2>1, <2>2, EnsureStep
<1>3. ASSUME NEW u \in Users,
             EnsureGroup(q, [[NoCall EXCEPT !.group = g] EXCEPT !.op = "remove", !.user = u])
      PROVE  IInv'
  <2> DEFINE r == [[NoCall EXCEPT !.group = g] EXCEPT !.op = "remove", !.user = u]
  <2>1. r \in Calls /\ r.group = g /\ r.op = "remove" /\ r.user = u
    BY DEF NoCall, Calls, Ops
  <2>2. EnsureGroup(q, r)
    BY <1>3
  <2> HIDE DEF r
  <2> QED
    BY <2>1, <2>2, EnsureStep
<1>4. ASSUME NEW u \in Users, NEW o \in Roles,
             EnsureGroup(q, [[NoCall EXCEPT !.group = g] EXCEPT
                               !.op = "add", !.user = u, !.role = o])
      PROVE  IInv'
  <2> DEFINE r == [[NoCall EXCEPT !.group = g] EXCEPT !.op = "add", !.user = u, !.role = o]
  <2>1. r \in Calls /\ r.group = g /\ r.op = "add" /\ r.user = u /\ r.role = o
    BY DEF NoCall, Calls, Ops
  <2>2. EnsureGroup(q, r)
    BY <1>4
  <2> HIDE DEF r
  <2> QED
    BY <2>1, <2>2, EnsureStep
<1> QED
  BY <1>1, <1>2, <1>3, <1>4 DEF Ask

(* A statement that writes the row of a group keeps the other requests in  *)
(* order.                                                                  *)
LEMMA WriteRowStep ==
  ASSUME IInv, LocalsOK', NEW q \in Requests, NEW g \in Groups,
         NEW newStatus \in Statuses \ {"absent"}, NEW newKind \in Kinds \cup {NoKind},
         WriteRow(q, g, newStatus, newKind),
         RequestOK(q)',
         \A p \in Requests \ {q} :
           /\ pc'[p] = pc[p] /\ call'[p] = call[p] /\ found'[p] = found[p] /\ late'[p] = late[p]
  PROVE  IInv'
<1>t. TablesOK /\ LocalsOK /\ WalkOK
  BY DEF IInv
<1>1. /\ status'[g] = newStatus /\ \A h \in Groups : h # g => status'[h] = status[h]
      /\ status' \in [Groups -> Statuses] /\ kind' \in [Groups -> Kinds \cup {NoKind}]
  BY <1>t DEF WriteRow, TablesOK
<1>2. \A p \in Requests \ {q} :
        /\ disturbed'[p] = disturbed[p]
        /\ ~raced'[p] => /\ ~raced[p]
                         /\ call[p].group = g /\ call[p].op = "update" => newStatus = status[g]
  BY <1>t DEF WriteRow, LocalsOK
<1>3. TablesOK' /\ WalkOK'
  BY <1>t, <1>1, NoteRowsOK DEF WriteRow, TablesOK
<1>4. ASSUME NEW p \in Requests, p # q PROVE RequestOK(p)'
  <2>1. /\ pc'[p] = pc[p] /\ call'[p] = call[p] /\ found'[p] = found[p] /\ late'[p] = late[p]
        /\ disturbed'[p] = disturbed[p] /\ role' = role
    BY <1>2, <1>4 DEF WriteRow
  <2>2. RequestOK(p)
    BY DEF IInv
  <2> QED
    BY <1>1, <1>2, <1>4, <2>1, <2>2 DEF RequestOK
<1> QED
  BY <1>3, <1>4 DEF IInv

LEMMA IInvStep == IInv /\ [Next]_vars => IInv'
<1> SUFFICES ASSUME IInv, [Next]_vars PROVE IInv'
  OBVIOUS
<1>t. TablesOK /\ LocalsOK /\ WalkOK
  BY DEF IInv
<1>o. \A q \in Requests : RequestOK(q) /\ call[q] \in Calls
  BY DEF IInv, LocalsOK
(* The typed locals of a request that ends with a write.                   *)
<1>1. ASSUME NEW q \in Requests, Finish(q),
             NEW g, NEW newStatus, NEW newKind, WriteRow(q, g, newStatus, newKind)
      PROVE  LocalsOK' /\ RequestOK(q)'
  <2>1. raced' \in [Requests -> BOOLEAN] /\ disturbed' \in [Requests -> BOOLEAN]
    BY <1>1, <1>t DEF WriteRow, LocalsOK
  <2> QED
    BY <1>1, <1>t, <2>1, FinishLocals DEF LocalsOK, RequestOK
<1>2. ASSUME NEW q \in Requests, NEW g \in Groups, NEW k \in Kinds, Create(q, g, k) PROVE IInv'
  <2>1. "active" \in Statuses \ {"absent"} /\ k \in Kinds \cup {NoKind}
    BY DEF Statuses, Live
  <2>2. /\ raced' \in [Requests -> BOOLEAN] /\ disturbed' \in [Requests -> BOOLEAN]
        /\ UNCHANGED <<pc, call, found, late, role>>
    BY <1>2, <1>t DEF Create, WriteRow, LocalsOK, locals
  <2>3. LocalsOK'
    BY <1>t, <2>2 DEF LocalsOK
  <2>4. RequestOK(q)'
    <3>1. /\ RequestOK(q) /\ call'[q] = call[q] /\ found'[q] = found[q] /\ late'[q] = late[q]
          /\ pc'[q] = "idle" /\ call[q].op = "none"
      BY <1>2, <1>o, <2>2 DEF Create, RequestOK
    <3> QED
      BY <3>1 DEF RequestOK
  <2> QED
    BY <1>2, <2>1, <2>2, <2>3, <2>4, WriteRowStep DEF Create
<1>3. ASSUME NEW q \in Requests, UpdateWrite(q) PROVE IInv'
  <2> DEFINE s == IF call[q].active = Keep THEN found[q] ELSE call[q].active
  <2>1. /\ call[q].op = "update" /\ WriteRow(q, call[q].group, s, call[q].kind) /\ Finish(q)
    BY <1>3 DEF UpdateWrite
  <2>2. /\ call[q].group \in Groups /\ call[q].kind \in Kinds \cup {NoKind}
        /\ s \in Statuses \ {"absent"}
    BY <1>o, <2>1 DEF RequestOK, Calls, Statuses, Live
  <2> HIDE DEF s
  <2> QED
    BY <1>1, <1>t, <2>1, <2>2, FinishLocals, WriteRowStep
<1>4. ASSUME NEW q \in Requests, DeleteWrite(q) PROVE IInv'
  <2>1. /\ call[q].group \in Groups /\ "deleted" \in Statuses \ {"absent"}
        /\ WriteRow(q, call[q].group, "deleted", kind[call[q].group]) /\ Finish(q)
    BY <1>4, <1>o DEF DeleteWrite, RequestOK, Statuses
  <2>2. kind[call[q].group] \in Kinds \cup {NoKind}
    BY <1>t, <2>1 DEF TablesOK
  <2> QED
    BY <1>1, <1>t, <2>1, <2>2, FinishLocals, WriteRowStep
<1>5. ASSUME NEW q \in Requests, WriteNothing(q) \/ AddAnswer(q) \/ Fail(q) PROVE IInv'
  BY <1>5, NothingStep DEF WriteNothing, AddAnswer, Fail
(* Writes to group_members.                                                *)
<1>6. ASSUME NEW q \in Requests, NEW newRole \in Roles \cup {NoRole}, WriteRole(q, newRole),
             call[q].group \in Groups, call[q].user \in Users
      PROVE  /\ TablesOK' /\ WalkOK' /\ disturbed' \in [Requests -> BOOLEAN]
             /\ role'[call[q].group][call[q].user] = newRole
             /\ ~disturbed'[q]
             /\ \A p \in Requests \ {q} :
                  /\ pc'[p] = pc[p] /\ call'[p] = call[p] /\ found'[p] = found[p]
                  /\ late'[p] = late[p]
                  => RequestOK(p)'
  <2>1. /\ role' = [role EXCEPT ![call[q].group][call[q].user] = newRole]
        /\ UNCHANGED <<status, kind, departed, walk, raced>>
    BY <1>6 DEF WriteRole
  <2>2. /\ role' \in [Groups -> [Users -> Roles \cup {NoRole}]]
        /\ role'[call[q].group][call[q].user] = newRole
        /\ \A g \in Groups, u \in Users :
             g # call[q].group \/ u # call[q].user => role'[g][u] = role[g][u]
    BY <1>6, <1>t, <2>1 DEF TablesOK
  <2>3. /\ disturbed' \in [Requests -> BOOLEAN] /\ ~disturbed'[q]
        /\ \A p \in Requests \ {q} :
             ~disturbed'[p] /\ pc[p] = "list" =>
               /\ ~disturbed[p]
               /\ call[p].group # call[q].group \/ call[p].user # call[q].user
    BY <1>6, <1>t DEF WriteRole, LocalsOK
  <2>4. ASSUME NEW p \in Requests, p # q,
               pc'[p] = pc[p], call'[p] = call[p], found'[p] = found[p], late'[p] = late[p]
        PROVE  RequestOK(p)'
    <3>1. RequestOK(p)
      BY <1>o
    <3>2. pc[p] = "list" /\ ~disturbed'[p] =>
            role'[call[p].group][call[p].user] = call[p].role
      BY <2>2, <2>3, <2>4, <3>1 DEF RequestOK
    <3> QED
      BY <2>1, <2>4, <3>1, <3>2 DEF RequestOK
  <2>5. TablesOK' /\ WalkOK'
    BY <1>t, <2>1, <2>2 DEF TablesOK, WalkOK, walk
  <2> QED
    BY <2>2, <2>3, <2>4, <2>5
<1>7. ASSUME NEW q \in Requests, AddMember(q) PROVE IInv'
  <2>1. /\ call[q].op = "add" /\ call[q].group \in Groups /\ call[q].user \in Users
        /\ call[q].role \in Roles /\ WriteRole(q, call[q].role)
        /\ pc' = [pc EXCEPT ![q] = "list"] /\ UNCHANGED <<call, found, late, raced, status>>
    BY <1>7, <1>o DEF AddMember, WriteRole, RequestOK
  <2>2. /\ pc'[q] = "list" /\ pc' \in [Requests -> Labels]
        /\ \A p \in Requests \ {q} : pc'[p] = pc[p]
    BY <1>t, <2>1 DEF LocalsOK, Labels
  <2>3. LocalsOK'
    BY <1>t, <1>6, <2>1, <2>2 DEF LocalsOK
  <2>4. RequestOK(q)'
    <3>1. RequestOK(q) /\ role'[call[q].group][call[q].user] = call[q].role
      BY <1>o, <1>6, <2>1
    <3> QED
      BY <2>1, <2>2, <3>1 DEF RequestOK
  <2> QED
    BY <1>6, <2>1, <2>2, <2>3, <2>4 DEF IInv
<1>8. ASSUME NEW q \in Requests, RemoveMember(q) PROVE IInv'
  <2>1. /\ call[q].group \in Groups /\ call[q].user \in Users
        /\ WriteRole(q, NoRole) /\ Finish(q) /\ raced' = raced
    BY <1>8, <1>o DEF RemoveMember, WriteRole, RequestOK
  <2>2. LocalsOK' /\ RequestOK(q)'
    BY <1>t, <1>6, <2>1, FinishLocals DEF LocalsOK, RequestOK
  <2> QED
    BY <1>6, <1>t, <2>1, <2>2, FinishLocals DEF IInv
<1>9. ASSUME NEW u \in Users, DeleteUser(u) PROVE IInv'
  <2>1. UNCHANGED <<status, kind, role, locals, walk, history>> /\ departed' \subseteq Users
    BY <1>9, <1>t DEF DeleteUser, TablesOK
  <2> QED
    BY <2>1, <1>t DEF IInv, TablesOK, LocalsOK, WalkOK, RequestOK, locals, walk, history
(* Steps of the walk.                                                      *)
<1>10. ASSUME UNCHANGED <<tables, locals, history>>, WalkOK' PROVE IInv'
  BY <1>10, <1>t DEF IInv, TablesOK, LocalsOK, RequestOK, tables, locals, history
<1>11. ASSUME NEW type \in Types \cup {AnyType}, WalkBegin(type) PROVE IInv'
  <2>1. WalkOK'
    BY <1>11, <1>t DEF WalkBegin, WalkOK, Listed
  <2> QED
    BY <1>10, <1>11, <2>1 DEF WalkBegin
<1>12. CASE WalkOn
  <2>1. offset' \in Nat /\ seen' \in [Groups -> Nat]
    BY <1>12, <1>t, PageSizeAssumption DEF WalkOn, WalkOK
  <2>2. WalkOK'
    BY <1>12, <1>t, <2>1 DEF WalkOn, WalkOK
  <2> QED
    BY <1>10, <1>12, <2>2 DEF WalkOn
<1>13. CASE WalkEnd
  <2>1. WalkOK'
    BY <1>13, GroupsAreCounted DEF WalkEnd, WalkOK
  <2> QED
    BY <1>10, <1>13, <2>1 DEF WalkEnd
<1>14. CASE UNCHANGED vars
  <2>1. UNCHANGED <<tables, locals, history>> /\ WalkOK'
    BY <1>14, <1>t DEF vars, walk, WalkOK
  <2> QED
    BY <1>10, <2>1
<1> QED
  BY <1>2, <1>3, <1>4, <1>5, <1>7, <1>8, <1>9, <1>11, <1>12, <1>13, <1>14, AskStep DEF Next

LEMMA Invariance == Spec => []IInv
BY IInvInit, IInvStep, PTL DEF Spec
-----------------------------------------------------------------------------
(* Theorems.                                                               *)

(* Every variable keeps its type.                                          *)
THEOREM TypeCorrect == Spec => []TypeOK
<1>1. IInv => TypeOK
  BY TypesSplit DEF IInv
<1> QED
  BY <1>1, Invariance, PTL

(* The row of a deleted group never changes, and its members only through  *)
(* requests that began before.                                             *)
THEOREM DeletedGroupsAreFrozen == Spec => DeletedGroupIsFrozen
<1>1. ASSUME IInv, [Next]_vars, NEW g \in Groups, status[g] = "deleted"
      PROVE  status'[g] = "deleted" /\ kind'[g] = kind[g]
  <2>1. ASSUME NEW q \in Requests, NEW h \in Groups, NEW newStatus, NEW newKind,
               WriteRow(q, h, newStatus, newKind), status[h] # "deleted"
        PROVE  status'[g] = "deleted" /\ kind'[g] = kind[g]
    BY <1>1, <2>1 DEF WriteRow, IInv, TablesOK
  <2>2. ASSUME NEW q \in Requests, UpdateWrite(q) \/ DeleteWrite(q)
        PROVE  status'[g] = "deleted" /\ kind'[g] = kind[g]
    <3>1. call[q].group \in Groups
      BY <1>1, <2>2 DEF IInv, RequestOK, UpdateWrite, DeleteWrite
    <3> QED
      BY <2>1, <2>2, <3>1 DEF UpdateWrite, DeleteWrite
  <2>3. ASSUME NEW q \in Requests, NEW h \in Groups, NEW k \in Kinds, Create(q, h, k)
        PROVE  status'[g] = "deleted" /\ kind'[g] = kind[g]
    BY <2>1, <2>3 DEF Create
  <2>4. ASSUME NEW q \in Requests, NEW h \in Groups, Ask(q, h)
        PROVE  UNCHANGED <<status, kind>>
    BY <2>4 DEF Ask, EnsureGroup, tables
  <2> QED
    BY <1>1, <2>2, <2>3, <2>4
       DEF Next, WriteNothing, AddMember, RemoveMember, WriteRole, AddAnswer, Fail,
           DeleteUser, WalkBegin, WalkOn, WalkEnd, tables, vars
<1>2. ASSUME IInv, NEW q \in Requests PROVE ~late[q]
  BY <1>2 DEF IInv, RequestOK
<1>3. IInv /\ [Next]_vars =>
        [\A g \in Groups : status[g] = "deleted" =>
           /\ status'[g] = "deleted" /\ kind'[g] = kind[g]
           /\ \A q \in Requests :
                call[q].group = g /\ late[q] => ~(AddMember(q) \/ RemoveMember(q))]_vars
  BY <1>1, <1>2
<1> QED
  BY <1>3, Invariance, PTL DEF DeletedGroupIsFrozen, Spec

(* A PATCH that leaves is_active out keeps it, unless others have changed  *)
(* it between the request's read and its write.                            *)
THEOREM OmittedIsActiveStays == Spec => OmittedIsActiveIsKept
<1>1. ASSUME IInv, NEW q \in Requests, UpdateWrite(q)
      PROVE  LET g == call[q].group
             IN  status'[g] # status[g] => status'[g] = call[q].active \/ raced[q]
  <2>1. /\ call[q].group \in Groups
        /\ ~raced[q] => found[q] = status[call[q].group]
        /\ status' = [status EXCEPT ![call[q].group] =
                        IF call[q].active = Keep THEN found[q] ELSE call[q].active]
    BY <1>1 DEF UpdateWrite, WriteRow, IInv, RequestOK
  <2> QED
    BY <1>1, <2>1 DEF IInv, TablesOK
<1>2. IInv => [\A q \in Requests : UpdateWrite(q) =>
                 LET g == call[q].group
                 IN  status'[g] # status[g] => status'[g] = call[q].active \/ raced[q]]_vars
  BY <1>1
<1> QED
  BY <1>2, Invariance, PTL DEF OmittedIsActiveIsKept

(* The list that AddMember answers with shows the member in the role asked *)
(* for, unless others have changed the membership or deleted the user.     *)
THEOREM AddedMembersAreListed == Spec => AddedMemberIsListed
<1>1. ASSUME IInv, NEW q \in Requests,
             AddAnswer(q) /\ ~disturbed[q] /\ call[q].user \notin departed
      PROVE  <<call[q].user, call[q].role>> \in Members(call[q].group)
  <2>1. /\ call[q].user \in Users \ departed /\ call[q].role \in Roles
        /\ role[call[q].group][call[q].user] = call[q].role
    BY <1>1 DEF AddAnswer, IInv, RequestOK
  <2> QED
    BY <2>1, RolesAssumption DEF Members
<1>2. IInv => [\A q \in Requests :
                 AddAnswer(q) /\ ~disturbed[q] /\ call[q].user \notin departed =>
                   <<call[q].user, call[q].role>> \in Members(call[q].group)]_vars
  BY <1>1
<1> QED
  BY <1>2, Invariance, PTL DEF AddedMemberIsListed
=============================================================================
