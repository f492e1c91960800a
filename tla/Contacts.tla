------------------------------ MODULE Contacts ------------------------------
(***************************************************************************)
(* The contact endpoints of internal/crm for one user and one contact type *)
(* (requests for other users or types touch other rows and other entries   *)
(* of the index).  Writes run in a READ COMMITTED transaction of           *)
(* PostgreSQL: demote the other primary contact, then insert or update the *)
(* contact, then commit.  status is what is committed; what a transaction  *)
(* has written is in its locals until it commits, and the rows it has      *)
(* written are locked until then.                                          *)
(*                                                                         *)
(* A partial unique index lets one live primary row per user and type be   *)
(* committed.  Entering it waits for a transaction that has an uncommitted *)
(* entry, or that is changing a committed primary row; a committed primary *)
(* row nobody is changing refuses the entry.                               *)
(*                                                                         *)
(* After each row it writes, a transaction's trigger adds an entry to      *)
(* audit_logs, in the same transaction.                                    *)
(*                                                                         *)
(* Each member of Requests is one call.  Of the columns that a request     *)
(* writes, is_primary and allow_contact are kept: the others are those of  *)
(* the request, whatever the row held.                                     *)
(***************************************************************************)
CONSTANTS
  Contacts,      \* the ids of the contacts, present and future
  NoContact,     \* no contact
  Requests,      \* the calls of CreateContact, UpdateContact, DeleteContact
  allow_contact, \* allow_contact[q]: the allow_contact in the body of q
  Omitted        \* it is not in the body

ASSUME NoContactAssumption == NoContact \notin Contacts
ASSUME AllowContactAssumption ==
  /\ Omitted \notin BOOLEAN
  /\ allow_contact \in [Requests -> BOOLEAN \cup {Omitted}]

VARIABLES
  status,   \* status[c]: the committed row of contact c
  optedOut, \* the contacts whose committed allow_contact is FALSE
  pc,       \* pc[q]: the statement request q executes next
  op,       \* op[q]: the endpoint called
  target,   \* target[q]: the contact it is about
  primary,  \* primary[q]: is_primary in the request
  allow,    \* allow[q]: the allow_contact it writes
  victim,   \* victim[q]: the primary row ClearPrimaryContacts has found
  cleared,  \* cleared[q]: the primary rows it has demoted
  noted,    \* noted[q]: the entries its triggers have added to audit_logs
  raced     \* history: whether another request committed since q began

table   == <<status, optedOut>>
request == <<op, target, primary, allow>>
vars    == <<table, pc, request, victim, cleared, noted, raced>>

Statuses == {"absent", "plain", "primary", "deleted"}
Live     == {"plain", "primary"}
Rows     == [status : Statuses, allow : BOOLEAN]
Ops      == {"none", "create", "update", "delete"}
Labels   == {"new", "scan", "clear", "target", "index", "commit", "done"}

AtMostOnePrimary ==
  \A c, d \in Contacts : status[c] = "primary" /\ status[d] = "primary" => c = d

(* Any book that earlier requests can have left.                           *)
Init ==
  /\ status \in [Contacts -> Statuses]
  /\ AtMostOnePrimary
  /\ optedOut \in SUBSET {c \in Contacts : status[c] # "absent"}
  /\ pc = [q \in Requests |-> "new"]
  /\ op = [q \in Requests |-> "none"]
  /\ target = [q \in Requests |-> NoContact]
  /\ primary = [q \in Requests |-> FALSE]
  /\ allow = [q \in Requests |-> TRUE]
  /\ victim = [q \in Requests |-> NoContact]
  /\ cleared = [q \in Requests |-> {}]
  /\ noted = [q \in Requests |-> {}]
  /\ raced = [q \in Requests |-> FALSE]

-----------------------------------------------------------------------------
(* Locks.  A transaction holds the rows it has demoted and, once written,  *)
(* its target; the row of a creation is not visible to others.             *)

Wrote(q) == pc[q] \in {"index", "commit"}

Locked(q) ==
  cleared[q] \cup (IF Wrote(q) /\ op[q] # "create" THEN {target[q]} ELSE {})

HoldersOf(c, q) == {p \in Requests \ {q} : c \in Locked(p)}

(* An uncommitted entry in the unique index.                               *)
HasEntry(q) == pc[q] = "commit" /\ primary[q]

(* The committed primary rows that q's entry would conflict with.          *)
Conflicts(q) ==
  {c \in Contacts \ (cleared[q] \cup {target[q]}) : status[c] = "primary"}

WaitsFor(q) ==
  CASE pc[q] = "clear"  -> HoldersOf(victim[q], q)
    [] pc[q] = "target" -> IF op[q] = "create" THEN {} ELSE HoldersOf(target[q], q)
    [] pc[q] = "index"  -> {p \in Requests \ {q} :
                              HasEntry(p) \/ Conflicts(q) \cap Locked(p) # {}}
    [] OTHER            -> {}

Closed(S) == \A q \in S : WaitsFor(q) \cap S # {}

OnCycle(q) ==
  /\ WaitsFor(q) # {}
  /\ \E S \in SUBSET Requests :
       /\ q \in S /\ Closed(S)
       /\ \A T \in (SUBSET S) \ {{}, S} : ~Closed(T)

-----------------------------------------------------------------------------
(* Rows.                                                                   *)

(* The committed row of contact c, and the row as q's transaction leaves   *)
(* it.                                                                     *)
Row(c) == [status |-> status[c], allow |-> c \notin optedOut]

(* The definitions called Slip... are plausible slips in the code; each is *)
(* used only to see that some property notices it.                         *)

SlipWrittenMixesColumns(q, c) ==
  [status |-> CASE c = target[q]    -> op[q]
                [] c \in cleared[q] -> "plain"
                [] OTHER            -> status[c],
   allow  |-> IF c = target[q] /\ op[q] # "delete" THEN allow[q]
              ELSE c \notin optedOut]

Written(q, c) ==
  [status |-> CASE c = target[q]    -> IF op[q] = "delete" THEN "deleted"
                                       ELSE IF primary[q] THEN "primary" ELSE "plain"
                [] c \in cleared[q] -> "plain"
                [] OTHER            -> status[c],
   allow  |-> IF c = target[q] /\ op[q] # "delete" THEN allow[q]
              ELSE c \notin optedOut]

(* audit_trigger_func: the entry for a row that q's statement has written. *)
(* OLD is the row the statement found under its lock; for an INSERT it is  *)
(* NULL, here the absent row.                                              *)
Note(q, c, new) ==
  noted' = [noted EXCEPT ![q] = @ \cup
              {[record_pk |-> c, old_data |-> Row(c), new_data |-> new]}]

SlipBoolOrTrue(asked, default) == IF asked = Omitted THEN TRUE ELSE asked

BoolOr(asked, default) == IF asked = Omitted THEN default ELSE asked

-----------------------------------------------------------------------------
(* The requests.                                                           *)

SlipBeginKeepsPrimary(q, operation, c, asPrimary) ==
  /\ pc[q] = "new"
  /\ CASE operation = "create" ->
            /\ status[c] = "absent"
            /\ \A p \in Requests : op[p] = "create" => target[p] # c
       [] OTHER -> status[c] \in Live
  /\ asPrimary => operation # "delete"
  /\ op' = [op EXCEPT ![q] = operation]
  /\ target' = [target EXCEPT ![q] = c]
  /\ primary' = [primary EXCEPT ![q] = asPrimary]
  /\ pc' = [pc EXCEPT ![q] = IF asPrimary /\ operation = "create" THEN "scan" ELSE "target"]
  /\ allow' = [allow EXCEPT ![q] =
                 BoolOr(allow_contact[q],
                        operation = "create" \/ c \notin optedOut)]
  /\ UNCHANGED <<table, victim, cleared, noted, raced>>

(* CreateContact takes a fresh id; UpdateContact and DeleteContact begin   *)
(* with GetContact, outside the transaction, and answer 404 without it.    *)
Begin(q, operation, c, asPrimary) ==
  /\ pc[q] = "new"
  /\ CASE operation = "create" ->
            /\ status[c] = "absent"
            /\ \A p \in Requests : op[p] = "create" => target[p] # c
       [] OTHER -> status[c] \in Live
  /\ asPrimary => operation # "delete"
  /\ op' = [op EXCEPT ![q] = operation]
  /\ target' = [target EXCEPT ![q] = c]
  /\ primary' = [primary EXCEPT ![q] = asPrimary]
  /\ pc' = [pc EXCEPT ![q] = IF asPrimary THEN "scan" ELSE "target"]
  /\ allow' = [allow EXCEPT ![q] =
                 BoolOr(allow_contact[q],
                        operation = "create" \/ c \notin optedOut)]
  /\ UNCHANGED <<table, victim, cleared, noted, raced>>

(* ClearPrimaryContacts: its snapshot sees the committed primary row, if   *)
(* there is one besides the target ...                                     *)
ClearScan(q) ==
  /\ pc[q] = "scan"
  /\ \/ /\ Conflicts(q) = {}
        /\ pc' = [pc EXCEPT ![q] = "target"]
        /\ UNCHANGED victim
     \/ \E c \in Conflicts(q) :
          /\ pc' = [pc EXCEPT ![q] = "clear"]
          /\ victim' = [victim EXCEPT ![q] = c]
  /\ UNCHANGED <<table, request, cleared, noted, raced>>

SlipClearLockUnaudited(q) ==
  /\ pc[q] = "clear"
  /\ HoldersOf(victim[q], q) = {}
  /\ pc' = [pc EXCEPT ![q] = "target"]
  /\ cleared' = [cleared EXCEPT ![q] =
                   IF status[victim[q]] = "primary" THEN {victim[q]} ELSE {}]
  /\ UNCHANGED <<table, request, victim, noted, raced>>

(* ... and, when that row's lock is free, demotes it if it is primary and  *)
(* not deleted by then.                                                    *)
ClearLock(q) ==
  /\ pc[q] = "clear"
  /\ HoldersOf(victim[q], q) = {}
  /\ pc' = [pc EXCEPT ![q] = "target"]
  /\ IF status[victim[q]] = "primary"
       THEN /\ cleared' = [cleared EXCEPT ![q] = {victim[q]}]
            /\ Note(q, victim[q], [Row(victim[q]) EXCEPT !.status = "plain"])
       ELSE UNCHANGED <<cleared, noted>>
  /\ UNCHANGED <<table, request, victim, raced>>

(* The end of a transaction, and of the request, releases its locks.       *)
End(q) ==
  /\ pc' = [pc EXCEPT ![q] = "done"]
  /\ op' = [op EXCEPT ![q] = "none"]
  /\ target' = [target EXCEPT ![q] = NoContact]
  /\ primary' = [primary EXCEPT ![q] = FALSE]
  /\ victim' = [victim EXCEPT ![q] = NoContact]
  /\ cleared' = [cleared EXCEPT ![q] = {}]
  /\ allow' = [allow EXCEPT ![q] = TRUE]
  /\ noted' = [noted EXCEPT ![q] = {}]

Abort(q) ==
  /\ End(q)
  /\ raced' = [raced EXCEPT ![q] = FALSE]
  /\ UNCHANGED table

SlipWriteRevives(q) ==
  /\ pc[q] = "target"
  /\ op[q] # "create" => HoldersOf(target[q], q) = {}
  /\ pc' = [pc EXCEPT ![q] = IF primary[q] THEN "index" ELSE "commit"]
  /\ UNCHANGED <<table, request, victim, cleared, noted, raced>>

SlipWriteHangs(q) ==
  /\ pc[q] = "target"
  /\ op[q] # "create" => /\ HoldersOf(target[q], q) = {}
                         /\ status[target[q]] # "deleted"
  /\ pc' = [pc EXCEPT ![q] = IF primary[q] THEN "index" ELSE "commit"]
  /\ UNCHANGED <<table, request, victim, cleared, noted, raced>>

(* CreateContact, UpdateContact or SoftDeleteContact proper.  A row that   *)
(* was deleted meanwhile is not written: the update's transaction is       *)
(* rolled back (pgx.ErrNoRows) and the deletion's has nothing to commit.   *)
Write(q) ==
  /\ pc[q] = "target"
  /\ op[q] # "create" => HoldersOf(target[q], q) = {}
  /\ IF op[q] # "create" /\ status[target[q]] = "deleted"
       THEN Abort(q)
       ELSE /\ pc' = [pc EXCEPT ![q] = IF primary[q] THEN "index" ELSE "commit"]
            /\ Note(q, target[q], Written(q, target[q]))
            /\ UNCHANGED <<table, request, victim, cleared, raced>>

(* The unique index: enter, or be refused and rolled back.                 *)
EnterIndex(q) ==
  /\ pc[q] = "index"
  /\ Conflicts(q) = {}
  /\ \A p \in Requests \ {q} : ~HasEntry(p)
  /\ pc' = [pc EXCEPT ![q] = "commit"]
  /\ UNCHANGED <<table, request, victim, cleared, noted, raced>>

RefusedByIndex(q) ==
  /\ pc[q] = "index"
  /\ \E c \in Conflicts(q) : HoldersOf(c, q) = {}
  /\ Abort(q)

Commit(q) ==
  /\ pc[q] = "commit"
  /\ status' = [c \in Contacts |-> Written(q, c).status]
  /\ optedOut' = {c \in Contacts : ~Written(q, c).allow}
  /\ raced' = [p \in Requests |-> p # q /\ op[p] # "none"]
  /\ End(q)

(* The deadlock detector aborts a transaction on a cycle of waits.         *)
DeadlockAbort(q) ==
  /\ OnCycle(q)
  /\ Abort(q)

(* A statement fails, the client goes away, or the process crashes: the    *)
(* transaction is rolled back.                                             *)
Fail(q) ==
  /\ pc[q] \notin {"new", "done"}
  /\ Abort(q)

Proceed(q) ==
  \/ ClearScan(q)
  \/ ClearLock(q)
  \/ Write(q)
  \/ EnterIndex(q)
  \/ RefusedByIndex(q)
  \/ Commit(q)

Next ==
  \E q \in Requests :
    \/ \E operation \in Ops \ {"none"}, c \in Contacts, asPrimary \in BOOLEAN :
         Begin(q, operation, c, asPrimary)
    \/ Proceed(q)
    \/ DeadlockAbort(q)
    \/ Fail(q)

(* The server and the database keep working on every request; the deadlock *)
(* detector keeps looking at a transaction that waits.                     *)
Fairness == \A q \in Requests : WF_vars(Proceed(q)) /\ WF_vars(DeadlockAbort(q))

Spec == Init /\ [][Next]_vars /\ Fairness

-----------------------------------------------------------------------------
(* Properties.                                                             *)

(* Every variable has its type.                                            *)
TypeOK ==
  /\ status \in [Contacts -> Statuses]
  /\ optedOut \subseteq Contacts
  /\ pc \in [Requests -> Labels]
  /\ op \in [Requests -> Ops]
  /\ target \in [Requests -> Contacts \cup {NoContact}]
  /\ primary \in [Requests -> BOOLEAN]
  /\ allow \in [Requests -> BOOLEAN]
  /\ victim \in [Requests -> Contacts \cup {NoContact}]
  /\ cleared \in [Requests -> SUBSET Contacts]
  /\ noted \in [Requests -> SUBSET [record_pk : Contacts, old_data : Rows, new_data : Rows]]
  /\ raced \in [Requests -> BOOLEAN]

Book == INSTANCE ContactBook

(* However transactions interleave, wait, abort or crash, the committed    *)
(* book changes by whole requests: a contact loses its place as primary    *)
(* only to the new primary, to its own update or to its deletion, at most  *)
(* one is primary (docs/api/crm.md: "max 1 primary contact per type"), and *)
(* a deleted one never comes back.                                         *)
ImplementsContactBook == Book!Spec

(* Setting a primary "automatically clears the old one" (docs/api/crm.md): *)
(* the index refuses a request only if another one committed during it.    *)
RefusedOnlyIfRaced == [][\A q \in Requests : RefusedByIndex(q) => raced[q]]_vars

(* The audit log tells the truth about the book although transactions wait *)
(* between their snapshot, their lock and their commit: what is committed  *)
(* of it, and nothing else, is what the commit changes, and each entry     *)
(* takes up where the one before it left the row.                          *)
AuditMatchesCommit ==
  [][\A q \in Requests : Commit(q) =>
       /\ \A e \in noted[q] : e.old_data = Row(e.record_pk) /\ e.new_data = Row(e.record_pk)'
       /\ \A c \in Contacts : Row(c)' # Row(c) =>
            \E e \in noted[q] : e.record_pk = c]_vars

(* allow_contact "defaults to the existing value if omitted" (docs/api/    *)
(* crm.md): a PATCH that does not mention it changes nobody's consent,     *)
(* unless another request committed since it read the contact.             *)
OptOutIsKept ==
  [][\A q \in Requests : Commit(q) /\ op[q] = "update" =>
       \/ target[q] \in optedOut <=> target[q] \in optedOut'
       \/ allow_contact[q] # Omitted
       \/ raced[q]]_vars

(* Every request is answered: the waits of the two statements and of the   *)
(* index, in whatever order requests take them, end.                       *)
EveryRequestEnds == \A q \in Requests : (pc[q] # "new") ~> (pc[q] = "done")
=============================================================================
