------------------------------- MODULE Groups -------------------------------
(***************************************************************************)
(* internal/groups: the groups of an organisation, their members, and a    *)
(* client that pages through the list of groups.                           *)
(*                                                                         *)
(* PATCH, DELETE and the member endpoints first ask whether the group is   *)
(* there and then write, in two statements of different transactions.      *)
(* AddMember reads the list of members for its answer in a third.  The     *)
(* groups are listed in pages, each a statement of its own that counts     *)
(* OFFSET rows of whatever the list is by then.  Requests that validation  *)
(* refuses leave no trace and are left out, and so are descriptions.       *)
(***************************************************************************)
EXTENDS Naturals, FiniteSets

CONSTANTS
  Groups,    \* the ids of groups, present and future; ids are ordered
  Kinds,     \* the names, ordered like ids, and types of groups, as pairs
  Users,     \* the ids of users, all of whom exist
  Roles,     \* the roles in a group
  Requests,  \* the requests that may be in flight at the same time
  PageSize   \* the limit of a page

ASSUME GroupsAssumption == Groups \subseteq Nat /\ IsFiniteSet(Groups)
ASSUME KindsAssumption == \A kind \in Kinds : kind[1] \in Nat
ASSUME PageSizeAssumption == PageSize \in Nat \ {0}

VARIABLES
  status,     \* status[g]: whether the row of g is there, and its is_active
  kind,       \* kind[g]: its name and group_type
  role,       \* role[g][u]: the role_in_group of u in g
  departed,   \* the users who have been deleted
  pc,         \* pc[q]: the statement request q executes next
  call,       \* call[q]: what was asked of it
  found,      \* found[q]: the is_active an update has read
  filter,     \* the client's group_type, or NoWalk
  offset,     \* the client's offset
  seen,       \* seen[g]: how often the client has been shown g
  late,       \* history: whether the group was deleted before q began
  raced,      \* history: whether others changed is_active since q read it
  disturbed,  \* history: whether others changed the membership q has written
  steady,     \* history: the groups listed all through the walk
  left,       \* history: how often a group left its place in the list
  joined      \* history: how often a group took a place in the list

tables  == <<status, kind, role, departed>>
locals  == <<pc, call, found>>
walk    == <<filter, offset, seen, steady, left, joined>>
history == <<late, raced, disturbed>>
vars    == <<tables, locals, walk, history>>

Live     == {"active", "inactive"}
Statuses == Live \cup {"absent", "deleted"}
NoKind   == <<0, "none">>
NoRole   == "none"
Keep     == "keep"     \* is_active is not in the body
AnyType  == "any"      \* no group_type in the query
NoWalk   == "no walk"
Types    == {k[2] : k \in Kinds}
Labels   == {"idle", "write", "list"}

ASSUME RolesAssumption == NoRole \notin Roles

Ops   == {"none", "update", "delete", "add", "remove"}

Calls == [op     : Ops,
          group  : Groups \cup {0},
          kind   : Kinds \cup {NoKind},
          active : Live \cup {Keep},
          user   : Users \cup {0},
          role   : Roles \cup {NoRole}]

NoCall == [op     |-> "none",
           group  |-> 0,
           kind   |-> NoKind,
           active |-> Keep,
           user   |-> 0,
           role   |-> NoRole]

Init ==
  /\ status = [g \in Groups |-> "absent"]
  /\ kind = [g \in Groups |-> NoKind]
  /\ role = [g \in Groups |-> [u \in Users |-> NoRole]]
  /\ departed = {}
  /\ pc = [q \in Requests |-> "idle"]
  /\ call = [q \in Requests |-> NoCall]
  /\ found = [q \in Requests |-> Keep]
  /\ filter = NoWalk
  /\ offset = 0
  /\ seen = [g \in Groups |-> 0]
  /\ late = [q \in Requests |-> FALSE]
  /\ raced = [q \in Requests |-> FALSE]
  /\ disturbed = [q \in Requests |-> FALSE]
  /\ steady = {}
  /\ left = 0
  /\ joined = 0

-----------------------------------------------------------------------------
(* The list of groups, ORDER BY name, id: a group's place is the number of *)
(* groups before it.  A page takes the places from the offset on.          *)

Listed(type) ==
  {g \in Groups : status[g] \in Live /\ type \in {AnyType, kind[g][2]}}

Before(g, h) == kind[g][1] < kind[h][1] \/ (kind[g][1] = kind[h][1] /\ g < h)

Place(g, list) == Cardinality({h \in list : Before(h, g)})

(* The definitions called Slip... are plausible slips in the code; each is *)
(* used only to see that some property notices it.                         *)

SlipPageCountsFromOne(type, first) ==
  LET list == Listed(type)
  IN  {g \in list : Place(g, list) \in (first + 1) .. (first + PageSize)}

Page(type, first) ==
  LET list == Listed(type)
  IN  {g \in list : Place(g, list) \in first .. (first + PageSize - 1)}

(* What the walk's history notes of a write to the rows of groups.  Counts *)
(* stop at the number of groups.                                           *)
Raise(n, raised) == IF raised /\ n < Cardinality(Groups) THEN n + 1 ELSE n

NoteRows ==
  LET before  == Listed(filter)
      after   == Listed(filter)'
      renamed == {g \in before \cap after : kind'[g][1] # kind[g][1]}
  IN  /\ UNCHANGED <<filter, offset, seen>>
      /\ steady' = steady \cap after
      /\ left'   = Raise(left, before \ after # {} \/ renamed # {})
      /\ joined' = Raise(joined, after \ before # {} \/ renamed # {})

-----------------------------------------------------------------------------
(* Requests about one group.  Each begins with GetByID, and ends there     *)
(* with 404 if the group is not there.                                     *)

Finish(q) ==
  /\ pc' = [pc EXCEPT ![q] = "idle"]
  /\ call' = [call EXCEPT ![q] = NoCall]
  /\ found' = [found EXCEPT ![q] = Keep]
  /\ late' = [late EXCEPT ![q] = FALSE]

Forget(q) ==
  /\ raced' = [raced EXCEPT ![q] = FALSE]
  /\ disturbed' = [disturbed EXCEPT ![q] = FALSE]

SlipEnsureGroupOnlyForWrites(q, request) ==
  /\ pc[q] = "idle"
  /\ status[request.group] \in IF request.op = "remove" THEN Live \cup {"deleted"} ELSE Live
  /\ pc' = [pc EXCEPT ![q] = "write"]
  /\ call' = [call EXCEPT ![q] = request]
  /\ found' = [found EXCEPT ![q] = IF request.op = "update"
                                     THEN status[request.group] ELSE Keep]
  /\ late' = [late EXCEPT ![q] = status[request.group] = "deleted"]
  /\ UNCHANGED <<tables, walk, raced, disturbed>>

EnsureGroup(q, request) ==
  /\ pc[q] = "idle"
  /\ status[request.group] \in Live
  /\ pc' = [pc EXCEPT ![q] = "write"]
  /\ call' = [call EXCEPT ![q] = request]
  /\ found' = [found EXCEPT ![q] = IF request.op = "update"
                                     THEN status[request.group] ELSE Keep]
  /\ late' = [late EXCEPT ![q] = status[request.group] = "deleted"]
  /\ UNCHANGED <<tables, walk, raced, disturbed>>

Ask(q, g) ==
  LET request == [NoCall EXCEPT !.group = g]
  IN  \/ \E k \in Kinds, a \in Live \cup {Keep} :
           EnsureGroup(q, [request EXCEPT !.op = "update", !.kind = k, !.active = a])
      \/ EnsureGroup(q, [request EXCEPT !.op = "delete"])
      \/ \E u \in Users :
           \/ EnsureGroup(q, [request EXCEPT !.op = "remove", !.user = u])
           \/ \E r \in Roles :
                EnsureGroup(q, [request EXCEPT !.op = "add", !.user = u, !.role = r])

(* A statement that writes the row of a group.                             *)
WriteRow(q, g, newStatus, newKind) ==
  /\ status' = [status EXCEPT ![g] = newStatus]
  /\ kind' = [kind EXCEPT ![g] = newKind]
  /\ raced' = [p \in Requests |->
                 p # q /\ (raced[p] \/ (call[p].group = g /\ call[p].op = "update"
                                          /\ newStatus # status[g]))]
  /\ disturbed' = [disturbed EXCEPT ![q] = FALSE]
  /\ NoteRows
  /\ UNCHANGED <<role, departed>>

SlipCreateWithoutType(q, g, k) ==
  /\ pc[q] = "idle"
  /\ status[g] = "absent"
  /\ WriteRow(q, g, "active", <<k[1], "">>)
  /\ UNCHANGED <<locals, late>>

Create(q, g, k) ==
  /\ pc[q] = "idle"
  /\ status[g] = "absent"
  /\ WriteRow(q, g, "active", k)
  /\ UNCHANGED <<locals, late>>

(* UPDATE ... WHERE deleted_at IS NULL writes all columns.                 *)

SlipUpdateWriteDefaultsToActive(q) ==
  LET asked == call[q]
  IN  /\ asked.op = "update"
      /\ status[asked.group] # "deleted"
      /\ WriteRow(q, asked.group,
                  IF asked.active = Keep THEN "active" ELSE asked.active,
                  asked.kind)
      /\ Finish(q)

UpdateWrite(q) ==
  LET asked == call[q]
  IN  /\ asked.op = "update"
      /\ status[asked.group] # "deleted"
      /\ WriteRow(q, asked.group,
                  IF asked.active = Keep THEN found[q] ELSE asked.active,
                  asked.kind)
      /\ Finish(q)

DeleteWrite(q) ==
  /\ call[q].op = "delete"
  /\ status[call[q].group] # "deleted"
  /\ WriteRow(q, call[q].group, "deleted", kind[call[q].group])
  /\ Finish(q)

(* Either of them finds no row to change.                                  *)
WriteNothing(q) ==
  /\ call[q].op \in {"update", "delete"}
  /\ status[call[q].group] = "deleted"
  /\ Finish(q)
  /\ Forget(q)
  /\ UNCHANGED <<tables, walk>>

-----------------------------------------------------------------------------
(* Members.  No statement looks at the group again.                        *)

WriteRole(q, newRole) ==
  LET g == call[q].group
      u == call[q].user
  IN  /\ role' = [role EXCEPT ![g][u] = newRole]
      /\ disturbed' = [p \in Requests |->
                         p # q /\ (disturbed[p] \/ (pc[p] = "list" /\ call[p].group = g
                                                      /\ call[p].user = u))]
      /\ UNCHANGED <<status, kind, departed, walk, raced>>

(* INSERT ... ON CONFLICT DO UPDATE SET role_in_group.                     *)

SlipAddMemberDoesNothing(q) ==
  /\ call[q].op = "add" /\ pc[q] = "write"
  /\ WriteRole(q, IF role[call[q].group][call[q].user] = NoRole THEN call[q].role
                  ELSE role[call[q].group][call[q].user])
  /\ pc' = [pc EXCEPT ![q] = "list"]
  /\ UNCHANGED <<call, found, late>>

AddMember(q) ==
  /\ call[q].op = "add" /\ pc[q] = "write"
  /\ WriteRole(q, call[q].role)
  /\ pc' = [pc EXCEPT ![q] = "list"]
  /\ UNCHANGED <<call, found, late>>

RemoveMember(q) ==
  /\ call[q].op = "remove"
  /\ WriteRole(q, NoRole)
  /\ Finish(q)

(* ListMembers: members whose user has not been deleted, with their roles. *)
Members(g) == {<<u, role[g][u]>> : u \in {v \in Users \ departed : role[g][v] # NoRole}}

(* AddMember answers with the list.                                        *)
AddAnswer(q) ==
  /\ pc[q] = "list"
  /\ Finish(q)
  /\ Forget(q)
  /\ UNCHANGED <<tables, walk>>

(* DELETE /users/:id (Accounts) leaves the rows of group_members.          *)
DeleteUser(u) ==
  /\ u \notin departed
  /\ departed' = departed \cup {u}
  /\ UNCHANGED <<status, kind, role, locals, walk, history>>

-----------------------------------------------------------------------------
(* A client walks the list: it raises the offset by the limit until a page *)
(* is not full.                                                            *)

WalkBegin(type) ==
  /\ filter = NoWalk
  /\ filter' = type
  /\ steady' = Listed(type)
  /\ UNCHANGED <<tables, locals, history, offset, seen, left, joined>>

FullPage == Cardinality(Page(filter, offset)) = PageSize

SlipWalkCountsPages ==
  /\ filter # NoWalk
  /\ FullPage
  /\ seen' = [g \in Groups |-> IF g \in Page(filter, offset) THEN seen[g] + 1 ELSE seen[g]]
  /\ offset' = offset + 1
  /\ UNCHANGED <<tables, locals, history, filter, steady, left, joined>>

WalkOn ==
  /\ filter # NoWalk
  /\ FullPage
  /\ seen' = [g \in Groups |-> IF g \in Page(filter, offset) THEN seen[g] + 1 ELSE seen[g]]
  /\ offset' = offset + PageSize
  /\ UNCHANGED <<tables, locals, history, filter, steady, left, joined>>

WalkEnd ==
  /\ filter # NoWalk
  /\ ~FullPage
  /\ filter' = NoWalk
  /\ offset' = 0
  /\ seen' = [g \in Groups |-> 0]
  /\ steady' = {}
  /\ left' = 0
  /\ joined' = 0
  /\ UNCHANGED <<tables, locals, history>>

(* A statement fails, or the process crashes.                              *)
Fail(q) ==
  /\ pc[q] # "idle"
  /\ Finish(q)
  /\ Forget(q)
  /\ UNCHANGED <<tables, walk>>

Next ==
  \/ \E q \in Requests :
       \/ \E g \in Groups : Ask(q, g) \/ \E k \in Kinds : Create(q, g, k)
       \/ UpdateWrite(q)
       \/ DeleteWrite(q)
       \/ WriteNothing(q)
       \/ AddMember(q)
       \/ RemoveMember(q)
       \/ AddAnswer(q)
       \/ Fail(q)
  \/ \E u \in Users : DeleteUser(u)
  \/ \E type \in Types \cup {AnyType} : WalkBegin(type)
  \/ WalkOn
  \/ WalkEnd

Spec == Init /\ [][Next]_vars

-----------------------------------------------------------------------------
(* Properties.                                                             *)

(* Every variable has its type.                                            *)
TypeOK ==
  /\ status \in [Groups -> Statuses]
  /\ kind \in [Groups -> Kinds \cup {NoKind}]
  /\ role \in [Groups -> [Users -> Roles \cup {NoRole}]]
  /\ departed \subseteq Users
  /\ pc \in [Requests -> Labels]
  /\ call \in [Requests -> Calls]
  /\ found \in [Requests -> Live \cup {Keep}]
  /\ filter \in Types \cup {AnyType, NoWalk}
  /\ offset \in Nat
  /\ seen \in [Groups -> Nat]
  /\ late \in [Requests -> BOOLEAN]
  /\ raced \in [Requests -> BOOLEAN]
  /\ disturbed \in [Requests -> BOOLEAN]
  /\ steady \subseteq Groups
  /\ left \in 0 .. Cardinality(Groups)
  /\ joined \in 0 .. Cardinality(Groups)

(* A deleted group answers 404 (docs/api/groups.md): its row never changes *)
(* again, and its members only through requests that began before.         *)
DeletedGroupIsFrozen ==
  [][\A g \in Groups : status[g] = "deleted" =>
       /\ status'[g] = "deleted" /\ kind'[g] = kind[g]
       /\ \A q \in Requests :
            call[q].group = g /\ late[q] => ~(AddMember(q) \/ RemoveMember(q))]_vars

(* is_active "keeps current if omitted" (docs/api/groups.md), unless it    *)
(* was changed between the request's read and its write.                   *)
OmittedIsActiveIsKept ==
  [][\A q \in Requests : UpdateWrite(q) =>
       LET g == call[q].group
       IN  status'[g] # status[g] => status'[g] = call[q].active \/ raced[q]]_vars

(* POST .../members "returns updated member list": it shows the member in  *)
(* the role that was asked for, also if the user had another one, unless   *)
(* somebody has changed the membership or deleted the user meanwhile.      *)
AddedMemberIsListed ==
  [][\A q \in Requests : AddAnswer(q) /\ ~disturbed[q] /\ call[q].user \notin departed =>
       <<call[q].user, call[q].role>> \in Members(call[q].group)]_vars

(* A walk misses at most one of the groups that were listed all the time   *)
(* for each group that left its place: without deletions, renamings and    *)
(* changes of type it is complete.                                         *)
MissesAreDepartures ==
  [][WalkEnd => Cardinality({g \in steady \ Page(filter, offset) : seen[g] = 0}) <= left]_vars

(* And it shows a group twice at most once for each group that took a      *)
(* place.                                                                  *)
RepeatsAreArrivals ==
  [][WalkOn \/ WalkEnd => \A g \in Page(filter, offset) : seen[g] <= joined]_vars
=============================================================================
