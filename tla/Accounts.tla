------------------------------ MODULE Accounts ------------------------------
(***************************************************************************)
(* The accounts behind one email address: users and user_roles, the        *)
(* management endpoints of internal/auth/service.go, and the logins that   *)
(* turn an account into tokens.  Requests for other addresses touch other  *)
(* rows.                                                                   *)
(*                                                                         *)
(* Every handler is a sequence of statements without a common transaction  *)
(* (a write runs in an actor transaction of its own, which holds that one  *)
(* statement), so each action below is one statement with the decision     *)
(* taken on its result.  Permission slugs are identified with the roles    *)
(* that carry them; role_permissions has no endpoint that changes it.      *)
(* Passwords always match, and a code is presented only if it is right:    *)
(* what the factors themselves check is in Totp and EmailTwoFactor.        *)
(***************************************************************************)
CONSTANTS
  Users,     \* the ids of users, present and future
  Roles,     \* the slugs of roles
  Requests,  \* the requests that may be in flight at the same time
  NoUser     \* no user

ASSUME NoUserAssumption == NoUser \notin Users

VARIABLES
  reliable,   \* whether no read of a factor fails
  status,     \* status[u]: the row of users
  userRoles,  \* userRoles[u]: the rows of user_roles
  factors,    \* factors[u]: the second factors that are enabled
  pending,    \* the users for whom a pending token is valid
  pc,         \* pc[q]: the statement request q executes next
  op,         \* op[q]: the endpoint called
  user,       \* user[q]: the user it is about
  wants,      \* wants[q]: the is_active or the role in the request
  found,      \* found[q]: the is_active it has read, or the factors
  claims,     \* claims[q]: the roles it has read
  gone,       \* history: whether the user was deleted when verify q began
  steady,     \* history: the factors enabled ever since login q began
  bare,       \* history: whether there was none at some moment since
  held,       \* history: the roles held at some moment since q, a login or
              \* verify, began
  raced       \* history: whether others changed is_active since update q
              \* read it, or registered since register q found no account

tables  == <<status, userRoles, factors>>
request == <<op, user, wants>>
locals  == <<pc, request, found, claims>>
history == <<gone, steady, bare, held, raced>>
vars    == <<reliable, tables, pending, locals, history>>

Live     == {"active", "disabled"}
Statuses == Live \cup {"absent", "deleted"}
Factors  == {"totp", "email"}
Ops      == {"none", "register", "update", "delete", "assign", "remove",
             "login", "verify"}
Labels   == {"idle", "write", "readTotp", "readEmail", "readUser",
             "readRoles", "issue"}
Keep     == "keep"   \* is_active is not in the body

(* ux_users_email_active, a partial index: one live row has the address.   *)
EmailIsUnique ==
  \A u, v \in Users : status[u] \in Live /\ status[v] \in Live => u = v

(* Any account that earlier requests can have left.                        *)
Init ==
  /\ reliable \in BOOLEAN
  /\ status \in [Users -> Statuses]
  /\ EmailIsUnique
  /\ userRoles \in [Users -> SUBSET Roles]
  /\ factors \in [Users -> SUBSET Factors]
  /\ \A u \in Users : status[u] = "absent" => userRoles[u] = {} /\ factors[u] = {}
  /\ pending = {}
  /\ pc = [q \in Requests |-> "idle"]
  /\ op = [q \in Requests |-> "none"]
  /\ user = [q \in Requests |-> NoUser]
  /\ wants = [q \in Requests |-> Keep]
  /\ found = [q \in Requests |-> {}]
  /\ claims = [q \in Requests |-> {}]
  /\ gone = [q \in Requests |-> FALSE]
  /\ steady = [q \in Requests |-> {}]
  /\ bare = [q \in Requests |-> FALSE]
  /\ held = [q \in Requests |-> {}]
  /\ raced = [q \in Requests |-> FALSE]

-----------------------------------------------------------------------------
(* Requests, and what history notes about the tables while they run.       *)

Begin(q, operation, u, want, seen, label) ==
  /\ pc[q] = "idle"
  /\ pc' = [pc EXCEPT ![q] = label]
  /\ op' = [op EXCEPT ![q] = operation]
  /\ user' = [user EXCEPT ![q] = u]
  /\ wants' = [wants EXCEPT ![q] = want]
  /\ found' = [found EXCEPT ![q] = seen]
  /\ gone' = [gone EXCEPT ![q] = operation = "verify" /\ status[u] = "deleted"]
  /\ steady' = [steady EXCEPT ![q] = IF operation = "login" THEN factors[u] ELSE {}]
  /\ bare' = [bare EXCEPT ![q] = operation = "login" /\ factors[u] = {}]
  /\ held' = [held EXCEPT ![q] = IF operation \in {"login", "verify"}
                                   THEN userRoles[u] ELSE {}]
  /\ UNCHANGED <<reliable, tables, pending, claims, raced>>

Goto(q, label) ==
  /\ pc' = [pc EXCEPT ![q] = label]
  /\ UNCHANGED request

Finish(q) ==
  /\ pc' = [pc EXCEPT ![q] = "idle"]
  /\ op' = [op EXCEPT ![q] = "none"]
  /\ user' = [user EXCEPT ![q] = NoUser]
  /\ wants' = [wants EXCEPT ![q] = Keep]
  /\ found' = [found EXCEPT ![q] = {}]
  /\ claims' = [claims EXCEPT ![q] = {}]
  /\ gone' = [gone EXCEPT ![q] = FALSE]
  /\ steady' = [steady EXCEPT ![q] = {}]
  /\ bare' = [bare EXCEPT ![q] = FALSE]

(* Statements of q that end it and write status, or user_roles.            *)

SetStatus(q, u, newStatus) ==
  /\ status' = [status EXCEPT ![u] = newStatus]
  /\ raced' = [p \in Requests |->
                 /\ p # q
                 /\ \/ raced[p]
                    \/ op[p] = "update" /\ user[p] = u /\ newStatus # status[u]
                    \/ op[p] = "register" /\ status[u] = "absent"]
  /\ held' = [held EXCEPT ![q] = {}]
  /\ Finish(q)
  /\ UNCHANGED <<reliable, userRoles, factors, pending>>

SetRoles(q, u, newRoles) ==
  /\ userRoles' = [userRoles EXCEPT ![u] = newRoles]
  /\ held' = [p \in Requests |-> IF p = q THEN {}
                                 ELSE IF user[p] = u /\ op[p] \in {"login", "verify"}
                                   THEN held[p] \cup newRoles
                                 ELSE held[p]]
  /\ raced' = [raced EXCEPT ![q] = FALSE]
  /\ Finish(q)
  /\ UNCHANGED <<reliable, status, factors, pending>>

SetNothing(q) ==
  /\ held' = [held EXCEPT ![q] = {}]
  /\ raced' = [raced EXCEPT ![q] = FALSE]
  /\ Finish(q)
  /\ UNCHANGED <<reliable, tables>>

-----------------------------------------------------------------------------
(* Register: 409 if a live row has the address; then the INSERT, which the *)
(* unique index refuses if another one has got there first.                *)

RegisterExists(q) ==
  /\ \A u \in Users : status[u] \notin Live
  /\ Begin(q, "register", NoUser, Keep, {}, "write")

(* The definitions called Slip... are plausible slips in the code; each is *)
(* used only to see that some property notices it.                         *)

SlipCreateUserCountsDeleted(q) ==
  /\ op[q] = "register"
  /\ IF \E u \in Users : status[u] # "absent"
       THEN SetNothing(q) /\ UNCHANGED pending
       ELSE \E u \in Users : status[u] = "absent" /\ SetStatus(q, u, "active")

CreateUser(q) ==
  /\ op[q] = "register"
  /\ IF \E u \in Users : status[u] \in Live
       THEN SetNothing(q) /\ UNCHANGED pending
       ELSE \E u \in Users : status[u] = "absent" /\ SetStatus(q, u, "active")

(* The requests about one user begin with GetUserByID, and answer 404 if   *)
(* it finds none.  UpdateUser keeps the is_active it has read.             *)

Manage(q, operation, u, want) ==
  /\ status[u] \in Live
  /\ Begin(q, operation, u, want,
           IF operation = "update" THEN {status[u]} ELSE {}, "write")

(* UPDATE users ... WHERE deleted_at IS NULL: is_active is always written. *)

SlipUpdateWriteForgetsBody(q) ==
  /\ op[q] = "update"
  /\ IF status[user[q]] = "deleted"
       THEN SetNothing(q) /\ UNCHANGED pending
       ELSE \E s \in {"active"} : SetStatus(q, user[q], s)

UpdateWrite(q) ==
  /\ op[q] = "update"
  /\ IF status[user[q]] = "deleted"
       THEN SetNothing(q) /\ UNCHANGED pending
       ELSE \E s \in IF wants[q] = Keep THEN found[q] ELSE {wants[q]} :
              SetStatus(q, user[q], s)

DeleteWrite(q) == op[q] = "delete" /\ SetStatus(q, user[q], "deleted")

(* AssignRole's INSERT and RemoveRole's DELETE ask nothing of users: the   *)
(* user may be deleted by then.                                            *)

SlipAssignWriteUnknownRole(q) ==
  /\ op[q] = "assign"
  /\ SetRoles(q, user[q], userRoles[user[q]] \cup {Keep})

AssignWrite(q) ==
  /\ op[q] = "assign"
  /\ SetRoles(q, user[q], userRoles[user[q]] \cup {wants[q]})

RemoveWrite(q) ==
  /\ op[q] = "remove"
  /\ SetRoles(q, user[q], userRoles[user[q]] \ {wants[q]})

-----------------------------------------------------------------------------
(* Login: the live row of the address, if it is active; the two factors,   *)
(* whose read errors count as "not enabled"; and a pending token if one is *)
(* enabled.                                                                *)

LoginReadUser(q, u) ==
  /\ status[u] = "active"
  /\ Begin(q, "login", u, Keep, {}, "readTotp")

ReadFactor(q, factor) ==
  \/ found' = [found EXCEPT ![q] = @ \cup (factors[user[q]] \cap {factor})]
  \/ ~reliable /\ found' = found

LoginReadTotp(q) ==
  /\ pc[q] = "readTotp"
  /\ ReadFactor(q, "totp")
  /\ Goto(q, "readEmail")
  /\ UNCHANGED <<reliable, tables, pending, claims, history>>

SlipLoginReadEmailOnly(q) ==
  /\ pc[q] = "readEmail"
  /\ found' = [found EXCEPT ![q] = factors[user[q]] \cap {"email"}]
  /\ Goto(q, IF found'[q] # {} THEN "write" ELSE "readRoles")
  /\ UNCHANGED <<reliable, tables, pending, claims, history>>

LoginReadEmail(q) ==
  /\ pc[q] = "readEmail"
  /\ ReadFactor(q, "email")
  /\ Goto(q, IF found'[q] # {} THEN "write" ELSE "readRoles")
  /\ UNCHANGED <<reliable, tables, pending, claims, history>>

IssuePending2FA(q) ==
  /\ op[q] = "login" /\ pc[q] = "write"
  /\ pending' = pending \cup {user[q]}
  /\ SetNothing(q)

(* The handlers that exchange a pending token and a code for an access     *)
(* token: the token is checked, but not used up, and IssueAccessForUser    *)
(* looks the user up by id.                                                *)

VerifyBegin(q, u) ==
  /\ u \in pending
  /\ Begin(q, "verify", u, Keep, {}, "readUser")

SlipVerifyReadAnyUser(q) ==
  /\ pc[q] = "readUser"
  /\ Goto(q, "readRoles")
  /\ UNCHANGED <<reliable, tables, pending, found, claims, history>>

VerifyReadUser(q) ==
  /\ pc[q] = "readUser"
  /\ IF status[user[q]] = "deleted"
       THEN SetNothing(q) /\ UNCHANGED pending
       ELSE /\ Goto(q, "readRoles")
            /\ UNCHANGED <<reliable, tables, pending, found, claims, history>>

(* ListUserRoles, then GetPermissionsForUser and IssueAccess.              *)

SlipReadRolesOfAll(q) ==
  /\ pc[q] = "readRoles"
  /\ claims' = [claims EXCEPT ![q] = UNION {userRoles[u] : u \in Users}]
  /\ Goto(q, "issue")
  /\ UNCHANGED <<reliable, tables, pending, found, history>>

ReadRoles(q) ==
  /\ pc[q] = "readRoles"
  /\ claims' = [claims EXCEPT ![q] = userRoles[user[q]]]
  /\ Goto(q, "issue")
  /\ UNCHANGED <<reliable, tables, pending, found, history>>

IssueAccess(q) ==
  /\ pc[q] = "issue"
  /\ SetNothing(q)
  /\ UNCHANGED pending

(* The user switches a factor on or off (Totp, EmailTwoFactor).            *)
ChangeFactors(u, newFactors) ==
  /\ status[u] \in Live
  /\ newFactors # factors[u]
  /\ factors' = [factors EXCEPT ![u] = newFactors]
  /\ steady' = [q \in Requests |-> IF user[q] = u THEN steady[q] \cap newFactors
                                   ELSE steady[q]]
  /\ bare' = [q \in Requests |-> bare[q] \/
                (op[q] = "login" /\ user[q] = u /\ newFactors = {})]
  /\ UNCHANGED <<reliable, status, userRoles, pending, locals, gone, held, raced>>

(* Five minutes are over: they may be long or short for everything else.   *)
PendingExpires(u) ==
  /\ u \in pending
  /\ pending' = pending \ {u}
  /\ UNCHANGED <<reliable, tables, locals, history>>

(* A statement whose error is returned fails, or the process crashes.      *)
Fail(q) ==
  /\ pc[q] # "idle"
  /\ SetNothing(q)
  /\ UNCHANGED pending

Management(q) ==
  \/ RegisterExists(q)
  \/ CreateUser(q)
  \/ \E u \in Users :
       \/ \E want \in Live \cup {Keep} : Manage(q, "update", u, want)
       \/ Manage(q, "delete", u, Keep)
       \/ \E role \in Roles, operation \in {"assign", "remove"} :
            Manage(q, operation, u, role)
  \/ UpdateWrite(q)
  \/ DeleteWrite(q)
  \/ AssignWrite(q)
  \/ RemoveWrite(q)

Tokens(q) ==
  \/ \E u \in Users : LoginReadUser(q, u) \/ VerifyBegin(q, u)
  \/ LoginReadTotp(q)
  \/ LoginReadEmail(q)
  \/ IssuePending2FA(q)
  \/ VerifyReadUser(q)
  \/ ReadRoles(q)
  \/ IssueAccess(q)

Next ==
  \/ \E q \in Requests : Management(q) \/ Tokens(q) \/ Fail(q)
  \/ \E u \in Users, newFactors \in SUBSET Factors : ChangeFactors(u, newFactors)
  \/ \E u \in Users : PendingExpires(u)

Spec == Init /\ [][Next]_vars

-----------------------------------------------------------------------------
(* Properties.                                                             *)

(* Every variable has its type.                                            *)
TypeOK ==
  /\ reliable \in BOOLEAN
  /\ status \in [Users -> Statuses]
  /\ userRoles \in [Users -> SUBSET Roles]
  /\ factors \in [Users -> SUBSET Factors]
  /\ pending \subseteq Users
  /\ pc \in [Requests -> Labels]
  /\ op \in [Requests -> Ops]
  /\ user \in [Requests -> Users \cup {NoUser}]
  /\ wants \in [Requests -> Live \cup {Keep} \cup Roles]
  /\ found \in [Requests -> SUBSET (Live \cup Factors)]
  /\ claims \in [Requests -> SUBSET Roles]
  /\ gone \in [Requests -> BOOLEAN]
  /\ steady \in [Requests -> SUBSET Factors]
  /\ bare \in [Requests -> BOOLEAN]
  /\ held \in [Requests -> SUBSET Roles]
  /\ raced \in [Requests -> BOOLEAN]

(* A deleted account never comes back, and no request that begins after    *)
(* the deletion issues a token for it: a pending token of a deleted user   *)
(* is worth nothing, and neither is an update that read the row before.    *)
DeletedStaysDeleted ==
  [][/\ \A u \in Users : status[u] = "deleted" => status'[u] = "deleted"
     /\ \A q \in Requests : IssueAccess(q) \/ IssuePending2FA(q) =>
          ~gone[q]]_vars

(* A registration that has found the address free, also because the        *)
(* account that had it was deleted, is refused by the index only if        *)
(* another one has been registered since: what the check asks is what the  *)
(* index forbids.                                                          *)
RegisterRefusedOnlyIfRaced ==
  [][\A q \in Requests : CreateUser(q) /\ status' = status => raced[q]]_vars

(* "Login requires 2FA if either factor is enabled" (docs/api/auth.md): no *)
(* login ends in an access token unless there was a moment since it read   *)
(* the account at which neither factor was enabled.                        *)
FactorIsAsked ==
  [][\A q \in Requests : IssueAccess(q) /\ op[q] = "login" => bare[q]]_vars

(* What the code guarantees of it: a factor that was enabled all through   *)
(* the login is asked for, unless the read of it fails.                    *)
SteadyFactorIsAsked ==
  [][\A q \in Requests : reliable /\ IssueAccess(q) /\ op[q] = "login" =>
       steady[q] = {}]_vars

(* is_active "defaults to current" (docs/api/auth.md): an account that was *)
(* deactivated becomes active only by a request that says so, or by one    *)
(* between whose read and write it was deactivated.                        *)
ReactivatedOnlyIfRaced ==
  [][\A q \in Requests :
       UpdateWrite(q) /\ status[user[q]] = "disabled" /\ status'[user[q]] = "active"
         => wants[q] = "active" \/ raced[q]]_vars

(* Roles and permissions of a token come from two statements, but none is  *)
(* claimed that the user did not have at some moment since the request     *)
(* began: a role removed before cannot be in it.                           *)
ClaimsWereHeld ==
  [][\A q \in Requests : IssueAccess(q) =>
       claims[q] \cup userRoles[user[q]] \subseteq held[q]]_vars
=============================================================================
