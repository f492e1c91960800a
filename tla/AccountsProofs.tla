--------------------------- MODULE AccountsProofs ---------------------------
(***************************************************************************)
(* What holds of the accounts behind one address although every handler is *)
(* a sequence of statements of its own: for any users, roles and requests, *)
(* with any interleaving and any failure.                                  *)
(*                                                                         *)
(* Each property follows from what a request knows of the tables while     *)
(* others write them: an update that nobody has raced holds the is_active  *)
(* of the row, a registration that nobody has raced still finds the        *)
(* address free, the factors enabled since a login began are among those   *)
(* it has found, and the roles of a user are among those held since.       *)
(***************************************************************************)
EXTENDS Accounts, TLAPS

LoginLabels  == {"readTotp", "readEmail", "write", "readRoles", "issue"}
VerifyLabels == {"readUser", "readRoles", "issue"}

(* Which statements, and what locals, each endpoint has.                   *)
ShapeOK(q) ==
  /\ pc[q] = "idle" <=> op[q] = "none"
  /\ op[q] \in {"register", "update", "delete", "assign", "remove"} => pc[q] = "write"
  /\ op[q] = "login" => pc[q] \in LoginLabels
  /\ op[q] = "verify" => pc[q] \in VerifyLabels
  /\ op[q] \notin {"none", "register"} => user[q] \in Users
  /\ op[q] = "update" => /\ wants[q] \in Live \cup {Keep}
                         /\ found[q] \subseteq Live
                         /\ status[user[q]] # "absent"
  /\ op[q] \in {"assign", "remove"} => wants[q] \in Roles
  /\ op[q] \notin {"login", "verify"} => claims[q] = {}

(* What an update knows of the row it is going to write.                   *)
UpdateOK(q) ==
  op[q] = "update" /\ ~raced[q] => found[q] = {status[user[q]]}

(* What a registration knows of the address.                               *)
RegisterOK(q) ==
  op[q] = "register" /\ ~raced[q] => \A u \in Users : status[u] \notin Live

(* A request for an account already deleted does not get past its read.    *)
GoneOK(q) ==
  gone[q] => /\ op[q] = "verify" /\ pc[q] = "readUser"
             /\ status[user[q]] = "deleted"

FactorsOK(q) ==
  op[q] = "login" =>
    /\ steady[q] \subseteq factors[user[q]]
    /\ reliable =>
         /\ pc[q] = "readEmail" => steady[q] \cap {"totp"} \subseteq found[q]
         /\ pc[q] \in {"readRoles", "issue"} => steady[q] = {}

RolesOK(q) ==
  op[q] \in {"login", "verify"} =>
    claims[q] \cup userRoles[user[q]] \subseteq held[q]

RequestOK(q) ==
  ShapeOK(q) /\ UpdateOK(q) /\ RegisterOK(q) /\ GoneOK(q) /\ FactorsOK(q) /\ RolesOK(q)

IInv ==
  /\ TypeOK
  /\ \A q \in Requests : RequestOK(q)

-----------------------------------------------------------------------------

LEMMA IInvInit == Init => IInv
<1> SUFFICES ASSUME Init PROVE IInv
  OBVIOUS
<1>1. reliable \in BOOLEAN
  BY Zenon DEF Init
<1>2. TypeOK
  BY <1>1 DEF Init, TypeOK, Labels, Ops, Live, Keep
<1>3. ASSUME NEW q \in Requests PROVE RequestOK(q)
  BY DEF Init, RequestOK, ShapeOK, UpdateOK, RegisterOK, GoneOK, FactorsOK, RolesOK
<1> QED
  BY <1>2, <1>3 DEF Init, IInv

(* The beginning of a request.                                             *)
LEMMA BeginStep ==
  ASSUME IInv, NEW q \in Requests, NEW operation \in Ops \ {"none"},
         NEW u \in Users \cup {NoUser}, NEW want, NEW seen,
         NEW label \in Labels \ {"idle"},
         Begin(q, operation, u, want, seen, label),
         want \in Live \cup {Keep} \cup Roles, seen \subseteq Live,
         operation \in {"register", "update", "delete", "assign", "remove"}
           => label = "write",
         operation = "login" => label = "readTotp",
         operation = "verify" => label = "readUser",
         operation # "register" => u \in Users,
         operation = "register" => \A v \in Users : status[v] \notin Live,
         operation = "update" => /\ want \in Live \cup {Keep}
                                 /\ seen = {status[u]} /\ status[u] # "absent",
         operation \in {"assign", "remove"} => want \in Roles
  PROVE  IInv'
<1>t. TypeOK
  BY DEF IInv
<1>1. /\ op'[q] = operation /\ pc'[q] = label /\ user'[q] = u /\ wants'[q] = want
      /\ found'[q] = seen /\ claims'[q] = claims[q] /\ raced'[q] = raced[q]
      /\ gone'[q] = (operation = "verify" /\ status[u] = "deleted")
      /\ operation = "login" => steady'[q] = factors[u]
      /\ operation \in {"login", "verify"} => held'[q] = userRoles[u]
  BY <1>t DEF Begin, TypeOK
<1>2. TypeOK'
  <2>1. /\ op' \in [Requests -> Ops] /\ pc' \in [Requests -> Labels]
        /\ user' \in [Requests -> Users \cup {NoUser}]
        /\ wants' \in [Requests -> Live \cup {Keep} \cup Roles]
        /\ found' \in [Requests -> SUBSET (Live \cup Factors)]
    BY <1>t DEF Begin, TypeOK
  <2>2. gone' \in [Requests -> BOOLEAN] /\ bare' \in [Requests -> BOOLEAN]
    BY <1>t DEF Begin, TypeOK
  <2>3. /\ steady' \in [Requests -> SUBSET Factors]
        /\ held' \in [Requests -> SUBSET Roles]
    <3>1. operation \in {"login", "verify"} =>
            factors[u] \in SUBSET Factors /\ userRoles[u] \in SUBSET Roles
      BY <1>t DEF TypeOK
    <3> QED
      BY <3>1, <1>t DEF Begin, TypeOK
  <2> QED
    BY <1>t, <2>1, <2>2, <2>3 DEF Begin, TypeOK, tables
<1>3. RequestOK(q)'
  <2>1. claims[q] = {}
    BY DEF Begin, IInv, RequestOK, ShapeOK
  <2> QED
    BY <1>1, <2>1 DEF Begin, tables, RequestOK, ShapeOK, UpdateOK, RegisterOK, GoneOK, FactorsOK,
                      RolesOK, LoginLabels, VerifyLabels
<1>4. ASSUME NEW p \in Requests, p # q PROVE RequestOK(p)'
  <2>1. /\ op'[p] = op[p] /\ pc'[p] = pc[p] /\ user'[p] = user[p] /\ wants'[p] = wants[p]
        /\ found'[p] = found[p] /\ claims'[p] = claims[p] /\ raced'[p] = raced[p]
        /\ gone'[p] = gone[p] /\ steady'[p] = steady[p] /\ held'[p] = held[p]
    BY <1>4, <1>t DEF Begin, TypeOK
  <2> QED
    BY <2>1 DEF IInv, Begin, tables, RequestOK, ShapeOK, UpdateOK, RegisterOK, GoneOK,
                FactorsOK, RolesOK
<1> QED
  BY <1>2, <1>3, <1>4 DEF IInv, Begin, tables

(* The end of a request, whatever it has written.                          *)
LEMMA FinishLocals ==
  ASSUME TypeOK, NEW q \in Requests, Finish(q)
  PROVE  /\ op'[q] = "none" /\ pc'[q] = "idle" /\ claims'[q] = {} /\ gone'[q] = FALSE
         /\ \A p \in Requests \ {q} :
              /\ op'[p] = op[p] /\ pc'[p] = pc[p] /\ user'[p] = user[p]
              /\ wants'[p] = wants[p] /\ found'[p] = found[p] /\ claims'[p] = claims[p]
              /\ gone'[p] = gone[p] /\ steady'[p] = steady[p]
         /\ op' \in [Requests -> Ops] /\ pc' \in [Requests -> Labels]
         /\ user' \in [Requests -> Users \cup {NoUser}]
         /\ wants' \in [Requests -> Live \cup {Keep} \cup Roles]
         /\ found' \in [Requests -> SUBSET (Live \cup Factors)]
         /\ claims' \in [Requests -> SUBSET Roles]
         /\ gone' \in [Requests -> BOOLEAN] /\ bare' \in [Requests -> BOOLEAN]
         /\ steady' \in [Requests -> SUBSET Factors]
<1>1. /\ op'[q] = "none" /\ pc'[q] = "idle" /\ claims'[q] = {} /\ gone'[q] = FALSE
  BY DEF TypeOK, Finish
<1>2. /\ op' \in [Requests -> Ops] /\ pc' \in [Requests -> Labels]
      /\ user' \in [Requests -> Users \cup {NoUser}]
      /\ wants' \in [Requests -> Live \cup {Keep} \cup Roles]
      /\ found' \in [Requests -> SUBSET (Live \cup Factors)]
      /\ claims' \in [Requests -> SUBSET Roles]
      /\ steady' \in [Requests -> SUBSET Factors]
  BY DEF TypeOK, Finish, Ops, Labels
<1>3. gone' \in [Requests -> BOOLEAN] /\ bare' \in [Requests -> BOOLEAN]
  BY DEF TypeOK, Finish
<1> QED
  BY <1>1, <1>2, <1>3 DEF TypeOK, Finish

LEMMA SetStatusStep ==
  ASSUME IInv, NEW q \in Requests, NEW u \in Users, NEW newStatus \in Statuses,
         SetStatus(q, u, newStatus),
         newStatus # "absent",
         status[u] = "deleted" => newStatus = "deleted"
  PROVE  IInv'
<1>t. TypeOK
  BY DEF IInv
<1>f. Finish(q)
  BY DEF SetStatus
<1>1. /\ status'[u] = newStatus /\ \A v \in Users : v # u => status'[v] = status[v]
      /\ status' \in [Users -> Statuses]
  BY <1>t DEF SetStatus, TypeOK
<1>2. /\ raced' \in [Requests -> BOOLEAN] /\ held' \in [Requests -> SUBSET Roles]
      /\ \A p \in Requests \ {q} :
           /\ held'[p] = held[p]
           /\ ~raced'[p] => /\ ~raced[p]
                            /\ op[p] = "update" /\ user[p] = u => newStatus = status[u]
                            /\ op[p] = "register" => status[u] # "absent"
  BY <1>t DEF SetStatus, TypeOK
<1>3. TypeOK'
  BY <1>t, <1>f, <1>1, <1>2, FinishLocals DEF SetStatus, TypeOK
<1>5. RequestOK(q)'
  BY <1>t, <1>f, FinishLocals
     DEF RequestOK, ShapeOK, UpdateOK, RegisterOK, GoneOK, FactorsOK, RolesOK
<1>6. ASSUME NEW p \in Requests, p # q PROVE RequestOK(p)'
  <2>1. /\ op'[p] = op[p] /\ pc'[p] = pc[p] /\ user'[p] = user[p] /\ wants'[p] = wants[p]
        /\ found'[p] = found[p] /\ claims'[p] = claims[p]
        /\ gone'[p] = gone[p] /\ steady'[p] = steady[p]
    BY <1>6, <1>t, <1>f, FinishLocals
  <2>2. /\ held'[p] = held[p] /\ UNCHANGED <<reliable, userRoles, factors>>
    BY <1>2, <1>6 DEF SetStatus
  <2>3. ShapeOK(p) /\ UpdateOK(p) /\ RegisterOK(p) /\ GoneOK(p) /\ FactorsOK(p) /\ RolesOK(p)
    BY DEF IInv, RequestOK
  <2>4. ShapeOK(p)'
    BY <1>1, <2>1, <2>3 DEF ShapeOK
  <2>5. UpdateOK(p)'
    BY <1>1, <1>2, <1>6, <2>1, <2>3 DEF UpdateOK, ShapeOK
  <2>8. RegisterOK(p)'
    <3>1. SUFFICES ASSUME op[p] = "register", ~raced'[p] PROVE newStatus \notin Live
      BY <1>1, <1>2, <1>6, <2>1, <2>3 DEF RegisterOK
    <3>2. status[u] \notin Live /\ status[u] # "absent" /\ status[u] \in Statuses
      BY <1>2, <1>6, <1>t, <2>3, <3>1 DEF RegisterOK, TypeOK
    <3> QED
      BY <3>2 DEF Statuses, Live
  <2>6. GoneOK(p)'
    BY <1>1, <2>1, <2>3 DEF GoneOK, ShapeOK
  <2>7. FactorsOK(p)' /\ RolesOK(p)'
    BY <2>1, <2>2, <2>3 DEF FactorsOK, RolesOK
  <2> QED
    BY <2>4, <2>5, <2>6, <2>7, <2>8 DEF RequestOK
<1> QED
  BY <1>3, <1>5, <1>6 DEF IInv

LEMMA SetRolesStep ==
  ASSUME IInv, NEW q \in Requests, NEW u \in Users, NEW newRoles \in SUBSET Roles,
         SetRoles(q, u, newRoles)
  PROVE  IInv'
<1>t. TypeOK
  BY DEF IInv
<1>f. Finish(q)
  BY DEF SetRoles
<1>1. /\ userRoles'[u] = newRoles /\ \A v \in Users : v # u => userRoles'[v] = userRoles[v]
      /\ userRoles' \in [Users -> SUBSET Roles]
  BY <1>t DEF SetRoles, TypeOK
<1>2. /\ held' \in [Requests -> SUBSET Roles]
      /\ \A p \in Requests \ {q} :
           /\ held[p] \subseteq held'[p]
           /\ user[p] = u /\ op[p] \in {"login", "verify"} => newRoles \subseteq held'[p]
  BY <1>t DEF SetRoles, TypeOK
<1>3. raced' \in [Requests -> BOOLEAN] /\ \A p \in Requests \ {q} : raced'[p] = raced[p]
  BY <1>t DEF SetRoles, TypeOK
<1>4. TypeOK'
  BY <1>t, <1>f, <1>1, <1>2, <1>3, FinishLocals DEF SetRoles, TypeOK
<1>5. RequestOK(q)'
  BY <1>t, <1>f, FinishLocals
     DEF RequestOK, ShapeOK, UpdateOK, RegisterOK, GoneOK, FactorsOK, RolesOK
<1>6. ASSUME NEW p \in Requests, p # q PROVE RequestOK(p)'
  <2>1. /\ op'[p] = op[p] /\ pc'[p] = pc[p] /\ user'[p] = user[p] /\ wants'[p] = wants[p]
        /\ found'[p] = found[p] /\ claims'[p] = claims[p] /\ raced'[p] = raced[p]
        /\ gone'[p] = gone[p] /\ steady'[p] = steady[p]
        /\ UNCHANGED <<reliable, status, factors>>
    BY <1>6, <1>t, <1>f, <1>3, FinishLocals DEF SetRoles
  <2>2. ShapeOK(p) /\ UpdateOK(p) /\ RegisterOK(p) /\ GoneOK(p) /\ FactorsOK(p) /\ RolesOK(p)
    BY DEF IInv, RequestOK
  <2>3. ShapeOK(p)' /\ UpdateOK(p)' /\ RegisterOK(p)' /\ GoneOK(p)' /\ FactorsOK(p)'
    BY <2>1, <2>2 DEF ShapeOK, UpdateOK, RegisterOK, GoneOK, FactorsOK
  <2>4. RolesOK(p)'
    BY <1>1, <1>2, <1>6, <2>1, <2>2 DEF RolesOK, ShapeOK
  <2> QED
    BY <2>3, <2>4 DEF RequestOK
<1> QED
  BY <1>4, <1>5, <1>6 DEF IInv, SetRoles

LEMMA SetNothingStep ==
  ASSUME IInv, NEW q \in Requests, SetNothing(q), pending' \subseteq Users
  PROVE  IInv'
<1>t. TypeOK
  BY DEF IInv
<1>f. Finish(q)
  BY DEF SetNothing
<1>1. /\ raced' \in [Requests -> BOOLEAN] /\ held' \in [Requests -> SUBSET Roles]
      /\ \A p \in Requests \ {q} : raced'[p] = raced[p] /\ held'[p] = held[p]
  BY <1>t DEF SetNothing, TypeOK
<1>2. TypeOK'
  BY <1>t, <1>f, <1>1, FinishLocals DEF SetNothing, TypeOK, tables
<1>3. RequestOK(q)'
  BY <1>t, <1>f, FinishLocals
     DEF RequestOK, ShapeOK, UpdateOK, RegisterOK, GoneOK, FactorsOK, RolesOK
<1>4. ASSUME NEW p \in Requests, p # q PROVE RequestOK(p)'
  <2>1. /\ op'[p] = op[p] /\ pc'[p] = pc[p] /\ user'[p] = user[p] /\ wants'[p] = wants[p]
        /\ found'[p] = found[p] /\ claims'[p] = claims[p] /\ raced'[p] = raced[p]
        /\ gone'[p] = gone[p] /\ steady'[p] = steady[p]
    <3>1. raced'[p] = raced[p]
      BY <1>4, <1>1
    <3> QED
      BY <1>4, <1>t, <1>f, <3>1, FinishLocals
  <2>2. held'[p] = held[p] /\ UNCHANGED <<reliable, tables>>
    BY <1>4, <1>1 DEF SetNothing
  <2> QED
    BY <2>1, <2>2 DEF IInv, RequestOK, ShapeOK, UpdateOK, RegisterOK, GoneOK, FactorsOK,
                      RolesOK, tables
<1> QED
  BY <1>2, <1>3, <1>4 DEF IInv, SetNothing, tables

(* A step to the next statement of a login or of a verification.           *)
LEMMA GotoStep ==
  ASSUME IInv, NEW q \in Requests, NEW label \in Labels \ {"idle"}, Goto(q, label),
         op[q] \in {"login", "verify"},
         UNCHANGED <<reliable, tables, pending, history>>,
         NEW f \in SUBSET (Live \cup Factors), NEW c \in SUBSET Roles,
         found' = [found EXCEPT ![q] = f], claims' = [claims EXCEPT ![q] = c],
         op[q] = "login" => label \in LoginLabels,
         op[q] = "verify" => label \in VerifyLabels \ {"readUser"} /\ ~gone[q],
         c \subseteq held[q],
         op[q] = "login" /\ reliable =>
           /\ label = "readEmail" => steady[q] \cap {"totp"} \subseteq f
           /\ label \in {"readRoles", "issue"} => steady[q] = {}
  PROVE  IInv'
<1>t. TypeOK
  BY DEF IInv
<1>1. /\ pc'[q] = label /\ found'[q] = f /\ claims'[q] = c
      /\ \A p \in Requests \ {q} : /\ pc'[p] = pc[p] /\ found'[p] = found[p]
                                   /\ claims'[p] = claims[p]
  BY <1>t DEF Goto, TypeOK
<1>2. TypeOK'
  BY <1>t DEF Goto, TypeOK, tables, history, request
<1>3. RequestOK(q)'
  <2>1. ShapeOK(q) /\ GoneOK(q) /\ FactorsOK(q) /\ RolesOK(q)
    BY DEF IInv, RequestOK
  <2>2. ShapeOK(q)'
    BY <1>1, <2>1 DEF ShapeOK, Goto, request, tables
  <2>3. UpdateOK(q)' /\ RegisterOK(q)'
    BY DEF UpdateOK, RegisterOK, Goto, request
  <2>4. GoneOK(q)'
    BY <2>1 DEF GoneOK, Goto, request, history, tables
  <2>5. FactorsOK(q)'
    BY <1>1, <2>1 DEF FactorsOK, Goto, request, history, tables
  <2>6. RolesOK(q)'
    BY <1>1, <2>1 DEF RolesOK, Goto, request, history, tables
  <2> QED
    BY <2>2, <2>3, <2>4, <2>5, <2>6 DEF RequestOK
<1>4. ASSUME NEW p \in Requests, p # q PROVE RequestOK(p)'
  BY <1>1, <1>4 DEF IInv, RequestOK, ShapeOK, UpdateOK, RegisterOK, GoneOK, FactorsOK, RolesOK,
                    Goto, request, history, tables
<1> QED
  BY <1>2, <1>3, <1>4 DEF IInv, tables
LEMMA IInvStep == IInv /\ [Next]_vars => IInv'
<1> SUFFICES ASSUME IInv, [Next]_vars PROVE IInv'
  OBVIOUS
<1>t. TypeOK
  BY DEF IInv
<1>o. \A q \in Requests : /\ ShapeOK(q) /\ UpdateOK(q) /\ RegisterOK(q)
                         /\ GoneOK(q) /\ FactorsOK(q) /\ RolesOK(q)
  BY DEF IInv, RequestOK
<1>l. /\ \A label \in LoginLabels \cup VerifyLabels : label \in Labels \ {"idle"}
      /\ {"register", "update", "delete", "assign", "remove", "login", "verify"}
           \subseteq Ops \ {"none"}
  BY DEF LoginLabels, VerifyLabels, Labels, Ops
<1>1. ASSUME NEW q \in Requests, SetNothing(q), pending' = pending PROVE IInv'
  BY <1>1, <1>t, SetNothingStep DEF TypeOK
<1>2. ASSUME NEW q \in Requests, RegisterExists(q) PROVE IInv'
  BY <1>2, <1>l, BeginStep DEF RegisterExists, LoginLabels
<1>3. ASSUME NEW q \in Requests, CreateUser(q) PROVE IInv'
  <2>1. CASE \E u \in Users : status[u] \in Live
    BY <1>1, <1>3, <2>1 DEF CreateUser
  <2>2. CASE ~\E u \in Users : status[u] \in Live
    <3>1. PICK u \in Users : status[u] = "absent" /\ SetStatus(q, u, "active")
      BY <1>3, <2>2 DEF CreateUser
    <3>2. "active" \in Statuses
      BY DEF Statuses, Live
    <3> QED
      BY <2>2, <3>1, <3>2, SetStatusStep
  <2> QED
    BY <2>1, <2>2
<1>4. ASSUME NEW q \in Requests, NEW u \in Users, NEW want \in Live \cup {Keep},
             Manage(q, "update", u, want) PROVE IInv'
  BY <1>4, <1>l, BeginStep DEF Manage, LoginLabels, Live
<1>5. ASSUME NEW q \in Requests, NEW u \in Users, Manage(q, "delete", u, Keep) PROVE IInv'
  BY <1>5, <1>l, BeginStep DEF Manage, LoginLabels
<1>6. ASSUME NEW q \in Requests, NEW u \in Users, NEW role \in Roles,
             NEW operation \in {"assign", "remove"}, Manage(q, operation, u, role) PROVE IInv'
  BY <1>6, <1>l, BeginStep DEF Manage, LoginLabels
<1>7. ASSUME NEW q \in Requests, UpdateWrite(q) PROVE IInv'
  <2>1. CASE status[user[q]] = "deleted"
    BY <1>1, <1>7, <2>1 DEF UpdateWrite
  <2>2. CASE status[user[q]] # "deleted"
    <3>1. /\ user[q] \in Users /\ status[user[q]] \in Live
          /\ wants[q] \in Live \cup {Keep} /\ found[q] \subseteq Live
      BY <1>7, <1>o, <1>t, <2>2 DEF UpdateWrite, ShapeOK, TypeOK, Statuses
    <3>2. PICK s \in Live : SetStatus(q, user[q], s)
      BY <1>7, <2>2, <3>1 DEF UpdateWrite
    <3>3. s \in Statuses /\ s # "absent" /\ s # "deleted"
      BY DEF Statuses, Live
    <3> QED
      BY <2>2, <3>1, <3>2, <3>3, SetStatusStep
  <2> QED
    BY <2>1, <2>2
<1>8. ASSUME NEW q \in Requests, DeleteWrite(q) PROVE IInv'
  <2>1. user[q] \in Users /\ SetStatus(q, user[q], "deleted")
    BY <1>8, <1>o DEF DeleteWrite, ShapeOK
  <2>2. "deleted" \in Statuses /\ "deleted" \notin Live
    BY DEF Statuses, Live
  <2> QED
    BY <2>1, <2>2, SetStatusStep
<1>9. ASSUME NEW q \in Requests, AssignWrite(q) \/ RemoveWrite(q) PROVE IInv'
  <2>1. user[q] \in Users /\ wants[q] \in Roles
    BY <1>9, <1>o DEF AssignWrite, RemoveWrite, ShapeOK
  <2>2. /\ userRoles[user[q]] \cup {wants[q]} \in SUBSET Roles
        /\ userRoles[user[q]] \ {wants[q]} \in SUBSET Roles
    BY <1>t, <2>1 DEF TypeOK
  <2> QED
    BY <1>9, <2>1, <2>2, SetRolesStep DEF AssignWrite, RemoveWrite
<1>10. ASSUME NEW q \in Requests, NEW u \in Users, LoginReadUser(q, u) PROVE IInv'
  BY <1>10, <1>l, BeginStep DEF LoginReadUser, LoginLabels
<1>11. ASSUME NEW q \in Requests, NEW u \in Users, VerifyBegin(q, u) PROVE IInv'
  BY <1>11, <1>l, BeginStep DEF VerifyBegin, VerifyLabels
(* ReadFactor adds what it has found to found[q].                          *)
<1>12. ASSUME NEW q \in Requests, NEW factor \in Factors, ReadFactor(q, factor),
              op[q] = "login"
       PROVE  \E f \in SUBSET (Live \cup Factors) :
                /\ found' = [found EXCEPT ![q] = f]
                /\ found[q] \subseteq f
                /\ reliable => factors[user[q]] \cap {factor} \subseteq f
  <2>1. user[q] \in Users /\ found = [found EXCEPT ![q] = found[q]]
    BY <1>12, <1>o, <1>t DEF ShapeOK, TypeOK
  <2>0. /\ found[q] \in SUBSET (Live \cup Factors)
        /\ found[q] \cup (factors[user[q]] \cap {factor}) \in SUBSET (Live \cup Factors)
    BY <1>t, <2>1 DEF TypeOK
  <2>2. CASE found' = [found EXCEPT ![q] = found[q] \cup (factors[user[q]] \cap {factor})]
    BY <2>0, <2>2
  <2>3. CASE ~reliable /\ found' = found
    BY <2>0, <2>1, <2>3
  <2> QED
    BY <1>12, <2>2, <2>3 DEF ReadFactor
<1>13. ASSUME NEW q \in Requests, LoginReadTotp(q) PROVE IInv'
  <2>1. /\ op[q] = "login" /\ "readEmail" \in LoginLabels /\ "totp" \in Factors
        /\ claims[q] \in SUBSET Roles /\ claims' = [claims EXCEPT ![q] = claims[q]]
    BY <1>13, <1>o, <1>t DEF LoginReadTotp, ShapeOK, LoginLabels, VerifyLabels, Factors, TypeOK, Ops
  <2>2. PICK f \in SUBSET (Live \cup Factors) :
          /\ found' = [found EXCEPT ![q] = f]
          /\ reliable => factors[user[q]] \cap {"totp"} \subseteq f
    BY <1>12, <1>13, <2>1 DEF LoginReadTotp
  <2>3. /\ claims[q] \subseteq held[q]
        /\ reliable => steady[q] \cap {"totp"} \subseteq f
    BY <1>o, <2>1, <2>2 DEF FactorsOK, RolesOK
  <2> QED
    BY <1>13, <1>l, <2>1, <2>2, <2>3, GotoStep DEF LoginReadTotp
<1>14. ASSUME NEW q \in Requests, LoginReadEmail(q) PROVE IInv'
  <2>1. /\ op[q] = "login" /\ "email" \in Factors
        /\ claims[q] \in SUBSET Roles /\ claims' = [claims EXCEPT ![q] = claims[q]]
        /\ {"write", "readRoles"} \subseteq LoginLabels
        /\ pc[q] = "readEmail"
    BY <1>14, <1>o, <1>t DEF LoginReadEmail, ShapeOK, LoginLabels, VerifyLabels, Factors, TypeOK, Ops
  <2>2. PICK f \in SUBSET (Live \cup Factors) :
          /\ found' = [found EXCEPT ![q] = f]
          /\ found[q] \subseteq f
          /\ reliable => factors[user[q]] \cap {"email"} \subseteq f
    BY <1>12, <1>14, <2>1 DEF LoginReadEmail
  <2>3. found'[q] = f
    BY <1>t, <2>2 DEF TypeOK
  <2>4. claims[q] \subseteq held[q]
    BY <1>o, <2>1 DEF RolesOK
  <2>5. reliable /\ f = {} => steady[q] = {}
    <3>1. steady[q] \subseteq Factors
      BY <1>t DEF TypeOK
    <3> QED
      BY <1>o, <2>1, <2>2, <3>1 DEF FactorsOK, Factors
  <2>6. PICK label \in {"write", "readRoles"} :
          /\ Goto(q, label)
          /\ label = "readRoles" => f = {}
    BY <1>14, <2>3 DEF LoginReadEmail
  <2>7. label \in Labels \ {"idle"} /\ label \in LoginLabels
    BY <1>l, <2>1
  <2> QED
    BY <1>14, <2>1, <2>2, <2>4, <2>5, <2>6, <2>7, GotoStep DEF LoginReadEmail
<1>15. ASSUME NEW q \in Requests, IssuePending2FA(q) PROVE IInv'
  <2>1. user[q] \in Users
    BY <1>15, <1>o DEF IssuePending2FA, ShapeOK
  <2> QED
    BY <1>15, <1>t, <2>1, SetNothingStep DEF IssuePending2FA, TypeOK
<1>16. ASSUME NEW q \in Requests, VerifyReadUser(q) PROVE IInv'
  <2>1. CASE status[user[q]] = "deleted"
    BY <1>1, <1>16, <2>1 DEF VerifyReadUser
  <2>2. CASE status[user[q]] # "deleted"
    <3>1. /\ op[q] = "verify" /\ ~gone[q] /\ "readRoles" \in VerifyLabels \ {"readUser"}
          /\ claims[q] \in SUBSET Roles /\ claims' = [claims EXCEPT ![q] = claims[q]]
          /\ found[q] \in SUBSET (Live \cup Factors)
          /\ found' = [found EXCEPT ![q] = found[q]]
      BY <1>16, <1>o, <1>t, <2>2
         DEF VerifyReadUser, ShapeOK, GoneOK, LoginLabels, VerifyLabels, TypeOK, Ops
    <3>2. claims[q] \subseteq held[q]
      BY <1>o, <3>1 DEF RolesOK
    <3> QED
      BY <1>16, <1>l, <2>2, <3>1, <3>2, GotoStep DEF VerifyReadUser
  <2> QED
    BY <2>1, <2>2
<1>17. ASSUME NEW q \in Requests, ReadRoles(q) PROVE IInv'
  <2>1. /\ op[q] \in {"login", "verify"} /\ pc[q] = "readRoles"
        /\ "issue" \in LoginLabels \cap (VerifyLabels \ {"readUser"})
        /\ user[q] \in Users
    BY <1>17, <1>o, <1>t DEF ReadRoles, ShapeOK, LoginLabels, VerifyLabels, TypeOK, Ops
  <2>2. /\ userRoles[user[q]] \in SUBSET Roles
        /\ found[q] \in SUBSET (Live \cup Factors)
        /\ found' = [found EXCEPT ![q] = found[q]]
    BY <1>17, <1>t, <2>1 DEF ReadRoles, TypeOK
  <2>3. /\ userRoles[user[q]] \subseteq held[q]
        /\ op[q] = "verify" => ~gone[q]
        /\ op[q] = "login" /\ reliable => steady[q] = {}
    BY <1>o, <2>1 DEF RolesOK, GoneOK, FactorsOK
  <2>4. "issue" \in Labels \ {"idle"} /\ "issue" \in LoginLabels /\ "issue" \in VerifyLabels \ {"readUser"}
    BY <1>l, <2>1
  <2> QED
    BY <1>17, <2>1, <2>2, <2>3, <2>4, GotoStep DEF ReadRoles
<1>18. ASSUME NEW q \in Requests, IssueAccess(q) \/ Fail(q) PROVE IInv'
  BY <1>1, <1>18 DEF IssueAccess, Fail
<1>19. ASSUME NEW u \in Users, NEW newFactors \in SUBSET Factors,
              ChangeFactors(u, newFactors) PROVE IInv'
  <2>1. /\ factors'[u] = newFactors /\ \A v \in Users : v # u => factors'[v] = factors[v]
        /\ factors' \in [Users -> SUBSET Factors]
    BY <1>19, <1>t DEF ChangeFactors, TypeOK
  <2>2. /\ steady' \in [Requests -> SUBSET Factors] /\ bare' \in [Requests -> BOOLEAN]
        /\ \A q \in Requests : /\ steady'[q] \subseteq steady[q]
                               /\ user[q] = u => steady'[q] \subseteq newFactors
    BY <1>19, <1>t DEF ChangeFactors, TypeOK
  <2>3. UNCHANGED <<reliable, status, userRoles, pending, locals, gone, held, raced>>
    BY <1>19 DEF ChangeFactors
  <2>4. TypeOK'
    BY <1>t, <2>1, <2>2, <2>3 DEF TypeOK, locals, request
  <2>5. ASSUME NEW q \in Requests PROVE RequestOK(q)'
    <3>1. ShapeOK(q)' /\ UpdateOK(q)' /\ RegisterOK(q)' /\ GoneOK(q)' /\ RolesOK(q)'
      BY <1>o, <2>3 DEF ShapeOK, UpdateOK, RegisterOK, GoneOK, RolesOK, locals, request
    <3>2. FactorsOK(q)'
      BY <1>o, <2>1, <2>2, <2>3 DEF FactorsOK, ShapeOK, locals, request
    <3> QED
      BY <3>1, <3>2 DEF RequestOK
  <2> QED
    BY <2>3, <2>4, <2>5 DEF IInv
<1>20. ASSUME NEW u \in Users, PendingExpires(u) PROVE IInv'
  <2>1. UNCHANGED <<reliable, tables, locals, history>> /\ pending' \subseteq Users
    BY <1>20, <1>t DEF PendingExpires, TypeOK
  <2> QED
    BY <1>t, <2>1 DEF IInv, TypeOK, RequestOK, ShapeOK, UpdateOK, RegisterOK, GoneOK,
                      FactorsOK, RolesOK, tables, locals, request, history
<1>21. CASE UNCHANGED vars
  BY <1>t, <1>21 DEF vars, IInv, TypeOK, RequestOK, ShapeOK, UpdateOK, RegisterOK,
                     GoneOK, FactorsOK, RolesOK, tables, locals, request, history
<1> QED
  BY <1>2, <1>3, <1>4, <1>5, <1>6, <1>7, <1>8, <1>9, <1>10, <1>11, <1>13, <1>14, <1>15,
     <1>16, <1>17, <1>18, <1>19, <1>20, <1>21 DEF Next, Management, Tokens

LEMMA Invariance == Spec => []IInv
BY IInvInit, IInvStep, PTL DEF Spec

-----------------------------------------------------------------------------
(* Theorems.                                                               *)

(* Every variable keeps its type.                                          *)
THEOREM TypeCorrect == Spec => []TypeOK
<1>1. IInv => TypeOK
  BY DEF IInv
<1> QED
  BY <1>1, Invariance, PTL

(* The index refuses a registration only if another one has taken the     *)
(* address since the check found it free.                                  *)
THEOREM RefusedRegistrationsAreRaced == Spec => RegisterRefusedOnlyIfRaced
<1>1. ASSUME IInv, NEW q \in Requests, CreateUser(q) /\ status' = status
      PROVE  raced[q]
  <2>1. op[q] = "register" /\ RegisterOK(q)
    BY <1>1 DEF IInv, RequestOK, CreateUser
  <2>2. ASSUME NEW u \in Users, status[u] = "absent" /\ SetStatus(q, u, "active")
        PROVE  FALSE
    BY <1>1, <2>2 DEF SetStatus, IInv, TypeOK
  <2>3. \E u \in Users : status[u] \in Live
    BY <1>1, <2>2 DEF CreateUser
  <2> QED
    BY <2>1, <2>3 DEF RegisterOK
<1>2. IInv => [\A q \in Requests : CreateUser(q) /\ status' = status => raced[q]]_vars
  BY <1>1
<1> QED
  BY <1>2, Invariance, PTL DEF RegisterRefusedOnlyIfRaced

(* What a request that is about to issue a token is.                       *)
LEMMA Issuing ==
  ASSUME IInv, NEW q \in Requests, IssueAccess(q)
  PROVE  op[q] \in {"login", "verify"} /\ RequestOK(q) /\ pc[q] = "issue"
BY DEF IInv, RequestOK, ShapeOK, IssueAccess, TypeOK, Ops, LoginLabels, VerifyLabels

(* No write brings a deleted account back, and no request that begins after*)
(* the deletion issues a token for it.                                     *)
THEOREM DeletionIsFinal == Spec => DeletedStaysDeleted
<1>1. ASSUME IInv, [Next]_vars, NEW u \in Users, status[u] = "deleted"
      PROVE  status'[u] = "deleted"
  <2>1. CASE UNCHANGED vars
    BY <1>1, <2>1 DEF vars, tables
  <2>2. ASSUME NEW q \in Requests, NEW v \in Users, NEW s,
               SetStatus(q, v, s), status[v] = "deleted" => s = "deleted"
        PROVE  status'[u] = "deleted"
    BY <1>1, <2>2 DEF SetStatus, IInv, TypeOK
  <2>3. ASSUME NEW q \in Requests, UpdateWrite(q) PROVE status'[u] = "deleted"
    <3>1. user[q] \in Users
      BY <1>1, <2>3 DEF UpdateWrite, IInv, RequestOK, ShapeOK
    <3> QED
      BY <1>1, <2>2, <2>3, <3>1 DEF UpdateWrite, SetNothing, tables
  <2>4. ASSUME NEW q \in Requests, CreateUser(q) \/ DeleteWrite(q)
        PROVE  status'[u] = "deleted"
    <3>1. op[q] = "delete" => user[q] \in Users
      BY <1>1 DEF IInv, RequestOK, ShapeOK
    <3> QED
      BY <1>1, <2>2, <2>4, <3>1 DEF CreateUser, DeleteWrite, SetNothing, tables
  <2> QED
    BY <1>1, <2>1, <2>3, <2>4
       DEF Next, Management, Tokens, RegisterExists, Manage, AssignWrite, RemoveWrite, SetRoles,
           SetNothing, Begin, LoginReadUser, VerifyBegin, LoginReadTotp, LoginReadEmail,
           IssuePending2FA, VerifyReadUser, ReadRoles, IssueAccess, Fail, ChangeFactors,
           PendingExpires, tables
<1>2. ASSUME IInv, NEW q \in Requests, IssueAccess(q) \/ IssuePending2FA(q)
      PROVE  ~gone[q]
  <2>1. RequestOK(q)
    BY <1>2 DEF IInv
  <2>2. CASE IssueAccess(q)
    BY <1>2, <2>1, <2>2, Issuing DEF RequestOK, GoneOK
  <2>3. CASE IssuePending2FA(q)
    BY <2>1, <2>3 DEF RequestOK, GoneOK, IssuePending2FA
  <2> QED
    BY <1>2, <2>2, <2>3
<1>3. IInv /\ [Next]_vars =>
        [/\ \A u \in Users : status[u] = "deleted" => status'[u] = "deleted"
         /\ \A q \in Requests : IssueAccess(q) \/ IssuePending2FA(q) => ~gone[q]]_vars
  BY <1>1, <1>2
<1> QED
  BY <1>3, Invariance, PTL DEF DeletedStaysDeleted, Spec

(* A factor enabled all through a login is asked for, if it can be read.   *)
THEOREM SteadyFactorsAreAsked == Spec => SteadyFactorIsAsked
<1>1. ASSUME IInv, NEW q \in Requests, reliable /\ IssueAccess(q) /\ op[q] = "login"
      PROVE  steady[q] = {}
  BY <1>1, Issuing DEF RequestOK, FactorsOK
<1>2. IInv => [\A q \in Requests : reliable /\ IssueAccess(q) /\ op[q] = "login" =>
                 steady[q] = {}]_vars
  BY <1>1
<1> QED
  BY <1>2, Invariance, PTL DEF SteadyFactorIsAsked

(* A PATCH that leaves is_active out activates no account, unless others   *)
(* have changed it meanwhile.                                              *)
THEOREM ReactivationsAreRaced == Spec => ReactivatedOnlyIfRaced
<1>1. ASSUME IInv, NEW q \in Requests,
             UpdateWrite(q) /\ status[user[q]] = "disabled" /\ status'[user[q]] = "active"
      PROVE  wants[q] = "active" \/ raced[q]
  <2>1. /\ op[q] = "update" /\ user[q] \in Users /\ UpdateOK(q)
        /\ \E s \in IF wants[q] = Keep THEN found[q] ELSE {wants[q]} :
             SetStatus(q, user[q], s)
    BY <1>1 DEF UpdateWrite, IInv, RequestOK, ShapeOK
  <2>2. "active" \in IF wants[q] = Keep THEN found[q] ELSE {wants[q]}
    BY <1>1, <2>1 DEF SetStatus, IInv, TypeOK
  <2> QED
    BY <1>1, <2>1, <2>2 DEF UpdateOK
<1>2. IInv => [\A q \in Requests :
                 UpdateWrite(q) /\ status[user[q]] = "disabled" /\ status'[user[q]] = "active"
                   => wants[q] = "active" \/ raced[q]]_vars
  BY <1>1
<1> QED
  BY <1>2, Invariance, PTL DEF ReactivatedOnlyIfRaced

(* A token claims only roles and permissions held since its request began. *)
THEOREM OnlyHeldRolesAreClaimed == Spec => ClaimsWereHeld
<1>1. ASSUME IInv, NEW q \in Requests, IssueAccess(q)
      PROVE  claims[q] \cup userRoles[user[q]] \subseteq held[q]
  BY <1>1, Issuing DEF RequestOK, RolesOK
<1>2. IInv => [\A q \in Requests : IssueAccess(q) =>
                 claims[q] \cup userRoles[user[q]] \subseteq held[q]]_vars
  BY <1>1
<1> QED
  BY <1>2, Invariance, PTL DEF ClaimsWereHeld

-----------------------------------------------------------------------------
(* The login reads the two factors in two statements, the app first.  It   *)
(* misses that one of them is always enabled only if the app is enabled    *)
(* between the two, and the e-mail factor disabled: every other change of  *)
(* the factors during a login is harmless.                                 *)

AppNotEnabledBetweenReads ==
  \A q \in Requests :
    pc[q] = "readEmail" /\ "totp" \in factors'[user[q]] => "totp" \in factors[user[q]]

BareOK(q) ==
  op[q] = "login" =>
    /\ factors[user[q]] = {} => bare[q]
    /\ pc[q] = "readEmail" /\ "totp" \in factors[user[q]] => "totp" \in found[q]
    /\ pc[q] \in {"readRoles", "issue"} => bare[q]

BInv == reliable /\ \A q \in Requests : BareOK(q)

LEMMA BInvInit == Init /\ reliable => BInv
BY DEF Init, BInv, BareOK

(* A step of request q that leaves the factors alone.                      *)
LEMMA BareLocal ==
  ASSUME BInv, NEW q \in Requests, UNCHANGED <<reliable, factors>>, BareOK(q)',
         \A p \in Requests \ {q} : /\ pc'[p] = pc[p] /\ op'[p] = op[p] /\ user'[p] = user[p]
                                   /\ found'[p] = found[p] /\ bare'[p] = bare[p]
  PROVE  BInv'
<1>1. ASSUME NEW p \in Requests \ {q} PROVE BareOK(p)'
  BY DEF BInv, BareOK
<1> QED
  BY <1>1 DEF BInv

LEMMA BInvStep ==
  IInv /\ BInv /\ [Next]_vars /\ [AppNotEnabledBetweenReads]_vars => BInv'
<1> SUFFICES ASSUME IInv, BInv, [Next]_vars, [AppNotEnabledBetweenReads]_vars PROVE BInv'
  OBVIOUS
<1>t. TypeOK
  BY DEF IInv
<1>o. reliable /\ \A q \in Requests : BareOK(q) /\ ShapeOK(q)
  BY DEF IInv, RequestOK, BInv
<1>1. ASSUME NEW q \in Requests, NEW operation, NEW u, NEW want, NEW seen, NEW label,
             Begin(q, operation, u, want, seen, label),
             operation = "login" => label = "readTotp"
      PROVE  BInv'
  <2>1. /\ pc'[q] = label /\ op'[q] = operation /\ user'[q] = u
        /\ bare'[q] = (operation = "login" /\ factors[u] = {})
        /\ \A p \in Requests \ {q} : /\ pc'[p] = pc[p] /\ op'[p] = op[p] /\ user'[p] = user[p]
                                     /\ found'[p] = found[p] /\ bare'[p] = bare[p]
        /\ UNCHANGED <<reliable, factors>>
    BY <1>1, <1>t DEF Begin, TypeOK, tables
  <2>2. BareOK(q)'
    BY <1>1, <2>1 DEF BareOK
  <2> QED
    BY <2>1, <2>2, BareLocal
<1>2. ASSUME NEW q \in Requests, Finish(q), UNCHANGED <<reliable, factors>> PROVE BInv'
  <2>1. /\ op'[q] = "none"
        /\ \A p \in Requests \ {q} : /\ pc'[p] = pc[p] /\ op'[p] = op[p] /\ user'[p] = user[p]
                                     /\ found'[p] = found[p] /\ bare'[p] = bare[p]
    BY <1>2, <1>t DEF Finish, TypeOK
  <2>2. BareOK(q)'
    BY <2>1 DEF BareOK
  <2> QED
    BY <1>2, <2>1, <2>2, BareLocal
<1>3. ASSUME NEW q \in Requests, NEW label, Goto(q, label),
             UNCHANGED <<reliable, tables, history>>,
             \A p \in Requests \ {q} : found'[p] = found[p],
             op[q] = "login" =>
               /\ label # "readEmail" \/ ("totp" \in factors[user[q]] => "totp" \in found'[q])
               /\ label \in {"readRoles", "issue"} => bare[q]
      PROVE  BInv'
  <2>1. /\ pc'[q] = label
        /\ \A p \in Requests \ {q} : pc'[p] = pc[p]
        /\ UNCHANGED <<op, user, bare, factors, reliable>>
    BY <1>3, <1>t DEF Goto, TypeOK, request, tables, history
  <2>2. BareOK(q)'
    BY <1>3, <1>o, <2>1 DEF BareOK
  <2> QED
    BY <1>3, <2>1, <2>2, BareLocal
<1>4. ASSUME NEW q \in Requests, Management(q) PROVE BInv'
  BY <1>1, <1>2, <1>4
     DEF Management, RegisterExists, CreateUser, Manage, UpdateWrite, DeleteWrite, AssignWrite,
         RemoveWrite, SetStatus, SetRoles, SetNothing, tables
<1>5. ASSUME NEW q \in Requests, LoginReadTotp(q) PROVE BInv'
  <2>1. /\ Goto(q, "readEmail") /\ UNCHANGED <<reliable, tables, history>>
        /\ found' = [found EXCEPT ![q] = @ \cup (factors[user[q]] \cap {"totp"})]
    BY <1>5, <1>o DEF LoginReadTotp, ReadFactor
  <2>2. /\ \A p \in Requests \ {q} : found'[p] = found[p]
        /\ found'[q] = found[q] \cup (factors[user[q]] \cap {"totp"})
    BY <1>t, <2>1 DEF TypeOK
  <2> QED
    BY <1>3, <2>1, <2>2
<1>6. ASSUME NEW q \in Requests, LoginReadEmail(q) PROVE BInv'
  <2>1. /\ Goto(q, IF found'[q] # {} THEN "write" ELSE "readRoles")
        /\ UNCHANGED <<reliable, tables, history>> /\ pc[q] = "readEmail"
        /\ found' = [found EXCEPT ![q] = @ \cup (factors[user[q]] \cap {"email"})]
    BY <1>6, <1>o DEF LoginReadEmail, ReadFactor
  <2>2. /\ \A p \in Requests \ {q} : found'[p] = found[p]
        /\ found'[q] = found[q] \cup (factors[user[q]] \cap {"email"})
    BY <1>t, <2>1 DEF TypeOK
  <2>3. op[q] = "login" /\ found'[q] = {} => bare[q]
    <3>1. op[q] = "login" => factors[user[q]] \subseteq {"totp", "email"}
      BY <1>o, <1>t DEF ShapeOK, TypeOK, Factors
    <3>2. op[q] = "login" /\ found'[q] = {} => factors[user[q]] = {}
      BY <1>o, <2>1, <2>2, <3>1 DEF BareOK
    <3> QED
      BY <1>o, <3>2 DEF BareOK
  <2> QED
    BY <1>3, <2>1, <2>2, <2>3
<1>7. ASSUME NEW q \in Requests, VerifyReadUser(q) \/ ReadRoles(q) PROVE BInv'
  <2>1. op[q] = "login" => pc[q] \in LoginLabels
    BY <1>o DEF ShapeOK
  <2>2. CASE VerifyReadUser(q)
    <3>1. op[q] # "login"
      BY <2>1, <2>2 DEF VerifyReadUser, LoginLabels
    <3> QED
      BY <1>2, <1>3, <2>2, <3>1 DEF VerifyReadUser, SetNothing, tables
  <2>3. CASE ReadRoles(q)
    <3>1. /\ pc[q] = "readRoles" /\ Goto(q, "issue")
          /\ UNCHANGED <<reliable, tables, found, history>>
      BY <2>3 DEF ReadRoles
    <3> QED
      BY <1>3, <1>o, <3>1 DEF BareOK
  <2> QED
    BY <1>7, <2>2, <2>3
<1>8. ASSUME NEW q \in Requests, Tokens(q) \/ Fail(q) PROVE BInv'
  BY <1>1, <1>2, <1>5, <1>6, <1>7, <1>8
     DEF Tokens, LoginReadUser, VerifyBegin, IssuePending2FA, IssueAccess, Fail, SetNothing, tables
<1>9. ASSUME NEW u \in Users, NEW newFactors \in SUBSET Factors, ChangeFactors(u, newFactors)
      PROVE  BInv'
  <2>1. /\ UNCHANGED <<reliable, pc, op, user, found>>
        /\ \A v \in Users : factors'[v] = IF v = u THEN newFactors ELSE factors[v]
        /\ \A q \in Requests : bare'[q] = (bare[q] \/
                (op[q] = "login" /\ user[q] = u /\ newFactors = {}))
    BY <1>9, <1>t DEF ChangeFactors, TypeOK, locals, request
  <2>2. factors' # factors
    BY <1>9, <1>t DEF ChangeFactors, TypeOK
  <2>3. AppNotEnabledBetweenReads
    BY <2>2 DEF vars, tables
  <2>4. ASSUME NEW q \in Requests, op[q] = "login" PROVE BareOK(q)'
    <3>1. user[q] \in Users
      BY <1>o, <2>4 DEF ShapeOK
    <3>2. bare[q] => bare'[q]
      BY <2>1
    <3>3. factors'[user[q]] = {} => bare'[q]
      BY <1>o, <2>1, <2>4, <3>1 DEF BareOK
    <3>4. pc[q] = "readEmail" /\ "totp" \in factors'[user[q]] => "totp" \in found[q]
      BY <1>o, <2>3, <2>4 DEF AppNotEnabledBetweenReads, BareOK
    <3> QED
      BY <1>o, <2>1, <2>4, <3>2, <3>3, <3>4 DEF BareOK
  <2>5. ASSUME NEW q \in Requests, op[q] # "login" PROVE BareOK(q)'
    BY <2>1, <2>5 DEF BareOK
  <2> QED
    BY <1>o, <2>1, <2>4, <2>5 DEF BInv
<1>10. ASSUME NEW u \in Users, PendingExpires(u) PROVE BInv'
  BY <1>10 DEF PendingExpires, BInv, BareOK, locals, request, history, tables
<1>11. CASE UNCHANGED vars
  BY <1>11 DEF vars, BInv, BareOK, locals, request, history, tables
<1> QED
  BY <1>4, <1>8, <1>9, <1>10, <1>11 DEF Next

(* Unless the app is enabled between the two reads of a login, or a read   *)
(* fails, a login without a second factor had a moment without one.        *)
THEOREM FactorsAreAsked ==
  Spec /\ reliable /\ [][AppNotEnabledBetweenReads]_vars => FactorIsAsked
<1>1. ASSUME IInv, BInv, NEW q \in Requests, IssueAccess(q) /\ op[q] = "login"
      PROVE  bare[q]
  BY <1>1 DEF BInv, BareOK, IssueAccess
<1>2. IInv /\ BInv => [\A q \in Requests : IssueAccess(q) /\ op[q] = "login" => bare[q]]_vars
  BY <1>1
<1> QED
  BY <1>2, Invariance, BInvInit, BInvStep, PTL DEF Spec, FactorIsAsked
=============================================================================
