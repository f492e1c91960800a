---------------------------- MODULE PasswordReset ----------------------------
(***************************************************************************)
(* internal/auth/password_reset.go for one account.  The reset request     *)
(* lives in three rows of users_meta (auth.reset.token_hash, .expires_at,  *)
(* .used), which ForgotPassword and ResetPassword read and write one       *)
(* statement at a time, without a transaction.  Each action below is one   *)
(* such statement with the decision taken on its result.                   *)
(*                                                                         *)
(* Links are numbered in the order their tokens are generated; a client    *)
(* can present a link only after it was mailed, and any other token fails  *)
(* the comparison with the stored hash.                                    *)
(*                                                                         *)
(* Expiries are stored as RFC 3339 text, cut to whole seconds; the clock   *)
(* is the real time cut in the same way, so that within the very second of *)
(* an expiry time.Now().After(expires) may have either answer.             *)
(***************************************************************************)
EXTENDS Naturals

CONSTANTS
  Forgots,           \* ForgotPassword calls that may be in flight together
  Resets,            \* ResetPassword calls that may be in flight together
  resetTokenExpiry,  \* one hour in the code, here in clock ticks
  MaxLinks,          \* bounds the links generated
  MaxTime            \* bounds the clock

ASSUME ResetAssumption ==
  /\ resetTokenExpiry \in Nat \ {0}
  /\ MaxLinks \in Nat
  /\ MaxTime \in Nat

Requests == Forgots \cup Resets
Links    == 1 .. MaxLinks
Missing  == 0   \* no such row in users_meta; no link

VARIABLES
  calm,       \* whether requests come one at a time and none fails
  tokenHash,  \* auth.reset.token_hash: the link it is the hash of
  expiresAt,  \* auth.reset.expires_at
  used,       \* whether auth.reset.used is "true"
  now,        \* the wall clock
  pc,         \* pc[q]: the statement request q executes next
  link,       \* link[q]: the link it generated, or was given
  time,       \* time[q]: the expiry to store, or when expiry was checked
  generated,  \* history: how many links were generated
  bornAt,     \* history: when each was
  rivals,     \* history: rivals[l]: the links whose ForgotPassword calls
              \* were in flight together with that of l
  mailed,     \* history: the links sent to the account's address
  consumed,   \* history: the links that have set a password
  done,       \* history: the links marked as used afterwards, when
              \* no ForgotPassword of a rival was in flight any more
  seen,       \* history: seen[q]: the links mailed before reset q began
  doneBefore  \* history: done when q read the used flag

stored  == <<tokenHash, expiresAt, used>>
locals  == <<pc, link, time, seen, doneBefore>>
history == <<generated, bornAt, rivals, mailed, consumed, done>>
vars    == <<calm, stored, now, locals, history>>

ForgotLabels == {"setHash", "setExpires", "clearUsed", "mail"}
ResetLabels  == {"readUsed", "readExpires", "readHash", "update", "markUsed"}
Labels       == {"idle"} \cup ForgotLabels \cup ResetLabels

Init ==
  /\ calm \in BOOLEAN
  /\ tokenHash = Missing
  /\ expiresAt = Missing
  /\ used = FALSE
  /\ now = 0
  /\ pc = [q \in Requests |-> "idle"]
  /\ link = [q \in Requests |-> Missing]
  /\ time = [q \in Requests |-> 0]
  /\ seen = [q \in Requests |-> {}]
  /\ generated = 0
  /\ bornAt = [l \in Links |-> 0]
  /\ rivals = [l \in Links |-> {}]
  /\ mailed = {}
  /\ consumed = {}
  /\ done = {}
  /\ doneBefore = [q \in Requests |-> {}]

(* A request may begin: in calm times when no other is in flight.          *)
MayBegin(q) ==
  /\ pc[q] = "idle"
  /\ calm => \A p \in Requests : pc[p] = "idle"

Goto(q, label) ==
  /\ pc' = [pc EXCEPT ![q] = label]
  /\ UNCHANGED <<link, time, seen, doneBefore>>

Finish(q) ==
  /\ pc' = [pc EXCEPT ![q] = "idle"]
  /\ link' = [link EXCEPT ![q] = Missing]
  /\ time' = [time EXCEPT ![q] = 0]
  /\ seen' = [seen EXCEPT ![q] = {}]
  /\ doneBefore' = [doneBefore EXCEPT ![q] = {}]

-----------------------------------------------------------------------------
(* ForgotPassword: generate a token, compute its expiry, store hash and    *)
(* expiry, drop the used flag, mail the link.                              *)

(* The links whose ForgotPassword is in flight.                            *)
Pending == {link[f] : f \in {f \in Forgots : pc[f] \in ForgotLabels}}

(* A new link and the pending ones become rivals of each other.            *)
Rival(l) ==
  rivals' = [k \in Links |->
               IF k = l THEN Pending
               ELSE IF k \in Pending THEN rivals[k] \cup {l} ELSE rivals[k]]

(* The definitions called Slip... are plausible slips in the code; each is *)
(* used only to see that some property notices it.                         *)

SlipForgotMailsFirst(q) ==
  /\ MayBegin(q)
  /\ generated < MaxLinks
  /\ generated' = generated + 1
  /\ bornAt' = [bornAt EXCEPT ![generated + 1] = now]
  /\ Rival(generated + 1)
  /\ mailed' = mailed \cup {generated + 1}
  /\ pc' = [pc EXCEPT ![q] = "setHash"]
  /\ link' = [link EXCEPT ![q] = generated + 1]
  /\ time' = [time EXCEPT ![q] = now + resetTokenExpiry]
  /\ UNCHANGED <<stored, now, seen, doneBefore, consumed, done>>

ForgotBegin(q) ==
  /\ MayBegin(q)
  /\ generated < MaxLinks
  /\ generated' = generated + 1
  /\ bornAt' = [bornAt EXCEPT ![generated + 1] = now]
  /\ Rival(generated + 1)
  /\ pc' = [pc EXCEPT ![q] = "setHash"]
  /\ link' = [link EXCEPT ![q] = generated + 1]
  /\ time' = [time EXCEPT ![q] = now + resetTokenExpiry]
  /\ UNCHANGED <<stored, now, seen, doneBefore, mailed, consumed, done>>

SlipForgotSetHashStoresExpiry(q) ==
  /\ pc[q] = "setHash"
  /\ tokenHash' = time[q]
  /\ Goto(q, "setExpires")
  /\ UNCHANGED <<expiresAt, used, now, history>>

ForgotSetHash(q) ==
  /\ pc[q] = "setHash"
  /\ tokenHash' = link[q]
  /\ Goto(q, "setExpires")
  /\ UNCHANGED <<expiresAt, used, now, history>>

ForgotSetExpires(q) ==
  /\ pc[q] = "setExpires"
  /\ expiresAt' = time[q]
  /\ Goto(q, "clearUsed")
  /\ UNCHANGED <<tokenHash, used, now, history>>

SlipForgotKeepsUsed(q) ==
  /\ pc[q] = "clearUsed"
  /\ Goto(q, "mail")
  /\ UNCHANGED <<stored, now, history>>

(* The error of the Delete is ignored: the link is mailed all the same.    *)
ForgotClearUsed(q) ==
  /\ pc[q] = "clearUsed"
  /\ used' = FALSE \/ (~calm /\ used' = used)
  /\ Goto(q, "mail")
  /\ UNCHANGED <<tokenHash, expiresAt, now, history>>

ForgotMail(q) ==
  /\ pc[q] = "mail"
  /\ mailed' = mailed \cup {link[q]}
  /\ Finish(q)
  /\ UNCHANGED <<stored, now, generated, bornAt, rivals, consumed, done>>

-----------------------------------------------------------------------------
(* ResetPassword: refuse a used, expired or different link; set the        *)
(* password; only then mark the link as used.                              *)

ResetBegin(q, l) ==
  /\ MayBegin(q)
  /\ pc' = [pc EXCEPT ![q] = "readUsed"]
  /\ link' = [link EXCEPT ![q] = l]
  /\ seen' = [seen EXCEPT ![q] = mailed]
  /\ UNCHANGED <<stored, now, time, doneBefore, history>>

(* The error of this Get is ignored: a failing read counts as not used.    *)
ResetReadUsed(q) ==
  /\ pc[q] = "readUsed"
  /\ \/ /\ ~used
        /\ pc' = [pc EXCEPT ![q] = "readExpires"]
        /\ doneBefore' = [doneBefore EXCEPT ![q] = done]
        /\ UNCHANGED <<link, time, seen>>
     \/ ~calm /\ Goto(q, "readExpires")
     \/ used /\ Finish(q)
  /\ UNCHANGED <<stored, now, history>>

ResetReadExpires(q) ==
  /\ pc[q] = "readExpires"
  /\ \/ /\ expiresAt = Missing \/ now >= expiresAt
        /\ Finish(q)
     \/ /\ expiresAt # Missing /\ now <= expiresAt
        /\ pc' = [pc EXCEPT ![q] = "readHash"]
        /\ time' = [time EXCEPT ![q] = now]
        /\ UNCHANGED <<link, seen, doneBefore>>
  /\ UNCHANGED <<stored, now, history>>

ResetReadHash(q) ==
  /\ pc[q] = "readHash"
  /\ IF tokenHash = link[q] THEN Goto(q, "update") ELSE Finish(q)
  /\ UNCHANGED <<stored, now, history>>

ResetUpdatePassword(q) ==
  /\ pc[q] = "update"
  /\ consumed' = consumed \cup {link[q]}
  /\ Goto(q, "markUsed")
  /\ UNCHANGED <<stored, now, generated, bornAt, rivals, mailed, done>>

(* Nobody is left who could drop the flag of link l.                       *)
Settled(l) == rivals[l] \cap Pending = {}

Complete(l) == done' = IF Settled(l) THEN done \cup {l} ELSE done

SlipResetLeavesUnused(q) ==
  /\ pc[q] = "markUsed"
  /\ Complete(link[q])
  /\ Finish(q)
  /\ UNCHANGED <<stored, now, generated, bornAt, rivals, mailed, consumed>>

ResetMarkUsed(q) ==
  /\ pc[q] = "markUsed"
  /\ used' = TRUE
  /\ Complete(link[q])
  /\ Finish(q)
  /\ UNCHANGED <<tokenHash, expiresAt, now, generated, bornAt, rivals, mailed, consumed>>

(* A statement whose error is returned fails, or the process crashes.      *)
Fail(q) ==
  /\ ~calm
  /\ pc[q] # "idle"
  /\ Finish(q)
  /\ UNCHANGED <<stored, now, history>>

Tick ==
  /\ now < MaxTime
  /\ now' = now + 1
  /\ UNCHANGED <<stored, locals, history>>

SlipForgotSetsExpiryFirst(q) ==
  \/ ForgotBegin(q)
  \/ /\ pc[q] = "setHash"
     /\ expiresAt' = time[q]
     /\ Goto(q, "setExpires")
     /\ UNCHANGED <<tokenHash, used, now, history>>
  \/ /\ pc[q] = "setExpires"
     /\ tokenHash' = link[q]
     /\ Goto(q, "clearUsed")
     /\ UNCHANGED <<expiresAt, used, now, history>>
  \/ ForgotClearUsed(q)
  \/ ForgotMail(q)

Forgot(q) ==
  \/ ForgotBegin(q)
  \/ ForgotSetHash(q)
  \/ ForgotSetExpires(q)
  \/ ForgotClearUsed(q)
  \/ ForgotMail(q)

Reset(q) ==
  \/ \E l \in mailed : ResetBegin(q, l)
  \/ ResetReadUsed(q)
  \/ ResetReadExpires(q)
  \/ ResetReadHash(q)
  \/ ResetUpdatePassword(q)
  \/ ResetMarkUsed(q)

Next ==
  /\ \/ \E q \in Forgots : Forgot(q)
     \/ \E q \in Resets : Reset(q)
     \/ \E q \in Requests : Fail(q)
     \/ Tick
  /\ UNCHANGED calm

Spec == Init /\ [][Next]_vars

-----------------------------------------------------------------------------
(* Properties.                                                             *)

(* Every variable has its type.                                            *)
TypeOK ==
  /\ calm \in BOOLEAN
  /\ tokenHash \in Links \cup {Missing}
  /\ expiresAt \in Nat
  /\ used \in BOOLEAN
  /\ now \in Nat
  /\ pc \in [Requests -> Labels]
  /\ link \in [Requests -> Links \cup {Missing}]
  /\ time \in [Requests -> Nat]
  /\ seen \in [Requests -> SUBSET Links]
  /\ generated \in 0 .. MaxLinks
  /\ bornAt \in [Links -> Nat]
  /\ rivals \in [Links -> SUBSET Links]
  /\ mailed \subseteq Links
  /\ consumed \subseteq Links
  /\ done \subseteq Links
  /\ doneBefore \in [Requests -> SUBSET Links]

(* The link and those that were being issued at the same time.             *)
Siblings(l) == {l} \cup rivals[l]

(* "Der Link ist 1 Stunde gültig" (docs/password-reset.md): a link that    *)
(* sets a password was checked within its own hour or, when its            *)
(* ForgotPassword overlapped others, which may store hash and expiry in    *)
(* different orders, within the hour of one of those.  No later request    *)
(* lends it an expiry, even while it replaces it: ForgotPassword writes    *)
(* the hash before the expiry, ResetPassword reads the expiry before it.   *)
LinkExpires ==
  [][\A q \in Resets : ResetUpdatePassword(q) =>
       \E l \in Siblings(link[q]) : time[q] <= bornAt[l] + resetTokenExpiry]_vars

(* Once a newer link has been mailed, a reset begun with an older one      *)
(* sets no password, unless the two were being issued at the same time     *)
(* (then either may be the one whose hash is stored).                      *)
SupersededLinkIsDead ==
  [][\A q \in Resets : ResetUpdatePassword(q) =>
       \A l \in seen[q] : l <= link[q] \/ l \in rivals[link[q]]]_vars

(* "Single-Use" (docs/password-reset.md): no link sets a password twice.   *)
SingleUse ==
  [][\A q \in Resets : ResetUpdatePassword(q) => link[q] \notin consumed]_vars

(* What is left of SingleUse when requests overlap and fail: a link whose  *)
(* reset has been completed sets no password for a reset that reads the    *)
(* used flag later, although later ForgotPassword calls drop that flag.    *)
(* Only one that was in flight together with the link's own, and still is  *)
(* when the reset completes, may drop the flag once more (see done).       *)
CompletedLinkIsDead ==
  [][\A q \in Resets : ResetUpdatePassword(q) => link[q] \notin doneBefore[q]]_vars

(* "reset link has already been used" (password_reset.go) is answered only *)
(* for links that have been, while requests come one at a time and none    *)
(* fails: the link in the mail works, whatever happened to earlier ones.   *)
RefusedOnlyIfUsed ==
  calm /\ used /\ tokenHash \in mailed => tokenHash \in consumed
=============================================================================
