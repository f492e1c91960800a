-------------------------------- MODULE Totp --------------------------------
(***************************************************************************)
(* The authenticator-app factor of internal/auth/totp.go for one account:  *)
(* its row of user_totp_secrets and the requests that work on it.          *)
(*                                                                         *)
(* Every handler reads the row in one statement, decides in memory, and    *)
(* writes the WHOLE row back in another (UpsertTOTPSecret lists every      *)
(* column).  No transaction spans the two, so any step of another request  *)
(* may come between them.  A handler is therefore a read step, which keeps *)
(* a copy of the row in held[r], and an upsert step, which writes a row    *)
(* built from that copy whatever the table holds by then.                  *)
(*                                                                         *)
(* A call that is refused without writing (409, 404, 401, 403, 422) leaves *)
(* everything as it was; where the refusal comes from the first read it is *)
(* not a step.  verified_at and last_used_at are left out: no code reads   *)
(* them.  A secret stands for itself, its ciphertext, and the device that  *)
(* was enrolled with it.                                                   *)
(***************************************************************************)
EXTENDS Naturals

CONSTANTS
  Requests,           \* the requests that may be in flight at the same time
  Secrets,            \* bounds the calls of Setup2FA: each takes a fresh one
  NoSecret,           \* no row; as a code, one that fits no secret
  recoveryCodeCount,  \* 10 in the code
  maxFailedAttempts,  \* 5 in the code
  lockoutDuration,    \* 15 minutes in the code, here in clock ticks
  MaxTime             \* bounds the clock

ASSUME SecretsAssumption == NoSecret \notin Secrets
ASSUME ThresholdAssumption ==
  /\ recoveryCodeCount \in Nat
  /\ maxFailedAttempts \in Nat \ {0}
  /\ lockoutDuration \in Nat \ {0}
  /\ MaxTime \in Nat

VARIABLES
  calm,       \* whether requests come one at a time, and no read fails
              \* whose error is ignored
  row,        \* the account's row of user_totp_secrets
  now,        \* the wall clock of the API process
  op,         \* op[r]: the handler request r is in
  pc,         \* pc[r]: the statement it executes next
  held,       \* held[r]: the row it holds in memory
  given,      \* given[r]: the code the client sent
  issued,     \* history: the secrets Setup2FA has stored
  confirmed,  \* history: the secrets whose device passed Confirm2FA
  spent       \* history: the recovery codes a client has redeemed

locals  == <<op, pc, held, given>>
history == <<issued, confirmed, spent>>
vars    == <<calm, row, now, locals, history>>

-----------------------------------------------------------------------------
(* The row.  A missing row reads as Go's zero value, and pgx.ErrNoRows is  *)
(* its missing secret.  lockedUntil = NotLocked stands for NULL.           *)

NotLocked == 0

RecoveryCodes == Secrets \X (1 .. recoveryCodeCount)

(* The definitions called Slip... are plausible slips in the code; each is *)
(* used only to see that some property notices it.                         *)

SlipCodesFromZero(s) == {s} \X (0 .. recoveryCodeCount)

CodesOf(s)    == {s} \X (1 .. recoveryCodeCount)

Rows == [secret         : Secrets \cup {NoSecret},
         isEnabled      : BOOLEAN,
         recoveryCodes  : SUBSET RecoveryCodes,
         failedAttempts : Nat,
         lockedUntil    : Nat]

NoRow == [secret         |-> NoSecret,
          isEnabled      |-> FALSE,
          recoveryCodes  |-> {},
          failedAttempts |-> 0,
          lockedUntil    |-> NotLocked]

SlipFreshRowKeepsCodes(s) ==
  [NoRow EXCEPT !.secret = s, !.recoveryCodes = CodesOf(s) \cup row.recoveryCodes]

FreshRow(s) == [secret         |-> s,
                isEnabled      |-> FALSE,
                recoveryCodes  |-> CodesOf(s),
                failedAttempts |-> 0,
                lockedUntil    |-> NotLocked]

ConfirmedRow(old) == [old EXCEPT !.isEnabled      = TRUE,
                                 !.failedAttempts = 0,
                                 !.lockedUntil    = NotLocked]

VerifiedRow(old) == [old EXCEPT !.isEnabled      = TRUE,
                                !.failedAttempts = 0,
                                !.lockedUntil    = NotLocked]

SlipRejectedRowLocksLate(old, time) ==
  LET failed == old.failedAttempts + 1
  IN  [old EXCEPT !.failedAttempts = failed,
                  !.lockedUntil    = IF failed > maxFailedAttempts
                                       THEN time + lockoutDuration
                                       ELSE NotLocked]

RejectedRow(old, time) ==
  LET failed == old.failedAttempts + 1
  IN  [old EXCEPT !.isEnabled      = TRUE,
                  !.failedAttempts = failed,
                  !.lockedUntil    = IF failed >= maxFailedAttempts
                                       THEN time + lockoutDuration
                                       ELSE NotLocked]

SlipRecoveredRowKeepsCode(old, code) ==
  [old EXCEPT !.failedAttempts = 0, !.lockedUntil = NotLocked]

SlipRecoveredRowTruncates(old, code) ==
  [old EXCEPT !.failedAttempts = 0,
              !.lockedUntil    = NotLocked,
              !.recoveryCodes  = {c \in @ : c[2] < code[2]}]

RecoveredRow(old, code) ==
  [old EXCEPT !.isEnabled      = TRUE,
              !.failedAttempts = 0,
              !.lockedUntil    = NotLocked,
              !.recoveryCodes  = @ \ {code}]

IsLocked(aRow, time) == aRow.lockedUntil # NotLocked /\ time < aRow.lockedUntil

(* Validate(code, secret) of the TOTP library, for the code of a device.   *)
Validate(code, secret) == code = secret

-----------------------------------------------------------------------------
(* Requests.                                                               *)

Ops == {"none", "setup", "confirm", "verify", "recover", "disable"}
Pcs == {"idle", "check", "upsert", "delete"}

At(r, handlers, label) == op[r] \in handlers /\ pc[r] = label

(* A request begins: in calm times when no other is in flight.             *)
Begin(r, handler, label, aRow, code) ==
  /\ pc[r] = "idle"
  /\ calm => \A q \in Requests : pc[q] = "idle"
  /\ op'    = [op EXCEPT ![r] = handler]
  /\ pc'    = [pc EXCEPT ![r] = label]
  /\ held'  = [held EXCEPT ![r] = aRow]
  /\ given' = [given EXCEPT ![r] = code]

Continue(r, label, aRow) ==
  /\ pc'   = [pc EXCEPT ![r] = label]
  /\ held' = [held EXCEPT ![r] = aRow]
  /\ UNCHANGED <<op, given>>

Finish(r) ==
  /\ op'    = [op EXCEPT ![r] = "none"]
  /\ pc'    = [pc EXCEPT ![r] = "idle"]
  /\ held'  = [held EXCEPT ![r] = NoRow]
  /\ given' = [given EXCEPT ![r] = NoSecret]

Init ==
  /\ calm \in BOOLEAN
  /\ row = NoRow
  /\ now = 0
  /\ op = [r \in Requests |-> "none"]
  /\ pc = [r \in Requests |-> "idle"]
  /\ held = [r \in Requests |-> NoRow]
  /\ given = [r \in Requests |-> NoSecret]
  /\ issued = {}
  /\ confirmed = {}
  /\ spent = {}

-----------------------------------------------------------------------------
(* Setup2FA: refuse if the row read is enabled, then store a fresh secret  *)
(* and fresh recovery codes, not enabled.  The error of the read is        *)
(* ignored: a missing row, and a row that could not be read, count as not  *)
(* enabled.                                                                *)

SetupRead(r) ==
  /\ ~row.isEnabled \/ ~calm
  /\ Begin(r, "setup", "upsert", NoRow, NoSecret)
  /\ UNCHANGED <<row, now, history>>

SetupUpsert(r) ==
  /\ At(r, {"setup"}, "upsert")
  /\ \E s \in Secrets \ issued :
       /\ row' = FreshRow(s)
       /\ issued' = issued \cup {s}
  /\ Finish(r)
  /\ UNCHANGED <<now, confirmed, spent>>

(* Confirm2FA: a valid code for the row read, which is not enabled, writes *)
(* that row back enabled.                                                  *)

ConfirmRead(r, code) ==
  /\ row.secret # NoSecret
  /\ ~row.isEnabled
  /\ Validate(code, row.secret)
  /\ Begin(r, "confirm", "upsert", ConfirmedRow(row), code)
  /\ confirmed' = confirmed \cup {row.secret}
  /\ UNCHANGED <<row, now, issued, spent>>

ConfirmUpsert(r) ==
  /\ At(r, {"confirm"}, "upsert")
  /\ row' = held[r]
  /\ Finish(r)
  /\ UNCHANGED <<now, history>>

(* Verify2FA, called at login ("verify") and by Disable2FA ("disable"):    *)
(* read an enabled row; compare its lock with the clock; write it back     *)
(* with the counter reset or raised.                                       *)

SlipVerifyReadAnyRow(r, handler, code) ==
  /\ row.secret # NoSecret
  /\ Begin(r, handler, "check", row, code)
  /\ UNCHANGED <<row, now, history>>

VerifyRead(r, handler, code) ==
  /\ row.isEnabled
  /\ Begin(r, handler, "check", row, code)
  /\ UNCHANGED <<row, now, history>>

SlipVerifyCheckIgnoresLock(r) ==
  /\ At(r, {"verify", "disable"}, "check")
  /\ Continue(r, "upsert", IF Validate(given[r], held[r].secret)
                             THEN VerifiedRow(held[r])
                             ELSE RejectedRow(held[r], now))
  /\ UNCHANGED <<row, now, history>>

VerifyCheck(r) ==
  /\ At(r, {"verify", "disable"}, "check")
  /\ IF IsLocked(held[r], now)
       THEN Finish(r)
       ELSE Continue(r, "upsert",
                     IF Validate(given[r], held[r].secret)
                       THEN VerifiedRow(held[r])
                       ELSE RejectedRow(held[r], now))
  /\ UNCHANGED <<row, now, history>>

VerifyUpsert(r) ==
  /\ At(r, {"verify", "disable"}, "upsert")
  /\ row' = held[r]
  /\ IF op[r] = "disable" /\ Validate(given[r], held[r].secret)
       THEN Continue(r, "delete", NoRow)
       ELSE Finish(r)
  /\ UNCHANGED <<now, history>>

(* The rest of Disable2FA: the verified caller's DELETE.                   *)

DisableDelete(r) ==
  /\ At(r, {"disable"}, "delete")
  /\ row' = NoRow
  /\ Finish(r)
  /\ UNCHANGED <<now, history>>

(* ConsumeRecoveryCode: find the code in the row read, and write that row  *)
(* back without it.  The lock is neither read nor kept.                    *)

RecoverRead(r, code) ==
  /\ row.isEnabled
  /\ code \in row.recoveryCodes
  /\ Begin(r, "recover", "upsert", RecoveredRow(row, code), code)
  /\ UNCHANGED <<row, now, history>>

RecoverUpsert(r) ==
  /\ At(r, {"recover"}, "upsert")
  /\ row' = held[r]
  /\ spent' = spent \cup {given[r]}
  /\ Finish(r)
  /\ UNCHANGED <<now, issued, confirmed>>

(* A call fails between two statements: a database error, a cancelled      *)
(* request, a failing GetUser or Encrypt, or the process crashes.          *)

Fail(r) ==
  /\ pc[r] # "idle"
  /\ Finish(r)
  /\ UNCHANGED <<row, now, history>>

Tick ==
  /\ now < MaxTime
  /\ now' = now + 1
  /\ UNCHANGED <<row, locals, history>>

Next ==
  /\ \/ \E r \in Requests :
          \/ SetupRead(r)
          \/ SetupUpsert(r)
          \/ ConfirmUpsert(r)
          \/ VerifyCheck(r)
          \/ VerifyUpsert(r)
          \/ DisableDelete(r)
          \/ RecoverUpsert(r)
          \/ Fail(r)
          \/ \E code \in Secrets \cup {NoSecret} :
               \/ ConfirmRead(r, code)
               \/ \E handler \in {"verify", "disable"} : VerifyRead(r, handler, code)
          \/ \E code \in RecoveryCodes : RecoverRead(r, code)
     \/ Tick
  /\ UNCHANGED calm

Spec == Init /\ [][Next]_vars

-----------------------------------------------------------------------------
(* Properties.                                                             *)

(* Every variable has its type.                                            *)
TypeOK ==
  /\ calm \in BOOLEAN
  /\ row \in Rows
  /\ now \in 0 .. MaxTime
  /\ op \in [Requests -> Ops]
  /\ pc \in [Requests -> Pcs]
  /\ held \in [Requests -> Rows]
  /\ given \in [Requests -> Secrets \cup {NoSecret} \cup RecoveryCodes]
  /\ issued \subseteq Secrets
  /\ confirmed \subseteq Secrets
  /\ spent \subseteq RecoveryCodes

(* Whatever the handlers overwrite for each other, an active factor is one *)
(* whose device passed Confirm2FA: Setup2FA's secret never becomes active  *)
(* through the isEnabled = TRUE that Verify2FA and ConsumeRecoveryCode     *)
(* write unconditionally.                                                  *)
EnabledWasConfirmed == row.isEnabled => row.secret \in confirmed

(* The recovery codes in the row are codes of the batch shown together     *)
(* with its secret: racing set-ups never mix two enrolments.               *)
CodesBelongToSecret == row.recoveryCodes \subseteq CodesOf(row.secret)

(* No race of stale upserts drops a recovery code: those missing from the  *)
(* row have been redeemed.  (The upsert that redeems a code spends it,     *)
(* even if the request fails afterwards and issues no token.)              *)
NoCodeIsLost ==
  row.secret # NoSecret => CodesOf(row.secret) \ row.recoveryCodes \subseteq spent

(* A stored counter at the threshold carries a lock, a lock implies a      *)
(* counter at the threshold, and no lock reaches further than one lockout  *)
(* from now.                                                               *)
LockMatchesCounter ==
  /\ row.lockedUntil # NotLocked <=> row.failedAttempts >= maxFailedAttempts
  /\ row.lockedUntil <= now + lockoutDuration

(* "Each code can be used only once" (docs/api/auth.md): no redemption of  *)
(* a code that has been redeemed.                                          *)
RecoveryCodeSingleUse ==
  [][\A r \in Requests : RecoverUpsert(r) => given[r] \notin spent]_vars

(* "The account is locked for 15 minutes" (docs/api/auth.md): until the    *)
(* lock expires no step of requests that come one at a time changes the    *)
(* row, except the recovery code of a user who lost the device.            *)
LockHolds ==
  [][calm /\ IsLocked(row, now) /\ row' # row =>
       \E r \in Requests : RecoverUpsert(r)]_vars

(* What the factor promises, and how the row stands for it when requests   *)
(* come one at a time; otherwise nothing is said.                          *)
Factor == INSTANCE SecondFactor
  WITH phase  <- IF ~calm \/ row.secret = NoSecret THEN "none"
                 ELSE IF row.isEnabled THEN "active" ELSE "pending",
       device <- IF calm THEN row.secret ELSE NoSecret,
       codes  <- IF calm THEN row.recoveryCodes ELSE {},
       used   <- IF calm THEN issued ELSE {},
       redeemed <- IF calm THEN spent ELSE {},
       NoDevice <- NoSecret,
       Devices <- Secrets

(* One request at a time, the row implements the second factor: a fresh    *)
(* enrolment, activation by that device, codes redeemed once, removal.     *)
ImplementsSecondFactor == Factor!Spec
=============================================================================
