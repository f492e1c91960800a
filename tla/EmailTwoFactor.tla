--------------------------- MODULE EmailTwoFactor ---------------------------
(***************************************************************************)
(* internal/auth/email2fa.go for one account.  The factor lives in five    *)
(* rows of users_meta, written and deleted one statement at a time; each   *)
(* action below is one statement with the decision taken on its result.    *)
(*                                                                         *)
(* Codes are numbered in the order they are generated.  A client presents  *)
(* a mailed code or a wrong guess (NoCode); two codes never coincide,      *)
(* which the program gets from a choice among a million.                   *)
(*                                                                         *)
(* Times are stored as RFC 3339 text, cut to whole seconds; the clock is   *)
(* the real time cut in the same way, so that within the very second of an *)
(* expiry time.Now().After(expires) may have either answer.                *)
(***************************************************************************)
EXTENDS Naturals

CONSTANTS
  Issuers,            \* calls of SetupEmail2FA and SendEmail2FALoginOTP
  Verifiers,          \* calls of ConfirmEmail2FA and VerifyEmail2FALogin
  Disablers,          \* calls of DisableEmail2FA
  email2faOTPExpiry,  \* 10 minutes in the code, here in clock ticks
  maxFailedAttempts,  \* 5 in the code
  lockoutDuration,    \* 15 minutes in the code, here in clock ticks
  MaxCodes,           \* bounds the codes generated
  MaxGuesses,         \* bounds the wrong guesses compared with each code,
                      \* for calm = TRUE and for calm = FALSE
  MaxTime             \* bounds the clock

ASSUME EmailAssumption ==
  /\ email2faOTPExpiry \in Nat \ {0}
  /\ maxFailedAttempts \in Nat \ {0}
  /\ lockoutDuration \in Nat \ {0}
  /\ MaxCodes \in Nat
  /\ MaxGuesses \in [BOOLEAN -> Nat]
  /\ MaxTime \in Nat

Requests == Issuers \cup Verifiers \cup Disablers
Codes    == 1 .. MaxCodes
Missing  == 0   \* no such row in users_meta
NoCode   == 0   \* no code; as an input, one that was never generated

VARIABLES
  calm,         \* whether requests come one at a time and none fails
  enabled,      \* whether auth.email2fa.enabled is "true"
  otpHash,      \* auth.email2fa.otp_hash: the code it is the hash of
  expiresAt,    \* auth.email2fa.expires_at
  attempts,     \* auth.email2fa.attempts; a missing row counts as 0
  lockedUntil,  \* auth.email2fa.locked_until
  now,          \* the wall clock
  op,           \* op[q]: the operation request q is in
  pc,           \* pc[q]: the statement it executes next
  code,         \* code[q]: the code it generated, or was given
  tries,        \* tries[q]: the value of attempts it has read
  generated,    \* history: how many codes were generated
  rivals,       \* history: rivals[c]: the codes that were being issued
                \* at the same time as c
  storedAt,     \* history: when the expiry of each was stored
  mailed,       \* history: the codes sent to the account's address
  redeemed,     \* history: the codes accepted
  spared,       \* history: those left stored by the delete that follows,
                \* because it failed or was never reached
  guesses,      \* history: wrong guesses compared with each code
  checkedAt,    \* history: when q compared the clock with the expiry,
                \* until it has compared the codes
  seen          \* history: seen[q]: the codes mailed before verification q
                \* began

stored  == <<enabled, otpHash, expiresAt, attempts, lockedUntil>>
locals  == <<op, pc, code, tries, checkedAt, seen>>
history == <<generated, rivals, storedAt, mailed, redeemed, spared, guesses>>
vars    == <<calm, stored, now, locals, history>>

Ops    == {"none", "issue", "confirm", "login", "disable"}
Labels == {"idle",
           "setHash", "setExpires", "mail",
           "readLock", "readExpires", "readHash",
           "readAttempts", "setAttempts", "setLocked",
           "clearEnabled", "clearHash", "clearExpires", "clearAttempts",
           "clearLocked", "setEnabled"}

Init ==
  /\ calm \in BOOLEAN
  /\ enabled = FALSE
  /\ otpHash = Missing
  /\ expiresAt = Missing
  /\ attempts = 0
  /\ lockedUntil = Missing
  /\ now = 0
  /\ op = [q \in Requests |-> "none"]
  /\ pc = [q \in Requests |-> "idle"]
  /\ code = [q \in Requests |-> NoCode]
  /\ tries = [q \in Requests |-> 0]
  /\ checkedAt = [q \in Requests |-> 0]
  /\ seen = [q \in Requests |-> {}]
  /\ generated = 0
  /\ rivals = [c \in Codes |-> {}]
  /\ storedAt = [c \in Codes |-> 0]
  /\ mailed = {}
  /\ redeemed = {}
  /\ spared = {}
  /\ guesses = [c \in Codes |-> 0]

Begin(q, operation, label, c) ==
  /\ pc[q] = "idle"
  /\ calm => \A p \in Requests : pc[p] = "idle"
  /\ op' = [op EXCEPT ![q] = operation]
  /\ pc' = [pc EXCEPT ![q] = label]
  /\ code' = [code EXCEPT ![q] = c]
  /\ seen' = [seen EXCEPT ![q] = IF label = "readLock" THEN mailed ELSE {}]
  /\ UNCHANGED <<tries, checkedAt>>

Goto(q, label) ==
  /\ pc' = [pc EXCEPT ![q] = label]
  /\ checkedAt' = [checkedAt EXCEPT ![q] = 0]
  /\ UNCHANGED <<op, code, tries, seen>>

Finish(q) ==
  /\ op' = [op EXCEPT ![q] = "none"]
  /\ pc' = [pc EXCEPT ![q] = "idle"]
  /\ code' = [code EXCEPT ![q] = NoCode]
  /\ tries' = [tries EXCEPT ![q] = 0]
  /\ checkedAt' = [checkedAt EXCEPT ![q] = 0]
  /\ seen' = [seen EXCEPT ![q] = {}]

-----------------------------------------------------------------------------
(* SetupEmail2FA runs issueEmailOTP unless the factor is enabled, and      *)
(* SendEmail2FALoginOTP (login and resend) if it is: whatever the flag, a  *)
(* client can have a code issued.  The lock is not looked at.              *)

(* The codes that are being issued.                                        *)
Pending == {code[q] : q \in {q \in Requests : op[q] = "issue"}}

(* A new code and the pending ones become rivals of each other.            *)
Rival(c) ==
  rivals' = [d \in Codes |->
               IF d = c THEN Pending
               ELSE IF d \in Pending THEN rivals[d] \cup {c} ELSE rivals[d]]

(* The definitions called Slip... are plausible slips in the code; each is *)
(* used only to see that some property notices it.                         *)

SlipIssueMailsFirst(q) ==
  /\ generated < MaxCodes
  /\ generated' = generated + 1
  /\ mailed' = mailed \cup {generated + 1}
  /\ Rival(generated + 1)
  /\ Begin(q, "issue", "setHash", generated + 1)
  /\ UNCHANGED <<stored, now, storedAt, redeemed, spared, guesses>>

IssueBegin(q) ==
  /\ generated < MaxCodes
  /\ generated' = generated + 1
  /\ Rival(generated + 1)
  /\ Begin(q, "issue", "setHash", generated + 1)
  /\ UNCHANGED <<stored, now, storedAt, mailed, redeemed, spared, guesses>>

SlipIssueSwapsKeys(q) ==
  /\ pc[q] = "setHash"
  /\ otpHash' = now + email2faOTPExpiry
  /\ Goto(q, "setExpires")
  /\ UNCHANGED <<enabled, expiresAt, attempts, lockedUntil, now, history>>

IssueSetHash(q) ==
  /\ pc[q] = "setHash"
  /\ otpHash' = code[q]
  /\ Goto(q, "setExpires")
  /\ UNCHANGED <<enabled, expiresAt, attempts, lockedUntil, now, history>>

IssueSetExpires(q) ==
  /\ pc[q] = "setExpires"
  /\ expiresAt' = now + email2faOTPExpiry
  /\ storedAt' = [storedAt EXCEPT ![code[q]] = now]
  /\ Goto(q, "clearAttempts")
  /\ UNCHANGED <<enabled, otpHash, attempts, lockedUntil, now,
                 generated, rivals, mailed, redeemed, spared, guesses>>

IssueMail(q) ==
  /\ pc[q] = "mail"
  /\ mailed' = mailed \cup {code[q]}
  /\ Finish(q)
  /\ UNCHANGED <<stored, now, generated, rivals, storedAt, redeemed, spared, guesses>>

-----------------------------------------------------------------------------
(* verifyEmailOTP, for ConfirmEmail2FA (factor not yet enabled) and for    *)
(* VerifyEmail2FALogin (enabled).                                          *)

VerifyBegin(q, operation, c) ==
  /\ enabled = (operation = "login")
  /\ Begin(q, operation, "readLock", c)
  /\ UNCHANGED <<stored, now, history>>

SlipVerifyIgnoresLock(q) ==
  /\ pc[q] = "readLock"
  /\ Goto(q, "readExpires")
  /\ UNCHANGED <<stored, now, history>>

(* A failing read of the lock counts as no lock.                           *)
VerifyReadLock(q) ==
  /\ pc[q] = "readLock"
  /\ \/ (now >= lockedUntil \/ ~calm) /\ Goto(q, "readExpires")
     \/ now < lockedUntil /\ Finish(q)
  /\ UNCHANGED <<stored, now, history>>

VerifyReadExpires(q) ==
  /\ pc[q] = "readExpires"
  /\ \/ /\ expiresAt = Missing \/ now >= expiresAt
        /\ Finish(q)
     \/ /\ expiresAt # Missing /\ now <= expiresAt
        /\ pc' = [pc EXCEPT ![q] = "readHash"]
        /\ checkedAt' = [checkedAt EXCEPT ![q] = now]
        /\ UNCHANGED <<op, code, tries, seen>>
  /\ UNCHANGED <<stored, now, history>>

Accepts(q) == pc[q] = "readHash" /\ otpHash # Missing /\ code[q] = otpHash

SlipVerifyLeavesCode(q) ==
  /\ pc[q] = "readHash"
  /\ IF Accepts(q)
       THEN /\ redeemed' = redeemed \cup {code[q]}
            /\ Goto(q, "clearAttempts")
       ELSE Finish(q) /\ UNCHANGED redeemed
  /\ UNCHANGED <<stored, now, generated, rivals, storedAt, mailed, spared, guesses>>

VerifyReadHash(q) ==
  /\ pc[q] = "readHash"
  /\ \/ /\ Accepts(q)
        /\ redeemed' = redeemed \cup {code[q]}
        /\ Goto(q, "clearHash")
        /\ UNCHANGED guesses
     \/ /\ otpHash # Missing /\ ~Accepts(q)
        /\ guesses[otpHash] < MaxGuesses[calm]
        /\ guesses' = [guesses EXCEPT ![otpHash] = @ + 1]
        /\ Goto(q, "readAttempts")
        /\ UNCHANGED redeemed
     \/ /\ otpHash = Missing
        /\ Finish(q)
        /\ UNCHANGED <<redeemed, guesses>>
  /\ UNCHANGED <<stored, now, generated, rivals, storedAt, mailed, spared>>

(* The wrong code: count it and, at the threshold, lock.  The errors of    *)
(* these three statements are ignored.                                     *)
VerifyReadAttempts(q) ==
  /\ pc[q] = "readAttempts"
  /\ pc' = [pc EXCEPT ![q] = "setAttempts"]
  /\ \/ tries' = [tries EXCEPT ![q] = attempts]
     \/ ~calm /\ tries' = [tries EXCEPT ![q] = 0]
  /\ UNCHANGED <<stored, now, op, code, checkedAt, seen, history>>

SlipVerifyLocksLate(q) ==
  /\ pc[q] = "setAttempts"
  /\ attempts' = tries[q] + 1
  /\ IF tries[q] + 1 > maxFailedAttempts THEN Goto(q, "setLocked") ELSE Finish(q)
  /\ UNCHANGED <<enabled, otpHash, expiresAt, lockedUntil, now, history>>

VerifySetAttempts(q) ==
  /\ pc[q] = "setAttempts"
  /\ attempts' = tries[q] + 1 \/ (~calm /\ attempts' = attempts)
  /\ IF tries[q] + 1 >= maxFailedAttempts THEN Goto(q, "setLocked") ELSE Finish(q)
  /\ UNCHANGED <<enabled, otpHash, expiresAt, lockedUntil, now, history>>

VerifySetLocked(q) ==
  /\ pc[q] = "setLocked"
  /\ lockedUntil' = now + lockoutDuration \/ (~calm /\ lockedUntil' = lockedUntil)
  /\ Finish(q)
  /\ UNCHANGED <<enabled, otpHash, expiresAt, attempts, now, history>>

ConfirmSetEnabled(q) ==
  /\ pc[q] = "setEnabled"
  /\ enabled' = TRUE
  /\ Finish(q)
  /\ UNCHANGED <<otpHash, expiresAt, attempts, lockedUntil, now, history>>

-----------------------------------------------------------------------------
(* The deletes.  DisableEmail2FA performs all five and returns an error;   *)
(* an accepted code performs the last four and an issued one the last two, *)
(* both ignoring errors.                                                   *)

DisableBegin(q) ==
  /\ Begin(q, "disable", "clearEnabled", NoCode)
  /\ UNCHANGED <<stored, now, history>>

ErrorIgnored(q) == ~calm /\ op[q] # "disable"

ClearEnabled(q) ==
  /\ pc[q] = "clearEnabled"
  /\ enabled' = FALSE
  /\ Goto(q, "clearHash")
  /\ UNCHANGED <<otpHash, expiresAt, attempts, lockedUntil, now, history>>

(* The request ends its "clearHash" with the accepted code still stored.   *)
Spare(q) ==
  spared' = IF pc[q] = "clearHash" /\ op[q] # "disable" /\ otpHash' = code[q]
              THEN spared \cup {code[q]}
              ELSE spared

ClearHash(q) ==
  /\ pc[q] = "clearHash"
  /\ otpHash' = Missing \/ (ErrorIgnored(q) /\ otpHash' = otpHash)
  /\ Spare(q)
  /\ Goto(q, "clearExpires")
  /\ UNCHANGED <<enabled, expiresAt, attempts, lockedUntil, now,
                 generated, rivals, storedAt, mailed, redeemed, guesses>>

ClearExpires(q) ==
  /\ pc[q] = "clearExpires"
  /\ expiresAt' = Missing \/ (ErrorIgnored(q) /\ expiresAt' = expiresAt)
  /\ Goto(q, "clearAttempts")
  /\ UNCHANGED <<enabled, otpHash, attempts, lockedUntil, now, history>>

ClearAttempts(q) ==
  /\ pc[q] = "clearAttempts"
  /\ attempts' = 0 \/ (ErrorIgnored(q) /\ attempts' = attempts)
  /\ Goto(q, "clearLocked")
  /\ UNCHANGED <<enabled, otpHash, expiresAt, lockedUntil, now, history>>

ClearLocked(q) ==
  /\ pc[q] = "clearLocked"
  /\ lockedUntil' = Missing \/ (ErrorIgnored(q) /\ lockedUntil' = lockedUntil)
  /\ CASE op[q] = "issue"   -> Goto(q, "mail")
       [] op[q] = "confirm" -> Goto(q, "setEnabled")
       [] OTHER             -> Finish(q)
  /\ UNCHANGED <<enabled, otpHash, expiresAt, attempts, now, history>>

(* A statement whose error is returned fails, or the process crashes.      *)
Fail(q) ==
  /\ ~calm
  /\ pc[q] # "idle"
  /\ Finish(q)
  /\ UNCHANGED <<stored, now, generated, rivals, storedAt, mailed, redeemed, guesses>>
  /\ Spare(q)

Tick ==
  /\ now < MaxTime
  /\ now' = now + 1
  /\ UNCHANGED <<stored, locals, history>>

Clear(q) ==
  \/ ClearEnabled(q)
  \/ ClearHash(q)
  \/ ClearExpires(q)
  \/ ClearAttempts(q)
  \/ ClearLocked(q)

SlipIssueSetsExpiryFirst(q) ==
  \/ IssueBegin(q)
  \/ /\ pc[q] = "setHash"
     /\ expiresAt' = now + email2faOTPExpiry
     /\ storedAt' = [storedAt EXCEPT ![code[q]] = now]
     /\ Goto(q, "setExpires")
     /\ UNCHANGED <<enabled, otpHash, attempts, lockedUntil, now,
                    generated, rivals, mailed, redeemed, spared, guesses>>
  \/ /\ pc[q] = "setExpires"
     /\ otpHash' = code[q]
     /\ Goto(q, "clearAttempts")
     /\ UNCHANGED <<enabled, expiresAt, attempts, lockedUntil, now, history>>
  \/ IssueMail(q)

Issue(q) == IssueBegin(q) \/ IssueSetHash(q) \/ IssueSetExpires(q) \/ IssueMail(q)

Verify(q) ==
  \/ \E operation \in {"confirm", "login"}, c \in mailed \cup {NoCode} :
       VerifyBegin(q, operation, c)
  \/ VerifyReadLock(q)
  \/ VerifyReadExpires(q)
  \/ VerifyReadHash(q)
  \/ VerifyReadAttempts(q)
  \/ VerifySetAttempts(q)
  \/ VerifySetLocked(q)
  \/ ConfirmSetEnabled(q)

Next ==
  /\ \/ \E q \in Issuers : Issue(q)
     \/ \E q \in Verifiers : Verify(q)
     \/ \E q \in Disablers : DisableBegin(q)
     \/ \E q \in Requests : Clear(q) \/ Fail(q)
     \/ Tick
  /\ UNCHANGED calm

Spec == Init /\ [][Next]_vars

-----------------------------------------------------------------------------
(* Properties.                                                             *)

(* Every variable has its type.                                            *)
TypeOK ==
  /\ calm \in BOOLEAN
  /\ enabled \in BOOLEAN
  /\ otpHash \in Codes \cup {Missing}
  /\ expiresAt \in Nat
  /\ attempts \in Nat
  /\ lockedUntil \in Nat
  /\ now \in Nat
  /\ op \in [Requests -> Ops]
  /\ pc \in [Requests -> Labels]
  /\ code \in [Requests -> Codes \cup {NoCode}]
  /\ tries \in [Requests -> Nat]
  /\ checkedAt \in [Requests -> Nat]
  /\ seen \in [Requests -> SUBSET Codes]
  /\ generated \in 0 .. MaxCodes
  /\ rivals \in [Codes -> SUBSET Codes]
  /\ storedAt \in [Codes -> Nat]
  /\ mailed \subseteq Codes
  /\ redeemed \subseteq Codes
  /\ spared \subseteq Codes
  /\ guesses \in [Codes -> Nat]

(* The code and those that were being issued at the same time.             *)
Siblings(c) == {c} \cup rivals[c]

(* Codes "expire after 10 minutes" (docs/api/auth.md): an accepted code    *)
(* was checked at most one expiry after the storing of its own expiry or,  *)
(* when its issue overlapped others, which may store hash and expiry in    *)
(* different orders, of one of theirs.  No later resend lends it an        *)
(* expiry, even while it replaces hash and expiry one after the other.     *)
CodeExpires ==
  [][\A q \in Verifiers : VerifyReadHash(q) /\ Accepts(q) =>
       \E c \in Siblings(code[q]) : checkedAt[q] <= storedAt[c] + email2faOTPExpiry]_vars

(* A newer mailed code replaces the older ones: a verification begun after *)
(* it was sent accepts no older code, unless the two were being issued at  *)
(* the same time (then either may be the one whose hash is stored).        *)
SupersededCodeIsDead ==
  [][\A q \in Verifiers : VerifyReadHash(q) /\ Accepts(q) =>
       \A c \in seen[q] : c <= code[q] \/ c \in rivals[code[q]]]_vars

(* A verification that accepts a code goes on to delete whatever code is   *)
(* stored by then, and its expiry.  A code that has reached its reader is  *)
(* taken away like that only by redeeming it, or by a verification begun   *)
(* before it was sent: the next attempt always finds it.                   *)
MailedCodeIsKept ==
  [][\A q \in Verifiers :
       op[q] # "disable" /\ (ClearHash(q) \/ ClearExpires(q)) =>
         (otpHash \in seen[q] => code[q] = otpHash)]_vars

(* Codes are "single-use" (docs/api/auth.md), but they are compared before *)
(* they are deleted.  A code is accepted again only while a verification   *)
(* that has accepted it has yet to delete it, or after such a delete has   *)
(* failed or a crash has prevented it: there is no third way, whatever is  *)
(* issued, verified and disabled meanwhile.                                *)
CodeReusedOnlyBeforeDelete ==
  [][\A q \in Verifiers : VerifyReadHash(q) /\ Accepts(q) /\ code[q] \in redeemed =>
       \/ code[q] \in spared
       \/ \E p \in Verifiers : pc[p] = "clearHash" /\ code[p] = code[q]]_vars

(* "After 5 consecutive failures the account is locked" (docs/api/auth.md):*)
(* in calm times no code is compared with more wrong guesses than that.    *)
(* The lock outlives the code, so the guesses end with it.                 *)
GuessesAreBounded == calm => \A c \in Codes : guesses[c] <= maxFailedAttempts

(* "... the account is locked for 15 minutes" (docs/api/auth.md): until    *)
(* then, in calm times, only switching the factor off removes the lock.    *)
LockHolds ==
  [][calm /\ now < lockedUntil /\ lockedUntil' # lockedUntil =>
       \E q \in Disablers : op[q] = "disable" /\ ClearLocked(q)]_vars

(* What is left of LockHolds: in calm times a lock is lifted only by       *)
(* disabling, and by issuing a new code, which a locked client may ask for.*)
LockHoldsUntilReissue ==
  [][calm /\ now < lockedUntil /\ lockedUntil' # lockedUntil =>
       \E q \in Requests : op[q] \in {"issue", "disable"} /\ ClearLocked(q)]_vars
=============================================================================
