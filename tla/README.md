# Skolva in TLA+

Skolva is a self-hosted platform for managing a community (a Go API server on
PostgreSQL). This directory holds a formal model of the parts whose correctness
depends on the order in which things happen: what several requests do to the
same rows at the same time, what is left when a request fails between two
statements, and what the database's triggers and indexes guarantee under its
default isolation level.

Paths are relative to the repository (`src/`).

## 1. The system

### Components, their state, their operations

| Component | State | Operations | Module |
|---|---|---|---|
| TOTP second factor (`internal/auth/totp.go`) | one row of `user_totp_secrets` per user: secret, enabled flag, recovery codes, failure counter, lock | Setup2FA, Confirm2FA, Verify2FA, ConsumeRecoveryCode, Disable2FA | `Totp`, `SecondFactor` |
| Password reset (`internal/auth/password_reset.go`) | three rows of `users_meta` per user: token hash, expiry, used flag | ForgotPassword, ResetPassword | `PasswordReset` |
| Email second factor (`internal/auth/email2fa.go`) | five rows of `users_meta` per user: enabled, code hash, expiry, attempts, lock | SetupEmail2FA, SendEmail2FALoginOTP, ConfirmEmail2FA, VerifyEmail2FALogin, DisableEmail2FA | `EmailTwoFactor` |
| Accounts, roles, login (`internal/auth/service.go`, `handler.go`, `jwt.go`) | `users`, `user_roles`; pending and access tokens at the clients | Register, UpdateUser, DeleteUser, AssignRole, RemoveRole, Login, IssueAccessForUser | `Accounts` |
| CRM contacts (`internal/crm`) | `user_contact_points`, with a partial unique index for the primary contact; its entries in `audit_logs` | CreateContact, UpdateContact, DeleteContact | `Contacts`, `ContactBook` |
| Accounting journals (`schema.sql`, section 7) | `accounting_journal`, `accounting_entries`, two trigger functions | any statement on these tables | `Accounting` |
| CRM address and preferences | one row per user each | upserts | not modelled |
| Groups (`internal/groups`) | `groups`, `group_members`; the pages a client has seen | Create, Update, Delete, AddMember, RemoveMember, List | `Groups` |
| Audit log (`schema.sql`, sections 11 and 12) | `audit_logs` | `audit_trigger_func` | partly: for contacts, in `Contacts` |
| Other tables of `schema.sql` | units, leases, billing, lending, banking, work hours, compliance | none in Go yet | not modelled |
| Start-up and routing (`cmd/api`, `internal/app`, `plugins`) | none | sequential wiring | not modelled |

### How they interact

A request is a Go function that runs SQL statements one after the other on a
connection pool. Components never call each other except inside `auth`: `Login`
reads both factors and, if one is enabled, returns a *pending token* (five
minutes) and lets `email2fa.go` mail a code; the verify and recover handlers
exchange that token and a code for an access token. Everything else the
components share is the database. Writes to audited tables run inside
`dbexec.WithActor`, one transaction around the closure it is given; writes to
`user_totp_secrets`, `user_roles` and `users_meta` run on the pool, one
implicit transaction per statement. There are no locks in the Go code, no
`SELECT ... FOR UPDATE`, and the isolation level is READ COMMITTED.

### What is hard

* **Read, decide, write back.** Nearly every handler reads a row, decides in
  memory and writes in a later statement. Another request may have changed the
  row in between; `UpsertTOTPSecret` then overwrites the *whole* row from the
  stale copy.
* **State spread over several rows.** Password reset and email codes keep a hash
  and its expiry in two rows written one after the other, and read in the
  opposite order.
* **Errors that are dropped** (`_ = store.Delete(...)`, `row, _ := ...`) beside
  errors that end the request: both leave a half-finished sequence behind.
  A crash, or the server's shutdown without draining requests
  (`cmd/api/main.go:117`), does the same.
* **Transactions that wait**: contacts take row locks and wait in a unique index
  in an order that depends on the data.
* **Triggers under READ COMMITTED**: a trigger's `SELECT` sees what is committed
  and locks nothing.

`PROJECT.json` lists every hazard at its line, with the properties that cover it
or the reason why none does.

### What makes each component correct

* TOTP: an active factor was confirmed by its device; a recovery code works
  once and leaves the row only by being redeemed; a lock is in force until it
  expires.
* Password reset: a link works once, for one hour, until the next one is mailed,
  and the link in the mail does work.
* Email factor: a code works once, for ten minutes, until the next one is mailed;
  guesses are bounded; the code in the mail does work.
* Accounts: a free address can be registered; a deleted account gets no token; an
  enabled factor is asked for; `is_active` changes only when asked; tokens claim
  only roles the user had.
* Contacts: at most one primary contact of a type; the book changes by whole
  requests; who has opted out stays so; the audit log says what was changed;
  every request ends.
* Groups: a deleted group stays as it was; omitted fields are kept; answers show
  what was asked for; pages neither lose nor repeat groups on their own.
* Accounting: a locked journal balances and its entries do not change.

## 2. The modules

All modules follow one pattern. A variable per table column (or row), a variable
per local variable of the handlers (indexed by request, with `pc` naming the next
statement), and history variables, marked as such, that only properties read.
**Each action is one SQL statement, or the last one of a sequence of reads, with
the decision the code takes on its result.** `Fail` ends a request between any
two statements, which stands for a database error, a cancelled request and a
crash alike, because nothing survives a request but its committed statements.
`Slip...` operators are deliberate mistakes in the code's place, used to check
that each property notices one; no specification refers to them.

Clocks are abstract: `now` advances at any time up to `MaxTime`.

**`SecondFactor`** is what the TOTP factor promises: a device is enrolled with a
batch of codes, becomes active, each code is redeemed once (`redeemed` remembers
which), the factor is removed.

**`Totp`** is the code. `SetupRead/SetupUpsert`, `ConfirmRead/ConfirmUpsert`,
`VerifyRead/VerifyCheck/VerifyUpsert`, `DisableDelete` and
`RecoverRead/RecoverUpsert` are the statements; `held[r]` is the copy of the row
a request is about to write back. `FreshRow`, `ConfirmedRow`, `VerifiedRow`,
`RejectedRow` and `RecoveredRow` are the rows the handlers build. A refusal that
changes nothing is not a step. The refinement mapping at its end reads phase,
device and codes off the row; outside calm times it maps to a factor that never
moves, because overlapping requests do break the promise.

**`PasswordReset`**: `Forgot...` and `Reset...`, one action per `store.Get`,
`store.Set`, `store.Delete` and `UpdatePassword`. Links are numbered in the order
their tokens are generated. The variable `calm`, fixed in the initial state,
says whether requests come one at a time and no statement fails (in `Totp`,
whether they come one at a time and the read of `Setup2FA`, whose error is
ignored, does not fail): properties that the code only guarantees then
ask for `calm`, so that one run checks both worlds. Times are stored as RFC 3339
text cut to seconds, so `After` may answer either way within the second of an expiry. ForgotPassword is public, and nothing
keeps two calls apart. `rivals` is history: the links whose calls were in flight
together. Two rivals may store hash and expiry crosswise, so what can be promised
of a link is promised of it and its rivals (`Siblings`), never of links issued
before or after. `done` likewise counts a completed link only once none of its
rivals is in flight, because a rival's late delete of the used flag revives it.

**`EmailTwoFactor`**: `Issue...`, `Verify...`, `Clear...`, in the same style and
with the same `calm`. The five `Clear` steps are shared by the operations that
delete the keys: the deletes of `DisableEmail2FA`, those after a code was
accepted, and those with which issuing begins anew. Login, resend and setup issue
codes without looking at each other; `rivals` is as in `PasswordReset`. `seen` is
history too: the codes that had been mailed when a verification began; and so is
`spared`: the accepted codes whose delete failed or was never reached.

**`Accounts`**: the accounts behind one email address. `RegisterExists` and
`CreateUser`, `Manage` (the `GetUserByID` all management requests begin with)
and `UpdateWrite`, `DeleteWrite`, `AssignWrite`, `RemoveWrite`; `LoginReadUser`,
`LoginReadTotp`, `LoginReadEmail`, `IssuePending2FA`; `VerifyBegin`,
`VerifyReadUser`; `ReadRoles`, `IssueAccess`. What the factors themselves check
is abstracted to "a code is presented only if it is right", because `Totp` and
`EmailTwoFactor` model it; `ChangeFactors` is the user switching factors on or
off. Permission slugs are identified with the roles that carry them, because no
endpoint changes `role_permissions`. `reliable` says whether reads of a factor
can fail. Pending tokens expire at any time, which covers every relation between
five minutes and the duration of a request.

**`Groups`**: `EnsureGroup` is the `GetByID` that PATCH, DELETE and the member
endpoints begin with, `Ask` what they go on to; `Create`, `UpdateWrite`,
`DeleteWrite`, `WriteNothing`, `AddMember`, `RemoveMember` are the writes and
`AddAnswer` the list that AddMember answers with. `Listed`, `Before` and `Page`
are the two list queries: the place of a group is the number of groups before
it, and a page takes the places from the offset on. `WalkBegin`, `WalkOn` and
`WalkEnd` are a client that raises the offset by the limit until a page is not
full; `left` and `joined` count how often a group left or took a place in its
list meanwhile.

**`ContactBook`** is what the contact endpoints promise for one user and one
type: every successful request is one change, and a new primary contact replaces
the old one in that same change.

**`Contacts`** is the code as PostgreSQL runs it: `Begin` (with the `GetContact`
outside the transaction), `ClearScan` and `ClearLock` (an UPDATE's snapshot, then
its wait for the row lock and the re-check of its condition), `Write`,
`EnterIndex`/`RefusedByIndex` (the unique index waits for uncommitted entries),
`Commit`, `Abort`, `DeadlockAbort`. `status` holds what is committed; what a
transaction has written becomes visible by `Written` in `Commit`. `Note` is the
audit trigger: after each row that `ClearLock` or `Write` writes, an entry with
the row the statement found and the row it made; the entries are committed or
rolled back with the rest. `BoolOr` is the `allow_contact` that an update writes
if its body has none: the one `GetContact` has read. Requests are one-shot.

**`Accounting`**: a statement on a journal or an entry waits for the row's lock,
runs its trigger on what is committed, and commits later. Every entry is one
unit of debit or credit, so a sum is a number of entries.

`MC...` modules only give values to the constants, and symmetry sets.
The modules called `...Proofs` hold the theorems (section 5).

## 3. The runs

| Run | Shows | Bounds |
|---|---|---|
| `totp` | What stale whole-row upserts cannot break: an active factor was confirmed (`EnabledWasConfirmed`), codes belong to the stored secret (`CodesBelongToSecret`), none is dropped unredeemed (`NoCodeIsLost`), lock and counter agree (`LockMatchesCounter`). In calm times the code implements `SecondFactor` (`ImplementsSecondFactor`), so that codes work once, and locks hold (`LockHolds`). | two requests, two enrolments, two codes, lock after two failures, two ticks: two lockouts |
| `totp_code_reused` | **Violated**: two concurrent recoveries redeem one code. | two requests |
| `password_reset` | `LinkExpires`, `SupersededLinkIsDead` and `CompletedLinkIsDead` under interleaving, failures and ignored errors; `RefusedOnlyIfUsed` in calm times. | three requests: one calls ForgotPassword, one ResetPassword, one either, so that two of each kind overlap; two links, three ticks |
| `reset_reused` | **Violated**: one link sets two passwords. | one ForgotPassword, two ResetPassword |
| `email_two_factor` | `CodeExpires`, `SupersededCodeIsDead` always; a mailed code is taken away only by redeeming it or by a verification begun before it was sent (`MailedCodeIsKept`); a code is accepted again only before the delete that follows its acceptance or after that delete failed (`CodeReusedOnlyBeforeDelete`); `GuessesAreBounded`, `LockHoldsUntilReissue` in calm times. | two requests, each of which may issue, verify or disable, so that any two overlap; two codes, lock after two failures, up to three guesses a code in calm times and none in others, where only the calm properties would read them |
| `email_lock_cleared` | **Violated**, without concurrency: asking for a new code lifts the lock (`LockHolds`). | one request |
| `accounts` | A registration that found the address free is refused only if another took it meanwhile (`RegisterRefusedOnlyIfRaced`); `DeletedStaysDeleted`, `SteadyFactorIsAsked`, `ReactivatedOnlyIfRaced`, `ClaimsWereHeld`. | two requests, two user ids, one role, both factors, at most one user enrolled (`OneEnrolled`: a request reads the factors of its own user only) |
| `accounts_factor_skipped` | **Violated**: a failing read, or a switch of factors between the two reads, skips the second factor (`FactorIsAsked`). | two requests, two user ids, one role, both factors |
| `contacts` | The book changes by whole requests and has at most one primary contact (`ImplementsContactBook`), a primary is refused only if another request committed meanwhile (`RefusedOnlyIfRaced`), the audit entries of a transaction are what it commits (`AuditMatchesCommit`), an omitted `allow_contact` is kept unless another request committed meanwhile (`OptOutIsKept`), every request ends (`EveryRequestEnds`). | three requests, one of which opts out, three contacts, every initial book without deleted contacts |
| `groups` | A deleted group never changes and gains no member by a later request (`DeletedGroupIsFrozen`); an omitted `is_active` is kept unless it was changed meanwhile (`OmittedIsActiveIsKept`); the answer to POST members shows the member (`AddedMemberIsListed`); a walk through the pages misses no more groups than left their place (`MissesAreDepartures`) and repeats none more often than others took one (`RepeatsAreArrivals`). | three groups, pages of two, two names and types, one user, two roles; two requests about rows or about members of two groups, or one beside a walk (`Apart` in `MCGroups`) |
| `accounting` | A locked journal balances unless a race or a move has disturbed it (`LockedIsBalanced`); statements after the lock are refused (`LaterWritesAreRefused`). | two transactions, two journals, two entries |
| `accounting_moved` | **Violated**, one statement at a time: an UPDATE of `journal_id` takes an entry out of a locked journal (`LockedEntriesAreFrozen`). | one transaction |

**Why the bounds are enough.** The races are between the read and the write of
one handler and one statement of another; a third request adds a second such
race, which the properties treat in the same way, except where it matters:
`password_reset` has three requests, because a completed reset, a new request
and an old reset is the interesting history, and so are two requests that issue
links at the same time and a reset that uses one of them; `contacts` has three,
because that is the smallest number with a waiting chain and a deadlock beside
it. In `email_two_factor` requests begin again when they have ended, so that two
of them can issue two codes at the same time, and then verify the one while the
other is being disabled. Two secrets, links or codes are "the old one and the new
one", or two rivals; a third one beside two rivals is left to the theorems.
Thresholds are two, so that one failure is below and the next one at the
threshold; clocks run past one expiry and one lockout.

A theorem (section 5) states a property for any number of requests, secrets,
links, codes, rows and ticks: the sizes above do not matter for it. It does not
widen what the property itself says: one that asks for `calm`, excuses `raced`
or speaks of rivals does so in the theorem too, and `GuessesBounded` has an
assumption on two constants. Liveness (`EveryRequestEnds`) is known for the
bounds only.

**Deadlock checking** is off in every run: all clocks, secrets, links and
requests are bounded, so behaviours end. That requests do not wait for each
other forever is `EveryRequestEnds`.

**Findings.** The violated properties quote a document of the repository;
`PROJECT.json` has the quotes. TLC shows more outcomes that a document excludes.
They break the same promises as the findings, or the same sentences, in another
place, and have no run of their own; the properties of the passing runs say
under which conditions they cannot happen:

* two verifications accept one email code, or a second one accepts it after its
  delete has failed, although codes are "single-use" (`docs/api/auth.md:129`): the
  same mistake as with recovery codes and links. `CodeReusedOnlyBeforeDelete`
  names these two ways and shows that there is no third;
* parallel wrong guesses, of an email code or of a TOTP code, count once, and a
  stale whole-row upsert loses a TOTP lock, although "after 5 consecutive failures
  the account is locked for 15 minutes" (`docs/api/auth.md:106` and `129-130`);
  hence `calm` in `LockHolds` of `Totp`, `GuessesAreBounded` and
  `LockHoldsUntilReissue`. `LockMatchesCounter` holds all the same: what is lost
  is lost together;
* two overlapping ForgotPassword calls store hash and expiry crosswise, so that a
  link can be valid for longer than its hour (`docs/password-reset.md:50`), by as
  much as lies between the two calls; two overlapping issues of an email code do
  the same with the ten minutes of `docs/api/auth.md:129` (`rivals` in
  `LinkExpires` and `CodeExpires`);
* a ForgotPassword that deletes the used flag late lets a link work again that was
  issued and redeemed while the call was in flight, against "Single-Use"
  (`docs/password-reset.md:51`; `done` and `rivals` in `CompletedLinkIsDead`).

And it shows outcomes that the documents do not mention, or exclude only as long
as requests do not overlap; the properties state the weaker form the code
guarantees:

* of two links, or two codes, issued at the same time the older one may be the one
  that works, although the newer one was mailed too (`rivals` in
  `SupersededLinkIsDead` and `SupersededCodeIsDead`);
* `Setup2FA` counts a failing read as "not enabled" and replaces an active factor
  (`totp.go:31`; hence the failing read outside `calm` in `Totp`);
* a set-up racing a confirmation replaces an active factor, and an upsert after
  `Disable2FA` brings the row back;
* a recovery code is spent by the upsert, although the request may still fail
  afterwards and issue no token (`totp.go:193-213`): `NoCodeIsLost` says that
  no other code goes with it;
* a reset that began before a newer request marks the newer link as used;
* `DisableEmail2FA` racing a resend leaves keys behind;
* setting a primary contact may be refused by the index, or aborted as a
  deadlock victim, when another request commits meanwhile;
* an entry committed between the balance trigger's `SELECT` and the journal's
  `COMMIT` leaves a locked journal unbalanced (`disturbed` in `Accounting`);
* a rename that read an account before it was deactivated makes it active again
  (`raced` in `Accounts`);
* a PATCH of a contact that leaves `allow_contact` out undoes an opt-out committed
  since its `GetContact` (`raced` in `OptOutIsKept`);
* `audit_logs.created_at` is the *start* of the transaction, so that
  `view_revision_report`, which sorts by it, may show two changes of one contact
  in the wrong order; `old_data` and `new_data` still chain;
* `docs/api/groups.md:7` says that all writes run inside actor transactions for
  audit logging; those of `group_members` do not (`groups/repository.go:61-62`
  says so too), and a deleted group can lose or gain members through requests
  that had found it (`DeletedGroupIsFrozen` excludes only later ones);
* a pending token of a deactivated account still becomes an access token
  (`IssueAccessForUser` does not look at `is_active`).

## 4. Fairness

Only `Contacts` has a liveness property. It assumes weak fairness of every
request's `Proceed` (the server and the database keep executing a request that
can go on) and of `DeadlockAbort` (PostgreSQL's detector looks at every waiting
transaction after `deadlock_timeout`). Nothing is assumed of `Begin` or `Fail`.
Weak fairness suffices because requests are finite in number: a lock that is
released is not taken again forever. With an unbounded stream of requests,
PostgreSQL's lock queues would be needed; they are not modelled.

All other specifications are safety only: an HTTP client that stops, or a
failing request, ends the sequence, and no document promises more.

## 5. The proofs

`tlapm` checks every theorem for all values of the constants, under the modules'
named assumptions only.

Five documented properties of the model do not hold of the code; a run violates
each (section 3). For these the theorems say *what exactly* they depend on: a property
is proved of the behaviours in which some named steps or states do not occur.
The hypotheses speak of the specification's own states and steps:

| Property | Theorem | Holds where |
|---|---|---|
| `RecoveryCodeSingleUse` | `RecoveryCodesServeOnce` | nothing else is in flight while a recovery code is redeemed (`RecoveryAlone`); other handlers may overlap and fail |
| `SingleUse` | `LinksServeOnce` | resets take turns (`ResetsTakeTurns`); a set flag is read as set, is not left unset by a failure, and is not dropped by a ForgotPassword after another has stored its hash (`FlagWorks`); otherwise any number of ForgotPassword calls may overlap and fail |
| `LockHolds` (email) | `LocksHoldWithoutReissue` | nobody asks for a code while locked out (`LockedAsksNoCode`) |
| `LockedEntriesAreFrozen` | `LockFreezesEntries` | no entry's statement is overtaken by another commit on its journal, and none moves an entry (`Undisturbed`) |
| `FactorIsAsked` | `FactorsAreAsked` | reads of the factors do not fail, and the app is not enabled between the two reads of a login (`AppNotEnabledBetweenReads`) |

None of them is idle: without any one, TLC finds the property violated again on
a small instance (two ForgotPassword calls and two resets for `SingleUse`).

**`TotpProofs`** (any number of concurrent requests, secrets, codes; any
thresholds): `TypeCorrect`, `ActiveFactorWasConfirmed`, `EnrolmentsStayWhole`,
`CodesAreNotLost`, `LockFitsCounter`. None of these is inductive for the table
alone, because a step may write `held[r]`. The inductive invariant states for
every *copy in memory* what the properties state for the table: a copy that will
be written is of an issued secret, enabled only if that secret was confirmed,
with the codes of that secret and none missing that was not redeemed or is about
to be, with lock and counter in agreement. So whichever request writes last, a
good row is written. It fails to give single use, as it must: the copies are
good, but old. `RecoveryCodesServeOnce` adds the hypothesis that makes them
current when it matters, and the invariant (`UnspentInv`) that the row, and
every copy that will be written, is free of redeemed codes;
`CalmRecoveryCodesServeOnce` draws the conclusion for calm times. A further
invariant, `CalmOK`, says what is true while requests
take turns: the copy a request holds was built from the row that is still there,
and no unspent code of the row has been redeemed. `LocksHold` follows, and
`RequestsImplementFactor`: initial states map to initial states of
`SecondFactor`, and each write is one of its operations or changes nothing it
can see.

**`PasswordResetProofs`** (any number of calls of both endpoints, overlapping and
failing in any way): `TypeCorrect`, `UsedIsAnsweredForUsedLinks`, `LinksExpire`,
`SupersededLinksAreDead`, `CompletedLinksAreDead`, without any assumption. A hash
is stored once, before its link is mailed. So once a mailed link's hash has been
replaced it is dead for good, and the only calls that can still touch the expiry
and the flag of a stored link are its rivals (`Fits`). The invariant `RInv`
relates the statement each ForgotPassword is at to what is stored: before
`setHash` everything generated later is its rival, between `setHash` and
`setExpires` the stored expiry may still be an older one and hence an *earlier*
one, and once the link is mailed the stored expiry is within its hour or a
rival's (`MailedPair`). A reset that is past its check of the expiry carries a
time that fits every link whose hash it can still match. It is this order of two
writes and two reads that keeps an hour an hour. `CompletedLinksAreDead` adds an
invariant relative to that (`DInv`): a done link's hash is stored only while the
used flag is up, or while a reset that saw it done is bound to fail.
`LinksServeOnce` rests on `UsedIsMarked`: while its link is stored, a password
that was set has left the flag behind, or its reset is about to. `CalmInv`
follows the used flag through one undisturbed request at a time.

**`EmailTwoFactorProofs`** (any number of requests, overlapping and failing in any
way): `TypeCorrect`, `CodesExpire`, `SupersededCodesAreDead`, `MailedCodesAreKept`,
`CodesReusedOnlyBeforeDelete`, `LocksHoldUntilReissue`, without any assumption;
`GuessesBounded` if a lockout lasts longer than a code (`LockoutOutlastsCode`; in
the code 15 and 10 minutes). Five invariants build on each other. `TInv`: types,
and which statement belongs to which operation. `RInv`: the argument of
`PasswordResetProofs` for rows that can also be deleted: once a code is mailed,
the stored expiry is within its ten minutes or a rival's, or there is none.
`ReuseInv`: a redeemed code is stored only while the verification that accepted
it is about to delete it, or after that delete failed or was never reached.
`SInv`: in calm times a verification past its first read finds no lock any more.
`GInv`: in calm times either fewer wrong guesses than the threshold have been
made at the stored code and the counter knows them, or a lock is in force that
ends after the code does. `LocksHoldWithoutReissue` adds that a request that
issues a code is never in flight together with a lock (`NoIssueUnderLock`), if
none begins under one.

**`ContactsProofs`** (any contacts, any concurrent calls): `TypeCorrect`,
`ContactsImplementBook`, `RefusalsAreRaced`, `AuditEntriesMatchCommits`,
`OptOutsAreKept`. The invariant says of one transaction what it knows: which
locals its statement implies (`ShapeOK`), that its locks, its fresh id and its
index entry keep the rows as it needs them (`RowsOK`), that its audit
entries are its changes (`NotesOK`),
and that nothing has changed at all unless somebody committed (`UnracedOK`). Of
two transactions it says that their locked rows are disjoint, that only one has
an entry in the index, and that new rows have different ids (`Apart`). A
transaction with an entry has therefore demoted every committed primary contact
but its target, and its commit is one step of `ContactBook`. The theorem is
about `Book!Spec`, a safety specification; fairness is not used.
`CommittedBookIsSound` proves of the *abstract* book that it never lists two
primary contacts and never brings a deleted one back (`BookHasOnePrimary`,
`BookKeepsDeleted`), and carries both over to the code by the refinement.

What liveness needs of the safety part is proved too. `SomebodyGoesOn`: while
a request is unfinished, some unfinished request waits for nobody or is on a
cycle of waits, where the detector finds it. The argument takes a set of
unfinished requests that is closed under `WaitsFor` and smallest with that
property (`SmallestClosed`): none exists without a cycle through it.
`RequestsMoveOn`: every step takes one request forward in the order of its statements
(`Place`) and leaves the others where they are. `OnlyPrimariesDeadlock`: a
victim of the detector is a request for a primary contact, because any other
holds nothing while it waits.

**`AccountsProofs`** (any users, roles, requests): `TypeCorrect`, `DeletionIsFinal`,
`RefusedRegistrationsAreRaced`, `SteadyFactorsAreAsked`, `ReactivationsAreRaced`,
`OnlyHeldRolesAreClaimed`. The invariant says what each request still knows of
tables that others write: `UpdateOK` (an update that nobody raced holds the
row's `is_active`), `RegisterOK` (a registration that nobody raced would still
find the address free), `GoneOK` (a request for a deleted account is still before
its read), `FactorsOK` (a factor enabled all through a login is one it has
found or has still to read) and `RolesOK` (the roles in the table and in the
token were held since the request began). `FactorsAreAsked` adds `BareOK`: a
login past both reads has had a moment without factors, and one between them
has found the app if it is enabled.

**`GroupsProofs`** (any groups, users, requests): `TypeCorrect`,
`DeletedGroupsAreFrozen`, `OmittedIsActiveStays`, `AddedMembersAreListed`, by an
invariant of the same kind.

**`GroupsWalkProofs`** (any list, any page size, any concurrent writes):
`MissesAreBounded`, `RepeatsAreBounded`, and as their common consequence
`QuietWalksShowEachOnce`. The place of a group is the number of
groups ahead of it, so the proof counts: no two groups share a place
(`RankInjective`), no place below the length of the list is empty (`EveryRank`),
hence a page is full exactly if the list reaches to its end (`FullPages`), and a
write of one row moves every other group by at most one place (`RankShift`). The
invariant is about `Missed`, the groups listed from the beginning, never shown
and already in front of the offset: there are no more of them than departures,
because one write can put only one group there (`OneMoreIsMissed`); and a group
at or behind the offset has been shown no more often than groups have arrived.

**`AccountingProofs`** (any journals, entries and number of transactions):
`TypeCorrect`, `LockedJournalsBalance`, `LockExcludesLaterWrites`. The invariant
says that transactions hold different rows, that a writer of an entry whose
journal is locked knows that it was raced, and that a transaction about to lock
knows that it was raced or still sees a balanced journal. The proof of a
commit counts entries: a sum changes only if an entry of that journal does.
`OnlyGapsBreakTheLock` reads the same invariant step by step: whatever changes
the entries of a locked journal is the commit of a statement that was
overtaken, or one that moves the entry out.

**Only model-checked:** liveness (`EveryRequestEnds`): the prover handles
neither `ENABLED` nor fairness. Its safety half is proved (`SomebodyGoesOn`,
`RequestsMoveOn`); what is left to TLC is that `CanProceed` and being on a
cycle mean that the fair actions are enabled, and that fairness then makes them
happen. Every other property of a passing run is proved, `GuessesAreBounded`
under the assumption named above. No recursive definition occurs in the
project, so nothing needs induction over data.

## 6. What is not modelled

* Token signatures, bcrypt, AES, the TOTP algorithm: a hash or ciphertext stands
  for what it was made from, and a guess never hits by chance.
* Metadata store, `dbexec.WithActor`, mailer, search, worker, hooks: they live in
  `skolva-core`, outside the repository. The modules use only that a store call
  is one statement and that `WithActor` is one transaction.
* Access tokens after they were issued: checking one is a pure function.
* The actor and the time of an audit entry, and the audit triggers of tables other
  than `user_contact_points`, which run the same function.
* Listing and search endpoints other than the pages of groups (read only), address
  and preferences (each one upsert, with nothing read before it), start-up,
  routing, API description, scripts. `api/redoc.js` is a minified third-party
  viewer that is served as it is; it is not part of the system's logic.
* Tables no Go code writes yet: their constraints are declarative.

## 7. What could come next

1. The metadata store as a component, if its source becomes part of the
   repository: the two factors and the password reset share its table.
2. Exclusion constraints on leases and ownership, and the triggers of billing,
   once Go code writes these tables.
3. An unbounded stream of contact requests with PostgreSQL's lock queues, under
   which `EveryRequestEnds` would need the order of the queue.
