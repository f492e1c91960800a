----------------------------- MODULE TotpProofs -----------------------------
(***************************************************************************)
(* What holds of the authenticator-app factor for every number of          *)
(* concurrent requests.                                                    *)
(*                                                                         *)
(* No property of the stored row is inductive by itself, because a request *)
(* writes the row it holds and not the row it finds.  The invariant        *)
(* therefore says of every held row what it says of the stored one         *)
(* (RowOK): rows stay sound whichever of them is written last.             *)
(*                                                                         *)
(* When requests come one at a time more is true: the row a request holds  *)
(* is built from the row it replaces (CalmOK).  From that, lockouts hold   *)
(* and the requests implement the second factor.                           *)
(***************************************************************************)
EXTENDS Totp, TLAPS

(* A row is sound, given the confirmed secrets, the recovery codes that    *)
(* may be missing from it, and the time.                                   *)
RowOK(aRow, enrolled, redeemed, time) ==
  /\ aRow.isEnabled => aRow.secret \in enrolled
  /\ aRow.recoveryCodes \subseteq CodesOf(aRow.secret)
  /\ aRow.secret # NoSecret => CodesOf(aRow.secret) \ aRow.recoveryCodes \subseteq redeemed
  /\ aRow.lockedUntil # NotLocked <=> aRow.failedAttempts >= maxFailedAttempts
  /\ aRow.lockedUntil <= time + lockoutDuration

(* The code a ConsumeRecoveryCode in flight has taken out of its copy.     *)
Redeeming(r) == IF op[r] = "recover" THEN {given[r]} ELSE {}

RequestOK(r) ==
  /\ RowOK(held[r], confirmed, spent \cup Redeeming(r), now)
  /\ pc[r] = "check" => held[r].isEnabled /\ op[r] \in {"verify", "disable"}
  /\ op[r] = "recover" => given[r] \in RecoveryCodes

IInv ==
  /\ TypeOK
  /\ RowOK(row, confirmed, spent, now)
  /\ \A r \in Requests : RequestOK(r)

-----------------------------------------------------------------------------
(* The rows the handlers build.                                            *)

LEMMA NoRowOK ==
  ASSUME NEW enrolled, NEW redeemed, NEW time \in Nat
  PROVE  NoRow \in Rows /\ RowOK(NoRow, enrolled, redeemed, time)
BY ThresholdAssumption DEF NoRow, Rows, RowOK, NotLocked, CodesOf

(* More confirmed secrets, more redeemed codes and later times leave a     *)
(* sound row sound.                                                        *)
LEMMA RowOKMonotone ==
  ASSUME NEW aRow \in Rows, NEW e1, NEW e2, NEW d1, NEW d2,
         NEW t1 \in Nat, NEW t2 \in Nat,
         e1 \subseteq e2, d1 \subseteq d2, t1 <= t2,
         RowOK(aRow, e1, d1, t1)
  PROVE  RowOK(aRow, e2, d2, t2)
<1> USE ThresholdAssumption
<1>1. aRow.lockedUntil \in Nat
  BY DEF Rows
<1>2. aRow.lockedUntil <= t2 + lockoutDuration
  BY <1>1 DEF RowOK
<1> QED
  BY <1>2 DEF RowOK

LEMMA CodesOfType ==
  ASSUME NEW s \in Secrets
  PROVE  CodesOf(s) \in SUBSET RecoveryCodes
BY DEF CodesOf, RecoveryCodes

LEMMA FreshRowOK ==
  ASSUME NEW s \in Secrets, NEW enrolled, NEW redeemed, NEW time \in Nat
  PROVE  FreshRow(s) \in Rows /\ RowOK(FreshRow(s), enrolled, redeemed, time)
<1>1. FreshRow(s) \in Rows
  BY CodesOfType DEF FreshRow, Rows, NotLocked
<1>2. RowOK(FreshRow(s), enrolled, redeemed, time)
  BY ThresholdAssumption DEF FreshRow, RowOK, NotLocked
<1> QED
  BY <1>1, <1>2

(* Confirm2FA's row is sound once its secret counts as confirmed.          *)
LEMMA ConfirmedRowOK ==
  ASSUME NEW old \in Rows, NEW enrolled, NEW redeemed, NEW time \in Nat,
         RowOK(old, enrolled, redeemed, time)
  PROVE  ConfirmedRow(old) \in Rows /\ RowOK(ConfirmedRow(old), enrolled \cup {old.secret}, redeemed, time)
<1> DEFINE new == ConfirmedRow(old)
<1>1. new \in Rows
  BY DEF ConfirmedRow, Rows, NotLocked
<1>2. /\ new.secret = old.secret
      /\ new.isEnabled = TRUE
      /\ new.recoveryCodes = old.recoveryCodes
      /\ new.failedAttempts = 0
      /\ new.lockedUntil = NotLocked
  BY DEF ConfirmedRow, Rows
<1> HIDE DEF new
<1>3. RowOK(new, enrolled \cup {old.secret}, redeemed, time)
  BY <1>1, <1>2, ThresholdAssumption DEF RowOK, NotLocked, Rows
<1> QED
  BY <1>1, <1>3 DEF new

(* Verify2FA's rows are sound because the row it read was enabled.         *)
LEMMA VerifiedRowOK ==
  ASSUME NEW old \in Rows, NEW enrolled, NEW redeemed, NEW time \in Nat,
         old.isEnabled, RowOK(old, enrolled, redeemed, time)
  PROVE  VerifiedRow(old) \in Rows /\ RowOK(VerifiedRow(old), enrolled, redeemed, time)
<1> DEFINE new == VerifiedRow(old)
<1>1. new \in Rows
  BY DEF VerifiedRow, Rows, NotLocked
<1>2. /\ new.secret = old.secret
      /\ new.isEnabled = TRUE
      /\ new.recoveryCodes = old.recoveryCodes
      /\ new.failedAttempts = 0
      /\ new.lockedUntil = NotLocked
  BY DEF VerifiedRow, Rows
<1> HIDE DEF new
<1>3. RowOK(new, enrolled, redeemed, time)
  BY <1>1, <1>2, ThresholdAssumption DEF RowOK, NotLocked, Rows
<1> QED
  BY <1>1, <1>3 DEF new

LEMMA RejectedRowOK ==
  ASSUME NEW old \in Rows, NEW enrolled, NEW redeemed, NEW time \in Nat,
         old.isEnabled, RowOK(old, enrolled, redeemed, time)
  PROVE  RejectedRow(old, time) \in Rows /\ RowOK(RejectedRow(old, time), enrolled, redeemed, time)
<1> DEFINE new == RejectedRow(old, time)
           failed == old.failedAttempts + 1
           lock == IF failed >= maxFailedAttempts THEN time + lockoutDuration ELSE NotLocked
<1>a. failed \in Nat /\ lock \in Nat
  BY ThresholdAssumption DEF Rows, NotLocked
<1>b. new = [old EXCEPT !.isEnabled = TRUE, !.failedAttempts = failed, !.lockedUntil = lock]
  BY Zenon DEF RejectedRow
<1> HIDE DEF new, failed, lock
<1>1. new \in Rows
  BY <1>a, <1>b DEF Rows
<1>2. /\ new.secret = old.secret
      /\ new.isEnabled = TRUE
      /\ new.recoveryCodes = old.recoveryCodes
      /\ new.failedAttempts = failed
      /\ new.lockedUntil = lock
  BY <1>b DEF Rows
<1>3. RowOK(new, enrolled, redeemed, time)
  BY <1>1, <1>2, ThresholdAssumption DEF RowOK, NotLocked, Rows, failed, lock
<1> QED
  BY <1>1, <1>3 DEF new

(* ConsumeRecoveryCode's row lacks the code being redeemed.                *)
LEMMA RecoveredRowOK ==
  ASSUME NEW old \in Rows, NEW enrolled, NEW redeemed, NEW time \in Nat,
         NEW code, old.isEnabled, RowOK(old, enrolled, redeemed, time)
  PROVE  RecoveredRow(old, code) \in Rows /\ RowOK(RecoveredRow(old, code), enrolled, redeemed \cup {code}, time)
<1> DEFINE new == RecoveredRow(old, code)
<1>1. new \in Rows
  BY DEF RecoveredRow, Rows, NotLocked
<1>2. /\ new.secret = old.secret
      /\ new.isEnabled = TRUE
      /\ new.recoveryCodes = old.recoveryCodes \ {code}
      /\ new.failedAttempts = 0
      /\ new.lockedUntil = NotLocked
  BY DEF RecoveredRow, Rows
<1> HIDE DEF new
<1>3. RowOK(new, enrolled, redeemed \cup {code}, time)
  BY <1>1, <1>2, ThresholdAssumption DEF RowOK, NotLocked, Rows
<1> QED
  BY <1>1, <1>3 DEF new
-----------------------------------------------------------------------------
(* The three ways a step changes a request's local state.                  *)

LEMMA BeginKeepsIInv ==
  ASSUME IInv, NEW r \in Requests, NEW handler \in Ops, NEW label \in Pcs,
         NEW aRow \in Rows, NEW code \in Secrets \cup {NoSecret} \cup RecoveryCodes,
         Begin(r, handler, label, aRow, code),
         UNCHANGED <<calm, row, now, issued, spent>>,
         confirmed \subseteq confirmed', confirmed' \subseteq Secrets,
         RowOK(aRow, confirmed',
               spent \cup (IF handler = "recover" THEN {code} ELSE {}), now),
         label = "check" => aRow.isEnabled /\ handler \in {"verify", "disable"},
         handler = "recover" => code \in RecoveryCodes
  PROVE  IInv'
<1>1. TypeOK'
  BY DEF IInv, TypeOK, Begin
<1>2. RowOK(row, confirmed, spent, now)'
  BY RowOKMonotone DEF IInv, TypeOK
<1>3. ASSUME NEW q \in Requests
      PROVE  RequestOK(q)'
  <2>1. CASE q = r
    BY <2>1 DEF IInv, TypeOK, Begin, Redeeming, RequestOK
  <2>2. CASE q # r
    <3>1. /\ op'[q] = op[q] /\ pc'[q] = pc[q]
          /\ held'[q] = held[q] /\ given'[q] = given[q]
      BY <2>2 DEF IInv, TypeOK, Begin
    <3>2. held[q] \in Rows /\ now \in Nat
      BY DEF IInv, TypeOK
    <3>3. RowOK(held[q], confirmed, spent \cup Redeeming(q), now)
      BY DEF IInv, RequestOK
    <3>4. RowOK(held[q], confirmed', spent \cup Redeeming(q), now)
      BY <3>2, <3>3, RowOKMonotone
    <3> QED
      BY <3>1, <3>4 DEF IInv, Redeeming, RequestOK
  <2> QED
    BY <2>1, <2>2
<1> QED
  BY <1>1, <1>2, <1>3 DEF IInv

LEMMA ContinueKeepsIInv ==
  ASSUME IInv, NEW r \in Requests, NEW label \in Pcs \ {"check"}, NEW aRow \in Rows,
         Continue(r, label, aRow), UNCHANGED <<calm, now, history>>,
         row' \in Rows, RowOK(row', confirmed, spent, now),
         RowOK(aRow, confirmed, spent \cup Redeeming(r), now)
  PROVE  IInv'
<1>1. TypeOK'
  BY DEF IInv, TypeOK, Continue, history
<1>2. RowOK(row, confirmed, spent, now)'
  BY DEF history
<1>3. ASSUME NEW q \in Requests
      PROVE  RequestOK(q)'
  <2>1. CASE q = r
    BY <2>1 DEF IInv, TypeOK, Continue, Redeeming, RequestOK, history
  <2>2. CASE q # r
    <3>1. /\ op'[q] = op[q] /\ pc'[q] = pc[q]
          /\ held'[q] = held[q] /\ given'[q] = given[q]
      BY <2>2 DEF IInv, TypeOK, Continue
    <3> QED
      BY <3>1 DEF IInv, Redeeming, RequestOK, history
  <2> QED
    BY <2>1, <2>2
<1> QED
  BY <1>1, <1>2, <1>3 DEF IInv

LEMMA FinishKeepsIInv ==
  ASSUME IInv, NEW r \in Requests, Finish(r), UNCHANGED <<calm, now, confirmed>>,
         row' \in Rows, RowOK(row', confirmed, spent', now),
         issued' \subseteq Secrets,
         spent \subseteq spent', spent' \subseteq RecoveryCodes
  PROVE  IInv'
<1>1. TypeOK'
  BY NoRowOK DEF IInv, TypeOK, Finish, Ops, Pcs
<1>2. RowOK(row, confirmed, spent, now)'
  OBVIOUS
<1>3. ASSUME NEW q \in Requests
      PROVE  RequestOK(q)'
  <2>1. CASE q = r
    BY <2>1, NoRowOK DEF IInv, TypeOK, Finish, RequestOK
  <2>2. CASE q # r
    <3>1. /\ op'[q] = op[q] /\ pc'[q] = pc[q]
          /\ held'[q] = held[q] /\ given'[q] = given[q]
      BY <2>2 DEF IInv, TypeOK, Finish
    <3>2. held[q] \in Rows /\ now \in Nat
      BY DEF IInv, TypeOK
    <3>3. RowOK(held[q], confirmed, spent \cup Redeeming(q), now)
      BY DEF IInv, RequestOK
    <3>4. spent \cup Redeeming(q) \subseteq spent' \cup Redeeming(q)
      OBVIOUS
    <3>5. RowOK(held[q], confirmed, spent' \cup Redeeming(q), now)
      BY <3>2, <3>3, <3>4, RowOKMonotone
    <3> QED
      BY <3>1, <3>5 DEF IInv, Redeeming, RequestOK
  <2> QED
    BY <2>1, <2>2
<1> QED
  BY <1>1, <1>2, <1>3 DEF IInv

-----------------------------------------------------------------------------
(* The invariant, one step per action.                                     *)

LEMMA IInvInit == Init => IInv
<1> SUFFICES ASSUME Init PROVE IInv
  OBVIOUS
<1>1. TypeOK
  BY NoRowOK, ThresholdAssumption DEF Init, TypeOK, Ops, Pcs
<1>2. RowOK(row, confirmed, spent, now)
  BY NoRowOK DEF Init
<1>3. ASSUME NEW r \in Requests
      PROVE  RequestOK(r)
  BY NoRowOK DEF Init, RequestOK
<1> QED
  BY <1>1, <1>2, <1>3 DEF IInv

LEMMA IInvStep == IInv /\ [Next]_vars => IInv'
<1> SUFFICES ASSUME IInv, [Next]_vars PROVE IInv'
  OBVIOUS
<1>t. /\ row \in Rows /\ now \in Nat /\ \A r \in Requests : held[r] \in Rows
      /\ RowOK(row, confirmed, spent, now)
  BY DEF IInv, TypeOK
<1>c. calm' = calm
  BY DEF Next, vars
<1> USE <1>c
<1>1. ASSUME NEW r \in Requests, SetupRead(r)
      PROVE  IInv'
  BY <1>1, <1>t, NoRowOK, BeginKeepsIInv DEF SetupRead, history, Ops, Pcs, IInv, TypeOK
<1>2. ASSUME NEW r \in Requests, SetupUpsert(r)
      PROVE  IInv'
  <2> PICK s \in Secrets \ issued : row' = FreshRow(s) /\ issued' = issued \cup {s}
    BY <1>2 DEF SetupUpsert
  <2>1. row' \in Rows /\ RowOK(row', confirmed, spent, now)
    BY FreshRowOK, <1>t
  <2> QED
    BY <1>2, <2>1, FinishKeepsIInv DEF SetupUpsert, IInv, TypeOK
<1>3. ASSUME NEW r \in Requests, NEW code \in Secrets \cup {NoSecret}, ConfirmRead(r, code)
      PROVE  IInv'
  <2>1. row.secret \in Secrets /\ confirmed' = confirmed \cup {row.secret}
    BY <1>3, <1>t DEF ConfirmRead, Rows
  <2>2. /\ ConfirmedRow(row) \in Rows
        /\ RowOK(ConfirmedRow(row), confirmed', spent, now)
    BY <2>1, <1>t, ConfirmedRowOK
  <2>3. "confirm" \in Ops /\ "upsert" \in Pcs
    BY DEF Ops, Pcs
  <2>4. RowOK(ConfirmedRow(row), confirmed',
              spent \cup (IF "confirm" = "recover" THEN {code} ELSE {}), now)
    BY <2>2
  <2>5. confirmed \subseteq confirmed' /\ confirmed' \subseteq Secrets
    BY <2>1 DEF IInv, TypeOK
  <2>6. /\ Begin(r, "confirm", "upsert", ConfirmedRow(row), code)
        /\ UNCHANGED <<row, now, issued, spent>>
    BY <1>3 DEF ConfirmRead
  <2> QED
    BY <2>2, <2>3, <2>4, <2>5, <2>6, BeginKeepsIInv
<1>4. ASSUME NEW r \in Requests, ConfirmUpsert(r)
      PROVE  IInv'
  <2>1. RowOK(held[r], confirmed, spent, now)
    BY <1>4 DEF IInv, ConfirmUpsert, At, Redeeming, RequestOK
  <2> QED
    BY <1>4, <1>t, <2>1, FinishKeepsIInv DEF ConfirmUpsert, IInv, TypeOK, history
<1>5. ASSUME NEW r \in Requests, NEW handler \in {"verify", "disable"},
             NEW code \in Secrets \cup {NoSecret}, VerifyRead(r, handler, code)
      PROVE  IInv'
  <2>1. handler \in Ops /\ "check" \in Pcs /\ handler # "recover"
    BY DEF Ops, Pcs
  <2> QED
    BY <1>5, <1>t, <2>1, BeginKeepsIInv DEF VerifyRead, IInv, TypeOK, history
<1>6. ASSUME NEW r \in Requests, VerifyCheck(r)
      PROVE  IInv'
  <2>1. CASE IsLocked(held[r], now)
    BY <1>6, <2>1, <1>t, FinishKeepsIInv DEF VerifyCheck, IInv, TypeOK, history
  <2>2. CASE ~IsLocked(held[r], now)
    <3> DEFINE new == IF Validate(given[r], held[r].secret)
                        THEN VerifiedRow(held[r])
                        ELSE RejectedRow(held[r], now)
    <3>1. /\ held[r].isEnabled
          /\ RowOK(held[r], confirmed, spent \cup Redeeming(r), now)
      BY <1>6 DEF VerifyCheck, At, IInv, RequestOK
    <3>2. new \in Rows /\ RowOK(new, confirmed, spent \cup Redeeming(r), now)
      BY <1>t, <3>1, VerifiedRowOK, RejectedRowOK
    <3>3. Continue(r, "upsert", new) /\ UNCHANGED <<row, now, history>>
      BY <1>6, <2>2 DEF VerifyCheck
    <3>4. "upsert" \in Pcs \ {"check"}
      BY DEF Pcs
    <3> QED
      BY <1>t, <3>2, <3>3, <3>4, ContinueKeepsIInv
  <2> QED
    BY <2>1, <2>2
<1>7. ASSUME NEW r \in Requests, VerifyUpsert(r)
      PROVE  IInv'
  <2>1. RowOK(held[r], confirmed, spent, now)
    BY <1>7 DEF IInv, VerifyUpsert, At, Redeeming, RequestOK
  <2>2. CASE Finish(r)
    BY <1>7, <1>t, <2>1, <2>2, FinishKeepsIInv DEF VerifyUpsert, IInv, TypeOK, history
  <2>3. CASE Continue(r, "delete", NoRow)
    <3>1. "delete" \in Pcs \ {"check"}
      BY DEF Pcs
    <3> QED
      BY <1>7, <1>t, <2>1, <2>3, <3>1, NoRowOK, ContinueKeepsIInv DEF VerifyUpsert
  <2> QED
    BY <1>7, <2>2, <2>3 DEF VerifyUpsert
<1>8. ASSUME NEW r \in Requests, DisableDelete(r)
      PROVE  IInv'
  BY <1>8, <1>t, NoRowOK, FinishKeepsIInv DEF DisableDelete, IInv, TypeOK, history
<1>9. ASSUME NEW r \in Requests, NEW code \in RecoveryCodes, RecoverRead(r, code)
      PROVE  IInv'
  <2>1. /\ RecoveredRow(row, code) \in Rows
        /\ RowOK(RecoveredRow(row, code), confirmed, spent \cup {code}, now)
    BY <1>9, <1>t, RecoveredRowOK DEF RecoverRead
  <2>2. "recover" \in Ops /\ "upsert" \in Pcs
    BY DEF Ops, Pcs
  <2> QED
    BY <1>9, <2>1, <2>2, BeginKeepsIInv DEF RecoverRead, IInv, TypeOK, history
<1>10. ASSUME NEW r \in Requests, RecoverUpsert(r)
       PROVE  IInv'
  <2>1. op[r] = "recover" /\ row' = held[r] /\ spent' = spent \cup {given[r]}
    BY <1>10 DEF RecoverUpsert, At
  <2>2. RowOK(row', confirmed, spent', now)
    BY <2>1 DEF IInv, Redeeming, RequestOK
  <2>3. spent' \subseteq RecoveryCodes
    BY <1>10, <2>1 DEF IInv, RequestOK, TypeOK
  <2> QED
    BY <1>10, <1>t, <2>1, <2>2, <2>3, FinishKeepsIInv DEF RecoverUpsert, IInv, TypeOK
<1>11. ASSUME NEW r \in Requests, Fail(r)
       PROVE  IInv'
  BY <1>11, <1>t, FinishKeepsIInv DEF Fail, IInv, TypeOK, history
<1>12. CASE Tick
  <2>1. now' \in 0 .. MaxTime /\ now' \in Nat /\ now <= now'
    BY <1>12, ThresholdAssumption DEF Tick, IInv, TypeOK
  <2>2. TypeOK'
    BY <1>12, <2>1 DEF Tick, IInv, TypeOK, locals, history
  <2>3. RowOK(row, confirmed, spent, now)'
    BY <1>12, <1>t, <2>1, RowOKMonotone DEF Tick, locals, history
  <2>4. ASSUME NEW r \in Requests
        PROVE  RequestOK(r)'
    <3>1. RowOK(held[r], confirmed, spent \cup Redeeming(r), now')
      BY <1>t, <2>1, RowOKMonotone DEF IInv, RequestOK
    <3> QED
      BY <1>12, <3>1 DEF Tick, IInv, Redeeming, RequestOK, locals, history
  <2> QED
    BY <2>2, <2>3, <2>4 DEF IInv
<1>13. CASE UNCHANGED vars
  BY <1>13 DEF vars, locals, history, IInv, TypeOK, Redeeming, RequestOK
<1> QED
  BY <1>1, <1>2, <1>3, <1>4, <1>5, <1>6, <1>7, <1>8, <1>9, <1>10, <1>11, <1>12,
     <1>13 DEF Next

LEMMA Invariance == Spec => []IInv
BY IInvInit, IInvStep, PTL DEF Spec

-----------------------------------------------------------------------------
(* Theorems.                                                               *)

(* Every variable keeps its type, whatever the requests overwrite.         *)
THEOREM TypeCorrect == Spec => []TypeOK
BY Invariance, PTL DEF IInv

(* An active factor belongs to a device that passed Confirm2FA, for any    *)
(* number of concurrent handlers.                                          *)
THEOREM ActiveFactorWasConfirmed == Spec => []EnabledWasConfirmed
<1>1. IInv => EnabledWasConfirmed
  BY DEF IInv, RowOK, EnabledWasConfirmed
<1> QED
  BY <1>1, Invariance, PTL

(* Stale upserts never combine one set-up's secret with another's codes.   *)
THEOREM EnrolmentsStayWhole == Spec => []CodesBelongToSecret
<1>1. IInv => CodesBelongToSecret
  BY DEF IInv, RowOK, CodesBelongToSecret
<1> QED
  BY <1>1, Invariance, PTL

(* A recovery code leaves the row only by being redeemed: upserts from     *)
(* stale copies restore codes, they never drop one.                        *)
THEOREM CodesAreNotLost == Spec => []NoCodeIsLost
<1>1. IInv => NoCodeIsLost
  BY DEF IInv, RowOK, NoCodeIsLost
<1> QED
  BY <1>1, Invariance, PTL

(* The stored counter and the stored lock always fit each other, and no    *)
(* lock outlasts one lockout duration.                                     *)
THEOREM LockFitsCounter == Spec => []LockMatchesCounter
<1>1. IInv => LockMatchesCounter
  BY DEF IInv, RowOK, LockMatchesCounter
<1> QED
  BY <1>1, Invariance, PTL

-----------------------------------------------------------------------------
(* Calm times: one request after another, none of whose reads fails.  The  *)
(* row a request holds is then built from the row it will replace.         *)

CalmRow ==
  /\ ~row.isEnabled => row.lockedUntil = NotLocked
  /\ row.recoveryCodes \cap spent = {}
  /\ row.secret \in issued \cup {NoSecret}
  /\ \A c \in spent : c[1] \in issued

Alone(r) == \A q \in Requests : pc[q] # "idle" /\ pc[r] # "idle" => q = r

VerifyOK(r) ==
  /\ row.isEnabled
  /\ pc[r] = "check" => held[r] = row
  /\ pc[r] \in {"upsert", "delete"} => ~IsLocked(row, now)
  /\ pc[r] = "upsert" => /\ held[r].isEnabled
                         /\ held[r].secret = row.secret
                         /\ held[r].recoveryCodes = row.recoveryCodes
                         /\ Validate(given[r], held[r].secret) => held[r].lockedUntil = NotLocked

CalmOK(r) ==
  /\ Alone(r)
  /\ pc[r] = "idle" <=> op[r] = "none"
  /\ op[r] = "setup" => ~row.isEnabled
  /\ op[r] = "confirm" => /\ row.secret # NoSecret /\ ~row.isEnabled
                          /\ held[r] = ConfirmedRow(row)
  /\ op[r] \in {"verify", "disable"} => VerifyOK(r)
  /\ op[r] = "recover" => /\ row.isEnabled
                          /\ given[r] \in row.recoveryCodes
                          /\ held[r] = RecoveredRow(row, given[r])

CalmInv == calm => CalmRow /\ \A r \in Requests : CalmOK(r)

LEMMA CalmInvInit == Init => CalmInv
BY DEF Init, CalmInv, CalmRow, CalmOK, Alone, NoRow, NotLocked

(* The steps of a calm request on its locals.                              *)
LEMMA CalmBegin ==
  ASSUME IInv, CalmInv, calm, UNCHANGED <<calm, row, issued, spent>>,
         NEW r \in Requests, NEW handler \in Ops \ {"none"}, NEW label \in Pcs \ {"idle"},
         NEW aRow \in Rows, NEW code \in Secrets \cup {NoSecret} \cup RecoveryCodes,
         Begin(r, handler, label, aRow, code),
         handler = "setup" => ~row.isEnabled,
         handler = "confirm" => /\ row.secret # NoSecret /\ ~row.isEnabled
                                /\ aRow = ConfirmedRow(row),
         handler \in {"verify", "disable"} => /\ row.isEnabled
                                              /\ label = "check" /\ aRow = row,
         handler = "recover" => /\ row.isEnabled /\ code \in row.recoveryCodes
                                /\ aRow = RecoveredRow(row, code)
  PROVE  CalmInv'
<1>1. /\ op'[r] = handler /\ pc'[r] = label /\ held'[r] = aRow /\ given'[r] = code
      /\ \A p \in Requests \ {r} : op'[p] = op[p] /\ pc'[p] = pc[p]
  BY DEF Begin, IInv, TypeOK
<1>2. \A p \in Requests : pc[p] = "idle" /\ op[p] = "none"
  BY DEF Begin, CalmInv, CalmOK
<1>3. CalmOK(r)'
  BY <1>1, <1>2 DEF CalmOK, Alone, VerifyOK
<1>4. ASSUME NEW p \in Requests \ {r} PROVE CalmOK(p)'
  BY <1>1, <1>2 DEF CalmOK, Alone
<1> QED
  BY <1>3, <1>4 DEF CalmInv, CalmRow

LEMMA CalmFinish ==
  ASSUME IInv, CalmInv, calm, NEW r \in Requests, pc[r] # "idle", Finish(r), CalmRow'
  PROVE  CalmInv'
<1>1. /\ op'[r] = "none" /\ pc'[r] = "idle"
      /\ \A p \in Requests \ {r} : op'[p] = op[p] /\ pc'[p] = pc[p]
  BY DEF Finish, IInv, TypeOK
<1>2. \A p \in Requests \ {r} : pc[p] = "idle" /\ op[p] = "none"
  BY DEF CalmInv, CalmOK, Alone
<1>3. \A p \in Requests : pc'[p] = "idle" /\ op'[p] = "none"
  BY <1>1, <1>2
<1>4. ASSUME NEW p \in Requests PROVE CalmOK(p)'
  BY <1>3 DEF CalmOK, Alone
<1> QED
  BY <1>4 DEF CalmInv

LEMMA CalmContinue ==
  ASSUME IInv, CalmInv, calm, NEW r \in Requests, op[r] \in {"verify", "disable"},
         pc[r] # "idle", NEW label \in Pcs \ {"idle"}, NEW aRow,
         Continue(r, label, aRow), CalmRow', VerifyOK(r)'
  PROVE  CalmInv'
<1>1. /\ op'[r] = op[r] /\ pc'[r] = label
      /\ \A p \in Requests \ {r} : op'[p] = op[p] /\ pc'[p] = pc[p]
  BY DEF Continue, IInv, TypeOK
<1>2. \A p \in Requests \ {r} : pc[p] = "idle" /\ op[p] = "none"
  BY DEF CalmInv, CalmOK, Alone
<1>3. CalmOK(r)'
  BY <1>1, <1>2 DEF CalmOK, Alone
<1>4. ASSUME NEW p \in Requests \ {r} PROVE CalmOK(p)'
  BY <1>1, <1>2 DEF CalmOK, Alone
<1> QED
  BY <1>3, <1>4 DEF CalmInv

(* What each upsert does to the row in calm times.                         *)
LEMMA CalmWrites ==
  ASSUME IInv, CalmInv, calm, NEW r \in Requests
  PROVE  /\ \A s \in Secrets \ issued : FreshRow(s).recoveryCodes \cap spent = {}
         /\ ConfirmUpsert(r) =>
              /\ row.secret # NoSecret /\ ~row.isEnabled /\ ~IsLocked(row, now)
              /\ row'.secret = row.secret /\ row'.isEnabled
              /\ row'.recoveryCodes = row.recoveryCodes
         /\ VerifyUpsert(r) =>
              /\ row.isEnabled /\ ~IsLocked(row, now)
              /\ row'.secret = row.secret /\ row'.isEnabled
              /\ row'.recoveryCodes = row.recoveryCodes
         /\ DisableDelete(r) => row.isEnabled /\ ~IsLocked(row, now)
         /\ RecoverUpsert(r) =>
              /\ row.isEnabled /\ given[r] \in row.recoveryCodes /\ given[r] \notin spent
              /\ row'.secret = row.secret /\ row'.isEnabled
              /\ row'.recoveryCodes = row.recoveryCodes \ {given[r]}
<1>t. row \in Rows /\ CalmOK(r) /\ CalmRow
  BY DEF IInv, TypeOK, CalmInv
<1>1. \A s \in Secrets \ issued : FreshRow(s).recoveryCodes \cap spent = {}
  BY <1>t DEF FreshRow, CodesOf, CalmRow
<1>2. ASSUME ConfirmUpsert(r)
      PROVE  /\ row.secret # NoSecret /\ ~row.isEnabled /\ ~IsLocked(row, now)
             /\ row'.secret = row.secret /\ row'.isEnabled
             /\ row'.recoveryCodes = row.recoveryCodes
  <2>1. row' = ConfirmedRow(row) /\ row.secret # NoSecret /\ ~row.isEnabled
    BY <1>2, <1>t DEF ConfirmUpsert, At, CalmOK
  <2> QED
    BY <1>t, <2>1 DEF ConfirmedRow, Rows, CalmRow, IsLocked
<1>3. ASSUME VerifyUpsert(r)
      PROVE  /\ row.isEnabled /\ ~IsLocked(row, now)
             /\ row'.secret = row.secret /\ row'.isEnabled
             /\ row'.recoveryCodes = row.recoveryCodes
  BY <1>3, <1>t DEF VerifyUpsert, At, CalmOK, VerifyOK
<1>4. ASSUME DisableDelete(r) PROVE row.isEnabled /\ ~IsLocked(row, now)
  BY <1>4, <1>t DEF DisableDelete, At, CalmOK, VerifyOK
<1>5. ASSUME RecoverUpsert(r)
      PROVE  /\ row.isEnabled /\ given[r] \in row.recoveryCodes /\ given[r] \notin spent
             /\ row'.secret = row.secret /\ row'.isEnabled
             /\ row'.recoveryCodes = row.recoveryCodes \ {given[r]}
  <2>1. row' = RecoveredRow(row, given[r]) /\ row.isEnabled /\ given[r] \in row.recoveryCodes
    BY <1>5, <1>t DEF RecoverUpsert, At, CalmOK
  <2> QED
    BY <1>t, <2>1 DEF RecoveredRow, Rows, CalmRow
<1> QED
  BY <1>1, <1>2, <1>3, <1>4, <1>5

LEMMA CalmInvStep == IInv /\ CalmInv /\ [Next]_vars => CalmInv'
<1> SUFFICES ASSUME IInv, CalmInv, [Next]_vars, calm PROVE CalmInv'
  BY DEF CalmInv, Next, vars
<1>t. /\ row \in Rows /\ now \in Nat /\ CalmRow
      /\ \A r \in Requests : held[r] \in Rows /\ CalmOK(r)
  BY DEF IInv, TypeOK, CalmInv
<1>c. calm' = calm
  BY DEF Next, vars
<1> USE <1>c
<1>1. ASSUME NEW r \in Requests, SetupRead(r) PROVE CalmInv'
  BY <1>1, NoRowOK, CalmBegin, <1>t DEF SetupRead, history, Ops, Pcs
<1>2. ASSUME NEW r \in Requests, SetupUpsert(r) PROVE CalmInv'
  <2> PICK s \in Secrets \ issued : row' = FreshRow(s) /\ issued' = issued \cup {s}
    BY <1>2 DEF SetupUpsert
  <2>1. CalmRow'
    <3>1. row'.recoveryCodes \cap spent = {}
      BY CalmWrites
    <3> QED
      BY <1>2, <1>t, <3>1 DEF SetupUpsert, CalmRow, FreshRow
  <2> QED
    BY <1>2, <2>1, CalmFinish DEF SetupUpsert, At
<1>3. ASSUME NEW r \in Requests, NEW code \in Secrets \cup {NoSecret}, ConfirmRead(r, code)
      PROVE  CalmInv'
  <2>1. ConfirmedRow(row) \in Rows
    BY <1>t, ConfirmedRowOK DEF IInv
  <2>2. "confirm" \in Ops \ {"none"} /\ "upsert" \in Pcs \ {"idle"}
    BY DEF Ops, Pcs
  <2> QED
    BY <1>3, <2>1, <2>2, CalmBegin DEF ConfirmRead
<1>4. ASSUME NEW r \in Requests, ConfirmUpsert(r) PROVE CalmInv'
  <2>1. CalmRow'
    BY <1>4, <1>t, CalmWrites DEF ConfirmUpsert, CalmRow, history
  <2> QED
    BY <1>4, <2>1, CalmFinish DEF ConfirmUpsert, At
<1>5. ASSUME NEW r \in Requests, NEW handler \in {"verify", "disable"},
             NEW code \in Secrets \cup {NoSecret}, VerifyRead(r, handler, code)
      PROVE  CalmInv'
  <2>1. handler \in Ops \ {"none"} /\ "check" \in Pcs \ {"idle"}
    BY DEF Ops, Pcs
  <2> QED
    BY <1>5, <1>t, <2>1, CalmBegin DEF VerifyRead, history
<1>6. ASSUME NEW r \in Requests, VerifyCheck(r) PROVE CalmInv'
  <2>0. CalmRow' /\ UNCHANGED <<row, now>>
    BY <1>6, <1>t DEF VerifyCheck, CalmRow, history
  <2>1. CASE Finish(r)
    BY <1>6, <2>0, <2>1, CalmFinish DEF VerifyCheck, At
  <2>2. CASE ~Finish(r)
    <3> DEFINE new == IF Validate(given[r], held[r].secret)
                        THEN VerifiedRow(held[r])
                        ELSE RejectedRow(held[r], now)
    <3>1. held[r] = row /\ row.isEnabled /\ op[r] \in {"verify", "disable"} /\ pc[r] = "check"
      BY <1>6, <1>t DEF VerifyCheck, At, CalmOK, VerifyOK
    <3>2. ~IsLocked(row, now) /\ Continue(r, "upsert", new)
      BY <1>6, <2>2, <3>1 DEF VerifyCheck
    <3>3. /\ new.isEnabled /\ new.secret = row.secret /\ new.recoveryCodes = row.recoveryCodes
          /\ Validate(given[r], row.secret) => new.lockedUntil = NotLocked
      BY <1>t, <3>1 DEF VerifiedRow, RejectedRow, Rows
    <3> HIDE DEF new
    <3>4. "upsert" \in Pcs \ {"idle"}
      BY DEF Pcs
    <3>5. pc'[r] = "upsert" /\ held'[r] = new /\ given'[r] = given[r]
      BY <3>2 DEF Continue, IInv, TypeOK
    <3>6. VerifyOK(r)'
      BY <2>0, <3>1, <3>2, <3>3, <3>5 DEF VerifyOK, IsLocked
    <3> QED
      BY <2>0, <3>1, <3>2, <3>4, <3>6, CalmContinue
  <2> QED
    BY <2>1, <2>2
<1>7. ASSUME NEW r \in Requests, VerifyUpsert(r) PROVE CalmInv'
  <2>0. CalmRow' /\ row' = held[r] /\ row'.isEnabled /\ UNCHANGED now
    BY <1>7, <1>t, CalmWrites DEF VerifyUpsert, CalmRow, history
  <2>1. CASE Finish(r)
    BY <1>7, <2>0, <2>1, CalmFinish DEF VerifyUpsert, At
  <2>2. CASE ~Finish(r)
    <3>1. /\ op[r] = "disable" /\ pc[r] = "upsert" /\ Continue(r, "delete", NoRow)
          /\ Validate(given[r], held[r].secret)
      BY <1>7, <2>2 DEF VerifyUpsert, At
    <3>2. row'.lockedUntil = NotLocked
      BY <1>t, <2>0, <3>1 DEF CalmOK, VerifyOK
    <3>3. pc'[r] = "delete" /\ "delete" \in Pcs \ {"idle"}
      BY <3>1 DEF Continue, IInv, TypeOK, Pcs
    <3>4. VerifyOK(r)'
      BY <2>0, <3>2, <3>3 DEF VerifyOK, IsLocked
    <3> QED
      BY <2>0, <3>1, <3>3, <3>4, CalmContinue
  <2> QED
    BY <2>1, <2>2
<1>8. ASSUME NEW r \in Requests, DisableDelete(r) PROVE CalmInv'
  <2>1. CalmRow'
    BY <1>8, <1>t DEF DisableDelete, CalmRow, NoRow, history
  <2> QED
    BY <1>8, <2>1, CalmFinish DEF DisableDelete, At
<1>9. ASSUME NEW r \in Requests, NEW code \in RecoveryCodes, RecoverRead(r, code)
      PROVE  CalmInv'
  <2>1. RecoveredRow(row, code) \in Rows
    BY <1>9, <1>t, RecoveredRowOK DEF RecoverRead, IInv
  <2>2. "recover" \in Ops \ {"none"} /\ "upsert" \in Pcs \ {"idle"}
    BY DEF Ops, Pcs
  <2> QED
    BY <1>9, <2>1, <2>2, CalmBegin DEF RecoverRead, history
<1>10. ASSUME NEW r \in Requests, RecoverUpsert(r) PROVE CalmInv'
  <2>1. given[r] \in CodesOf(row.secret) /\ row.secret \in Secrets
    BY <1>10, CalmWrites DEF IInv, RowOK, TypeOK, Rows, RecoveryCodes, CodesOf
  <2>2. given[r][1] \in issued
    BY <1>t, <2>1, SecretsAssumption DEF CodesOf, CalmRow
  <2>3. CalmRow'
    BY <1>10, <1>t, <2>2, CalmWrites DEF RecoverUpsert, CalmRow
  <2> QED
    BY <1>10, <2>3, CalmFinish DEF RecoverUpsert, At
<1>11. ASSUME NEW r \in Requests, Fail(r) PROVE CalmInv'
  <2>1. CalmRow'
    BY <1>11, <1>t DEF Fail, CalmRow, history
  <2> QED
    BY <1>11, <2>1, CalmFinish DEF Fail
<1>12. CASE Tick \/ UNCHANGED vars
  <2>1. UNCHANGED <<row, op, pc, held, given, issued, spent>> /\ now' \in Nat /\ now <= now'
    BY <1>12, <1>t DEF Tick, vars, locals, history
  <2>2. ~IsLocked(row, now) => ~IsLocked(row, now)'
    BY <1>t, <2>1 DEF IsLocked, Rows
  <2>3. ASSUME NEW r \in Requests PROVE CalmOK(r)'
    BY <1>t, <2>1, <2>2 DEF CalmOK, Alone, VerifyOK
  <2> QED
    BY <1>t, <2>1, <2>3 DEF CalmInv, CalmRow
<1> QED
  BY <1>1, <1>2, <1>3, <1>4, <1>5, <1>6, <1>7, <1>8, <1>9, <1>10, <1>11, <1>12 DEF Next

LEMMA CalmInvariance == Spec => [](IInv /\ CalmInv)
<1>1. IInv /\ CalmInv /\ [Next]_vars => (IInv /\ CalmInv)'
  BY IInvStep, CalmInvStep
<1> QED
  BY <1>1, IInvInit, CalmInvInit, PTL DEF Spec

-----------------------------------------------------------------------------
(* Until a lockout expires, requests that come one at a time leave the row *)
(* alone: set-up and confirmation work on a row that is not enabled and so *)
(* has no lock, and Verify2FA has compared the lock with an earlier clock. *)
THEOREM LocksHold == Spec => LockHolds
<1>1. ASSUME IInv, CalmInv, [Next]_vars
      PROVE  [calm /\ IsLocked(row, now) /\ row' # row =>
                \E r \in Requests : RecoverUpsert(r)]_vars
  <2> SUFFICES ASSUME calm, IsLocked(row, now), row' # row, Next
               PROVE  \E r \in Requests : RecoverUpsert(r)
    BY <1>1 DEF vars
  <2>1. \A r \in Requests :
          ~ConfirmUpsert(r) /\ ~VerifyUpsert(r) /\ ~DisableDelete(r)
    BY <1>1, CalmWrites
  <2>2. \A r \in Requests : ~SetupUpsert(r)
    BY <1>1 DEF SetupUpsert, At, CalmInv, CalmOK, CalmRow, IsLocked
  <2>3. \A r \in Requests : ~SetupRead(r) /\ ~VerifyCheck(r) /\ ~Fail(r)
    BY DEF SetupRead, VerifyCheck, Fail
  <2>4. \A r \in Requests : \A code : ~ConfirmRead(r, code) /\ ~RecoverRead(r, code)
    BY DEF ConfirmRead, RecoverRead
  <2>5. \A r \in Requests : \A handler, code : ~VerifyRead(r, handler, code)
    BY DEF VerifyRead
  <2>6. ~Tick
    BY DEF Tick
  <2> QED
    BY <2>1, <2>2, <2>3, <2>4, <2>5, <2>6 DEF Next
<1> QED
  BY <1>1, CalmInvariance, PTL DEF Spec, LockHolds

(* Requests that come one at a time implement the second factor: its five  *)
(* writes of the row are enrolment, activation, no change, redemption and  *)
(* removal.                                                                *)
THEOREM RequestsImplementFactor == Spec => ImplementsSecondFactor
<1>1. Init => Factor!Init
  BY DEF Init, Factor!Init, NoRow
<1>2. ASSUME IInv, CalmInv, [Next]_vars PROVE [Factor!Next]_(Factor!factorVars)
  <2>c. calm' = calm
    BY <1>2 DEF Next, vars
  <2>1. CASE ~calm
    BY <2>c, <2>1 DEF Factor!factorVars
  <2>2. CASE calm /\ UNCHANGED <<row, issued, spent>>
    BY <2>c, <2>2 DEF Factor!factorVars
  <2>3. ASSUME calm, NEW r \in Requests, SetupUpsert(r) PROVE Factor!Next
    <3> PICK s \in Secrets \ issued : row' = FreshRow(s) /\ issued' = issued \cup {s}
      BY <2>3 DEF SetupUpsert
    <3>1. ~row.isEnabled /\ spent' = spent
      BY <1>2, <2>3 DEF SetupUpsert, At, CalmInv, CalmOK
    <3>2. /\ row'.secret = s /\ ~row'.isEnabled /\ row'.recoveryCodes = CodesOf(s)
      BY DEF FreshRow
    <3>3. s # NoSecret
      BY SecretsAssumption
    <3>4. Factor!Enrol(s)
      BY <2>3, <2>c, <3>1, <3>2, <3>3 DEF Factor!Enrol, Factor!Batch, CodesOf
    <3> QED
      BY <3>4 DEF Factor!Next
  <2>4. ASSUME calm, NEW r \in Requests, ConfirmUpsert(r) PROVE Factor!Next
    <3>1. /\ row.secret # NoSecret /\ ~row.isEnabled
          /\ row'.secret = row.secret /\ row'.isEnabled
          /\ row'.recoveryCodes = row.recoveryCodes
      BY <1>2, <2>4, CalmWrites
    <3>2. issued' = issued /\ spent' = spent
      BY <2>4 DEF ConfirmUpsert, history
    <3>3. Factor!Activate
      BY <2>4, <2>c, <3>1, <3>2 DEF Factor!Activate
    <3> QED
      BY <3>3 DEF Factor!Next
  <2>5. ASSUME calm, NEW r \in Requests, VerifyUpsert(r) PROVE UNCHANGED Factor!factorVars
    <3>1. /\ row.isEnabled /\ row'.secret = row.secret /\ row'.isEnabled
          /\ row'.recoveryCodes = row.recoveryCodes
      BY <1>2, <2>5, CalmWrites
    <3>2. issued' = issued /\ spent' = spent
      BY <2>5 DEF VerifyUpsert, history
    <3> QED
      BY <2>5, <2>c, <3>1, <3>2 DEF Factor!factorVars
  <2>6. row.isEnabled => row.secret # NoSecret
    BY <1>2, SecretsAssumption DEF IInv, RowOK, TypeOK
  <2>7. ASSUME calm, NEW r \in Requests, DisableDelete(r) PROVE Factor!Next
    <3>1. row.isEnabled /\ row.secret # NoSecret
      BY <1>2, <2>7, <2>6, CalmWrites
    <3>2. row' = NoRow /\ issued' = issued /\ spent' = spent
      BY <2>7 DEF DisableDelete, history
    <3>3. row'.secret = NoSecret /\ row'.recoveryCodes = {}
      BY <3>2 DEF NoRow
    <3>4. Factor!Remove
      BY <2>7, <2>c, <3>1, <3>2, <3>3 DEF Factor!Remove
    <3> QED
      BY <3>4 DEF Factor!Next
  <2>8. ASSUME calm, NEW r \in Requests, RecoverUpsert(r) PROVE Factor!Next
    <3>1. /\ row.isEnabled /\ given[r] \in row.recoveryCodes /\ given[r] \notin spent
          /\ row'.secret = row.secret /\ row'.isEnabled
          /\ row'.recoveryCodes = row.recoveryCodes \ {given[r]}
          /\ row.secret # NoSecret
      BY <1>2, <2>8, <2>6, CalmWrites
    <3>2. issued' = issued /\ spent' = spent \cup {given[r]}
      BY <2>8 DEF RecoverUpsert
    <3>3. Factor!Redeem(given[r])
      BY <2>8, <2>c, <3>1, <3>2 DEF Factor!Redeem
    <3> QED
      BY <2>8, <3>1, <3>3 DEF Factor!Next
  <2>9. ASSUME NEW r \in Requests, SetupRead(r) \/ VerifyCheck(r) \/ Fail(r)
        PROVE  UNCHANGED <<row, issued, spent>>
    BY <2>9 DEF SetupRead, VerifyCheck, Fail, history
  <2>10. ASSUME NEW r \in Requests, NEW code, ConfirmRead(r, code) \/ RecoverRead(r, code)
         PROVE  UNCHANGED <<row, issued, spent>>
    BY <2>10 DEF ConfirmRead, RecoverRead, history
  <2>11. ASSUME NEW r \in Requests, NEW handler, NEW code, VerifyRead(r, handler, code)
         PROVE  UNCHANGED <<row, issued, spent>>
    BY <2>11 DEF VerifyRead, history
  <2>12. CASE Tick \/ UNCHANGED vars
    BY <2>1, <2>2, <2>12 DEF Tick, vars, history
  <2> QED
    BY <1>2, <2>1, <2>2, <2>3, <2>4, <2>5, <2>7, <2>8, <2>9, <2>10, <2>11, <2>12 DEF Next
<1> QED
  BY <1>1, <1>2, CalmInvariance, PTL DEF Spec, ImplementsSecondFactor, Factor!Spec

-----------------------------------------------------------------------------
(* Single use.  A code comes back only with a row that was copied while it *)
(* still worked and written after it was redeemed.  So it is enough that   *)
(* nothing else is in flight while a recovery code is redeemed: the other  *)
(* handlers may overlap as they like, and their reads may fail.            *)

RecoveryAlone ==
  \A q, r \in Requests : op[q] = "recover" /\ pc[r] # "idle" => q = r

(* A row without redeemed codes, of an enrolment that has taken place.     *)
Unspent(aRow) ==
  /\ aRow.secret \in issued \cup {NoSecret}
  /\ aRow.recoveryCodes \cap spent = {}

UnspentRequest(r) ==
  /\ Unspent(held[r])
  /\ pc[r] = "idle" => held[r] = NoRow
  /\ op[r] = "recover" => /\ given[r] \notin spent \cup held[r].recoveryCodes
                          /\ given[r][1] \in issued

UnspentInv ==
  /\ Unspent(row)
  /\ \A c \in spent : c[1] \in issued
  /\ \A r \in Requests : UnspentRequest(r)

LEMMA UnspentInit == Init => UnspentInv
<1>1. NoRow.secret = NoSecret /\ NoRow.recoveryCodes = {}
  BY DEF NoRow
<1> QED
  BY <1>1 DEF Init, UnspentInv, Unspent, UnspentRequest

(* A step of one request that redeems nothing.                             *)
LEMMA UnspentLocal ==
  ASSUME UnspentInv, NEW r \in Requests, issued \subseteq issued', spent' = spent,
         \A q \in Requests \ {r} : /\ op'[q] = op[q] /\ pc'[q] = pc[q]
                                   /\ held'[q] = held[q] /\ given'[q] = given[q],
         Unspent(row)', UnspentRequest(r)'
  PROVE  UnspentInv'
<1>1. ASSUME NEW q \in Requests \ {r} PROVE UnspentRequest(q)'
  BY DEF UnspentInv, UnspentRequest, Unspent
<1> QED
  BY <1>1 DEF UnspentInv

(* What each step does to the locals of its request and of the others.     *)
LEMMA StepLocals ==
  ASSUME TypeOK, NEW r \in Requests
  PROVE  /\ Finish(r) => /\ op'[r] = "none" /\ held'[r] = NoRow
         /\ \A label, aRow : Continue(r, label, aRow) =>
              /\ op'[r] = op[r] /\ given'[r] = given[r]
              /\ pc'[r] = label /\ held'[r] = aRow
         /\ \A handler, label, aRow, code : Begin(r, handler, label, aRow, code) =>
              /\ op'[r] = handler /\ pc'[r] = label
              /\ held'[r] = aRow /\ given'[r] = code
         /\ \/ Finish(r)
            \/ \E label, aRow : Continue(r, label, aRow)
            \/ \E handler, label, aRow, code : Begin(r, handler, label, aRow, code)
            => \A q \in Requests \ {r} : /\ op'[q] = op[q] /\ pc'[q] = pc[q]
                                         /\ held'[q] = held[q] /\ given'[q] = given[q]
<1>1. ASSUME Finish(r)
      PROVE  /\ op'[r] = "none" /\ held'[r] = NoRow
             /\ \A q \in Requests \ {r} : /\ op'[q] = op[q] /\ pc'[q] = pc[q]
                                          /\ held'[q] = held[q] /\ given'[q] = given[q]
  BY <1>1 DEF Finish, TypeOK
<1>2. ASSUME NEW label, NEW aRow, Continue(r, label, aRow)
      PROVE  /\ op'[r] = op[r] /\ given'[r] = given[r] /\ pc'[r] = label /\ held'[r] = aRow
             /\ \A q \in Requests \ {r} : /\ op'[q] = op[q] /\ pc'[q] = pc[q]
                                          /\ held'[q] = held[q] /\ given'[q] = given[q]
  BY <1>2 DEF Continue, TypeOK
<1>3. ASSUME NEW handler, NEW label, NEW aRow, NEW code, Begin(r, handler, label, aRow, code)
      PROVE  /\ op'[r] = handler /\ pc'[r] = label /\ held'[r] = aRow /\ given'[r] = code
             /\ \A q \in Requests \ {r} : /\ op'[q] = op[q] /\ pc'[q] = pc[q]
                                          /\ held'[q] = held[q] /\ given'[q] = given[q]
  BY <1>3 DEF Begin, TypeOK
<1> QED
  BY <1>1, <1>2, <1>3

(* Confirm2FA and Verify2FA leave the secret and the codes of the row they *)
(* hold alone.                                                             *)
LEMMA RowsKeepCodes ==
  ASSUME NEW old \in Rows, NEW time
  PROVE  /\ ConfirmedRow(old).secret = old.secret
         /\ ConfirmedRow(old).recoveryCodes = old.recoveryCodes
         /\ VerifiedRow(old).secret = old.secret
         /\ VerifiedRow(old).recoveryCodes = old.recoveryCodes
         /\ RejectedRow(old, time).secret = old.secret
         /\ RejectedRow(old, time).recoveryCodes = old.recoveryCodes
BY DEF ConfirmedRow, VerifiedRow, RejectedRow, Rows

LEMMA UnspentStep == IInv /\ UnspentInv /\ RecoveryAlone /\ [Next]_vars => UnspentInv'
<1> SUFFICES ASSUME IInv, UnspentInv, RecoveryAlone, [Next]_vars PROVE UnspentInv'
  OBVIOUS
<1>t. /\ TypeOK /\ row \in Rows /\ \A r \in Requests : held[r] \in Rows
      /\ RowOK(row, confirmed, spent, now)
  BY DEF IInv, TypeOK
<1>n. NoRow.secret = NoSecret /\ NoRow.recoveryCodes = {}
  BY DEF NoRow
<1>u. Unspent(row) /\ \A r \in Requests : UnspentRequest(r)
  BY DEF UnspentInv
<1>1. ASSUME NEW r \in Requests, SetupRead(r) PROVE UnspentInv'
  <2>1. Unspent(row)' /\ UNCHANGED <<issued, spent>>
    BY <1>1, <1>u DEF SetupRead, history, Unspent
  <2>2. UnspentRequest(r)'
    BY <1>1, <1>n, <1>t, <2>1, StepLocals DEF SetupRead, UnspentRequest, Unspent
  <2> QED
    BY <1>1, <1>t, <2>1, <2>2, StepLocals, UnspentLocal DEF SetupRead
<1>2. ASSUME NEW r \in Requests, SetupUpsert(r) PROVE UnspentInv'
  <2>1. issued \subseteq issued' /\ spent' = spent
    BY <1>2 DEF SetupUpsert
  <2>2. PICK s \in Secrets \ issued : row' = FreshRow(s) /\ issued' = issued \cup {s}
    BY <1>2 DEF SetupUpsert
  <2>3. \A c \in spent : c \notin CodesOf(s)
    BY <2>2 DEF UnspentInv, CodesOf
  <2>4. Unspent(row)'
    BY <2>1, <2>2, <2>3 DEF FreshRow, Unspent
  <2>5. UnspentRequest(r)'
    BY <1>2, <1>n, <1>t, StepLocals DEF SetupUpsert, UnspentRequest, Unspent
  <2> QED
    BY <1>2, <1>t, <2>1, <2>4, <2>5, StepLocals, UnspentLocal DEF SetupUpsert
<1>3. ASSUME NEW r \in Requests, NEW code \in Secrets \cup {NoSecret}, ConfirmRead(r, code)
      PROVE  UnspentInv'
  <2>1. Unspent(row)' /\ UNCHANGED <<issued, spent>>
    BY <1>3, <1>u DEF ConfirmRead, Unspent
  <2>2. /\ op'[r] = "confirm" /\ pc'[r] = "upsert" /\ held'[r] = ConfirmedRow(row)
    BY <1>3, <1>t, StepLocals DEF ConfirmRead
  <2>3. UnspentRequest(r)'
    BY <1>t, <1>u, <2>1, <2>2, RowsKeepCodes DEF UnspentRequest, Unspent
  <2> QED
    BY <1>3, <1>t, <2>1, <2>3, StepLocals, UnspentLocal DEF ConfirmRead
<1>4. ASSUME NEW r \in Requests, NEW handler \in {"verify", "disable"},
             NEW code \in Secrets \cup {NoSecret}, VerifyRead(r, handler, code)
      PROVE  UnspentInv'
  <2>1. Unspent(row)' /\ UNCHANGED <<issued, spent>>
    BY <1>4, <1>u DEF VerifyRead, history, Unspent
  <2>2. /\ op'[r] = handler /\ pc'[r] = "check" /\ held'[r] = row
    BY <1>4, <1>t, StepLocals DEF VerifyRead
  <2>3. UnspentRequest(r)'
    BY <1>u, <2>1, <2>2 DEF UnspentRequest, Unspent
  <2> QED
    BY <1>4, <1>t, <2>1, <2>3, StepLocals, UnspentLocal DEF VerifyRead
<1>5. ASSUME NEW r \in Requests, VerifyCheck(r) PROVE UnspentInv'
  <2>1. Unspent(row)' /\ UNCHANGED <<issued, spent>> /\ op[r] # "recover"
    BY <1>5, <1>u DEF VerifyCheck, history, Unspent, At
  <2>2. CASE Finish(r)
    <3>1. UnspentRequest(r)'
      BY <1>n, <1>t, <2>2, StepLocals DEF UnspentRequest, Unspent
    <3> QED
      BY <1>t, <2>1, <2>2, <3>1, StepLocals, UnspentLocal
  <2>3. CASE Continue(r, "upsert", IF Validate(given[r], held[r].secret)
                                     THEN VerifiedRow(held[r])
                                     ELSE RejectedRow(held[r], now))
    <3>1. /\ op'[r] = op[r] /\ pc'[r] = "upsert"
          /\ held'[r] \in {VerifiedRow(held[r]), RejectedRow(held[r], now)}
      BY <1>t, <2>3, StepLocals
    <3>2. UnspentRequest(r)'
      BY <1>t, <1>u, <2>1, <3>1, RowsKeepCodes DEF UnspentRequest, Unspent
    <3> QED
      BY <1>t, <2>1, <2>3, <3>2, StepLocals, UnspentLocal
  <2> QED
    BY <1>5, <2>2, <2>3 DEF VerifyCheck
<1>6. ASSUME NEW r \in Requests, ConfirmUpsert(r) \/ VerifyUpsert(r) PROVE UnspentInv'
  <2>1. row' = held[r] /\ UNCHANGED <<issued, spent>> /\ op[r] # "recover"
    BY <1>6 DEF ConfirmUpsert, VerifyUpsert, history, At
  <2>2. Unspent(row)'
    BY <1>u, <2>1 DEF UnspentRequest, Unspent
  <2>3. Finish(r) \/ Continue(r, "delete", NoRow)
    BY <1>6 DEF ConfirmUpsert, VerifyUpsert
  <2>4. op'[r] # "recover" /\ held'[r] = NoRow
    BY <1>t, <2>1, <2>3, StepLocals
  <2>5. UnspentRequest(r)'
    BY <1>n, <2>4 DEF UnspentRequest, Unspent
  <2> QED
    BY <1>t, <2>1, <2>2, <2>3, <2>5, StepLocals, UnspentLocal
<1>7. ASSUME NEW r \in Requests, DisableDelete(r) \/ Fail(r) PROVE UnspentInv'
  <2>1. Finish(r) /\ row' \in {NoRow, row} /\ UNCHANGED <<issued, spent>>
    BY <1>7 DEF DisableDelete, Fail, history
  <2>2. Unspent(row)'
    BY <1>n, <1>u, <2>1 DEF Unspent
  <2>3. UnspentRequest(r)'
    BY <1>n, <1>t, <2>1, StepLocals DEF UnspentRequest, Unspent
  <2> QED
    BY <1>t, <2>1, <2>2, <2>3, StepLocals, UnspentLocal
<1>8. ASSUME NEW r \in Requests, NEW code \in RecoveryCodes, RecoverRead(r, code)
      PROVE  UnspentInv'
  <2>1. Unspent(row)' /\ UNCHANGED <<issued, spent>>
    BY <1>8, <1>u DEF RecoverRead, history, Unspent
  <2>2. /\ op'[r] = "recover" /\ pc'[r] = "upsert" /\ given'[r] = code
        /\ held'[r] = RecoveredRow(row, code) /\ code \in row.recoveryCodes
    BY <1>8, <1>t, StepLocals DEF RecoverRead
  <2>3. /\ RecoveredRow(row, code).secret = row.secret
        /\ RecoveredRow(row, code).recoveryCodes = row.recoveryCodes \ {code}
    BY <1>t DEF RecoveredRow, Rows
  <2>4. code[1] \in issued
    <3>1. code \in CodesOf(row.secret) /\ code \in RecoveryCodes
      BY <1>t, <2>2 DEF RowOK
    <3>2. code[1] = row.secret /\ code[1] \in Secrets
      BY <3>1 DEF CodesOf, RecoveryCodes
    <3> QED
      BY <1>u, <3>2, SecretsAssumption DEF Unspent
  <2>5. UnspentRequest(r)'
    BY <1>u, <2>1, <2>2, <2>3, <2>4 DEF UnspentRequest, Unspent
  <2> QED
    BY <1>8, <1>t, <2>1, <2>5, StepLocals, UnspentLocal DEF RecoverRead
<1>9. ASSUME NEW r \in Requests, RecoverUpsert(r) PROVE UnspentInv'
  <2>1. /\ op[r] = "recover" /\ pc[r] = "upsert" /\ row' = held[r] /\ Finish(r)
        /\ issued' = issued /\ spent' = spent \cup {given[r]}
    BY <1>9 DEF RecoverUpsert, At
  <2>2. Unspent(held[r]) /\ given[r] \notin held[r].recoveryCodes /\ given[r][1] \in issued
    BY <1>u, <2>1 DEF UnspentRequest
  <2>3. Unspent(row)' /\ \A c \in spent' : c[1] \in issued'
    BY <2>1, <2>2 DEF Unspent, UnspentInv
  <2>4. ASSUME NEW q \in Requests PROVE held'[q] = NoRow /\ op'[q] # "recover"
    <3>1. CASE q = r
      BY <1>t, <2>1, <3>1, StepLocals
    <3>2. CASE q # r
      <4>1. pc[q] = "idle" /\ op[q] # "recover"
        BY <2>1, <3>2 DEF RecoveryAlone
      <4>2. held'[q] = held[q] /\ op'[q] = op[q]
        BY <1>t, <2>1, <3>2, StepLocals
      <4> QED
        BY <1>u, <4>1, <4>2 DEF UnspentRequest
    <3> QED
      BY <3>1, <3>2
  <2> QED
    BY <1>n, <2>3, <2>4 DEF UnspentInv, UnspentRequest, Unspent
<1>10. CASE Tick \/ UNCHANGED vars
  BY <1>10 DEF Tick, vars, locals, history, UnspentInv, UnspentRequest, Unspent
<1> QED
  BY <1>1, <1>2, <1>3, <1>4, <1>5, <1>6, <1>7, <1>8, <1>9, <1>10 DEF Next

(* A recovery code serves once, unless another request was in flight while *)
(* one was redeemed: failed reads, crashes between statements and races of *)
(* the other handlers do not bring a redeemed code back.                   *)
THEOREM RecoveryCodesServeOnce == Spec /\ []RecoveryAlone => RecoveryCodeSingleUse
<1>1. Spec => []IInv
  BY Invariance
<1>2. Spec /\ []RecoveryAlone => []UnspentInv
  BY <1>1, UnspentInit, UnspentStep, PTL DEF Spec
<1>3. ASSUME UnspentInv, [Next]_vars
      PROVE  [\A r \in Requests : RecoverUpsert(r) => given[r] \notin spent]_vars
  BY <1>3 DEF UnspentInv, UnspentRequest, RecoverUpsert, At
<1> QED
  BY <1>2, <1>3, PTL DEF Spec, RecoveryCodeSingleUse

(* Calm times are such times, so then a recovery code serves once.         *)
THEOREM CalmRecoveryCodesServeOnce == Spec /\ calm => RecoveryCodeSingleUse
<1>1. CalmInv /\ calm => RecoveryAlone
  <2> SUFFICES ASSUME CalmInv, calm, NEW q \in Requests, NEW r \in Requests,
                      op[q] = "recover", pc[r] # "idle"
               PROVE  q = r
    BY DEF RecoveryAlone
  <2> QED
    BY DEF CalmInv, CalmOK, Alone
<1>2. calm /\ [Next]_vars => calm'
  BY DEF Next, vars
<1> QED
  BY <1>1, <1>2, CalmInvariance, RecoveryCodesServeOnce, PTL DEF Spec
=============================================================================
