------------------------ MODULE EmailTwoFactorProofs ------------------------
(***************************************************************************)
(* Why the five rows of the email factor, written one at a time, let no    *)
(* code outlive its expiry or its successor: for any number of requests,   *)
(* any failures and any interleaving.  As in PasswordResetProofs, hash and *)
(* expiry need belong together only once the code has been mailed          *)
(* (PairOK); here either of them may also have been deleted.  Two issues   *)
(* that overlap may store them crosswise: what can be said of a code then  *)
(* is said of it and its rivals.                                           *)
(*                                                                         *)
(* Also: in which ways alone a code can be accepted twice; why the lock    *)
(* bounds the guesses while requests come one at a time; and that nothing  *)
(* but asking for a new code cuts a lock short.                            *)
(***************************************************************************)
EXTENDS EmailTwoFactor, TLAPS

IssueLabels   == {"setHash", "setExpires", "clearAttempts", "clearLocked", "mail"}
AcceptLabels  == {"clearHash", "clearExpires", "clearAttempts", "clearLocked", "setEnabled"}
VerifyLabels  == {"readLock", "readExpires", "readHash",
                  "readAttempts", "setAttempts", "setLocked"} \cup AcceptLabels
DisableLabels == {"clearEnabled", "clearHash", "clearExpires", "clearAttempts", "clearLocked"}

-----------------------------------------------------------------------------
(* Types, and which statement belongs to which operation.                  *)

LEMMA ConstantsAreNumbers ==
  /\ email2faOTPExpiry \in Nat \ {0} /\ maxFailedAttempts \in Nat \ {0}
  /\ lockoutDuration \in Nat \ {0} /\ MaxCodes \in Nat /\ MaxTime \in Nat
BY EmailAssumption

TablesOK ==
  /\ calm \in BOOLEAN
  /\ enabled \in BOOLEAN
  /\ otpHash \in Codes \cup {Missing}
  /\ expiresAt \in Nat
  /\ attempts \in Nat
  /\ lockedUntil \in Nat
  /\ now \in Nat
  /\ generated \in 0 .. MaxCodes
  /\ rivals \in [Codes -> SUBSET Codes]
  /\ storedAt \in [Codes -> Nat]
  /\ mailed \subseteq Codes
  /\ redeemed \subseteq Codes
  /\ spared \subseteq Codes
  /\ guesses \in [Codes -> Nat]

LocalsOK ==
  /\ op \in [Requests -> Ops]
  /\ pc \in [Requests -> Labels]
  /\ code \in [Requests -> Codes \cup {NoCode}]
  /\ tries \in [Requests -> Nat]
  /\ checkedAt \in [Requests -> Nat]
  /\ seen \in [Requests -> SUBSET Codes]

OpOK(q) ==
  /\ pc[q] = "idle" <=> op[q] = "none"
  /\ op[q] = "issue" => q \in Issuers /\ pc[q] \in IssueLabels /\ code[q] \in Codes
  /\ op[q] \in {"confirm", "login"} => pc[q] \in VerifyLabels
  /\ op[q] \in {"confirm", "login"} /\ pc[q] = "clearHash" => code[q] \in Codes
  /\ op[q] = "disable" => q \in Disablers /\ pc[q] \in DisableLabels

(* Calm requests come one at a time.                                       *)
OneAtATime ==
  calm => \A p, q \in Requests : pc[p] # "idle" /\ pc[q] # "idle" => p = q

TInv ==
  /\ TablesOK
  /\ LocalsOK
  /\ \A q \in Requests : OpOK(q)
  /\ OneAtATime

LEMMA TypesSplit == TypeOK <=> TablesOK /\ LocalsOK
BY DEF TypeOK, TablesOK, LocalsOK

LEMMA TInvInit == Init => TInv
<1> SUFFICES ASSUME Init PROVE TInv
  OBVIOUS
<1> USE ConstantsAreNumbers
<1>1. calm \in BOOLEAN /\ enabled \in BOOLEAN
  BY Zenon DEF Init
<1>2. TablesOK
  BY <1>1 DEF Init, TablesOK, Missing
<1>3. LocalsOK
  BY DEF Init, LocalsOK, Ops, Labels, NoCode
<1> QED
  BY <1>2, <1>3 DEF Init, TInv, OpOK, OneAtATime

(* The three ways a step changes the locals of its request.                *)

LEMMA TypesBegin ==
  ASSUME TInv, TablesOK', calm' = calm, NEW q \in Requests,
         NEW operation \in Ops \ {"none"}, NEW label \in Labels \ {"idle"},
         NEW c \in Codes \cup {NoCode},
         Begin(q, operation, label, c),
         operation = "issue" => q \in Issuers /\ label = "setHash" /\ c \in Codes,
         operation \in {"confirm", "login"} => label = "readLock",
         operation = "disable" => q \in Disablers /\ label = "clearEnabled"
  PROVE  TInv'
<1>1. LocalsOK'
  BY DEF Begin, TInv, LocalsOK, TablesOK
<1>2. ASSUME NEW p \in Requests PROVE OpOK(p)'
  BY DEF Begin, TInv, LocalsOK, OpOK, IssueLabels, VerifyLabels, DisableLabels
<1>3. OneAtATime'
  BY DEF Begin, TInv, LocalsOK, OneAtATime
<1> QED
  BY <1>1, <1>2, <1>3 DEF TInv

LEMMA TypesGoto ==
  ASSUME TInv, TablesOK', calm' = calm, NEW q \in Requests,
         NEW label \in Labels \ {"idle"},
         pc[q] # "idle",
         pc' = [pc EXCEPT ![q] = label], UNCHANGED <<op, code, seen>>,
         tries' \in [Requests -> Nat], checkedAt' \in [Requests -> Nat],
         op[q] = "issue" => label \in IssueLabels,
         op[q] \in {"confirm", "login"} => label \in VerifyLabels,
         op[q] \in {"confirm", "login"} /\ label = "clearHash" => code[q] \in Codes,
         op[q] = "disable" => label \in DisableLabels
  PROVE  TInv'
<1>1. LocalsOK'
  BY DEF TInv, LocalsOK, TablesOK
<1>2. ASSUME NEW p \in Requests PROVE OpOK(p)'
  BY DEF TInv, LocalsOK, OpOK
<1>3. OneAtATime'
  BY DEF TInv, LocalsOK, OneAtATime
<1> QED
  BY <1>1, <1>2, <1>3 DEF TInv

LEMMA TypesFinish ==
  ASSUME TInv, TablesOK', calm' = calm, NEW q \in Requests, Finish(q)
  PROVE  TInv'
<1>1. LocalsOK'
  BY DEF Finish, TInv, LocalsOK, Ops, Labels
<1>2. ASSUME NEW p \in Requests PROVE OpOK(p)'
  BY DEF Finish, TInv, LocalsOK, OpOK
<1>3. OneAtATime'
  BY DEF Finish, TInv, LocalsOK, OneAtATime
<1> QED
  BY <1>1, <1>2, <1>3 DEF TInv

LEMMA GotoTyped ==
  ASSUME LocalsOK, NEW q \in Requests, NEW label, Goto(q, label)
  PROVE  /\ pc' = [pc EXCEPT ![q] = label] /\ UNCHANGED <<op, code, seen>>
         /\ tries' \in [Requests -> Nat] /\ checkedAt' \in [Requests -> Nat]
BY DEF LocalsOK, Goto

LEMMA PendingCodes == ASSUME TInv PROVE Pending \subseteq Codes
BY DEF TInv, OpOK, Pending

LEMMA SparedTyped ==
  ASSUME TInv, NEW q \in Requests, Spare(q) PROVE spared' \subseteq Codes
<1>1. OpOK(q) /\ op[q] \in Ops /\ spared \subseteq Codes
  BY DEF TInv, TablesOK, LocalsOK
<1>2. pc[q] = "clearHash" /\ op[q] # "disable" => code[q] \in Codes
  BY <1>1 DEF OpOK, Ops, IssueLabels
<1> QED
  BY <1>1, <1>2 DEF Spare

LEMMA TInvStep == TInv /\ [Next]_vars => TInv'
<1> SUFFICES ASSUME TInv, [Next]_vars PROVE TInv'
  OBVIOUS
<1> USE ConstantsAreNumbers
<1>t. TablesOK /\ LocalsOK
  BY DEF TInv
<1>c. calm' = calm
  BY DEF Next, vars
<1>r. Issuers \subseteq Requests /\ Verifiers \subseteq Requests /\ Disablers \subseteq Requests
  BY DEF Requests
<1> USE <1>c
<1>1. ASSUME NEW q \in Issuers, IssueBegin(q) PROVE TInv'
  <2>1. generated + 1 \in Codes /\ generated' \in 0 .. MaxCodes
    BY <1>1, <1>t DEF IssueBegin, TablesOK, Codes
  <2>2. TablesOK'
    <3>1. rivals' \in [Codes -> SUBSET Codes]
      BY <1>1, <1>t, <2>1, PendingCodes DEF IssueBegin, Rival, TablesOK
    <3> QED
      BY <1>1, <1>t, <2>1, <3>1 DEF IssueBegin, TablesOK, stored
  <2>3. "issue" \in Ops \ {"none"} /\ "setHash" \in Labels \ {"idle"}
    BY DEF Ops, Labels
  <2> QED
    BY <1>1, <1>r, <2>1, <2>2, <2>3, TypesBegin DEF IssueBegin
<1>2. ASSUME NEW q \in Issuers, IssueSetHash(q) PROVE TInv'
  <2>1. op[q] = "issue" /\ pc[q] # "idle"
    BY <1>2, <1>r, <1>t DEF IssueSetHash, TInv, OpOK, VerifyLabels, AcceptLabels,
                            DisableLabels, LocalsOK, Ops
  <2>0. code[q] \in Codes \cup {Missing}
    BY <1>r, <1>t DEF LocalsOK, NoCode, Missing
  <2>2. TablesOK'
    BY <1>2, <1>t, <2>0 DEF IssueSetHash, TablesOK, history
  <2>3. "setExpires" \in (Labels \ {"idle"}) \cap IssueLabels
    BY DEF Labels, IssueLabels
  <2> QED
    BY <1>2, <1>r, <1>t, <2>1, <2>2, <2>3, GotoTyped, TypesGoto DEF IssueSetHash
<1>3. ASSUME NEW q \in Issuers, IssueSetExpires(q) PROVE TInv'
  <2>1. op[q] = "issue" /\ pc[q] # "idle"
    BY <1>3, <1>r, <1>t DEF IssueSetExpires, TInv, OpOK, VerifyLabels, AcceptLabels,
                            DisableLabels, LocalsOK, Ops
  <2>0. now + email2faOTPExpiry \in Nat /\ storedAt' \in [Codes -> Nat]
    <3>1. now \in Nat /\ storedAt \in [Codes -> Nat]
      BY <1>t DEF TablesOK
    <3>2. storedAt' = [storedAt EXCEPT ![code[q]] = now]
      BY <1>3 DEF IssueSetExpires
    <3>3. now + email2faOTPExpiry \in Nat
      BY <3>1
    <3>4. storedAt' \in [Codes -> Nat]
      BY <3>1, <3>2
    <3> QED
      BY <3>3, <3>4
  <2>2. TablesOK'
    BY <1>3, <1>t, <2>0 DEF IssueSetExpires, TablesOK
  <2>3. "clearAttempts" \in (Labels \ {"idle"}) \cap IssueLabels
    BY DEF Labels, IssueLabels
  <2> QED
    BY <1>3, <1>r, <1>t, <2>1, <2>2, <2>3, GotoTyped, TypesGoto DEF IssueSetExpires
<1>4. ASSUME NEW q \in Issuers, IssueMail(q) PROVE TInv'
  <2>1. code[q] \in Codes
    BY <1>4, <1>r, <1>t DEF IssueMail, TInv, OpOK, VerifyLabels, AcceptLabels,
                            DisableLabels, LocalsOK, Ops
  <2>2. TablesOK'
    BY <1>4, <1>t, <2>1 DEF IssueMail, TablesOK, stored
  <2> QED
    BY <1>4, <1>r, <2>2, TypesFinish DEF IssueMail
<1>5. ASSUME NEW q \in Verifiers, NEW operation \in {"confirm", "login"},
             NEW c \in mailed \cup {NoCode}, VerifyBegin(q, operation, c) PROVE TInv'
  <2>1. TablesOK'
    BY <1>5, <1>t DEF VerifyBegin, TablesOK, stored, history
  <2>2. /\ operation \in Ops \ {"none"} /\ "readLock" \in Labels \ {"idle"}
        /\ c \in Codes \cup {NoCode}
    BY <1>t DEF Ops, Labels, TablesOK
  <2> QED
    BY <1>5, <1>r, <2>1, <2>2, TypesBegin DEF VerifyBegin
(* Steps of a verification that leave the tables typed.                    *)
<1>6. ASSUME NEW q \in Requests, pc[q] \in VerifyLabels \ AcceptLabels, TablesOK',
             \/ Finish(q)
             \/ \E label \in VerifyLabels :
                  /\ label = "clearHash" => code[q] \in Codes
                  /\ pc' = [pc EXCEPT ![q] = label]
                  /\ UNCHANGED <<op, code, seen>>
                  /\ tries' \in [Requests -> Nat] /\ checkedAt' \in [Requests -> Nat]
      PROVE  TInv'
  <2>1. op[q] \in {"confirm", "login"}
    BY <1>6, <1>t DEF TInv, OpOK, IssueLabels, VerifyLabels, AcceptLabels,
                      DisableLabels, LocalsOK, Ops
  <2>2. CASE Finish(q)
    BY <1>6, <2>2, TypesFinish
  <2>3. ASSUME NEW label \in VerifyLabels,
               /\ label = "clearHash" => code[q] \in Codes
               /\ pc' = [pc EXCEPT ![q] = label]
               /\ UNCHANGED <<op, code, seen>>
               /\ tries' \in [Requests -> Nat] /\ checkedAt' \in [Requests -> Nat]
        PROVE  TInv'
    <3>1. label \in Labels \ {"idle"} /\ pc[q] # "idle"
      BY <1>6 DEF VerifyLabels, AcceptLabels, Labels
    <3> QED
      BY <1>6, <2>1, <2>3, <3>1, TypesGoto
  <2> QED
    BY <1>6, <2>2, <2>3
<1>7. ASSUME NEW q \in Verifiers,
             VerifyReadLock(q) \/ VerifyReadExpires(q) \/ VerifyReadAttempts(q)
      PROVE  TInv'
  <2>1. TablesOK'
    BY <1>7, <1>t DEF VerifyReadLock, VerifyReadExpires, VerifyReadAttempts,
                      TablesOK, stored, history
  <2>2. pc[q] \in VerifyLabels \ AcceptLabels
    BY <1>7 DEF VerifyReadLock, VerifyReadExpires, VerifyReadAttempts,
                VerifyLabels, AcceptLabels
  <2>3. {"readExpires", "readHash", "setAttempts"} \subseteq VerifyLabels
    BY DEF VerifyLabels
  <2>4. CASE VerifyReadLock(q)
    BY <2>4, <1>r, <1>t, <1>6, <2>1, <2>2, <2>3, GotoTyped DEF VerifyReadLock
  <2>5. CASE VerifyReadExpires(q)
    BY <2>5, <1>r, <1>t, <1>6, <2>1, <2>2, <2>3 DEF VerifyReadExpires, LocalsOK, TablesOK
  <2>6. CASE VerifyReadAttempts(q)
    <3>1. tries' \in [Requests -> Nat]
      BY <2>6, <1>t DEF VerifyReadAttempts, LocalsOK, TablesOK
    <3> QED
      BY <2>6, <1>r, <1>t, <1>6, <2>1, <2>2, <2>3, <3>1 DEF VerifyReadAttempts, LocalsOK
  <2> QED
    BY <1>7, <2>4, <2>5, <2>6
<1>8. ASSUME NEW q \in Verifiers, VerifyReadHash(q) PROVE TInv'
  <2>1. TablesOK'
    BY <1>8, <1>t DEF VerifyReadHash, Accepts, TablesOK, stored
  <2>2. pc[q] \in VerifyLabels \ AcceptLabels
    BY <1>8 DEF VerifyReadHash, VerifyLabels, AcceptLabels
  <2>3. {"clearHash", "readAttempts"} \subseteq VerifyLabels
    BY DEF VerifyLabels, AcceptLabels
  <2>4. Accepts(q) => code[q] \in Codes
    BY <1>t DEF Accepts, TablesOK
  <2> QED
    BY <1>8, <1>r, <1>t, <1>6, <2>1, <2>2, <2>3, <2>4, GotoTyped DEF VerifyReadHash
<1>9. ASSUME NEW q \in Verifiers, VerifySetAttempts(q) \/ VerifySetLocked(q) PROVE TInv'
  <2>1. TablesOK'
    BY <1>9, <1>r, <1>t DEF VerifySetAttempts, VerifySetLocked, TablesOK, LocalsOK, history
  <2>2. pc[q] \in VerifyLabels \ AcceptLabels
    BY <1>9 DEF VerifySetAttempts, VerifySetLocked, VerifyLabels, AcceptLabels
  <2>3. "setLocked" \in VerifyLabels
    BY DEF VerifyLabels, AcceptLabels
  <2>4. Goto(q, "setLocked") \/ Finish(q)
    BY <1>9 DEF VerifySetAttempts, VerifySetLocked
  <2> QED
    BY <1>r, <1>t, <1>6, <2>1, <2>2, <2>3, <2>4, GotoTyped
<1>10. ASSUME NEW q \in Verifiers, ConfirmSetEnabled(q) PROVE TInv'
  <2>1. TablesOK'
    BY <1>10, <1>t DEF ConfirmSetEnabled, TablesOK, history
  <2> QED
    BY <1>10, <1>r, <2>1, TypesFinish DEF ConfirmSetEnabled
<1>11. ASSUME NEW q \in Disablers, DisableBegin(q) PROVE TInv'
  <2>1. TablesOK'
    BY <1>11, <1>t DEF DisableBegin, TablesOK, stored, history
  <2>2. /\ "disable" \in Ops \ {"none"} /\ "clearEnabled" \in Labels \ {"idle"}
        /\ NoCode \in Codes \cup {NoCode}
    BY DEF Ops, Labels
  <2> QED
    BY <1>11, <1>r, <2>1, <2>2, TypesBegin DEF DisableBegin
<1>12. ASSUME NEW q \in Requests, Clear(q) PROVE TInv'
  <2>1. TablesOK'
    <3>1. /\ enabled' \in BOOLEAN /\ otpHash' \in {otpHash, Missing}
          /\ expiresAt' \in {expiresAt, 0} /\ attempts' \in {attempts, 0}
          /\ lockedUntil' \in {lockedUntil, 0}
          /\ UNCHANGED <<now, generated, rivals, storedAt, mailed, redeemed, guesses>>
          /\ spared' = spared \/ Spare(q)
      BY <1>12, <1>t DEF Clear, ClearEnabled, ClearHash, ClearExpires, ClearAttempts,
                         ClearLocked, TablesOK, Missing, history
    <3>2. spared' \subseteq Codes
      BY <3>1, <1>12, <1>t, SparedTyped DEF TablesOK
    <3> QED
      BY <3>1, <3>2, <1>t DEF TablesOK
  <2>2. pc[q] # "idle" /\ OpOK(q)
    BY <1>12 DEF Clear, ClearEnabled, ClearHash, ClearExpires, ClearAttempts,
                 ClearLocked, TInv
  <2>3. ASSUME NEW label \in Labels \ {"idle"}, Goto(q, label),
               op[q] = "issue" => label \in IssueLabels,
               op[q] \in {"confirm", "login"} => label \in VerifyLabels,
               op[q] = "disable" => label \in DisableLabels,
               label = "clearHash" => op[q] = "disable"
        PROVE  TInv'
    BY <1>t, <2>1, <2>2, <2>3, GotoTyped, TypesGoto
  <2>4. CASE ClearEnabled(q)
    <3>1. op[q] = "disable"
      BY <2>2, <2>4, <1>t DEF ClearEnabled, OpOK, IssueLabels, VerifyLabels,
                              AcceptLabels, LocalsOK, Ops
    <3>2. "clearHash" \in (Labels \ {"idle"}) \cap DisableLabels
      BY DEF Labels, DisableLabels
    <3> QED
      BY <2>3, <2>4, <3>1, <3>2 DEF ClearEnabled
  <2>5. CASE ClearHash(q)
    <3>1. op[q] # "issue"
      BY <2>2, <2>5 DEF ClearHash, OpOK, IssueLabels
    <3>2. "clearExpires" \in (Labels \ {"idle"}) \cap VerifyLabels \cap DisableLabels
      BY DEF Labels, DisableLabels, VerifyLabels, AcceptLabels
    <3> QED
      BY <2>3, <2>5, <3>1, <3>2 DEF ClearHash
  <2>6. CASE ClearExpires(q)
    <3>1. op[q] # "issue"
      BY <2>2, <2>6 DEF ClearExpires, OpOK, IssueLabels
    <3>2. "clearAttempts" \in (Labels \ {"idle"}) \cap VerifyLabels \cap DisableLabels
      BY DEF Labels, DisableLabels, VerifyLabels, AcceptLabels
    <3> QED
      BY <2>3, <2>6, <3>1, <3>2 DEF ClearExpires
  <2>7. CASE ClearAttempts(q)
    <3>2. "clearLocked" \in
            (Labels \ {"idle"}) \cap VerifyLabels \cap DisableLabels \cap IssueLabels
      BY DEF Labels, DisableLabels, VerifyLabels, AcceptLabels, IssueLabels
    <3> QED
      BY <2>3, <2>7, <3>2 DEF ClearAttempts
  <2>8. CASE ClearLocked(q)
    <3>1. CASE op[q] = "issue"
      <4>1. "mail" \in (Labels \ {"idle"}) \cap IssueLabels /\ Goto(q, "mail")
        BY <2>8, <3>1 DEF Labels, IssueLabels, ClearLocked
      <4> QED
        BY <2>3, <3>1, <4>1
    <3>2. CASE op[q] = "confirm"
      <4>1. "setEnabled" \in (Labels \ {"idle"}) \cap VerifyLabels /\ Goto(q, "setEnabled")
        BY <2>8, <3>2 DEF Labels, VerifyLabels, AcceptLabels, ClearLocked
      <4> QED
        BY <2>3, <3>2, <4>1
    <3>3. CASE op[q] \notin {"issue", "confirm"}
      BY <2>1, <2>8, <3>3, TypesFinish DEF ClearLocked
    <3> QED
      BY <3>1, <3>2, <3>3
  <2> QED
    BY <1>12, <2>4, <2>5, <2>6, <2>7, <2>8 DEF Clear
<1>13. ASSUME NEW q \in Requests, Fail(q) PROVE TInv'
  <2>1. TablesOK'
    BY <1>13, <1>t, SparedTyped DEF Fail, TablesOK, stored
  <2> QED
    BY <1>13, <2>1, TypesFinish DEF Fail
<1>14. CASE Tick \/ UNCHANGED vars
  BY <1>14, <1>t DEF Tick, vars, stored, locals, history, TInv, TablesOK, LocalsOK,
                     OpOK, OneAtATime
<1> QED
  BY <1>1, <1>2, <1>3, <1>4, <1>5, <1>7, <1>8, <1>9, <1>10, <1>11, <1>12, <1>13,
     <1>14 DEF Next, Issue, Verify
-----------------------------------------------------------------------------
(* Hash and expiry.  Two issues that overlap may store them in different   *)
(* orders; but then they are rivals, and nothing worse happens.            *)

Expiry(c) == storedAt[c] + email2faOTPExpiry

(* Not later than the expiry of code c, or of one of its rivals.           *)
OwnHour(c, t) == \E d \in Siblings(c) : t <= Expiry(d)

(* Code c is not newer than the stored one, or a rival of it.              *)
Fits(c) == otpHash # Missing => c <= otpHash \/ c \in rivals[otpHash]

InTime(c) == expiresAt = Missing \/ OwnHour(c, expiresAt)

(* What is stored when a mailed code is, and how the histories are bounded.*)
PairOK ==
  /\ otpHash <= generated
  /\ otpHash \in mailed => InTime(otpHash)
  /\ \A c \in mailed : c <= generated /\ Fits(c)
  /\ \A c \in Codes : storedAt[c] <= now /\ rivals[c] \subseteq 1 .. generated

(* Two pending issues are of different codes.                              *)
Distinct ==
  \A p, q \in Requests : op[p] = "issue" /\ op[q] = "issue" /\ code[p] = code[q] => p = q

(* Every code generated since is a rival of a pending one.                 *)
IssueOK(q) ==
  op[q] = "issue" =>
    /\ code[q] \in 1 .. generated
    /\ code[q] \notin mailed
    /\ \A c \in 1 .. generated :
         c > code[q] => c \in rivals[code[q]] /\ code[q] \in rivals[c]
    /\ pc[q] # "setHash" => Fits(code[q])
    /\ pc[q] \notin {"setHash", "setExpires"} => (otpHash = code[q] => InTime(code[q]))

VerifyOK(q) ==
  op[q] \in {"confirm", "login"} =>
    /\ code[q] \in mailed \cup {NoCode}
    /\ seen[q] \subseteq mailed
    /\ pc[q] = "readHash" =>
         (otpHash = code[q] /\ otpHash # Missing => OwnHour(code[q], checkedAt[q]))
    /\ pc[q] \in {"clearHash", "clearExpires"} =>
         code[q] \in mailed /\ (otpHash \in seen[q] => otpHash = code[q])

RInv ==
  /\ PairOK
  /\ Distinct
  /\ \A q \in Requests : IssueOK(q) /\ VerifyOK(q)

LEMMA RInvInit == Init => RInv
<1> SUFFICES ASSUME Init PROVE RInv
  OBVIOUS
<1>1. PairOK
  BY ConstantsAreNumbers DEF Init, PairOK, Codes, Missing
<1> QED
  BY <1>1 DEF Init, RInv, Distinct, IssueOK, VerifyOK

(* The numbers the arguments below compare.                                *)
LEMMA Numbers ==
  ASSUME TInv
  PROVE  /\ Codes \subseteq Nat /\ Missing = 0 /\ NoCode = 0 /\ 0 \notin Codes
         /\ mailed \subseteq Codes /\ otpHash \in Codes \cup {0} /\ otpHash \in Nat
         /\ now \in Nat /\ expiresAt \in Nat /\ generated \in Nat
         /\ 1 .. generated \subseteq Codes
         /\ \A c \in Codes : storedAt[c] \in Nat /\ Expiry(c) \in Nat /\ rivals[c] \subseteq Codes
BY ConstantsAreNumbers DEF TInv, TablesOK, Codes, Missing, NoCode, Expiry

(* A step of q that changes nobody else's locals.                          *)
OnlyLocals(q) ==
  \A p \in Requests \ {q} :
    /\ op'[p] = op[p] /\ pc'[p] = pc[p] /\ code'[p] = code[p]
    /\ checkedAt'[p] = checkedAt[p] /\ seen'[p] = seen[p]

LEMMA FinishIsLocal ==
  ASSUME TInv, NEW q \in Requests, Finish(q)
  PROVE  /\ OnlyLocals(q) /\ op'[q] = "none" /\ pc'[q] = "idle"
         /\ (IssueOK(q) /\ VerifyOK(q))'
BY DEF TInv, LocalsOK, Finish, OnlyLocals, IssueOK, VerifyOK

LEMMA GotoIsLocal ==
  ASSUME TInv, NEW q \in Requests, NEW label,
         pc' = [pc EXCEPT ![q] = label], UNCHANGED <<op, code, seen>>,
         checkedAt' = checkedAt \/ \E t : checkedAt' = [checkedAt EXCEPT ![q] = t]
  PROVE  OnlyLocals(q) /\ pc'[q] = label /\ UNCHANGED <<op, code, seen>>
BY DEF TInv, LocalsOK, OnlyLocals

LEMMA BeginIsLocal ==
  ASSUME TInv, NEW q \in Requests, NEW operation, NEW label, NEW c,
         Begin(q, operation, label, c)
  PROVE  /\ OnlyLocals(q)
         /\ op'[q] = operation /\ pc'[q] = label /\ code'[q] = c
         /\ label = "readLock" => seen'[q] = mailed
BY DEF TInv, LocalsOK, Begin, OnlyLocals

(* Neither hash nor expiry changes, except that a row may be deleted.      *)
Quiet ==
  /\ otpHash' \in {otpHash, Missing}
  /\ expiresAt' \in {expiresAt, Missing}
  /\ now' \in {now, now + 1}
  /\ UNCHANGED <<generated, rivals, storedAt, mailed>>

LEMMA QuietPair == ASSUME TInv, RInv, Quiet PROVE PairOK'
<1>1. \A c \in Codes : storedAt[c] <= now'
  BY Numbers DEF RInv, PairOK, Quiet
<1>2. otpHash' <= generated'
  BY Numbers DEF RInv, PairOK, Quiet
<1>3. otpHash' \in mailed => InTime(otpHash)'
  BY Numbers DEF RInv, PairOK, Quiet, InTime, OwnHour, Siblings, Expiry
<1> QED
  BY <1>1, <1>2, <1>3 DEF RInv, PairOK, Quiet, Fits

LEMMA QuietRequest ==
  ASSUME TInv, RInv, Quiet, NEW p \in Requests,
         /\ op'[p] = op[p] /\ pc'[p] = pc[p] /\ code'[p] = code[p]
         /\ checkedAt'[p] = checkedAt[p] /\ seen'[p] = seen[p]
  PROVE  (IssueOK(p) /\ VerifyOK(p))'
<1>1. IssueOK(p)'
  BY Numbers DEF RInv, IssueOK, Quiet, Fits, InTime, OwnHour, Siblings, Expiry
<1>2. VerifyOK(p)'
  BY Numbers DEF RInv, VerifyOK, Quiet, OwnHour, Siblings, Expiry
<1> QED
  BY <1>1, <1>2

LEMMA QuietStep ==
  ASSUME TInv, RInv, Quiet, NEW q \in Requests, OnlyLocals(q),
         op'[q] = "issue" => op[q] = "issue" /\ code'[q] = code[q],
         (IssueOK(q) /\ VerifyOK(q))'
  PROVE  RInv'
<1>1. \A p \in Requests : (IssueOK(p) /\ VerifyOK(p))'
  BY QuietRequest DEF OnlyLocals
<1>2. Distinct'
  BY DEF RInv, Distinct, OnlyLocals
<1> QED
  BY <1>1, <1>2, QuietPair DEF RInv

LEMMA RInvBegin ==
  ASSUME TInv, RInv, NEW q \in Issuers, IssueBegin(q)
  PROVE  RInv'
<1> DEFINE n == generated + 1
<1>q. q \in Requests
  BY DEF Requests
<1>1. /\ generated' = n /\ n \in Codes /\ n \in Nat
      /\ UNCHANGED <<otpHash, expiresAt, now, storedAt, mailed>>
  <2>1. /\ generated < MaxCodes /\ generated' = n /\ generated \in Nat /\ MaxCodes \in Nat
        /\ UNCHANGED <<otpHash, expiresAt, now, storedAt, mailed>>
    BY Numbers, ConstantsAreNumbers DEF IssueBegin, stored
  <2> QED
    BY <2>1 DEF Codes
<1>2. /\ OnlyLocals(q) /\ op'[q] = "issue" /\ pc'[q] = "setHash" /\ code'[q] = n
      /\ op[q] # "issue"
  <2>1. Begin(q, "issue", "setHash", n) /\ pc[q] = "idle" /\ OpOK(q)
    BY <1>q DEF IssueBegin, Begin, TInv
  <2>2. op[q] # "issue"
    BY <2>1 DEF OpOK
  <2> QED
    BY <1>q, <2>1, <2>2, BeginIsLocal
<1>3. Pending \subseteq 1 .. generated
  BY DEF RInv, IssueOK, Pending
<1>4. /\ rivals'[n] = Pending
      /\ \A c \in Pending : rivals'[c] = rivals[c] \cup {n}
      /\ \A c \in Codes \ {n} : rivals'[c] = rivals[c] \/ c \in Pending
  BY <1>1, <1>3, Numbers DEF IssueBegin, Rival
<1>5. \A c \in 1 .. generated : rivals[c] \subseteq rivals'[c]
  BY <1>1, <1>4, Numbers
<1>6. ASSUME NEW c \in 1 .. generated, NEW t, OwnHour(c, t) PROVE OwnHour(c, t)'
  BY <1>1, <1>5, <1>6 DEF OwnHour, Siblings, Expiry
<1>7. ASSUME NEW c, Fits(c) PROVE Fits(c)'
  <2>1. otpHash # Missing => otpHash \in 1 .. generated
    BY Numbers DEF RInv, PairOK, Codes
  <2> QED
    BY <1>1, <1>5, <1>7, <2>1 DEF Fits
<1>8. ASSUME NEW c \in Codes PROVE rivals'[c] \subseteq 1 .. n
  <2>1. rivals[c] \subseteq 1 .. n
    <3>1. 1 .. generated \subseteq 1 .. n
      BY <1>1, Numbers
    <3> QED
      BY <3>1 DEF RInv, PairOK
  <2>2. n \in 1 .. n /\ Pending \subseteq 1 .. n
    BY <1>1, <1>3, Numbers
  <2> QED
    BY <1>4, <2>1, <2>2
<1>9. ASSUME NEW c \in 1 .. generated, InTime(c) PROVE InTime(c)'
  BY <1>1, <1>6, <1>9 DEF InTime, OwnHour, Siblings, Expiry
<1>10. PairOK'
  <2>1. generated <= n /\ otpHash <= n /\ \A c \in mailed : c <= n /\ c \in 1 .. generated
    BY <1>1, Numbers DEF RInv, PairOK, Codes
  <2>2. \A c \in mailed : Fits(c)'
    BY <1>7 DEF RInv, PairOK
  <2>3. otpHash \in mailed => InTime(otpHash)'
    <3>1. ASSUME otpHash \in mailed PROVE InTime(otpHash)'
      <4>1. otpHash \in 1 .. generated /\ InTime(otpHash) /\ otpHash' = otpHash
        BY <1>1, <2>1, <3>1 DEF RInv, PairOK
      <4> QED
        BY <1>9, <4>1 DEF InTime, OwnHour, Siblings, Expiry
    <3> QED
      BY <3>1
  <2> QED
    BY <1>1, <1>8, <2>1, <2>2, <2>3 DEF RInv, PairOK, InTime, OwnHour, Siblings, Expiry
<1>11. ASSUME NEW p \in Requests, p # q PROVE (IssueOK(p) /\ VerifyOK(p))'
  <2>1. /\ op'[p] = op[p] /\ pc'[p] = pc[p] /\ code'[p] = code[p]
        /\ checkedAt'[p] = checkedAt[p] /\ seen'[p] = seen[p]
        /\ IssueOK(p) /\ VerifyOK(p)
    BY <1>2, <1>11 DEF OnlyLocals, RInv
  <2>2. ASSUME op[p] = "issue" PROVE IssueOK(p)'
    <3>1. code[p] \in Pending /\ code[p] \in 1 .. generated /\ code[p] \in 1 .. n
      BY <1>1, <2>1, <2>2, Numbers DEF IssueOK, Pending
    <3>2. \A c \in 1 .. n : c > code[p] => c \in rivals'[code[p]] /\ code[p] \in rivals'[c]
      <4>1. ASSUME NEW c \in 1 .. n, c > code[p], c # n
            PROVE  c \in rivals'[code[p]] /\ code[p] \in rivals'[c]
        BY <1>1, <1>5, <2>1, <2>2, <3>1, <4>1, Numbers DEF IssueOK
      <4> QED
        BY <1>4, <3>1, <4>1
    <3>3. pc[p] # "setHash" => Fits(code[p])'
      BY <1>7, <2>1, <2>2 DEF IssueOK, Fits
    <3>4. pc[p] \notin {"setHash", "setExpires"} /\ otpHash = code[p] => InTime(code[p])'
      BY <1>9, <2>1, <2>2, <3>1 DEF IssueOK, InTime, OwnHour, Siblings, Expiry
    <3> QED
      BY <1>1, <2>1, <2>2, <3>1, <3>2, <3>3, <3>4 DEF IssueOK
  <2>3. VerifyOK(p)'
    <3>1. otpHash # Missing => otpHash \in 1 .. generated
      BY Numbers DEF RInv, PairOK, Codes
    <3>2. otpHash # Missing /\ otpHash = code[p] /\ OwnHour(code[p], checkedAt[p])
            => OwnHour(code[p], checkedAt[p])'
      BY <1>6, <2>1, <3>1 DEF OwnHour, Siblings, Expiry
    <3> QED
      BY <1>1, <2>1, <3>2 DEF VerifyOK
  <2> QED
    BY <2>1, <2>2, <2>3 DEF IssueOK
<1>12. (IssueOK(q) /\ VerifyOK(q))'
  <2>1. n \in 1 .. n /\ n \notin mailed
    BY <1>1, Numbers DEF RInv, PairOK
  <2>2. \A c \in 1 .. n : ~(c > n)
    BY <1>1
  <2> QED
    BY <1>1, <1>2, <2>1, <2>2 DEF IssueOK, VerifyOK
<1>13. Distinct'
  BY <1>1, <1>2, Numbers DEF RInv, IssueOK, OnlyLocals, Distinct
<1> QED
  BY <1>10, <1>11, <1>12, <1>13 DEF RInv

(* The statements of a pending issue find it where IssueOK expects it.     *)
LEMMA IssuingRequest ==
  ASSUME TInv, NEW q \in Issuers, pc[q] \in {"setHash", "setExpires", "mail"}
  PROVE  q \in Requests /\ op[q] = "issue"
BY DEF TInv, OpOK, LocalsOK, Ops, Requests, VerifyLabels, AcceptLabels, DisableLabels

(* The new hash belongs to a code nobody knows; whatever is newer is a     *)
(* rival of it.                                                            *)
LEMMA RInvSetHash ==
  ASSUME TInv, RInv, NEW q \in Issuers, IssueSetHash(q)
  PROVE  RInv'
<1>q. q \in Requests /\ op[q] = "issue" /\ IssueOK(q) /\ pc[q] = "setHash"
  BY IssuingRequest DEF IssueSetHash, RInv
<1>1. /\ UNCHANGED <<expiresAt, now, generated, rivals, storedAt, mailed>> /\ otpHash' = code[q]
      /\ OnlyLocals(q) /\ pc'[q] = "setExpires" /\ UNCHANGED <<op, code, seen>>
  BY <1>q, GotoIsLocal DEF IssueSetHash, Goto, history
<1>2. /\ code[q] \in 1 .. generated /\ code[q] \in Codes /\ code[q] \notin mailed
      /\ code[q] \in Nat /\ code[q] <= generated
      /\ \A c \in 1 .. generated : c > code[q] => c \in rivals[code[q]]
  BY <1>q, Numbers DEF IssueOK
<1>3. ASSUME NEW c \in 1 .. generated PROVE Fits(c)'
  <2>1. c \in Nat
    BY <1>3
  <2>2. c <= code[q] \/ c > code[q]
    BY <1>2, <2>1
  <2> QED
    BY <1>1, <1>2, <2>2 DEF Fits
<1>4. PairOK'
  <2>1. \A c \in mailed : c \in 1 .. generated
    BY Numbers DEF RInv, PairOK, Codes
  <2> QED
    BY <1>1, <1>2, <1>3, <2>1 DEF RInv, PairOK
<1>5. ASSUME NEW p \in Requests PROVE IssueOK(p)'
  <2>1. IssueOK(p)
    BY DEF RInv
  <2>2. CASE p = q
    BY <1>q, <1>1, <1>2, <1>3, <2>1, <2>2 DEF IssueOK
  <2>3. CASE p # q
    <3>1. op[p] = "issue" => code[p] # otpHash'
      BY <1>q, <1>1, <2>3 DEF RInv, Distinct
    <3>2. pc'[p] = pc[p]
      BY <1>1, <2>3 DEF OnlyLocals
    <3> QED
      BY <1>1, <1>3, <2>1, <3>1, <3>2 DEF IssueOK
  <2> QED
    BY <2>2, <2>3
<1>6. ASSUME NEW p \in Requests PROVE VerifyOK(p)'
  <2>1. op[p] \in {"confirm", "login"} => p # q
    BY <1>q
  <2>2. VerifyOK(p) /\ (p # q => pc'[p] = pc[p] /\ checkedAt'[p] = checkedAt[p])
    BY <1>1 DEF RInv, OnlyLocals
  <2>3. otpHash' # NoCode /\ otpHash' \notin mailed
    BY <1>1, <1>2, Numbers
  <2> QED
    BY <1>1, <2>1, <2>2, <2>3 DEF VerifyOK
<1>7. Distinct'
  BY <1>1 DEF RInv, Distinct
<1> QED
  BY <1>4, <1>5, <1>6, <1>7 DEF RInv

(* The expiry is that of the stored code or of a rival.                    *)
LEMMA RInvSetExpires ==
  ASSUME TInv, RInv, NEW q \in Issuers, IssueSetExpires(q)
  PROVE  RInv'
<1>q. q \in Requests /\ op[q] = "issue" /\ IssueOK(q) /\ pc[q] = "setExpires"
  BY IssuingRequest DEF IssueSetExpires, RInv
<1>1. /\ UNCHANGED <<otpHash, now, generated, rivals, mailed>>
      /\ expiresAt' = now + email2faOTPExpiry
      /\ storedAt' = [storedAt EXCEPT ![code[q]] = now]
      /\ OnlyLocals(q) /\ pc'[q] = "clearAttempts" /\ UNCHANGED <<op, code, seen>>
  BY <1>q, GotoIsLocal DEF IssueSetExpires, Goto
<1>2. /\ code[q] \in 1 .. generated /\ code[q] \in Codes /\ code[q] \notin mailed
      /\ Fits(code[q]) /\ \A c \in 1 .. generated : c > code[q] => code[q] \in rivals[c]
  BY <1>q, Numbers DEF IssueOK
<1>3. /\ storedAt'[code[q]] = now
      /\ \A c \in Codes : storedAt'[c] \in {storedAt[c], now}
  BY <1>1, <1>2 DEF TInv, TablesOK
<1>4. \A c \in Codes : Expiry(c) <= Expiry(c)' /\ Expiry(c) \in Nat /\ Expiry(c)' \in Nat
  <2>1. ASSUME NEW c \in Codes PROVE storedAt[c] <= storedAt'[c] /\ storedAt'[c] \in Nat
    BY <1>3, Numbers DEF RInv, PairOK
  <2> QED
    BY <2>1, Numbers, ConstantsAreNumbers DEF Expiry
<1>5. ASSUME NEW c \in Codes, NEW t \in Nat, OwnHour(c, t) PROVE OwnHour(c, t)'
  <2>1. PICK d \in Siblings(c) : t <= Expiry(d)
    BY <1>5 DEF OwnHour
  <2>2. d \in Codes
    BY <2>1, Numbers DEF Siblings
  <2>3. t <= Expiry(d)'
    BY <1>4, <2>1, <2>2
  <2> QED
    BY <1>1, <2>1, <2>3 DEF OwnHour, Siblings
<1>6. otpHash # Missing => OwnHour(otpHash, expiresAt)'
  <2>1. ASSUME otpHash # Missing PROVE code[q] \in Siblings(otpHash)
    <3>1. otpHash \in 1 .. generated /\ code[q] \in Nat /\ otpHash \in Nat
      BY <1>2, <2>1, Numbers DEF RInv, PairOK, Codes
    <3>2. code[q] \in rivals[otpHash] \/ code[q] = otpHash \/ otpHash > code[q]
      BY <1>2, <2>1, <3>1 DEF Fits
    <3> QED
      BY <1>2, <3>1, <3>2 DEF Siblings
  <2>2. expiresAt' <= Expiry(code[q])'
    BY <1>1, <1>2, <1>3, <1>4 DEF Expiry
  <2> QED
    BY <1>1, <2>1, <2>2 DEF OwnHour, Siblings
<1>7. PairOK'
  <2>1. \A c \in Codes : storedAt'[c] <= now
    BY <1>3, Numbers DEF RInv, PairOK
  <2>2. otpHash' \in mailed' => InTime(otpHash)'
    BY <1>1, <1>6, Numbers DEF InTime, OwnHour, Siblings, Expiry
  <2> QED
    BY <1>1, <2>1, <2>2 DEF RInv, PairOK, Fits
<1>8. ASSUME NEW p \in Requests PROVE IssueOK(p)'
  <2>1. IssueOK(p) /\ (p # q => pc'[p] = pc[p])
    BY <1>1 DEF RInv, OnlyLocals
  <2>2. op[p] = "issue" /\ otpHash = code[p] => InTime(code[p])'
    <3>1. op[p] = "issue" => code[p] # Missing
      BY <2>1, Numbers DEF IssueOK
    <3> QED
      BY <1>1, <1>6, <3>1 DEF InTime, OwnHour, Siblings, Expiry
  <2>3. op[p] = "issue" /\ pc'[p] # "setHash" => Fits(code[p])'
    BY <1>q, <1>1, <2>1 DEF IssueOK, Fits
  <2> QED
    BY <1>1, <2>1, <2>2, <2>3 DEF IssueOK
<1>9. ASSUME NEW p \in Requests PROVE VerifyOK(p)'
  <2>1. op[p] \in {"confirm", "login"} => p # q
    BY <1>q
  <2>2. VerifyOK(p) /\ (p # q => pc'[p] = pc[p] /\ checkedAt'[p] = checkedAt[p])
    BY <1>1 DEF RInv, OnlyLocals
  <2>3. checkedAt[p] \in Nat
    BY DEF TInv, LocalsOK
  <2>4. p # q /\ otpHash # Missing /\ otpHash = code[p] /\ OwnHour(code[p], checkedAt[p])
          => OwnHour(code[p], checkedAt[p])'
    BY <1>1, <1>5, <2>2, <2>3, Numbers DEF OwnHour, Siblings, Expiry
  <2> QED
    BY <1>1, <2>1, <2>2, <2>4 DEF VerifyOK
<1>10. Distinct'
  BY <1>1 DEF RInv, Distinct
<1> QED
  BY <1>7, <1>8, <1>9, <1>10 DEF RInv

LEMMA RInvMail ==
  ASSUME TInv, RInv, NEW q \in Issuers, IssueMail(q)
  PROVE  RInv'
<1>q. q \in Requests /\ op[q] = "issue" /\ IssueOK(q) /\ pc[q] = "mail"
  BY IssuingRequest DEF IssueMail, RInv
<1>1. /\ UNCHANGED <<otpHash, expiresAt, now, generated, rivals, storedAt>>
      /\ mailed' = mailed \cup {code[q]}
      /\ OnlyLocals(q) /\ op'[q] = "none" /\ (IssueOK(q) /\ VerifyOK(q))'
  BY <1>q, FinishIsLocal DEF IssueMail, stored
<1>2. code[q] <= generated /\ Fits(code[q]) /\ (otpHash = code[q] => InTime(code[q]))
  BY <1>q, Numbers DEF IssueOK
<1>3. PairOK'
  BY <1>1, <1>2 DEF RInv, PairOK, Fits, InTime, OwnHour, Siblings, Expiry
<1>4. ASSUME NEW p \in Requests, p # q PROVE (IssueOK(p) /\ VerifyOK(p))'
  <2>1. op[p] = "issue" => code[p] # code[q]
    BY <1>q, <1>4 DEF RInv, Distinct
  <2>2. /\ op'[p] = op[p] /\ pc'[p] = pc[p] /\ code'[p] = code[p]
        /\ checkedAt'[p] = checkedAt[p] /\ seen'[p] = seen[p]
        /\ IssueOK(p) /\ VerifyOK(p)
    BY <1>1, <1>4 DEF RInv, OnlyLocals
  <2>3. IssueOK(p)'
    BY <1>1, <2>1, <2>2 DEF IssueOK, Fits, InTime, OwnHour, Siblings, Expiry
  <2>4. VerifyOK(p)'
    BY <1>1, <2>2 DEF VerifyOK, OwnHour, Siblings, Expiry
  <2> QED
    BY <2>3, <2>4
<1>5. Distinct'
  BY <1>1 DEF RInv, OnlyLocals, Distinct
<1> QED
  BY <1>1, <1>3, <1>4, <1>5 DEF RInv

(* A step that goes on, or ends, without writing hash or expiry.           *)
LEMMA RInvFinish ==
  ASSUME TInv, RInv, Quiet, NEW q \in Requests, Finish(q)
  PROVE  RInv'
BY FinishIsLocal, QuietStep

LEMMA RInvGoto ==
  ASSUME TInv, RInv, Quiet, NEW q \in Requests, NEW label,
         pc' = [pc EXCEPT ![q] = label], UNCHANGED <<op, code, seen>>,
         checkedAt' = checkedAt \/ \E t : checkedAt' = [checkedAt EXCEPT ![q] = t],
         op[q] = "issue" => /\ label \notin {"setHash", "setExpires"}
                            /\ pc[q] \notin {"setHash", "setExpires"},
         op[q] \in {"confirm", "login"} =>
           /\ label # "readHash"
           /\ label \in {"clearHash", "clearExpires"} =>
                code[q] \in mailed /\ (otpHash' \in seen[q] => otpHash' = code[q])
  PROVE  RInv'
<1>1. OnlyLocals(q) /\ pc'[q] = label /\ IssueOK(q) /\ VerifyOK(q)
  BY GotoIsLocal DEF RInv
<1>2. IssueOK(q)'
  BY <1>1, Numbers DEF IssueOK, Quiet, Fits, InTime, OwnHour, Siblings, Expiry
<1>3. VerifyOK(q)'
  BY <1>1 DEF VerifyOK, Quiet
<1> QED
  BY <1>1, <1>2, <1>3, QuietStep

LEMMA RInvVerify ==
  ASSUME TInv, RInv, NEW q \in Verifiers, Verify(q)
  PROVE  RInv'
<1>q. q \in Requests /\ OpOK(q) /\ VerifyOK(q) /\ op[q] \in Ops
  BY DEF Requests, RInv, TInv, LocalsOK
<1>1. Quiet
  BY DEF Verify, VerifyBegin, VerifyReadLock, VerifyReadExpires, VerifyReadHash,
         VerifyReadAttempts, VerifySetAttempts, VerifySetLocked, ConfirmSetEnabled,
         Quiet, stored, history
<1>2. pc[q] \in VerifyLabels \ AcceptLabels => op[q] \in {"confirm", "login"}
  BY <1>q DEF OpOK, Ops, VerifyLabels, AcceptLabels, IssueLabels, DisableLabels
<1>3. ASSUME NEW operation \in {"confirm", "login"}, NEW c \in mailed \cup {NoCode},
             VerifyBegin(q, operation, c) PROVE RInv'
  <2>1. /\ OnlyLocals(q) /\ op'[q] = operation /\ pc'[q] = "readLock"
        /\ code'[q] = c /\ seen'[q] = mailed
    BY <1>q, <1>3, BeginIsLocal DEF VerifyBegin
  <2>2. (IssueOK(q) /\ VerifyOK(q))'
    BY <1>1, <2>1 DEF IssueOK, VerifyOK, Quiet
  <2> QED
    BY <1>q, <1>1, <2>1, <2>2, QuietStep
<1>4. ASSUME VerifyReadExpires(q), ~Finish(q) PROVE RInv'
  <2>1. /\ expiresAt # Missing /\ now <= expiresAt /\ pc[q] = "readExpires"
        /\ pc' = [pc EXCEPT ![q] = "readHash"]
        /\ checkedAt' = [checkedAt EXCEPT ![q] = now]
        /\ UNCHANGED <<op, code, seen, otpHash>>
    BY <1>4 DEF VerifyReadExpires, stored
  <2>2. OnlyLocals(q) /\ pc'[q] = "readHash" /\ checkedAt'[q] = now
    BY <1>q, <2>1, GotoIsLocal DEF TInv, LocalsOK
  <2>3. op[q] \in {"confirm", "login"}
    BY <1>2, <2>1 DEF VerifyLabels, AcceptLabels
  <2>4. ASSUME otpHash = code[q], otpHash # Missing PROVE OwnHour(code[q], now)
    <3>1. otpHash \in mailed
      BY <1>q, <2>3, <2>4, Numbers DEF VerifyOK
    <3>2. PICK d \in Siblings(otpHash) : expiresAt <= Expiry(d)
      BY <2>1, <3>1 DEF RInv, PairOK, InTime, OwnHour
    <3>3. Expiry(d) \in Nat /\ now \in Nat /\ expiresAt \in Nat
      BY <3>1, <3>2, Numbers DEF Siblings
    <3>4. now <= Expiry(d)
      BY <2>1, <3>2, <3>3
    <3> QED
      BY <2>4, <3>2, <3>4 DEF OwnHour
  <2>5. (IssueOK(q) /\ VerifyOK(q))'
    BY <1>q, <1>1, <2>1, <2>2, <2>3, <2>4
       DEF IssueOK, VerifyOK, Quiet, OwnHour, Siblings, Expiry
  <2> QED
    BY <1>q, <1>1, <2>1, <2>2, <2>3, <2>5, QuietStep
<1>5. ASSUME VerifyReadHash(q), Accepts(q) PROVE RInv'
  <2>1. Goto(q, "clearHash") /\ op[q] \in {"confirm", "login"} /\ otpHash' = otpHash
    BY <1>2, <1>5 DEF VerifyReadHash, Accepts, VerifyLabels, AcceptLabels, stored
  <2>2. code[q] \in mailed /\ otpHash = code[q]
    BY <1>q, <1>5, <2>1, Numbers DEF Accepts, VerifyOK
  <2> QED
    BY <1>q, <1>1, <2>1, <2>2, RInvGoto DEF Goto
<1>6. ASSUME NEW label \in {"readExpires", "readAttempts", "setAttempts", "setLocked"},
             pc' = [pc EXCEPT ![q] = label], UNCHANGED <<op, code, seen>>,
             checkedAt' = checkedAt \/ checkedAt' = [checkedAt EXCEPT ![q] = 0],
             op[q] # "issue"
      PROVE  RInv'
  BY <1>q, <1>1, <1>6, RInvGoto
<1>7. ASSUME pc[q] \in VerifyLabels \ AcceptLabels,
             \/ \E label \in {"readExpires", "readAttempts", "setLocked"} : Goto(q, label)
             \/ VerifyReadAttempts(q)
      PROVE  RInv'
  BY <1>2, <1>6, <1>7 DEF Goto, VerifyReadAttempts
<1>8. CASE Finish(q)
  BY <1>q, <1>1, <1>8, RInvFinish
<1> QED
  BY <1>3, <1>4, <1>5, <1>7, <1>8
     DEF Verify, VerifyReadLock, VerifyReadHash, VerifyReadAttempts, VerifySetAttempts,
         VerifySetLocked, ConfirmSetEnabled, VerifyLabels, AcceptLabels

LEMMA RInvClear ==
  ASSUME TInv, RInv, NEW q \in Requests, Clear(q)
  PROVE  RInv'
<1>q. OpOK(q) /\ VerifyOK(q) /\ op[q] \in Ops
  BY DEF RInv, TInv, LocalsOK
<1>1. Quiet
  BY DEF Clear, ClearEnabled, ClearHash, ClearExpires, ClearAttempts, ClearLocked,
         Quiet, history
<1>2. Missing \notin seen[q]
  BY Numbers DEF TInv, LocalsOK
<1>3. ASSUME NEW label \in {"clearHash", "clearExpires", "clearAttempts", "clearLocked",
                            "mail", "setEnabled"}, Goto(q, label),
             pc[q] \notin {"setHash", "setExpires"},
             op[q] \in {"confirm", "login"} /\ label \in {"clearHash", "clearExpires"}
               => pc[q] \in {"clearHash", "clearExpires"}
      PROVE  RInv'
  <2>1. op[q] \in {"confirm", "login"} /\ label \in {"clearHash", "clearExpires"} =>
          code[q] \in mailed /\ (otpHash' \in seen[q] => otpHash' = code[q])
    BY <1>q, <1>1, <1>2, <1>3 DEF VerifyOK, Quiet
  <2> QED
    BY <1>1, <1>3, <2>1, RInvGoto DEF Goto
<1>4. CASE ClearEnabled(q)
  BY <1>q, <1>3, <1>4 DEF ClearEnabled, OpOK, VerifyLabels, AcceptLabels
<1>5. CASE ClearHash(q)
  BY <1>3, <1>5 DEF ClearHash
<1>6. CASE ClearExpires(q)
  BY <1>3, <1>6 DEF ClearExpires
<1>7. CASE ClearAttempts(q)
  BY <1>3, <1>7 DEF ClearAttempts
<1>8. CASE ClearLocked(q)
  <2>1. Finish(q) \/ Goto(q, "mail") \/ Goto(q, "setEnabled")
    BY <1>8 DEF ClearLocked
  <2> QED
    BY <1>1, <1>3, <1>8, <2>1, RInvFinish DEF ClearLocked
<1> QED
  BY <1>4, <1>5, <1>6, <1>7, <1>8 DEF Clear

LEMMA RInvStep == TInv /\ RInv /\ [Next]_vars => RInv'
<1> SUFFICES ASSUME TInv, RInv, [Next]_vars PROVE RInv'
  OBVIOUS
<1>1. ASSUME NEW q \in Disablers, DisableBegin(q) PROVE RInv'
  <2>1. q \in Requests /\ OnlyLocals(q) /\ op'[q] = "disable" /\ Quiet
    BY <1>1, BeginIsLocal DEF DisableBegin, Quiet, stored, history, Requests
  <2> QED
    BY <2>1, QuietStep DEF IssueOK, VerifyOK
<1>2. ASSUME NEW q \in Requests, Fail(q) PROVE RInv'
  BY <1>2, RInvFinish DEF Fail, Quiet, stored
<1>3. CASE Tick \/ UNCHANGED vars
  <2>1. Quiet /\ UNCHANGED locals
    BY <1>3 DEF Tick, vars, Quiet, stored, history
  <2>2. \A p \in Requests : (IssueOK(p) /\ VerifyOK(p))'
    BY <2>1, QuietRequest DEF locals
  <2>3. Distinct'
    BY <2>1 DEF RInv, Distinct, locals
  <2> QED
    BY <2>1, <2>2, <2>3, QuietPair DEF RInv
<1> QED
  BY <1>1, <1>2, <1>3, RInvBegin, RInvSetHash, RInvSetExpires, RInvMail, RInvVerify,
     RInvClear DEF Next, Issue
-----------------------------------------------------------------------------
(* A redeemed code is stored only until the verification that has accepted *)
(* it deletes it, unless that delete fails or is never reached.            *)

Deleting(p, c) == op[p] \in {"confirm", "login"} /\ pc[p] = "clearHash" /\ code[p] = c

ReuseInv ==
  /\ redeemed \subseteq mailed
  /\ otpHash \in redeemed =>
       otpHash \in spared \/ \E p \in Verifiers : Deleting(p, otpHash)

LEMMA ReuseInvInit == Init => ReuseInv
BY DEF Init, ReuseInv

LEMMA ReuseInvStep == TInv /\ RInv /\ ReuseInv /\ [Next]_vars => ReuseInv'
<1> SUFFICES ASSUME TInv, RInv, ReuseInv, [Next]_vars PROVE ReuseInv'
  OBVIOUS
<1>0. Missing \notin redeemed
  BY Numbers DEF ReuseInv
<1>r. Issuers \subseteq Requests /\ Verifiers \subseteq Requests /\ Disablers \subseteq Requests
  BY DEF Requests
(* Steps that store and accept no code.                                    *)
<1>1. ASSUME NEW q \in Requests, OnlyLocals(q), otpHash' \in {otpHash, Missing},
             redeemed' = redeemed, mailed \subseteq mailed', spared \subseteq spared',
             pc[q] = "clearHash" /\ op[q] \in {"confirm", "login"} =>
               (otpHash' = code[q] => code[q] \in spared')
      PROVE  ReuseInv'
  <2>1. redeemed' \subseteq mailed'
    BY <1>1 DEF ReuseInv
  <2>2. ASSUME otpHash' \in redeemed', otpHash' \notin spared'
        PROVE  \E p \in Verifiers : Deleting(p, otpHash)'
    <3>1. otpHash' = otpHash /\ otpHash \notin spared
      BY <1>0, <1>1, <2>2
    <3>2. PICK p \in Verifiers : Deleting(p, otpHash)
      BY <1>1, <2>2, <3>1 DEF ReuseInv
    <3>3. p # q
      BY <1>1, <2>2, <3>1, <3>2 DEF Deleting
    <3>4. Deleting(p, otpHash)'
      BY <1>1, <1>r, <3>1, <3>2, <3>3 DEF Deleting, OnlyLocals
    <3> QED
      BY <3>4
  <2> QED
    BY <2>1, <2>2 DEF ReuseInv
<1>2. ASSUME NEW q \in Requests, NEW label, Goto(q, label), pc[q] # "clearHash",
             otpHash' \in {otpHash, Missing}, UNCHANGED <<redeemed, mailed, spared>>
      PROVE  ReuseInv'
  <2>1. OnlyLocals(q)
    BY <1>2, GotoIsLocal DEF Goto
  <2> QED
    BY <1>1, <1>2, <2>1
<1>3. ASSUME NEW q \in Requests, Finish(q), pc[q] # "clearHash",
             otpHash' = otpHash, mailed \subseteq mailed', UNCHANGED <<redeemed, spared>>
      PROVE  ReuseInv'
  BY <1>1, <1>3, FinishIsLocal
<1>4. ASSUME NEW q \in Requests, NEW operation, NEW label, NEW c,
             Begin(q, operation, label, c), UNCHANGED <<otpHash, redeemed, mailed, spared>>
      PROVE  ReuseInv'
  <2>1. OnlyLocals(q) /\ pc[q] = "idle"
    BY <1>4, BeginIsLocal DEF Begin
  <2> QED
    BY <1>1, <1>4, <2>1
<1>5. ASSUME NEW q \in Issuers, Issue(q) PROVE ReuseInv'
  <2>1. CASE IssueBegin(q)
    BY <1>4, <1>r, <2>1 DEF IssueBegin, stored
  <2>2. CASE IssueSetHash(q)
    <3>1. code[q] \notin mailed
      BY <2>2, IssuingRequest DEF IssueSetHash, RInv, IssueOK
    <3> QED
      BY <2>2, <3>1 DEF IssueSetHash, ReuseInv, history
  <2>3. CASE IssueSetExpires(q)
    BY <1>2, <1>r, <2>3 DEF IssueSetExpires
  <2>4. CASE IssueMail(q)
    BY <1>3, <1>r, <2>4 DEF IssueMail, stored
  <2> QED
    BY <1>5, <2>1, <2>2, <2>3, <2>4 DEF Issue
<1>6. ASSUME NEW q \in Verifiers, Verify(q) PROVE ReuseInv'
  <2>1. ASSUME NEW operation \in {"confirm", "login"}, NEW c \in mailed \cup {NoCode},
               VerifyBegin(q, operation, c) PROVE ReuseInv'
    BY <1>4, <1>r, <2>1 DEF VerifyBegin, stored, history
  <2>2. ASSUME VerifyReadHash(q), Accepts(q) PROVE ReuseInv'
    <3>1. op[q] \in {"confirm", "login"} /\ VerifyOK(q)
      BY <1>r, <2>2 DEF VerifyReadHash, TInv, RInv, OpOK, LocalsOK, Ops, IssueLabels,
                        DisableLabels
    <3>2. code[q] \in mailed /\ otpHash = code[q] /\ Goto(q, "clearHash")
      BY <2>2, <3>1, Numbers DEF VerifyReadHash, Accepts, VerifyOK
    <3>3. /\ redeemed' = redeemed \cup {code[q]} /\ UNCHANGED <<otpHash, mailed>>
          /\ pc'[q] = "clearHash" /\ UNCHANGED <<op, code>>
      BY <1>r, <2>2, <3>2, GotoIsLocal DEF VerifyReadHash, Accepts, Goto, stored
    <3>4. Deleting(q, otpHash)'
      BY <3>1, <3>2, <3>3 DEF Deleting
    <3> QED
      BY <3>2, <3>3, <3>4 DEF ReuseInv
  <2>3. ASSUME VerifyReadHash(q), ~Accepts(q) PROVE ReuseInv'
    BY <1>2, <1>3, <1>r, <2>3 DEF VerifyReadHash, stored
  <2>4. CASE VerifyReadLock(q)
    BY <1>2, <1>3, <1>r, <2>4 DEF VerifyReadLock, stored, history
  <2>5. ASSUME (VerifyReadExpires(q) /\ ~Finish(q)) \/ VerifyReadAttempts(q)
        PROVE  ReuseInv'
    <3>1. /\ OnlyLocals(q) /\ pc[q] # "clearHash"
          /\ UNCHANGED <<otpHash, redeemed, mailed, spared>>
      BY <1>r, <2>5, GotoIsLocal DEF VerifyReadExpires, VerifyReadAttempts, stored, history
    <3> QED
      BY <1>1, <1>r, <3>1
  <2>6. ASSUME VerifyReadExpires(q), Finish(q) PROVE ReuseInv'
    BY <1>3, <1>r, <2>6 DEF VerifyReadExpires, stored, history
  <2>7. CASE VerifySetAttempts(q)
    BY <1>2, <1>3, <1>r, <2>7 DEF VerifySetAttempts, history
  <2>8. CASE VerifySetLocked(q) \/ ConfirmSetEnabled(q)
    BY <1>3, <1>r, <2>8 DEF VerifySetLocked, ConfirmSetEnabled, history
  <2> QED
    BY <1>6, <2>1, <2>2, <2>3, <2>4, <2>5, <2>6, <2>7, <2>8 DEF Verify
<1>7. ASSUME NEW q \in Disablers, DisableBegin(q) PROVE ReuseInv'
  BY <1>4, <1>7, <1>r DEF DisableBegin, stored, history
<1>8. ASSUME NEW q \in Requests, Clear(q) PROVE ReuseInv'
  <2>1. CASE ClearHash(q)
    <3>1. OnlyLocals(q)
      BY <2>1, GotoIsLocal DEF ClearHash, Goto
    <3>2. spared \subseteq spared' /\ otpHash' \in {otpHash, Missing}
      BY <2>1 DEF ClearHash, Spare
    <3>3. op[q] \in {"confirm", "login"} => (otpHash' = code[q] => code[q] \in spared')
      BY <2>1 DEF ClearHash, Spare
    <3> QED
      BY <1>1, <2>1, <3>1, <3>2, <3>3 DEF ClearHash
  <2>2. ASSUME ~ClearHash(q) PROVE ReuseInv'
    <3>1. /\ otpHash' = otpHash /\ UNCHANGED <<redeemed, mailed, spared>>
          /\ pc[q] # "clearHash"
          /\ Finish(q) \/ \E label \in Labels : Goto(q, label)
      BY <1>8, <2>2 DEF Clear, ClearEnabled, ClearExpires, ClearAttempts, ClearLocked,
                        history, Labels
    <3> QED
      BY <1>2, <1>3, <3>1
  <2> QED
    BY <2>1, <2>2
<1>9. ASSUME NEW q \in Requests, Fail(q) PROVE ReuseInv'
  <2>1. /\ OnlyLocals(q) /\ otpHash' = otpHash /\ spared \subseteq spared'
        /\ UNCHANGED <<redeemed, mailed>>
    BY <1>9, FinishIsLocal DEF Fail, Spare, stored
  <2>2. pc[q] = "clearHash" /\ op[q] \in {"confirm", "login"} =>
          (otpHash' = code[q] => code[q] \in spared')
    BY <1>9 DEF Fail, Spare
  <2> QED
    BY <1>1, <2>1, <2>2
<1>10. CASE Tick \/ UNCHANGED vars
  BY <1>10 DEF Tick, vars, stored, locals, history, ReuseInv, Deleting
<1> QED
  BY <1>5, <1>6, <1>7, <1>8, <1>9, <1>10 DEF Next
-----------------------------------------------------------------------------
(* Calm times: a verification past its first read finds no lock any more.  *)

UnlockedOK(q) ==
  op[q] \in {"confirm", "login"} /\ pc[q] # "readLock" => now >= lockedUntil

SInv == calm => \A q \in Requests : UnlockedOK(q)

LEMMA SInvInit == Init => SInv
BY DEF Init, SInv, UnlockedOK

(* A request that takes a step in calm times is the only one.              *)
LEMMA Alone ==
  ASSUME TInv, calm, NEW q \in Requests, OnlyLocals(q),
         pc[q] # "idle" \/ \A p \in Requests : pc[p] = "idle"
  PROVE  \A p \in Requests \ {q} : /\ pc'[p] = "idle" /\ op'[p] = "none"
                                   /\ pc[p] = "idle" /\ op[p] = "none"
BY DEF TInv, OneAtATime, OpOK, OnlyLocals

LEMMA SInvStep == TInv /\ SInv /\ [Next]_vars => SInv'
<1> SUFFICES ASSUME TInv, SInv, [Next]_vars, calm' PROVE SInv'
  BY DEF SInv
<1>c. calm
  BY DEF Next, vars
<1>p. \A q \in Requests : UnlockedOK(q) /\ OpOK(q)
  BY <1>c DEF SInv, TInv
<1>r. Issuers \subseteq Requests /\ Verifiers \subseteq Requests /\ Disablers \subseteq Requests
  BY DEF Requests
<1>n. now \in Nat /\ lockedUntil \in Nat /\ Missing = 0
  BY DEF TInv, TablesOK, Missing
(* What a step of request q has to keep.                                   *)
<1>1. ASSUME NEW q \in Requests, OnlyLocals(q),
             pc[q] # "idle" \/ \A p \in Requests : pc[p] = "idle", UnlockedOK(q)'
      PROVE  SInv'
  <2>1. \A p \in Requests \ {q} : op'[p] = "none"
    BY <1>1, <1>c, Alone
  <2> QED
    BY <1>1, <2>1 DEF SInv, UnlockedOK
<1>2. ASSUME NEW q \in Requests, Finish(q), pc[q] # "idle" PROVE SInv'
  BY <1>1, <1>2, FinishIsLocal DEF UnlockedOK
<1>3. ASSUME NEW q \in Requests, NEW label,
             pc' = [pc EXCEPT ![q] = label], UNCHANGED <<op, code, seen>>,
             checkedAt' = checkedAt \/ \E t : checkedAt' = [checkedAt EXCEPT ![q] = t],
             pc[q] # "idle", now' = now,
             op[q] \in {"confirm", "login"} => now >= lockedUntil'
      PROVE  SInv'
  <2>1. OnlyLocals(q) /\ pc'[q] = label /\ op' = op
    BY <1>3, GotoIsLocal
  <2> QED
    BY <1>1, <1>3, <2>1 DEF UnlockedOK
<1>4. ASSUME NEW q \in Requests, NEW operation, NEW label, NEW c,
             Begin(q, operation, label, c),
             operation \in {"confirm", "login"} => label = "readLock"
      PROVE  SInv'
  <2>1. /\ OnlyLocals(q) /\ op'[q] = operation /\ pc'[q] = label
        /\ \A p \in Requests : pc[p] = "idle"
    BY <1>c, <1>4, BeginIsLocal DEF Begin
  <2> QED
    BY <1>1, <1>4, <2>1 DEF UnlockedOK
<1>5. ASSUME NEW q \in Issuers, Issue(q) PROVE SInv'
  <2>1. CASE IssueBegin(q)
    BY <1>4, <1>r, <2>1 DEF IssueBegin
  <2>2. CASE IssueSetHash(q) \/ IssueSetExpires(q)
    <3>1. q \in Requests /\ op[q] = "issue" /\ pc[q] # "idle"
      BY <2>2, IssuingRequest DEF IssueSetHash, IssueSetExpires
    <3> QED
      BY <1>3, <2>2, <3>1 DEF IssueSetHash, IssueSetExpires, Goto
  <2>3. CASE IssueMail(q)
    BY <1>2, <1>r, <2>3 DEF IssueMail
  <2> QED
    BY <1>5, <2>1, <2>2, <2>3 DEF Issue
<1>6. ASSUME NEW q \in Verifiers, Verify(q) PROVE SInv'
  <2>1. ASSUME NEW operation \in {"confirm", "login"}, NEW c, VerifyBegin(q, operation, c)
        PROVE  SInv'
    BY <1>4, <1>r, <2>1 DEF VerifyBegin
  <2>2. CASE VerifyReadLock(q)
    BY <1>c, <1>2, <1>3, <1>r, <2>2 DEF VerifyReadLock, Goto, stored
  <2>3. ASSUME VerifyReadExpires(q) \/ VerifyReadHash(q) \/ VerifyReadAttempts(q)
               \/ VerifySetAttempts(q) \/ VerifySetLocked(q) \/ ConfirmSetEnabled(q)
        PROVE  SInv'
    <3>1. /\ q \in Requests /\ pc[q] # "idle" /\ pc[q] # "readLock" /\ UnlockedOK(q)
          /\ now' = now
      BY <1>p, <1>r, <2>3
         DEF VerifyReadExpires, VerifyReadHash, VerifyReadAttempts, VerifySetAttempts,
             VerifySetLocked, ConfirmSetEnabled
    <3>2. CASE ~Finish(q)
      <4>1. PICK label :
              /\ pc' = [pc EXCEPT ![q] = label] /\ UNCHANGED <<op, code, seen>>
              /\ checkedAt' = checkedAt \/ \E t : checkedAt' = [checkedAt EXCEPT ![q] = t]
        BY <2>3, <3>2
           DEF VerifyReadExpires, VerifyReadHash, VerifyReadAttempts, VerifySetAttempts,
               VerifySetLocked, ConfirmSetEnabled, Goto
      <4>2. lockedUntil' = lockedUntil
        BY <2>3, <3>2
           DEF VerifyReadExpires, VerifyReadHash, VerifyReadAttempts, VerifySetAttempts,
               VerifySetLocked, ConfirmSetEnabled, stored
      <4> QED
        BY <1>3, <3>1, <4>1, <4>2 DEF UnlockedOK
    <3> QED
      BY <1>2, <3>1, <3>2
  <2> QED
    BY <1>6, <2>1, <2>2, <2>3 DEF Verify
<1>7. ASSUME NEW q \in Disablers, DisableBegin(q) PROVE SInv'
  BY <1>4, <1>7, <1>r DEF DisableBegin
<1>8. ASSUME NEW q \in Requests, Clear(q) PROVE SInv'
  <2>1. /\ pc[q] # "idle" /\ pc[q] # "readLock" /\ UnlockedOK(q)
        /\ now' = now /\ lockedUntil' \in {lockedUntil, 0}
        /\ Finish(q) \/ \E label \in Labels : Goto(q, label)
    BY <1>8, <1>n, <1>p
       DEF Clear, ClearEnabled, ClearHash, ClearExpires, ClearAttempts, ClearLocked, Labels
  <2> QED
    BY <1>2, <1>3, <1>n, <2>1 DEF UnlockedOK, Goto
<1>9. ASSUME NEW q \in Requests, Fail(q) PROVE SInv'
  BY <1>2, <1>9 DEF Fail
<1>10. CASE Tick \/ UNCHANGED vars
  <2>1. UNCHANGED <<op, pc, lockedUntil>> /\ now' \in {now, now + 1}
    BY <1>10 DEF Tick, vars, stored, locals
  <2>2. ASSUME NEW q \in Requests PROVE UnlockedOK(q)'
    BY <1>p, <1>n, <2>1 DEF UnlockedOK
  <2> QED
    BY <2>2 DEF SInv
<1> QED
  BY <1>5, <1>6, <1>7, <1>8, <1>9, <1>10 DEF Next
-----------------------------------------------------------------------------
(* Guesses, in calm times.  At rest the failures counted are at least the  *)
(* wrong guesses at the stored code, and when there are too many the lock  *)
(* ends after the code does (Guarded); each statement of a request either  *)
(* keeps that or leaves what the next one needs to restore it.             *)

LockoutOutlastsCode == lockoutDuration > email2faOTPExpiry

Guarded ==
  otpHash # Missing =>
    /\ guesses[otpHash] <= attempts
    /\ guesses[otpHash] >= maxFailedAttempts => lockedUntil > expiresAt

GuessesOK(q) ==
  /\ pc[q] \in {"readLock", "readExpires", "readHash", "clearEnabled"} => Guarded
  /\ pc[q] = "readHash" /\ otpHash # Missing => guesses[otpHash] < maxFailedAttempts
  /\ pc[q] = "readAttempts" => otpHash # Missing /\ guesses[otpHash] <= attempts + 1
  /\ pc[q] = "setAttempts" => otpHash # Missing /\ guesses[otpHash] <= tries[q] + 1
  /\ pc[q] = "setLocked" => otpHash # Missing /\ guesses[otpHash] <= attempts
  /\ op[q] = "issue" /\ pc[q] = "setHash" => guesses[code[q]] = 0
  /\ op[q] = "issue" /\ pc[q] # "setHash" /\ otpHash # Missing => guesses[otpHash] = 0
  /\ op[q] # "issue" /\ pc[q] \in AcceptLabels \ {"clearHash"} => otpHash = Missing

GInv ==
  calm =>
    /\ expiresAt <= now + email2faOTPExpiry
    /\ \A c \in Codes : generated < c => guesses[c] = 0
    /\ \A c \in Codes : guesses[c] <= maxFailedAttempts
    /\ (\A q \in Requests : pc[q] = "idle") => Guarded
    /\ \A q \in Requests : GuessesOK(q)

LEMMA GInvInit == Init => GInv
<1> SUFFICES ASSUME Init PROVE GInv
  OBVIOUS
<1> USE ConstantsAreNumbers
<1>1. expiresAt <= now + email2faOTPExpiry
  BY DEF Init, Missing
<1>2. \A c \in Codes : guesses[c] = 0
  BY DEF Init
<1>3. Guarded /\ \A q \in Requests : GuessesOK(q)
  BY DEF Init, Guarded, GuessesOK, AcceptLabels
<1> QED
  BY <1>1, <1>2, <1>3 DEF GInv

LEMMA StillInTime ==
  ASSUME NEW t \in Nat, NEW before \in Nat, NEW after \in Nat,
         t <= before + email2faOTPExpiry, before <= after
  PROVE  t <= after + email2faOTPExpiry
BY ConstantsAreNumbers

LEMMA GInvStep ==
  ASSUME LockoutOutlastsCode
  PROVE  TInv /\ RInv /\ SInv /\ GInv /\ [Next]_vars => GInv'
<1> SUFFICES ASSUME TInv, RInv, SInv, GInv, [Next]_vars, calm' PROVE GInv'
  BY DEF GInv
<1> USE ConstantsAreNumbers
<1>c. calm' = calm /\ calm
  BY DEF Next, vars
<1>t. TablesOK /\ LocalsOK
  BY DEF TInv
<1>g. /\ expiresAt <= now + email2faOTPExpiry
      /\ \A c \in Codes : generated < c => guesses[c] = 0
      /\ \A c \in Codes : guesses[c] <= maxFailedAttempts
      /\ (\A q \in Requests : pc[q] = "idle") => Guarded
      /\ \A q \in Requests : GuessesOK(q) /\ OpOK(q)
  BY <1>c DEF GInv, TInv
<1>r. Issuers \subseteq Requests /\ Verifiers \subseteq Requests /\ Disablers \subseteq Requests
  BY DEF Requests
<1>n. /\ Missing = 0 /\ NoCode = 0 /\ now \in Nat /\ expiresAt \in Nat /\ lockedUntil \in Nat
      /\ attempts \in Nat /\ otpHash \in Nat /\ generated \in Nat
      /\ otpHash # Missing => otpHash \in Codes
      /\ \A c \in Codes : guesses[c] \in Nat
      /\ \A q \in Requests : tries[q] \in Nat
  BY <1>t DEF TablesOK, LocalsOK, Codes, Missing, NoCode
<1> USE <1>c
(* What a step of request q has to keep.                                   *)
<1>1. ASSUME NEW q \in Requests, OnlyLocals(q),
             pc[q] # "idle" \/ \A p \in Requests : pc[p] = "idle",
             expiresAt' <= now' + email2faOTPExpiry,
             \A c \in Codes : generated' < c => guesses'[c] = 0,
             \A c \in Codes : guesses'[c] <= maxFailedAttempts,
             pc'[q] = "idle" => Guarded',
             GuessesOK(q)'
      PROVE  GInv'
  <2>1. \A p \in Requests \ {q} : pc'[p] = "idle" /\ op'[p] = "none"
    BY <1>1, Alone
  <2>2. \A p \in Requests \ {q} : GuessesOK(p)'
    BY <2>1 DEF GuessesOK, AcceptLabels
  <2> QED
    BY <1>1, <2>1, <2>2 DEF GInv
<1>2. ASSUME NEW q \in Requests, Finish(q), pc[q] # "idle",
             expiresAt' <= now' + email2faOTPExpiry,
             UNCHANGED <<generated, guesses>>, Guarded'
      PROVE  GInv'
  <2>1. OnlyLocals(q) /\ pc'[q] = "idle" /\ op'[q] = "none"
    BY <1>2, <1>t, FinishIsLocal DEF Finish, LocalsOK
  <2>2. GuessesOK(q)'
    BY <2>1 DEF GuessesOK, AcceptLabels
  <2> QED
    BY <1>1, <1>2, <1>g, <2>1, <2>2
<1>3. ASSUME NEW q \in Requests, NEW operation, NEW label, NEW c,
             Begin(q, operation, label, c), UNCHANGED stored, now' = now,
             UNCHANGED guesses, generated' \in {generated, generated + 1},
             label \in {"readLock", "clearEnabled", "setHash"},
             operation = "issue" => label = "setHash",
             label = "setHash" => c = generated + 1 /\ generated + 1 \in Codes
      PROVE  GInv'
  <2>1. /\ OnlyLocals(q) /\ op'[q] = operation /\ pc'[q] = label /\ code'[q] = c
        /\ \A p \in Requests : pc[p] = "idle"
    BY <1>3, BeginIsLocal DEF Begin
  <2>2. Guarded'
    BY <1>3, <1>g, <2>1 DEF Guarded, stored
  <2>3. label = "setHash" => guesses'[c] = 0
    BY <1>3, <1>g, <1>n
  <2>4. GuessesOK(q)'
    BY <1>3, <2>1, <2>2, <2>3 DEF GuessesOK, AcceptLabels
  <2>5. \A d \in Codes : generated' < d => guesses'[d] = 0
    BY <1>3, <1>g, <1>n DEF Codes
  <2> QED
    BY <1>1, <1>3, <1>g, <2>1, <2>4, <2>5 DEF stored
<1>4. ASSUME NEW q \in Requests, NEW label,
             pc' = [pc EXCEPT ![q] = label], UNCHANGED <<op, code, seen>>,
             checkedAt' = checkedAt \/ \E t : checkedAt' = [checkedAt EXCEPT ![q] = t],
             pc[q] # "idle", label # "idle",
             UNCHANGED <<generated, guesses>>,
             expiresAt' <= now' + email2faOTPExpiry,
             pc'[q] = label /\ op'[q] = op[q] /\ code'[q] = code[q] => GuessesOK(q)'
      PROVE  GInv'
  <2>1. OnlyLocals(q) /\ pc'[q] = label /\ op' = op /\ code' = code
    BY <1>4, GotoIsLocal
  <2> QED
    BY <1>1, <1>4, <1>g, <2>1
<1>5. ASSUME NEW q \in Issuers, Issue(q) PROVE GInv'
  <2>1. CASE IssueBegin(q)
    <3>1. generated + 1 \in Codes
      BY <2>1, <1>n DEF IssueBegin, Codes
    <3> QED
      BY <1>3, <1>r, <2>1, <3>1 DEF IssueBegin, stored
  <2>2. CASE IssueSetHash(q)
    <3>1. /\ op[q] = "issue" /\ pc[q] = "setHash" /\ guesses[code[q]] = 0
      BY <2>2, <1>r, <1>g, <1>t DEF IssueSetHash, GuessesOK, OpOK, LocalsOK, Ops,
                                    VerifyLabels, AcceptLabels, DisableLabels
    <3>2. pc'[q] = "setExpires" /\ op'[q] = op[q] => GuessesOK(q)'
      BY <2>2, <3>1 DEF IssueSetHash, GuessesOK, history
    <3> QED
      BY <1>4, <1>g, <1>r, <2>2, <3>1, <3>2 DEF IssueSetHash, Goto, history
  <2>3. CASE IssueSetExpires(q)
    <3>1. /\ op[q] = "issue" /\ pc[q] = "setExpires"
          /\ otpHash # Missing => guesses[otpHash] = 0
      BY <2>3, <1>r, <1>g, <1>t DEF IssueSetExpires, GuessesOK, OpOK, LocalsOK, Ops,
                                    VerifyLabels, AcceptLabels, DisableLabels
    <3>2. pc'[q] = "clearAttempts" /\ op'[q] = op[q] => GuessesOK(q)'
      BY <2>3, <3>1 DEF IssueSetExpires, GuessesOK
    <3>3. expiresAt' <= now' + email2faOTPExpiry
      BY <2>3, <1>n DEF IssueSetExpires
    <3> QED
      BY <1>4, <1>g, <1>r, <2>3, <3>1, <3>2, <3>3 DEF IssueSetExpires, Goto
  <2>4. CASE IssueMail(q)
    <3>1. /\ op[q] = "issue" /\ pc[q] = "mail"
          /\ otpHash # Missing => guesses[otpHash] = 0
      BY <2>4, <1>r, <1>g, <1>t DEF IssueMail, GuessesOK, OpOK, LocalsOK, Ops,
                                    VerifyLabels, AcceptLabels, DisableLabels
    <3>2. Guarded'
      BY <2>4, <3>1, <1>n DEF IssueMail, Guarded, stored
    <3> QED
      BY <1>2, <1>g, <1>r, <2>4, <3>1, <3>2 DEF IssueMail, stored
  <2> QED
    BY <1>5, <2>1, <2>2, <2>3, <2>4 DEF Issue
<1>6. ASSUME NEW q \in Verifiers, Verify(q) PROVE GInv'
  <2>q. q \in Requests /\ GuessesOK(q) /\ OpOK(q) /\ UnlockedOK(q)
    BY <1>r, <1>g, <1>c DEF SInv
  <2>1. ASSUME NEW operation \in {"confirm", "login"}, NEW c \in mailed \cup {NoCode},
               VerifyBegin(q, operation, c) PROVE GInv'
    BY <1>3, <1>r, <2>1 DEF VerifyBegin, stored, history
  <2>2. CASE VerifyReadLock(q)
    <3>1. Guarded /\ Guarded' /\ pc[q] = "readLock" /\ op[q] # "issue"
      BY <2>2, <2>q DEF VerifyReadLock, GuessesOK, Guarded, stored, history, OpOK, IssueLabels
    <3>2. CASE Finish(q)
      BY <1>2, <1>g, <2>2, <2>q, <3>1, <3>2 DEF VerifyReadLock, stored, history
    <3>3. CASE Goto(q, "readExpires")
      <4>1. pc'[q] = "readExpires" /\ op'[q] = op[q] => GuessesOK(q)'
        BY <3>1 DEF GuessesOK, AcceptLabels
      <4> QED
        BY <1>4, <1>g, <2>2, <2>q, <3>1, <3>3, <4>1 DEF VerifyReadLock, Goto, stored, history
    <3> QED
      BY <2>2, <3>2, <3>3 DEF VerifyReadLock
  <2>3. CASE VerifyReadExpires(q)
    <3>1. /\ Guarded /\ Guarded' /\ pc[q] = "readExpires"
          /\ op[q] \in {"confirm", "login"} /\ now >= lockedUntil
      BY <2>3, <2>q, <1>t DEF VerifyReadExpires, GuessesOK, Guarded, stored, history, OpOK,
                              IssueLabels, DisableLabels, LocalsOK, Ops, UnlockedOK
    <3>2. CASE Finish(q)
      BY <1>2, <1>g, <2>3, <2>q, <3>1, <3>2 DEF VerifyReadExpires, stored, history
    <3>3. CASE ~Finish(q)
      <4>1. /\ now <= expiresAt /\ pc' = [pc EXCEPT ![q] = "readHash"]
            /\ checkedAt' = [checkedAt EXCEPT ![q] = now] /\ UNCHANGED <<op, code, seen>>
            /\ UNCHANGED <<otpHash, guesses>>
        BY <2>3, <3>3 DEF VerifyReadExpires, stored, history
      <4>2. otpHash # Missing => guesses[otpHash] < maxFailedAttempts
        BY <1>n, <3>1, <4>1 DEF Guarded
      <4>3. pc'[q] = "readHash" /\ op'[q] = op[q] => GuessesOK(q)'
        BY <3>1, <4>1, <4>2 DEF GuessesOK, AcceptLabels
      <4> QED
        BY <1>4, <1>g, <2>3, <2>q, <3>1, <4>1, <4>3 DEF VerifyReadExpires, stored, history
    <3> QED
      BY <3>2, <3>3
  <2>4. CASE VerifyReadHash(q)
    <3>1. /\ Guarded /\ pc[q] = "readHash" /\ op[q] # "issue"
          /\ otpHash # Missing => guesses[otpHash] < maxFailedAttempts
          /\ UNCHANGED <<stored, now, generated>>
      BY <2>4, <2>q DEF VerifyReadHash, GuessesOK, OpOK, IssueLabels
    <3>2. CASE Accepts(q)
      <4>1. Goto(q, "clearHash") /\ guesses' = guesses
        BY <2>4, <3>2 DEF VerifyReadHash, Accepts
      <4>2. pc'[q] = "clearHash" /\ op'[q] = op[q] => GuessesOK(q)'
        BY <3>1 DEF GuessesOK, AcceptLabels
      <4> QED
        BY <1>4, <1>g, <2>q, <3>1, <4>1, <4>2 DEF Goto, stored
    <3>3. CASE otpHash # Missing /\ ~Accepts(q)
      <4>1. /\ Goto(q, "readAttempts") /\ guesses' = [guesses EXCEPT ![otpHash] = @ + 1]
            /\ otpHash' = otpHash /\ attempts' = attempts
        BY <2>4, <3>1, <3>3 DEF VerifyReadHash, stored
      <4>2. /\ guesses'[otpHash] = guesses[otpHash] + 1
            /\ \A c \in Codes \ {otpHash} : guesses'[c] = guesses[c]
        BY <4>1, <3>3, <1>n, <1>t DEF TablesOK
      <4>3. OnlyLocals(q) /\ pc'[q] = "readAttempts" /\ op' = op
        BY <4>1, <2>q, GotoIsLocal DEF Goto
      <4>4. \A c \in Codes : guesses'[c] <= maxFailedAttempts
        BY <4>2, <3>1, <3>3, <1>g, <1>n
      <4>5. GuessesOK(q)'
        BY <4>1, <4>2, <4>3, <3>1, <3>3, <1>n DEF GuessesOK, AcceptLabels, Guarded
      <4>6. otpHash <= generated
        BY DEF RInv, PairOK
      <4>7. \A c \in Codes : generated' < c => guesses'[c] = 0
        BY <1>g, <1>n, <3>1, <4>2, <4>6 DEF Codes
      <4> QED
        BY <1>1, <1>g, <2>q, <3>1, <4>3, <4>4, <4>5, <4>7 DEF stored
    <3>4. CASE otpHash = Missing
      <4>1. Finish(q) /\ guesses' = guesses /\ Guarded'
        BY <2>4, <3>1, <3>4 DEF VerifyReadHash, Accepts, Guarded, stored
      <4> QED
        BY <1>2, <1>g, <2>q, <3>1, <4>1 DEF stored
    <3> QED
      BY <3>2, <3>3, <3>4
  <2>5. CASE VerifyReadAttempts(q)
    <3>1. /\ pc[q] = "readAttempts" /\ op[q] # "issue"
          /\ otpHash # Missing /\ guesses[otpHash] <= attempts + 1
          /\ UNCHANGED <<stored, now, history, op, code, seen, checkedAt>>
          /\ pc' = [pc EXCEPT ![q] = "setAttempts"]
          /\ tries' = [tries EXCEPT ![q] = attempts]
      BY <2>5, <2>q, <1>c DEF VerifyReadAttempts, GuessesOK, OpOK, IssueLabels
    <3>2. tries'[q] = attempts
      BY <2>q, <3>1, <1>t DEF LocalsOK
    <3>3. pc'[q] = "setAttempts" /\ op'[q] = op[q] => GuessesOK(q)'
      BY <3>1, <3>2 DEF GuessesOK, AcceptLabels, stored, history
    <3> QED
      BY <1>4, <1>g, <2>q, <3>1, <3>3 DEF stored, history
  <2>6. CASE VerifySetAttempts(q)
    <3>1. /\ pc[q] = "setAttempts" /\ op[q] # "issue"
          /\ otpHash # Missing /\ guesses[otpHash] <= tries[q] + 1
          /\ attempts' = tries[q] + 1
          /\ UNCHANGED <<otpHash, expiresAt, lockedUntil, now, history>>
      BY <2>6, <2>q, <1>c DEF VerifySetAttempts, GuessesOK, OpOK, IssueLabels
    <3>2. CASE tries[q] + 1 >= maxFailedAttempts
      <4>1. Goto(q, "setLocked")
        BY <2>6, <3>2 DEF VerifySetAttempts
      <4>2. pc'[q] = "setLocked" /\ op'[q] = op[q] => GuessesOK(q)'
        BY <3>1 DEF GuessesOK, AcceptLabels, history
      <4> QED
        BY <1>4, <1>g, <2>q, <3>1, <4>1, <4>2 DEF Goto, history
    <3>3. CASE ~(tries[q] + 1 >= maxFailedAttempts)
      <4>1. Finish(q)
        BY <2>6, <3>3 DEF VerifySetAttempts
      <4>2. Guarded'
        BY <1>n, <2>q, <3>1, <3>3 DEF Guarded, history
      <4> QED
        BY <1>2, <1>g, <2>q, <3>1, <4>1, <4>2 DEF history
    <3> QED
      BY <3>2, <3>3
  <2>7. CASE VerifySetLocked(q)
    <3>1. /\ pc[q] = "setLocked" /\ Finish(q)
          /\ otpHash # Missing /\ guesses[otpHash] <= attempts
          /\ lockedUntil' = now + lockoutDuration
          /\ UNCHANGED <<otpHash, expiresAt, attempts, now, history>>
      BY <2>7, <2>q, <1>c DEF VerifySetLocked, GuessesOK
    <3>2. lockedUntil' > expiresAt
      BY <3>1, <1>g, <1>n DEF LockoutOutlastsCode
    <3>3. Guarded'
      BY <3>1, <3>2 DEF Guarded, history
    <3> QED
      BY <1>2, <1>g, <2>q, <3>1, <3>3 DEF history
  <2>8. CASE ConfirmSetEnabled(q)
    <3>1. /\ pc[q] = "setEnabled" /\ Finish(q) /\ otpHash = Missing
          /\ UNCHANGED <<otpHash, expiresAt, now, history>>
      BY <2>8, <2>q DEF ConfirmSetEnabled, GuessesOK, AcceptLabels, OpOK, IssueLabels
    <3>2. Guarded'
      BY <3>1 DEF Guarded
    <3> QED
      BY <1>2, <1>g, <2>q, <3>1, <3>2 DEF history
  <2> QED
    BY <1>6, <2>1, <2>2, <2>3, <2>4, <2>5, <2>6, <2>7, <2>8 DEF Verify
<1>7. ASSUME NEW q \in Disablers, DisableBegin(q) PROVE GInv'
  BY <1>3, <1>7, <1>r DEF DisableBegin, stored, history
<1>8. ASSUME NEW q \in Requests, Clear(q) PROVE GInv'
  <2>1. /\ pc[q] # "idle" /\ OpOK(q) /\ GuessesOK(q) /\ UNCHANGED <<now, generated, guesses>>
        /\ expiresAt' <= now' + email2faOTPExpiry
    BY <1>8, <1>g, <1>n DEF Clear, ClearEnabled, ClearHash, ClearExpires, ClearAttempts,
                            ClearLocked, history, ErrorIgnored
  <2>2. ASSUME NEW label \in Labels \ {"idle"}, Goto(q, label),
               pc'[q] = label /\ op'[q] = op[q] /\ code'[q] = code[q] => GuessesOK(q)'
        PROVE  GInv'
    BY <1>4, <1>g, <2>1, <2>2 DEF Goto
  <2>3. CASE ClearEnabled(q)
    <3>1. Guarded /\ Guarded' /\ op[q] # "issue"
      BY <2>1, <2>3 DEF ClearEnabled, GuessesOK, Guarded, history, OpOK, IssueLabels
    <3> QED
      BY <2>2, <2>3, <3>1 DEF ClearEnabled, GuessesOK, AcceptLabels, Labels
  <2>4. CASE ClearHash(q)
    <3>1. otpHash' = Missing /\ op[q] # "issue" /\ "clearExpires" \in Labels \ {"idle"}
      BY <2>1, <2>4, <1>c DEF ClearHash, ErrorIgnored, OpOK, IssueLabels, Labels
    <3> QED
      BY <2>2, <2>4, <3>1 DEF ClearHash, GuessesOK, AcceptLabels
  <2>5. CASE ClearExpires(q)
    <3>1. otpHash' = Missing /\ op[q] # "issue" /\ "clearAttempts" \in Labels \ {"idle"}
      BY <2>1, <2>5 DEF ClearExpires, GuessesOK, AcceptLabels, OpOK, IssueLabels, Labels
    <3> QED
      BY <2>2, <2>5, <3>1 DEF ClearExpires, GuessesOK, AcceptLabels
  <2>6. CASE ClearAttempts(q)
    <3>1. /\ "clearLocked" \in Labels \ {"idle"} /\ otpHash' = otpHash
          /\ op[q] # "issue" => otpHash = Missing
          /\ op[q] = "issue" /\ otpHash # Missing => guesses[otpHash] = 0
      BY <2>1, <2>6 DEF ClearAttempts, GuessesOK, AcceptLabels, Labels
    <3> QED
      BY <2>1, <2>2, <2>6, <3>1 DEF ClearAttempts, GuessesOK, AcceptLabels, history, Goto
  <2>7. CASE ClearLocked(q)
    <3>1. /\ otpHash' = otpHash /\ expiresAt' = expiresAt
          /\ op[q] # "issue" => otpHash = Missing
          /\ op[q] = "issue" /\ otpHash # Missing => guesses[otpHash] = 0
      BY <2>1, <2>7 DEF ClearLocked, GuessesOK, AcceptLabels
    <3>2. CASE op[q] = "issue"
      BY <2>1, <2>2, <2>7, <3>1, <3>2
         DEF ClearLocked, GuessesOK, AcceptLabels, history, Goto, Labels
    <3>3. CASE op[q] = "confirm"
      BY <2>1, <2>2, <2>7, <3>1, <3>3
         DEF ClearLocked, GuessesOK, AcceptLabels, history, Goto, Labels
    <3>4. CASE op[q] \notin {"issue", "confirm"}
      <4>1. Finish(q) /\ Guarded'
        BY <2>7, <3>1, <3>4 DEF ClearLocked, Guarded
      <4> QED
        BY <1>2, <1>g, <2>1, <4>1
    <3> QED
      BY <3>2, <3>3, <3>4
  <2> QED
    BY <1>8, <2>3, <2>4, <2>5, <2>6, <2>7 DEF Clear
<1>9. ASSUME NEW q \in Requests, Fail(q) PROVE GInv'
  BY <1>9 DEF Fail
<1>10. CASE Tick \/ UNCHANGED vars
  <2>1. UNCHANGED <<stored, locals, history>> /\ now' \in Nat /\ now <= now'
    BY <1>10, <1>n DEF Tick, vars
  <2>2. expiresAt' <= now' + email2faOTPExpiry
    <3>1. expiresAt' = expiresAt
      BY <2>1 DEF stored
    <3> QED
      BY <2>1, <3>1, <1>g, <1>n, StillInTime
  <2>3. Guarded' <=> Guarded
    BY <2>1 DEF Guarded, stored, history
  <2>4. \A q \in Requests : GuessesOK(q)'
    BY <2>1, <2>3, <1>g DEF GuessesOK, stored, locals, history
  <2> QED
    BY <2>1, <2>2, <2>3, <2>4, <1>g DEF GInv, stored, locals, history
<1> QED
  BY <1>5, <1>6, <1>7, <1>8, <1>9, <1>10 DEF Next
-----------------------------------------------------------------------------
(* Theorems.                                                               *)

Inv == TInv /\ RInv /\ ReuseInv /\ SInv

LEMMA Invariance == Spec => []Inv
<1>1. Init => Inv
  BY TInvInit, RInvInit, ReuseInvInit, SInvInit DEF Inv
<1>2. Inv /\ [Next]_vars => Inv'
  BY TInvStep, RInvStep, ReuseInvStep, SInvStep DEF Inv
<1> QED
  BY <1>1, <1>2, PTL DEF Spec

LEMMA GuessesInvariance ==
  ASSUME LockoutOutlastsCode
  PROVE  Spec => [](Inv /\ GInv)
<1>1. Inv /\ GInv /\ [Next]_vars => GInv'
  BY GInvStep DEF Inv
<1> QED
  BY <1>1, Invariance, GInvInit, PTL DEF Spec

(* Every variable keeps its type, whatever the requests and their failures.*)
THEOREM TypeCorrect == Spec => []TypeOK
<1>1. Inv => TypeOK
  BY TypesSplit DEF Inv, TInv
<1> QED
  BY <1>1, Invariance, PTL

(* What a verification knows of the code it accepts.                       *)
LEMMA AcceptedCode ==
  ASSUME Inv, NEW q \in Verifiers, VerifyReadHash(q) /\ Accepts(q)
  PROVE  /\ OwnHour(code[q], checkedAt[q])
         /\ \A c \in seen[q] : c <= code[q] \/ c \in rivals[code[q]]
<1>1. /\ q \in Requests /\ op[q] \in {"confirm", "login"} /\ pc[q] = "readHash"
      /\ VerifyOK(q) /\ PairOK
  BY DEF VerifyReadHash, Inv, TInv, RInv, OpOK, LocalsOK, Ops, Requests, IssueLabels,
         DisableLabels
<1> QED
  BY <1>1 DEF Accepts, VerifyOK, PairOK, Fits

(* No code is accepted that was compared with the clock after its own ten  *)
(* minutes, or after those of a code issued at the same time: however many *)
(* codes are asked for, and whatever fails.                                *)
THEOREM CodesExpire == Spec => CodeExpires
<1>1. ASSUME Inv, NEW q \in Verifiers, VerifyReadHash(q) /\ Accepts(q)
      PROVE  \E c \in Siblings(code[q]) : checkedAt[q] <= storedAt[c] + email2faOTPExpiry
  BY <1>1, AcceptedCode DEF OwnHour, Expiry
<1>2. Inv => [\A q \in Verifiers : VerifyReadHash(q) /\ Accepts(q) =>
                \E c \in Siblings(code[q]) :
                  checkedAt[q] <= storedAt[c] + email2faOTPExpiry]_vars
  BY <1>1
<1> QED
  BY <1>2, Invariance, PTL DEF CodeExpires

(* A verification begun after a newer code was mailed accepts no older one *)
(* but one issued at the same time.                                        *)
THEOREM SupersededCodesAreDead == Spec => SupersededCodeIsDead
<1>1. ASSUME Inv, NEW q \in Verifiers, VerifyReadHash(q) /\ Accepts(q)
      PROVE  \A c \in seen[q] : c <= code[q] \/ c \in rivals[code[q]]
  BY <1>1, AcceptedCode
<1>2. Inv => [\A q \in Verifiers : VerifyReadHash(q) /\ Accepts(q) =>
                \A c \in seen[q] : c <= code[q] \/ c \in rivals[code[q]]]_vars
  BY <1>1
<1> QED
  BY <1>2, Invariance, PTL DEF SupersededCodeIsDead

(* The deletes of an accepted code take no other code away that had been   *)
(* mailed before the verification began, however many are being issued.    *)
THEOREM MailedCodesAreKept == Spec => MailedCodeIsKept
<1>1. ASSUME Inv, NEW q \in Verifiers,
             op[q] # "disable" /\ (ClearHash(q) \/ ClearExpires(q)), otpHash \in seen[q]
      PROVE  code[q] = otpHash
  <2>1. q \in Requests /\ pc[q] \in {"clearHash", "clearExpires"}
    BY <1>1 DEF ClearHash, ClearExpires, Requests
  <2>2. op[q] \in {"confirm", "login"} /\ VerifyOK(q)
    BY <1>1, <2>1 DEF Inv, TInv, RInv, OpOK, LocalsOK, Ops, IssueLabels
  <2> QED
    BY <1>1, <2>1, <2>2 DEF VerifyOK
<1>2. Inv => [\A q \in Verifiers :
                op[q] # "disable" /\ (ClearHash(q) \/ ClearExpires(q)) =>
                  (otpHash \in seen[q] => code[q] = otpHash)]_vars
  BY <1>1
<1> QED
  BY <1>2, Invariance, PTL DEF MailedCodeIsKept

(* A code is accepted a second time only before the delete that follows    *)
(* its first acceptance, or after that delete has failed or never come.    *)
THEOREM CodesReusedOnlyBeforeDelete == Spec => CodeReusedOnlyBeforeDelete
<1>1. ASSUME Inv, NEW q \in Verifiers,
             VerifyReadHash(q) /\ Accepts(q) /\ code[q] \in redeemed
      PROVE  \/ code[q] \in spared
             \/ \E p \in Verifiers : pc[p] = "clearHash" /\ code[p] = code[q]
  BY <1>1 DEF Inv, ReuseInv, Deleting, Accepts
<1>2. Inv => [\A q \in Verifiers : VerifyReadHash(q) /\ Accepts(q) /\ code[q] \in redeemed =>
                \/ code[q] \in spared
                \/ \E p \in Verifiers : pc[p] = "clearHash" /\ code[p] = code[q]]_vars
  BY <1>1
<1> QED
  BY <1>2, Invariance, PTL DEF CodeReusedOnlyBeforeDelete

(* In calm times a lock is lifted only by disabling and by a new code.     *)
THEOREM LocksHoldUntilReissue == Spec => LockHoldsUntilReissue
<1>1. ASSUME Inv, [Next]_vars, calm /\ now < lockedUntil /\ lockedUntil' # lockedUntil
      PROVE  \E q \in Requests : op[q] \in {"issue", "disable"} /\ ClearLocked(q)
  <2>1. now \in Nat /\ lockedUntil \in Nat
    BY <1>1 DEF Inv, TInv, TablesOK
  <2>2. \A q \in Requests : UnlockedOK(q) /\ OpOK(q)
    BY <1>1 DEF Inv, SInv, TInv
  <2>3. ASSUME NEW q \in Verifiers PROVE ~VerifySetLocked(q)
    <3>1. CASE pc[q] = "setLocked"
      <4>1. q \in Requests /\ op[q] \in {"confirm", "login"}
        BY <1>1, <2>2, <3>1 DEF Inv, TInv, OpOK, LocalsOK, Ops, Requests,
                                IssueLabels, DisableLabels
      <4> QED
        BY <1>1, <2>1, <2>2, <3>1, <4>1 DEF UnlockedOK
    <3> QED
      BY <3>1 DEF VerifySetLocked
  <2>4. PICK q \in Requests : ClearLocked(q)
    BY <1>1, <2>3
       DEF Next, vars, stored, history, Issue, IssueBegin, IssueSetHash, IssueSetExpires,
           IssueMail, Verify, VerifyBegin, VerifyReadLock, VerifyReadExpires,
           VerifyReadHash, VerifyReadAttempts, VerifySetAttempts, ConfirmSetEnabled,
           DisableBegin, Clear, ClearEnabled, ClearHash, ClearExpires, ClearAttempts,
           Fail, Tick
  <2>5. op[q] \in {"issue", "disable"}
    <3>1. pc[q] = "clearLocked" /\ op[q] \in Ops /\ op[q] # "none"
      BY <1>1, <2>2, <2>4 DEF ClearLocked, Inv, TInv, LocalsOK, OpOK
    <3> QED
      BY <1>1, <2>1, <2>2, <3>1 DEF UnlockedOK, Ops
  <2> QED
    BY <2>4, <2>5
<1>2. Inv /\ [Next]_vars =>
        [calm /\ now < lockedUntil /\ lockedUntil' # lockedUntil =>
           \E q \in Requests : op[q] \in {"issue", "disable"} /\ ClearLocked(q)]_vars
  BY <1>1
<1> QED
  BY <1>2, Invariance, PTL DEF LockHoldsUntilReissue, Spec

(* In calm times no code stands more wrong guesses than the lock allows,   *)
(* whatever codes are asked for meanwhile, because the lock outlasts the   *)
(* code.                                                                   *)
THEOREM GuessesBounded == LockoutOutlastsCode => (Spec => []GuessesAreBounded)
<1> SUFFICES ASSUME LockoutOutlastsCode PROVE Spec => []GuessesAreBounded
  OBVIOUS
<1>1. GInv => GuessesAreBounded
  BY DEF GInv, GuessesAreBounded
<1> QED
  BY <1>1, GuessesInvariance, PTL

(* The lock and a new code.  ClearLocked ends every issue, so a lock holds *)
(* for its fifteen minutes exactly if nobody asks for a code meanwhile:    *)
(* then no request that issues one is ever in flight together with a lock. *)

LockedAsksNoCode == \A q \in Issuers : IssueBegin(q) => now >= lockedUntil

NoIssueUnderLock ==
  calm => \A q \in Requests : op[q] = "issue" => now >= lockedUntil

LEMMA LockStep ==
  Inv /\ NoIssueUnderLock /\ [LockedAsksNoCode]_vars /\ [Next]_vars => NoIssueUnderLock'
<1> SUFFICES ASSUME Inv, NoIssueUnderLock, [LockedAsksNoCode]_vars, [Next]_vars, calm',
                    NEW p \in Requests, op'[p] = "issue"
             PROVE  now' >= lockedUntil'
  BY DEF NoIssueUnderLock
<1>c. calm
  BY DEF Next, vars
<1>t. /\ now \in Nat /\ lockedUntil \in Nat /\ LocalsOK /\ lockoutDuration \in Nat
      /\ Issuers \subseteq Requests /\ Verifiers \subseteq Requests
      /\ Disablers \subseteq Requests
      /\ \A q \in Requests : OpOK(q)
  BY ConstantsAreNumbers DEF Inv, TInv, TablesOK, Requests
<1>k. ASSUME op[p] = "issue", lockedUntil' \in {lockedUntil, Missing}, now' \in {now, now + 1}
      PROVE  now' >= lockedUntil'
  BY <1>k, <1>c, <1>t DEF NoIssueUnderLock, Missing
<1>f. ASSUME NEW q \in Requests, Finish(q) PROVE op[p] = "issue" /\ p # q
  BY <1>f, <1>t DEF Finish, LocalsOK
<1>b. ASSUME NEW q \in Requests, NEW operation, NEW label, NEW c, operation # "issue",
             Begin(q, operation, label, c)
      PROVE  op[p] = "issue"
  BY <1>b, <1>t DEF Begin, LocalsOK
<1>1. ASSUME NEW q \in Issuers, IssueBegin(q) PROVE now' >= lockedUntil'
  <2>1. UNCHANGED <<lockedUntil, now>> /\ op'[q] = "issue" /\ pc[q] = "idle"
    BY <1>1, <1>t DEF IssueBegin, Begin, LocalsOK, stored
  <2>2. op[q] = "none"
    BY <1>t, <2>1 DEF OpOK
  <2>3. LockedAsksNoCode
    BY <2>1, <2>2 DEF vars, locals
  <2> QED
    BY <1>1, <2>1, <2>3 DEF LockedAsksNoCode
<1>2. ASSUME NEW q \in Issuers, IssueSetHash(q) \/ IssueSetExpires(q) \/ IssueMail(q)
      PROVE  now' >= lockedUntil'
  BY <1>2, <1>t, <1>k, <1>f DEF IssueSetHash, IssueSetExpires, IssueMail, Goto, stored
<1>3. ASSUME NEW q \in Verifiers, Verify(q), ~VerifySetLocked(q)
      PROVE  now' >= lockedUntil'
  <2>1. UNCHANGED <<lockedUntil, now>>
    BY <1>3 DEF Verify, VerifyBegin, VerifyReadLock, VerifyReadExpires, VerifyReadHash,
                VerifyReadAttempts, VerifySetAttempts, ConfirmSetEnabled, stored
  <2>2. ASSUME NEW operation \in {"confirm", "login"}, NEW c, VerifyBegin(q, operation, c)
        PROVE  op[p] = "issue"
    BY <1>b, <1>t, <2>2 DEF VerifyBegin
  <2>3. op[p] = "issue"
    BY <1>3, <1>f, <1>t, <2>2
       DEF Verify, VerifyReadLock, VerifyReadExpires, VerifyReadHash, VerifyReadAttempts,
           VerifySetAttempts, ConfirmSetEnabled, Goto
  <2> QED
    BY <1>k, <2>1, <2>3
<1>4. ASSUME NEW q \in Verifiers, VerifySetLocked(q) PROVE now' >= lockedUntil'
  <2>1. q \in Requests /\ pc[q] = "setLocked" /\ Finish(q)
    BY <1>4, <1>t DEF VerifySetLocked
  <2>2. op[p] = "issue" /\ p # q
    BY <1>f, <2>1
  <2>3. pc[p] # "idle" /\ pc[q] # "idle"
    BY <1>t, <2>1, <2>2 DEF OpOK
  <2> QED
    BY <1>c, <2>1, <2>2, <2>3 DEF Inv, TInv, OneAtATime
<1>5. ASSUME NEW q \in Disablers, DisableBegin(q) PROVE now' >= lockedUntil'
  BY <1>5, <1>b, <1>k, <1>t DEF DisableBegin, stored
<1>6. ASSUME NEW q \in Requests, Clear(q) PROVE now' >= lockedUntil'
  <2>1. lockedUntil' \in {lockedUntil, Missing} /\ now' = now
    BY <1>6 DEF Clear, ClearEnabled, ClearHash, ClearExpires, ClearAttempts, ClearLocked
  <2>2. op[p] = "issue"
    BY <1>6, <1>f
       DEF Clear, ClearEnabled, ClearHash, ClearExpires, ClearAttempts, ClearLocked, Goto
  <2> QED
    BY <1>k, <2>1, <2>2
<1>7. ASSUME NEW q \in Requests, Fail(q) PROVE now' >= lockedUntil'
  BY <1>7, <1>c DEF Fail
<1>8. CASE Tick \/ UNCHANGED vars
  BY <1>8, <1>k DEF Tick, vars, stored, locals
<1> QED
  BY <1>1, <1>2, <1>3, <1>4, <1>5, <1>6, <1>7, <1>8 DEF Next, Issue

(* While nobody who is locked out asks for a new code, the lock stands     *)
(* until it runs out or the factor is switched off, as documented.         *)
THEOREM LocksHoldWithoutReissue ==
  Spec /\ [][LockedAsksNoCode]_vars => LockHolds
<1>1. Init => NoIssueUnderLock
  BY DEF Init, NoIssueUnderLock, Missing
<1>2. ASSUME Inv, NoIssueUnderLock,
             [calm /\ now < lockedUntil /\ lockedUntil' # lockedUntil =>
                \E q \in Requests : op[q] \in {"issue", "disable"} /\ ClearLocked(q)]_vars
      PROVE  [calm /\ now < lockedUntil /\ lockedUntil' # lockedUntil =>
                \E q \in Disablers : op[q] = "disable" /\ ClearLocked(q)]_vars
  <2> SUFFICES ASSUME ~UNCHANGED vars, calm, now < lockedUntil, lockedUntil' # lockedUntil
               PROVE  \E q \in Disablers : op[q] = "disable" /\ ClearLocked(q)
    OBVIOUS
  <2>1. PICK q \in Requests : op[q] \in {"issue", "disable"} /\ ClearLocked(q)
    BY <1>2
  <2>2. now \in Nat /\ lockedUntil \in Nat
    BY <1>2 DEF Inv, TInv, TablesOK
  <2>3. op[q] = "disable"
    BY <1>2, <2>1, <2>2 DEF NoIssueUnderLock
  <2>4. q \in Disablers
    BY <1>2, <2>1, <2>3 DEF Inv, TInv, OpOK
  <2> QED
    BY <2>1, <2>3, <2>4
<1>3. Inv /\ NoIssueUnderLock
        /\ [calm /\ now < lockedUntil /\ lockedUntil' # lockedUntil =>
              \E q \in Requests : op[q] \in {"issue", "disable"} /\ ClearLocked(q)]_vars
      => [calm /\ now < lockedUntil /\ lockedUntil' # lockedUntil =>
            \E q \in Disablers : op[q] = "disable" /\ ClearLocked(q)]_vars
  BY <1>2
<1>4. Spec => [][calm /\ now < lockedUntil /\ lockedUntil' # lockedUntil =>
                   \E q \in Requests : op[q] \in {"issue", "disable"} /\ ClearLocked(q)]_vars
  BY LocksHoldUntilReissue DEF LockHoldsUntilReissue
<1> QED
  BY <1>1, <1>3, <1>4, Invariance, LockStep, PTL DEF Spec, LockHolds
=============================================================================
