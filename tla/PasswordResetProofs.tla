------------------------- MODULE PasswordResetProofs -------------------------
(***************************************************************************)
(* Why the order of the statements in password_reset.go keeps old links    *)
(* dead, for any number of concurrent calls of either endpoint and any     *)
(* failures; and why a new link works when requests come one at a time,    *)
(* however many there are.                                                 *)
(*                                                                         *)
(* A hash is stored once, before its link is mailed.  So a mailed link     *)
(* whose hash has been replaced is dead for good, and the only             *)
(* ForgotPassword calls that can still touch the expiry and the flag of a  *)
(* stored link are those that were in flight together with its own: its    *)
(* rivals.  That is Fits.                                                  *)
(*                                                                         *)
(* The stored hash and expiry belong together only once the link has been  *)
(* mailed: until then the hash is already new and the expiry may be old,   *)
(* which is harmless because nobody knows the link.  That is MailedPair.   *)
(***************************************************************************)
EXTENDS PasswordReset, TLAPS

-----------------------------------------------------------------------------
(* Types, and links numbered in the order in which they are generated.     *)

Numbered(q) ==
  /\ pc[q] # "idle" => link[q] \in Links
  /\ pc[q] \in ForgotLabels => link[q] <= generated

TInv ==
  /\ TypeOK
  /\ \A l \in mailed : l <= generated
  /\ \A q \in Requests : Numbered(q)

LEMMA TInvInit == Init => TInv
<1> SUFFICES ASSUME Init PROVE TInv
  OBVIOUS
<1> USE ResetAssumption
<1>0. calm \in BOOLEAN /\ used \in BOOLEAN
  BY Zenon DEF Init
<1>1. /\ tokenHash \in Links \cup {Missing} /\ expiresAt \in Nat
      /\ now \in Nat /\ generated \in 0 .. MaxLinks
  BY DEF Init, Missing
<1>2. /\ pc \in [Requests -> Labels] /\ time \in [Requests -> Nat]
      /\ link \in [Requests -> Links \cup {Missing}]
      /\ seen \in [Requests -> SUBSET Links]
      /\ bornAt \in [Links -> Nat] /\ rivals \in [Links -> SUBSET Links]
      /\ mailed \subseteq Links /\ consumed \subseteq Links
      /\ done \subseteq Links
      /\ doneBefore \in [Requests -> SUBSET Links]
  BY DEF Init, Labels, ForgotLabels, ResetLabels
<1>3. TypeOK
  BY <1>0, <1>1, <1>2 DEF TypeOK
<1> QED
  BY <1>3 DEF Init, TInv, Numbered, ForgotLabels

LEMMA GotoStep ==
  ASSUME TInv, NEW q \in Requests, NEW label \in Labels, Goto(q, label)
  PROVE  /\ pc' \in [Requests -> Labels] /\ link' = link
         /\ time' = time /\ seen' = seen /\ doneBefore' = doneBefore
         /\ pc'[q] = label /\ \A p \in Requests \ {q} : pc'[p] = pc[p]
BY DEF TInv, TypeOK, Goto

LEMMA FinishStep ==
  ASSUME TInv, NEW q \in Requests, Finish(q)
  PROVE  /\ pc' \in [Requests -> Labels] /\ link' \in [Requests -> Links \cup {Missing}]
         /\ time' \in [Requests -> Nat] /\ seen' \in [Requests -> SUBSET Links]
         /\ doneBefore' \in [Requests -> SUBSET Links]
         /\ pc'[q] = "idle"
         /\ \A p \in Requests \ {q} : pc'[p] = pc[p] /\ link'[p] = link[p]
<1>t. TypeOK
  BY DEF TInv
<1>1. /\ pc' \in [Requests -> Labels] /\ link' \in [Requests -> Links \cup {Missing}]
      /\ pc'[q] = "idle"
  BY <1>t DEF Finish, TypeOK, Labels, ForgotLabels, ResetLabels
<1>2. time' \in [Requests -> Nat]
  BY <1>t DEF Finish, TypeOK
<1>3. seen' \in [Requests -> SUBSET Links] /\ doneBefore' \in [Requests -> SUBSET Links]
  BY <1>t DEF Finish, TypeOK
<1>4. \A p \in Requests \ {q} : pc'[p] = pc[p] /\ link'[p] = link[p]
  BY <1>t DEF Finish, TypeOK
<1> QED
  BY <1>1, <1>2, <1>3, <1>4

LEMMA PendingLinks ==
  ASSUME TInv
  PROVE  Pending \subseteq 1 .. generated /\ Pending \subseteq Links
BY DEF TInv, TypeOK, Numbered, Pending, Requests, Links, ForgotLabels

LEMMA TInvStep == TInv /\ [Next]_vars => TInv'
<1> SUFFICES ASSUME TInv, [Next]_vars PROVE TInv'
  OBVIOUS
<1> USE ResetAssumption
<1>t. TypeOK /\ \A q \in Requests : Numbered(q)
  BY DEF TInv
<1>c. calm' = calm
  BY DEF Next, vars
<1>r. Forgots \subseteq Requests /\ Resets \subseteq Requests
  BY DEF Requests
<1>1. ASSUME NEW q \in Forgots, ForgotBegin(q) PROVE TInv'
  <2>1. /\ generated + 1 \in Links /\ generated' \in 0 .. MaxLinks /\ generated' = generated + 1
        /\ now + resetTokenExpiry \in Nat /\ generated \in Nat
    BY <1>1, <1>t DEF ForgotBegin, TypeOK, Links
  <2>2. "setHash" \in Labels
    BY DEF Labels, ForgotLabels, ResetLabels
  <2>3. /\ pc' \in [Requests -> Labels] /\ link' \in [Requests -> Links \cup {Missing}]
        /\ time' \in [Requests -> Nat] /\ pc'[q] = "setHash" /\ link'[q] = generated + 1
        /\ \A p \in Requests \ {q} : pc'[p] = pc[p] /\ link'[p] = link[p]
    BY <1>1, <1>r, <1>t, <2>1, <2>2 DEF ForgotBegin, TypeOK
  <2>4. bornAt' \in [Links -> Nat]
    BY <1>1, <1>t, <2>1 DEF ForgotBegin, TypeOK
  <2>r. rivals' \in [Links -> SUBSET Links]
    <3>1. Pending \subseteq Links
      BY PendingLinks
    <3>2. \A k \in Links : rivals[k] \subseteq Links
      BY <1>t DEF TypeOK
    <3> QED
      BY <1>1, <2>1, <3>1, <3>2 DEF ForgotBegin, Rival
  <2>5. TypeOK'
    BY <1>1, <1>c, <1>t, <2>1, <2>3, <2>4, <2>r DEF ForgotBegin, TypeOK, stored
  <2>6. \A p \in Requests : Numbered(p)'
    BY <1>t, <2>1, <2>3 DEF Numbered, TypeOK, Links, Missing, ForgotLabels
  <2>7. \A l \in mailed' : l <= generated'
    BY <1>1, <1>t, <2>1 DEF ForgotBegin, TInv, TypeOK, Links
  <2> QED
    BY <2>5, <2>6, <2>7 DEF TInv
<1>2. ASSUME NEW q \in Forgots, ForgotSetHash(q) \/ ForgotSetExpires(q) \/ ForgotClearUsed(q)
      PROVE  TInv'
  <2>1. PICK label \in {"setExpires", "clearUsed", "mail"} : Goto(q, label)
    BY <1>2 DEF ForgotSetHash, ForgotSetExpires, ForgotClearUsed
  <2>2. /\ pc' \in [Requests -> Labels] /\ pc'[q] \in ForgotLabels
        /\ \A p \in Requests \ {q} : pc'[p] = pc[p]
        /\ UNCHANGED <<link, time, seen, doneBefore>>
    BY <1>r, <2>1, GotoStep DEF Labels, ResetLabels, ForgotLabels
  <2>3. /\ UNCHANGED <<now, history>> /\ pc[q] \in ForgotLabels
        /\ tokenHash' \in Links \cup {Missing} /\ expiresAt' \in Nat
    BY <1>2, <1>r, <1>t
       DEF ForgotSetHash, ForgotSetExpires, ForgotClearUsed, ForgotLabels, TypeOK
  <2>4. used' \in BOOLEAN
    <3>1. used \in BOOLEAN
      BY <1>t DEF TypeOK
    <3> QED
      BY Zenon, <1>2, <3>1 DEF ForgotSetHash, ForgotSetExpires, ForgotClearUsed
  <2>5. TypeOK'
    BY <1>c, <1>t, <2>2, <2>3, <2>4 DEF TypeOK, history
  <2>6. \A p \in Requests : Numbered(p)'
    BY <1>r, <1>t, <2>2, <2>3 DEF Numbered, ForgotLabels, history
  <2> QED
    BY <2>3, <2>5, <2>6 DEF TInv, history
<1>3. ASSUME NEW q \in Forgots, ForgotMail(q) PROVE TInv'
  <2>1. link[q] \in Links /\ link[q] <= generated
    BY <1>3, <1>r, <1>t DEF ForgotMail, Numbered, ForgotLabels
  <2> QED
    BY <1>3, <1>c, <1>r, <1>t, <2>1, FinishStep
       DEF ForgotMail, TInv, TypeOK, Numbered, stored, ForgotLabels
<1>4. ASSUME NEW q \in Resets, NEW l \in mailed, ResetBegin(q, l) PROVE TInv'
  <2>1. /\ "readUsed" \in Labels \ ({"idle"} \cup ForgotLabels)
        /\ l \in Links /\ mailed \in SUBSET Links
    BY <1>t DEF Labels, ResetLabels, ForgotLabels, TypeOK
  <2>2. /\ pc' \in [Requests -> Labels] /\ link' \in [Requests -> Links \cup {Missing}]
        /\ seen' \in [Requests -> SUBSET Links] /\ pc'[q] = "readUsed" /\ link'[q] = l
        /\ \A p \in Requests \ {q} : pc'[p] = pc[p] /\ link'[p] = link[p]
    BY <1>4, <1>r, <1>t, <2>1 DEF ResetBegin, TypeOK
  <2>3. TypeOK'
    BY <1>4, <1>c, <1>t, <2>2 DEF ResetBegin, TypeOK, stored, history
  <2>4. \A p \in Requests : Numbered(p)'
    BY <1>4, <1>t, <2>1, <2>2 DEF ResetBegin, Numbered, history
  <2> QED
    BY <1>4, <2>3, <2>4 DEF ResetBegin, TInv, history
<1>5. ASSUME NEW q \in Resets,
             ResetReadUsed(q) \/ ResetReadExpires(q) \/ ResetReadHash(q) \/ ResetUpdatePassword(q)
      PROVE  TInv'
  <2>1. /\ UNCHANGED <<stored, now, generated, bornAt, rivals, mailed, done>>
        /\ pc[q] \in {"readUsed", "readExpires", "readHash", "update"}
        /\ consumed' = consumed \/ consumed' = consumed \cup {link[q]}
    BY <1>5 DEF ResetReadUsed, ResetReadExpires, ResetReadHash, ResetUpdatePassword, history
  <2>2. link[q] \in Links /\ pc[q] \notin ForgotLabels
    BY <1>r, <1>t, <2>1 DEF Numbered, ForgotLabels
  <2>3. consumed' \subseteq Links
    BY <1>t, <2>1, <2>2 DEF TypeOK
  <2>4. CASE Finish(q)
    BY <1>c, <1>r, <1>t, <2>1, <2>3, <2>4, FinishStep
       DEF TInv, TypeOK, Numbered, stored, ForgotLabels
  <2>5. CASE ~Finish(q)
    <3> DEFINE label == pc'[q]
    <3>1. /\ pc' \in [Requests -> Labels]
          /\ pc'[q] \in {"readExpires", "readHash", "update", "markUsed"}
          /\ \A p \in Requests \ {q} : pc'[p] = pc[p]
          /\ link' = link /\ seen' = seen
      BY <1>5, <1>r, <1>t, <2>5
         DEF ResetReadUsed, ResetReadExpires, ResetReadHash, ResetUpdatePassword, Goto, TypeOK,
             Labels, ForgotLabels, ResetLabels
    <3>2. time' \in [Requests -> Nat]
      BY <1>5, <1>r, <1>t, <2>5
         DEF ResetReadUsed, ResetReadExpires, ResetReadHash, ResetUpdatePassword, Goto, TypeOK
    <3>3. doneBefore' \in [Requests -> SUBSET Links]
      BY <1>5, <1>r, <1>t, <2>5
         DEF ResetReadUsed, ResetReadExpires, ResetReadHash, ResetUpdatePassword, Goto, TypeOK
    <3>4. TypeOK'
      BY <1>c, <1>t, <2>1, <2>3, <3>1, <3>2, <3>3 DEF TypeOK, stored
    <3>5. \A p \in Requests : Numbered(p)'
      BY <1>t, <2>1, <2>2, <3>1 DEF Numbered, ForgotLabels
    <3> QED
      BY <2>1, <3>4, <3>5 DEF TInv
  <2> QED
    BY <2>4, <2>5
<1>6. ASSUME NEW q \in Resets, ResetMarkUsed(q) PROVE TInv'
  <2>1. link[q] \in Links
    BY <1>6, <1>r, <1>t DEF ResetMarkUsed, Numbered
  <2>2. Finish(q) /\ done' \subseteq Links /\ used' \in BOOLEAN
    BY <1>6, <1>t, <2>1 DEF ResetMarkUsed, Complete, TypeOK
  <2> QED
    BY <1>6, <1>c, <1>r, <1>t, <2>2, FinishStep
       DEF ResetMarkUsed, TInv, TypeOK, Numbered, ForgotLabels
<1>7. ASSUME NEW q \in Requests, Fail(q) PROVE TInv'
  BY <1>7, <1>c, <1>t, FinishStep DEF Fail, TInv, TypeOK, Numbered, stored, history, ForgotLabels
<1>8. CASE Tick \/ UNCHANGED vars
  BY <1>8, <1>c, <1>t DEF Tick, vars, TInv, TypeOK, Numbered, stored, locals, history
<1> QED
  BY <1>1, <1>2, <1>3, <1>4, <1>5, <1>6, <1>7, <1>8 DEF Next, Forgot, Reset

-----------------------------------------------------------------------------
(* Calm times: one request after another, and none fails.                  *)

CalmOK(q) ==
  /\ \A p \in Requests : pc[p] # "idle" /\ pc[q] # "idle" => p = q
  /\ pc[q] \in ForgotLabels => link[q] \notin mailed
  /\ pc[q] \in {"setExpires", "clearUsed", "mail", "update", "markUsed"} => tokenHash = link[q]
  /\ pc[q] = "mail" => ~used
  /\ pc[q] = "markUsed" => link[q] \in consumed

CalmInv == calm => RefusedOnlyIfUsed /\ \A q \in Requests : CalmOK(q)

LEMMA CalmInvInit == Init => CalmInv
BY DEF Init, CalmInv, CalmOK, RefusedOnlyIfUsed, ForgotLabels

LEMMA CalmInvStep == TInv /\ CalmInv /\ [Next]_vars => CalmInv'
<1> SUFFICES ASSUME TInv, CalmInv, [Next]_vars, calm
             PROVE  RefusedOnlyIfUsed' /\ \A q \in Requests : CalmOK(q)'
  BY DEF CalmInv, Next, vars
<1>t. TypeOK
  BY DEF TInv
<1>r. Forgots \subseteq Requests /\ Resets \subseteq Requests
  BY DEF Requests
<1>i. /\ used /\ tokenHash \in mailed => tokenHash \in consumed
      /\ \A q \in Requests : CalmOK(q)
  BY DEF CalmInv, RefusedOnlyIfUsed
<1>1. ASSUME NEW q \in Requests, MayBegin(q), pc' \in [Requests -> Labels],
             pc'[q] \in {"setHash", "readUsed"},
             \A p \in Requests \ {q} : pc'[p] = pc[p],
             pc'[q] = "setHash" => link'[q] \notin mailed,
             UNCHANGED <<stored, mailed, consumed>>
      PROVE  RefusedOnlyIfUsed' /\ \A p \in Requests : CalmOK(p)'
  BY <1>1, <1>i DEF MayBegin, RefusedOnlyIfUsed, CalmOK, ForgotLabels, stored
<1>2. ASSUME NEW q \in Requests, Finish(q), pc[q] # "idle",
             UNCHANGED <<tokenHash, consumed>>,
             \/ UNCHANGED <<used, mailed>>
             \/ pc[q] = "mail" /\ UNCHANGED used
             \/ pc[q] = "markUsed" /\ UNCHANGED mailed
      PROVE  RefusedOnlyIfUsed' /\ \A p \in Requests : CalmOK(p)'
  BY <1>2, <1>i, FinishStep DEF RefusedOnlyIfUsed, CalmOK, ForgotLabels
<1>3. ASSUME NEW q \in Forgots, ForgotBegin(q)
      PROVE  RefusedOnlyIfUsed' /\ \A p \in Requests : CalmOK(p)'
  <2>1. "setHash" \in Labels /\ generated + 1 \notin mailed
    BY <1>3, <1>t DEF TInv, TypeOK, Labels, ForgotLabels, ResetLabels, Links
  <2>2. /\ pc' \in [Requests -> Labels] /\ pc'[q] = "setHash" /\ link'[q] = generated + 1
        /\ \A p \in Requests \ {q} : pc'[p] = pc[p]
    BY <1>3, <1>r, <1>t, <2>1 DEF ForgotBegin, TypeOK
  <2> QED
    BY <1>3, <1>r, <1>1, <2>1, <2>2 DEF ForgotBegin
<1>4. ASSUME NEW q \in Forgots, ForgotSetHash(q)
      PROVE  RefusedOnlyIfUsed' /\ \A p \in Requests : CalmOK(p)'
  BY <1>4, <1>i, <1>r, GotoStep
     DEF ForgotSetHash, RefusedOnlyIfUsed, CalmOK, ForgotLabels, Labels, ResetLabels, history
<1>5. ASSUME NEW q \in Forgots, ForgotSetExpires(q)
      PROVE  RefusedOnlyIfUsed' /\ \A p \in Requests : CalmOK(p)'
  BY <1>5, <1>i, <1>r, GotoStep
     DEF ForgotSetExpires, RefusedOnlyIfUsed, CalmOK, ForgotLabels, Labels, ResetLabels, history
<1>6. ASSUME NEW q \in Forgots, ForgotClearUsed(q)
      PROVE  RefusedOnlyIfUsed' /\ \A p \in Requests : CalmOK(p)'
  BY <1>6, <1>i, <1>r, GotoStep
     DEF ForgotClearUsed, RefusedOnlyIfUsed, CalmOK, ForgotLabels, Labels, ResetLabels, history
<1>7. ASSUME NEW q \in Forgots, ForgotMail(q)
      PROVE  RefusedOnlyIfUsed' /\ \A p \in Requests : CalmOK(p)'
  BY <1>7, <1>2, <1>r DEF ForgotMail, stored
<1>8. ASSUME NEW q \in Resets, NEW l \in mailed, ResetBegin(q, l)
      PROVE  RefusedOnlyIfUsed' /\ \A p \in Requests : CalmOK(p)'
  <2>1. "readUsed" \in Labels
    BY DEF Labels, ForgotLabels, ResetLabels
  <2>2. /\ pc' \in [Requests -> Labels] /\ pc'[q] = "readUsed"
        /\ \A p \in Requests \ {q} : pc'[p] = pc[p]
    BY <1>8, <1>r, <1>t, <2>1 DEF ResetBegin, TypeOK
  <2> QED
    BY <1>8, <1>r, <1>1, <2>2 DEF ResetBegin, history
<1>9. ASSUME NEW q \in Resets, ResetReadUsed(q) \/ ResetReadExpires(q) \/ ResetReadHash(q)
      PROVE  RefusedOnlyIfUsed' /\ \A p \in Requests : CalmOK(p)'
  <2>1. /\ UNCHANGED <<stored, now, history>>
        /\ pc[q] \in {"readUsed", "readExpires", "readHash"}
    BY <1>9 DEF ResetReadUsed, ResetReadExpires, ResetReadHash
  <2>2. CASE Finish(q)
    BY <1>2, <1>r, <2>1, <2>2 DEF stored, history
  <2>3. CASE ~Finish(q)
    <3>1. /\ pc'[q] \in {"readExpires", "readHash", "update"}
          /\ pc'[q] = "update" => tokenHash = link[q]
          /\ \A p \in Requests \ {q} : pc'[p] = pc[p]
          /\ link' = link
      BY <1>9, <1>r, <1>t, <2>3
         DEF ResetReadUsed, ResetReadExpires, ResetReadHash, Goto, TypeOK
    <3> QED
      BY <1>i, <1>r, <2>1, <3>1 DEF RefusedOnlyIfUsed, CalmOK, ForgotLabels, stored, history
  <2> QED
    BY <2>2, <2>3
<1>10. ASSUME NEW q \in Resets, ResetUpdatePassword(q)
       PROVE  RefusedOnlyIfUsed' /\ \A p \in Requests : CalmOK(p)'
  BY <1>10, <1>i, <1>r, GotoStep
     DEF ResetUpdatePassword, RefusedOnlyIfUsed, CalmOK, ForgotLabels, Labels, ResetLabels, stored
<1>11. ASSUME NEW q \in Resets, ResetMarkUsed(q)
       PROVE  RefusedOnlyIfUsed' /\ \A p \in Requests : CalmOK(p)'
  BY <1>11, <1>2, <1>r DEF ResetMarkUsed
<1>12. CASE Tick \/ UNCHANGED vars
  <2>1. UNCHANGED <<stored, locals, history>>
    BY <1>12 DEF Tick, vars
  <2> QED
    BY <1>i, <2>1 DEF RefusedOnlyIfUsed, CalmOK, stored, locals, history
<1>13. \A q \in Requests : ~Fail(q)
  BY DEF Fail
<1>14. ASSUME NEW q \in Forgots, Forgot(q)
       PROVE  RefusedOnlyIfUsed' /\ \A p \in Requests : CalmOK(p)'
  BY <1>14, <1>3, <1>4, <1>5, <1>6, <1>7 DEF Forgot
<1>15. ASSUME NEW q \in Resets, Reset(q)
       PROVE  RefusedOnlyIfUsed' /\ \A p \in Requests : CalmOK(p)'
  BY <1>15, <1>8, <1>9, <1>10, <1>11 DEF Reset
<1> QED
  BY <1>12, <1>13, <1>14, <1>15 DEF Next

LEMMA CalmInvariance == Spec => [](TInv /\ CalmInv)
<1>1. TInv /\ CalmInv /\ [Next]_vars => (TInv /\ CalmInv)'
  BY TInvStep, CalmInvStep
<1> QED
  BY <1>1, TInvInit, CalmInvInit, PTL DEF Spec

-----------------------------------------------------------------------------
(* Theorems about any number of calls of either endpoint.                  *)

(* Every variable keeps its type, however requests overlap and fail.       *)
THEOREM TypeCorrect == Spec => []TypeOK
  BY CalmInvariance, PTL DEF TInv

(* While requests come one at a time and none fails, the answer "already   *)
(* used" is given only for a link that has set a password: ForgotPassword  *)
(* drops the flag before the new link is mailed.                           *)
THEOREM UsedIsAnsweredForUsedLinks == Spec => []RefusedOnlyIfUsed
<1>1. CalmInv => RefusedOnlyIfUsed
  BY DEF CalmInv, RefusedOnlyIfUsed
<1> QED
  BY <1>1, CalmInvariance, PTL

-----------------------------------------------------------------------------
(* Overlapping requests.                                                   *)

Expiry(l) == bornAt[l] + resetTokenExpiry

LEMMA ExpiryIsNat == ASSUME TypeOK, NEW l \in Links PROVE Expiry(l) \in Nat
BY ResetAssumption DEF TypeOK, Expiry

(* Not later than the hour of link l, or of one of its rivals.             *)
OwnHour(l, t) == \E k \in Siblings(l) : t <= Expiry(k)

(* Link l is not newer than the stored one, or a rival of it.              *)
Fits(l) == tokenHash \in Links /\ (l <= tokenHash \/ l \in rivals[tokenHash])

MailedPair == tokenHash \in mailed => OwnHour(tokenHash, expiresAt)

(* Two pending ForgotPassword calls issue different links.                 *)
Distinct ==
  \A p, q \in Requests :
    pc[p] \in ForgotLabels /\ pc[q] \in ForgotLabels /\ link[p] = link[q] => p = q

(* Every link generated since is a rival of a pending one.                 *)
ForgotOK(q) ==
  pc[q] \in ForgotLabels =>
    /\ q \in Forgots
    /\ link[q] \notin mailed
    /\ time[q] = Expiry(link[q])
    /\ \A l \in 1 .. generated :
         l > link[q] => l \in rivals[link[q]] /\ link[q] \in rivals[l]
    /\ pc[q] # "setHash" => Fits(link[q])
    /\ pc[q] \in {"clearUsed", "mail"} /\ tokenHash = link[q] => OwnHour(link[q], expiresAt)

ResetOK(q) ==
  pc[q] \in ResetLabels =>
    /\ link[q] \in mailed
    /\ seen[q] \subseteq mailed
    /\ pc[q] = "readHash" /\ tokenHash = link[q] => OwnHour(link[q], time[q])
    /\ pc[q] = "update" => /\ OwnHour(link[q], time[q])
                           /\ \A l \in seen[q] : l <= link[q] \/ l \in rivals[link[q]]

RInv ==
  /\ tokenHash <= generated
  /\ \A l \in Links : rivals[l] \subseteq 1 .. generated
  /\ MailedPair
  /\ Distinct
  /\ \A l \in mailed : Fits(l)
  /\ \A q \in Requests : ForgotOK(q) /\ ResetOK(q)

LEMMA RInvInit == Init => RInv
BY DEF Init, RInv, MailedPair, Distinct, ForgotOK, ResetOK, ForgotLabels, ResetLabels, Missing

(* A step of q that changes nobody else's locals.                          *)
OnlyLocals(q) ==
  \A p \in Requests \ {q} :
    /\ pc'[p] = pc[p] /\ link'[p] = link[p] /\ time'[p] = time[p] /\ seen'[p] = seen[p]

LEMMA StepIsLocal ==
  ASSUME TypeOK, NEW q \in Requests,
         NEW label, NEW l, NEW t, NEW s,
         /\ pc' = [pc EXCEPT ![q] = label]
         /\ link' = link \/ link' = [link EXCEPT ![q] = l]
         /\ time' = time \/ time' = [time EXCEPT ![q] = t]
         /\ seen' = seen \/ seen' = [seen EXCEPT ![q] = s]
  PROVE  OnlyLocals(q) /\ pc'[q] = label
BY DEF TypeOK, OnlyLocals

(* A step that writes neither hash nor expiry and mails nothing need only  *)
(* keep its own request in order.                                          *)
LEMMA QuietStep ==
  ASSUME RInv, NEW q \in Requests, OnlyLocals(q),
         UNCHANGED <<tokenHash, expiresAt, generated, bornAt, rivals, mailed>>,
         pc'[q] \in ForgotLabels => pc[q] \in ForgotLabels /\ link'[q] = link[q],
         (ForgotOK(q) /\ ResetOK(q))'
  PROVE  RInv'
<1>1. \A p \in Requests : (ForgotOK(p) /\ ResetOK(p))'
  BY DEF RInv, OnlyLocals, ForgotOK, ResetOK, OwnHour, Fits, Siblings, Expiry
<1>2. Distinct'
  BY DEF RInv, OnlyLocals, Distinct
<1>3. (MailedPair /\ \A l \in mailed : Fits(l))'
  BY DEF RInv, MailedPair, OwnHour, Fits, Siblings, Expiry
<1> QED
  BY <1>1, <1>2, <1>3 DEF RInv

LEMMA RInvBegin ==
  ASSUME TInv, RInv, NEW q \in Forgots, ForgotBegin(q)
  PROVE  RInv'
<1> DEFINE n == generated + 1
<1>q. q \in Requests
  BY DEF Requests
<1>1. /\ generated \in Nat /\ n \in Links /\ generated' = n /\ 1 .. generated \subseteq Links
      /\ Links \subseteq Nat /\ mailed \subseteq 1 .. generated /\ tokenHash \in Nat
  BY ResetAssumption DEF ForgotBegin, TInv, TypeOK, Links, Missing
<1>2. /\ UNCHANGED <<tokenHash, expiresAt, mailed>>
      /\ OnlyLocals(q) /\ pc'[q] = "setHash" /\ link'[q] = n
      /\ time'[q] = now + resetTokenExpiry /\ pc[q] = "idle"
  BY <1>q, StepIsLocal DEF ForgotBegin, MayBegin, TInv, TypeOK, stored
<1>3. bornAt'[n] = now /\ \A l \in 1 .. generated : bornAt'[l] = bornAt[l]
  BY <1>1 DEF ForgotBegin, TInv, TypeOK
<1>4. /\ rivals'[n] = Pending
      /\ \A l \in Pending : rivals'[l] = rivals[l] \cup {n}
      /\ \A l \in Links \ {n} : rivals'[l] = rivals[l] \/ l \in Pending
      /\ Pending \subseteq 1 .. generated
  BY <1>1, PendingLinks DEF ForgotBegin, Rival
<1>5. \A l \in 1 .. generated : rivals[l] \subseteq rivals'[l] /\ rivals'[l] \subseteq 1 .. n
  BY <1>1, <1>4 DEF RInv
<1>6. ASSUME NEW l \in 1 .. generated, NEW t, OwnHour(l, t) PROVE OwnHour(l, t)'
  BY <1>1, <1>3, <1>5, <1>6 DEF RInv, OwnHour, Siblings, Expiry
<1>7. ASSUME NEW l, Fits(l) PROVE Fits(l)'
  <2>1. tokenHash \in 1 .. generated /\ (l <= tokenHash \/ l \in rivals[tokenHash])
    BY <1>1, <1>7 DEF RInv, Fits, Links
  <2>2. rivals[tokenHash] \subseteq rivals'[tokenHash] /\ tokenHash \in Links
    BY <1>1, <1>5, <2>1
  <2> QED
    BY <1>2, <2>1, <2>2 DEF Fits
<1>8. ASSUME NEW p \in Requests, p # q PROVE (ForgotOK(p) /\ ResetOK(p))'
  <2>1. pc'[p] = pc[p] /\ link'[p] = link[p] /\ time'[p] = time[p] /\ seen'[p] = seen[p]
    BY <1>2, <1>8 DEF OnlyLocals
  <2>2. ForgotOK(p) /\ ResetOK(p) /\ Numbered(p)
    BY <1>8 DEF RInv, TInv
  <2>3. ASSUME pc[p] \in ForgotLabels PROVE ForgotOK(p)'
    <3>1. link[p] \in Pending /\ link[p] \in 1 .. generated
      BY <1>4, <2>2, <2>3 DEF ForgotOK, Pending
    <3>2. \A l \in 1 .. n : l > link[p] => l \in rivals'[link[p]] /\ link[p] \in rivals'[l]
      <4>1. ASSUME NEW l \in 1 .. n, l > link[p], l # n
            PROVE  l \in rivals'[link[p]] /\ link[p] \in rivals'[l]
        BY <1>1, <1>5, <2>2, <2>3, <3>1, <4>1 DEF ForgotOK
      <4> QED
        BY <1>4, <3>1, <4>1
    <3>3. Expiry(link[p])' = Expiry(link[p])
      BY <1>3, <2>1, <3>1 DEF Expiry
    <3>4. pc[p] # "setHash" => Fits(link[p])'
      BY <1>7, <2>1, <2>2, <2>3 DEF ForgotOK, Fits
    <3>5. pc[p] \in {"clearUsed", "mail"} /\ tokenHash = link[p] => OwnHour(link[p], expiresAt)'
      BY <1>2, <1>6, <2>1, <2>2, <2>3, <3>1 DEF ForgotOK, OwnHour, Siblings, Expiry
    <3> QED
      BY <1>1, <1>2, <2>1, <2>2, <2>3, <3>2, <3>3, <3>4, <3>5 DEF ForgotOK
  <2>4. ASSUME pc[p] \in ResetLabels PROVE ResetOK(p)'
    <3>1. link[p] \in 1 .. generated
      BY <1>1, <2>2, <2>4 DEF ResetOK
    <3>2. OwnHour(link[p], time[p]) => OwnHour(link[p], time[p])'
      BY <1>6, <2>1, <3>1 DEF OwnHour, Siblings, Expiry
    <3> QED
      BY <1>2, <1>5, <2>1, <2>2, <2>4, <3>1, <3>2 DEF ResetOK
  <2> QED
    BY <2>1, <2>3, <2>4 DEF ForgotOK, ResetOK
<1>9. (ForgotOK(q) /\ ResetOK(q))'
  BY <1>1, <1>2, <1>3 DEF ForgotOK, ResetOK, ResetLabels, Expiry
<1>10. Distinct'
  BY <1>1, <1>2 DEF RInv, TInv, Numbered, OnlyLocals, Distinct
<1>11. MailedPair'
  BY <1>1, <1>2, <1>6 DEF RInv, MailedPair, OwnHour, Siblings, Expiry
<1>12. ASSUME NEW l \in Links PROVE rivals'[l] \subseteq 1 .. n
  <2>1. rivals[l] \subseteq 1 .. n
    <3>1. 1 .. generated \subseteq 1 .. n
      BY <1>1
    <3> QED
      BY <3>1 DEF RInv
  <2>2. n \in 1 .. n /\ Pending \subseteq 1 .. n
    BY <1>1, <1>4
  <2> QED
    BY <1>4, <2>1, <2>2
<1>13. \A l \in mailed' : Fits(l)'
  BY <1>2, <1>7 DEF RInv, Fits
<1> QED
  BY <1>1, <1>2, <1>8, <1>9, <1>10, <1>11, <1>12, <1>13 DEF RInv

(* The new hash belongs to a link nobody knows; whatever is newer is a     *)
(* rival of it.                                                            *)
LEMMA RInvSetHash ==
  ASSUME TInv, RInv, NEW q \in Forgots, ForgotSetHash(q)
  PROVE  RInv'
<1>q. q \in Requests /\ pc[q] \in ForgotLabels /\ "setExpires" \in Labels
  BY DEF Requests, ForgotSetHash, Labels, ForgotLabels
<1>1. /\ UNCHANGED <<expiresAt, generated, bornAt, rivals, mailed>> /\ tokenHash' = link[q]
      /\ UNCHANGED <<link, time, seen>> /\ pc'[q] = "setExpires"
      /\ \A p \in Requests \ {q} : pc'[p] = pc[p]
  BY <1>q, GotoStep DEF ForgotSetHash, history
<1>2. /\ link[q] \in Links \ mailed /\ link[q] <= generated /\ link[q] \in Nat
      /\ mailed \subseteq 1 .. generated /\ generated \in Nat
      /\ \A l \in 1 .. generated : l > link[q] => l \in rivals[link[q]]
      /\ time[q] = Expiry(link[q]) /\ ForgotOK(q)
  <2>1. ForgotOK(q) /\ Numbered(q)
    BY <1>q DEF RInv, TInv
  <2>2. generated \in Nat /\ Links \subseteq Nat /\ mailed \subseteq Links
    BY ResetAssumption DEF TInv, TypeOK, Links
  <2>3. mailed \subseteq 1 .. generated
    BY <2>2 DEF TInv, Links
  <2>4. pc[q] # "idle"
    BY <1>q DEF ForgotLabels
  <2> QED
    BY <1>q, <2>1, <2>2, <2>3, <2>4 DEF Numbered, ForgotOK
<1>3. ASSUME NEW l \in 1 .. generated PROVE Fits(l)'
  <2>1. l <= link[q] \/ l \in rivals[link[q]]
    <3>0. link[q] \in Nat
      BY <1>2
    <3>1. l \in Nat /\ link[q] \in Nat
      BY <1>3, <3>0
    <3> QED
      BY <1>2, <3>1
  <2> QED
    BY <1>1, <1>2, <2>1 DEF Fits
<1>4. \A p \in Requests : pc[p] \in ForgotLabels => link[p] \in 1 .. generated
  BY <1>2 DEF TInv, Numbered, Links, ForgotLabels
<1>5. ASSUME NEW p \in Requests PROVE ForgotOK(p)'
  <2>1. CASE p = q
    BY <1>q, <1>1, <1>2, <1>3, <1>4, <2>1 DEF ForgotOK, Expiry
  <2>2. CASE p # q
    <3>1. pc[p] \in ForgotLabels => link[p] # tokenHash'
      BY <1>q, <1>1, <2>2 DEF RInv, Distinct
    <3>2. ForgotOK(p) /\ pc'[p] = pc[p]
      BY <1>1, <2>2 DEF RInv
    <3> QED
      BY <1>1, <1>3, <1>4, <3>1, <3>2 DEF ForgotOK, Expiry
  <2> QED
    BY <2>1, <2>2
<1>6. ASSUME NEW p \in Requests PROVE ResetOK(p)'
  <2>1. pc'[p] \in ResetLabels => pc'[p] = pc[p] /\ p # q
    BY <1>1 DEF ResetLabels
  <2> QED
    BY <1>1, <1>2, <2>1 DEF RInv, ResetOK, OwnHour, Siblings, Expiry
<1>7. Distinct'
  BY <1>q, <1>1 DEF RInv, Distinct
<1> QED
  BY <1>1, <1>2, <1>3, <1>5, <1>6, <1>7 DEF RInv, MailedPair

(* The expiry is that of the stored link or of a rival.                    *)
LEMMA RInvSetExpires ==
  ASSUME TInv, RInv, NEW q \in Forgots, ForgotSetExpires(q)
  PROVE  RInv'
<1>q. /\ q \in Requests /\ pc[q] \in ForgotLabels /\ pc[q] = "setExpires"
      /\ "clearUsed" \in Labels \cap ForgotLabels
  BY DEF Requests, ForgotSetExpires, Labels, ForgotLabels
<1>1. /\ UNCHANGED <<tokenHash, generated, bornAt, rivals, mailed>> /\ expiresAt' = time[q]
      /\ UNCHANGED <<link, time, seen>> /\ pc'[q] = "clearUsed"
      /\ \A p \in Requests \ {q} : pc'[p] = pc[p]
  BY <1>q, GotoStep DEF ForgotSetExpires, history
<1>2. OwnHour(tokenHash, expiresAt)'
  <2>1. /\ Fits(link[q]) /\ time[q] = Expiry(link[q]) /\ tokenHash \in 1 .. generated
        /\ link[q] \in Links
        /\ \A l \in 1 .. generated : l > link[q] => link[q] \in rivals[l]
    <3>1. ForgotOK(q) /\ Numbered(q) /\ tokenHash <= generated
      BY <1>q DEF RInv, TInv
    <3> QED
      BY <1>q, <3>1 DEF ForgotOK, Fits, Numbered, Links
  <2>2. link[q] \in Siblings(tokenHash)
    BY <2>1 DEF Fits, Siblings, Links
  <2>3. Expiry(link[q]) <= Expiry(link[q])
    BY <2>1, ExpiryIsNat DEF TInv
  <2>4. OwnHour(tokenHash, time[q])
    BY <2>1, <2>2, <2>3 DEF OwnHour
  <2> QED
    BY <1>1, <2>4 DEF OwnHour, Siblings, Expiry
<1>3. ASSUME NEW p \in Requests PROVE (ForgotOK(p) /\ ResetOK(p))'
  <2>1. ForgotOK(p) /\ ResetOK(p) /\ (p # q => pc'[p] = pc[p])
    BY <1>1 DEF RInv
  <2>2. ForgotOK(p)'
    BY <1>q, <1>1, <1>2, <2>1 DEF ForgotOK, Fits, Expiry
  <2>3. ResetOK(p)'
    BY <1>q, <1>1, <2>1 DEF ResetOK, ForgotLabels, ResetLabels, OwnHour, Siblings, Expiry
  <2> QED
    BY <2>2, <2>3
<1>4. Distinct'
  BY <1>q, <1>1 DEF RInv, Distinct
<1> QED
  BY <1>1, <1>2, <1>3, <1>4 DEF RInv, MailedPair, Fits

LEMMA RInvMail ==
  ASSUME TInv, RInv, NEW q \in Forgots, ForgotMail(q)
  PROVE  RInv'
<1>q. q \in Requests /\ pc[q] \in ForgotLabels /\ pc[q] = "mail" /\ ForgotOK(q)
  BY DEF Requests, ForgotMail, ForgotLabels, RInv
<1>1. /\ UNCHANGED <<tokenHash, expiresAt, generated, bornAt, rivals>>
      /\ mailed' = mailed \cup {link[q]} /\ OnlyLocals(q) /\ pc'[q] = "idle"
  BY <1>q, StepIsLocal DEF ForgotMail, Finish, stored, TInv
<1>2. Fits(link[q]) /\ (tokenHash = link[q] => OwnHour(link[q], expiresAt))
  BY <1>q DEF ForgotOK
<1>3. ASSUME NEW p \in Requests PROVE (ForgotOK(p) /\ ResetOK(p))'
  <2>1. CASE p = q
    BY <1>1, <2>1 DEF ForgotOK, ResetOK, ForgotLabels, ResetLabels
  <2>2. CASE p # q
    <3>1. pc[p] \in ForgotLabels => link[p] # link[q]
      BY <1>q, <2>2 DEF RInv, Distinct
    <3> QED
      BY <1>1, <2>2, <3>1
         DEF RInv, OnlyLocals, ForgotOK, ResetOK, Fits, OwnHour, Siblings, Expiry
  <2> QED
    BY <2>1, <2>2
<1>4. Distinct'
  BY <1>1 DEF RInv, OnlyLocals, Distinct, ForgotLabels
<1>5. (MailedPair /\ \A l \in mailed : Fits(l))'
  BY <1>1, <1>2 DEF RInv, MailedPair, OwnHour, Fits, Siblings, Expiry
<1> QED
  BY <1>1, <1>3, <1>4, <1>5 DEF RInv

(* A mailed link's pair has its own hour, and is stored with no newer link *)
(* but a rival mailed.                                                     *)
LEMMA RInvReset ==
  ASSUME TInv, RInv, NEW q \in Resets, Reset(q)
  PROVE  RInv'
<1>q. q \in Requests /\ ForgotOK(q) /\ ResetOK(q)
  BY DEF Requests, RInv
<1>1. UNCHANGED <<tokenHash, expiresAt, generated, bornAt, rivals, mailed>>
  BY DEF Reset, ResetBegin, ResetReadUsed, ResetReadExpires, ResetReadHash,
         ResetUpdatePassword, ResetMarkUsed, stored, history
<1>2. ASSUME OnlyLocals(q), pc'[q] \in ResetLabels \cup {"idle"}, ResetOK(q)' PROVE RInv'
  <2>1. pc'[q] \notin ForgotLabels
    BY <1>2 DEF ForgotLabels, ResetLabels
  <2> QED
    BY <1>q, <1>1, <1>2, <2>1, QuietStep DEF ForgotOK
<1>3. ASSUME Finish(q) PROVE RInv'
  <2>1. OnlyLocals(q) /\ pc'[q] = "idle"
    BY <1>q, <1>3, StepIsLocal DEF Finish, TInv
  <2> QED
    BY <1>2, <2>1 DEF ResetOK, ResetLabels
<1>4. ASSUME NEW l \in mailed, ResetBegin(q, l) PROVE RInv'
  <2>1. /\ OnlyLocals(q) /\ pc'[q] = "readUsed" /\ link'[q] = l /\ seen'[q] = mailed
    BY <1>q, <1>4, StepIsLocal DEF ResetBegin, TInv, TypeOK
  <2> QED
    BY <1>1, <1>2, <2>1 DEF ResetOK, ResetLabels
<1>5. ASSUME ResetReadUsed(q), ~Finish(q) PROVE RInv'
  <2>1. /\ pc' = [pc EXCEPT ![q] = "readExpires"] /\ UNCHANGED <<link, time, seen>>
        /\ pc[q] = "readUsed"
    BY <1>5 DEF ResetReadUsed, Goto
  <2>2. OnlyLocals(q) /\ pc'[q] = "readExpires"
    BY <1>q, <2>1, StepIsLocal DEF TInv
  <2> QED
    BY <1>q, <1>1, <1>2, <2>1, <2>2 DEF ResetOK, ResetLabels
<1>6. ASSUME ResetReadExpires(q), ~Finish(q) PROVE RInv'
  <2>1. /\ pc[q] = "readExpires" /\ now <= expiresAt
        /\ pc' = [pc EXCEPT ![q] = "readHash"]
        /\ time' = [time EXCEPT ![q] = now] /\ UNCHANGED <<link, seen>>
    BY <1>6 DEF ResetReadExpires
  <2>2. OnlyLocals(q) /\ pc'[q] = "readHash" /\ time'[q] = now
    BY <1>q, <2>1, StepIsLocal DEF TInv, TypeOK
  <2>3. tokenHash = link[q] => OwnHour(link[q], now)
    <3>1. ASSUME tokenHash = link[q] PROVE OwnHour(link[q], now)
      <4>1. PICK k \in Siblings(link[q]) : expiresAt <= Expiry(k)
        BY <1>q, <2>1, <3>1 DEF RInv, MailedPair, OwnHour, ResetOK, ResetLabels
      <4>2. k \in Links /\ now \in Nat /\ expiresAt \in Nat
        BY <1>q, <2>1 DEF ResetOK, ResetLabels, Siblings, TInv, TypeOK
      <4>3. Expiry(k) \in Nat
        BY <4>2, ExpiryIsNat DEF TInv
      <4> QED
        BY <2>1, <4>1, <4>2, <4>3 DEF OwnHour
    <3> QED
      BY <3>1
  <2> QED
    BY <1>q, <1>1, <1>2, <2>1, <2>2, <2>3 DEF ResetOK, ResetLabels, OwnHour, Siblings, Expiry
<1>7. ASSUME ResetReadHash(q), ~Finish(q) PROVE RInv'
  <2>1. /\ pc[q] = "readHash" /\ tokenHash = link[q]
        /\ pc' = [pc EXCEPT ![q] = "update"] /\ UNCHANGED <<link, time, seen>>
    BY <1>7 DEF ResetReadHash, Goto
  <2>2. OnlyLocals(q) /\ pc'[q] = "update"
    BY <1>q, <2>1, StepIsLocal DEF TInv
  <2>3. \A l \in seen[q] : l <= link[q] \/ l \in rivals[link[q]]
    BY <1>q, <2>1 DEF RInv, ResetOK, ResetLabels, Fits
  <2> QED
    BY <1>q, <1>1, <1>2, <2>1, <2>2, <2>3 DEF ResetOK, ResetLabels, OwnHour, Siblings, Expiry
<1>8. ASSUME ResetUpdatePassword(q) PROVE RInv'
  <2>1. /\ pc[q] = "update"
        /\ pc' = [pc EXCEPT ![q] = "markUsed"] /\ UNCHANGED <<link, time, seen>>
    BY <1>8 DEF ResetUpdatePassword, Goto
  <2>2. OnlyLocals(q) /\ pc'[q] = "markUsed"
    BY <1>q, <2>1, StepIsLocal DEF TInv
  <2> QED
    BY <1>q, <1>1, <1>2, <2>1, <2>2 DEF ResetOK, ResetLabels
<1>9. ResetMarkUsed(q) => Finish(q)
  BY DEF ResetMarkUsed
<1> QED
  BY <1>3, <1>4, <1>5, <1>6, <1>7, <1>8, <1>9 DEF Reset

LEMMA RInvStep == TInv /\ RInv /\ [Next]_vars => RInv'
<1> SUFFICES ASSUME TInv, RInv, [Next]_vars PROVE RInv'
  OBVIOUS
<1>r. Forgots \subseteq Requests /\ Resets \subseteq Requests
  BY DEF Requests
<1>1. ASSUME NEW q \in Forgots, ForgotClearUsed(q) PROVE RInv'
  <2>1. /\ pc' = [pc EXCEPT ![q] = "mail"] /\ UNCHANGED <<link, time, seen>>
        /\ UNCHANGED <<tokenHash, expiresAt, generated, bornAt, rivals, mailed>>
        /\ pc[q] = "clearUsed" /\ ForgotOK(q) /\ q \in Requests
    BY <1>1, <1>r DEF ForgotClearUsed, Goto, history, RInv
  <2>2. OnlyLocals(q) /\ pc'[q] = "mail"
    BY <2>1, StepIsLocal DEF TInv
  <2>3. (ForgotOK(q) /\ ResetOK(q))'
    BY <2>1, <2>2
       DEF ForgotOK, ResetOK, ForgotLabels, ResetLabels, OwnHour, Fits, Siblings, Expiry
  <2> QED
    BY <2>1, <2>2, <2>3, QuietStep DEF ForgotLabels
<1>2. ASSUME NEW q \in Requests, Fail(q) PROVE RInv'
  <2>1. UNCHANGED <<tokenHash, expiresAt, generated, bornAt, rivals, mailed>>
    BY <1>2 DEF Fail, stored, history
  <2>2. OnlyLocals(q) /\ pc'[q] = "idle"
    BY <1>2, StepIsLocal DEF Fail, Finish, TInv
  <2>3. (ForgotOK(q) /\ ResetOK(q))'
    BY <2>2 DEF ForgotOK, ResetOK, ForgotLabels, ResetLabels
  <2> QED
    BY <2>1, <2>2, <2>3, QuietStep DEF ForgotLabels
<1>3. CASE Tick \/ UNCHANGED vars
  BY <1>3 DEF Tick, vars, stored, locals, history, RInv, MailedPair, Distinct, ForgotOK,
              ResetOK, OwnHour, Fits, Siblings, Expiry
<1> QED
  BY <1>1, <1>2, <1>3, RInvBegin, RInvSetHash, RInvSetExpires, RInvMail, RInvReset
     DEF Next, Forgot

-----------------------------------------------------------------------------
(* A link completed without a rival in flight stays marked for as long as  *)
(* its hash is stored, so that a reset that reads the flag afterwards      *)
(* finds another hash or none.                                             *)

CheckedLabels == {"readExpires", "readHash", "update", "markUsed"}

DoneIsMarked ==
  /\ done \subseteq mailed
  /\ tokenHash \in done =>
       used /\ \A f \in Forgots : pc[f] \notin {"setExpires", "clearUsed"}

CheckOK(q) ==
  /\ doneBefore[q] \subseteq mailed
  /\ pc[q] \notin CheckedLabels => doneBefore[q] = {}
  /\ pc[q] \in {"readExpires", "readHash"} => tokenHash \notin doneBefore[q]
  /\ pc[q] = "update" => link[q] \notin doneBefore[q]

DInv == DoneIsMarked /\ \A q \in Requests : CheckOK(q)

LEMMA DInvInit == Init => DInv
BY DEF Init, DInv, DoneIsMarked, CheckOK, CheckedLabels

(* Past its first write, a ForgotPassword call is a rival of any mailed    *)
(* link that is stored.                                                    *)
LEMMA LateWritersAreRivals ==
  ASSUME TInv, RInv, tokenHash \in mailed, Settled(tokenHash),
         NEW f \in Forgots
  PROVE  pc[f] \notin {"setExpires", "clearUsed"}
<1> SUFFICES ASSUME pc[f] \in {"setExpires", "clearUsed"} PROVE FALSE
  OBVIOUS
<1>1. /\ f \in Requests /\ pc[f] \in ForgotLabels /\ ForgotOK(f) /\ Numbered(f)
      /\ tokenHash \in 1 .. generated
  BY DEF Requests, ForgotLabels, RInv, TInv, TypeOK, Links
<1>2. link[f] \in Pending
  BY <1>1 DEF Pending
<1>3. link[f] # tokenHash /\ link[f] \in Nat /\ tokenHash \in Nat
  BY <1>1 DEF ForgotOK, Numbered, ForgotLabels, Links
<1>4. link[f] \in rivals[tokenHash]
  BY <1>1, <1>3 DEF ForgotOK, Fits
<1> QED
  BY <1>2, <1>4 DEF Settled

LEMMA DInvStep == TInv /\ RInv /\ DInv /\ [Next]_vars => DInv'
<1> SUFFICES ASSUME TInv, RInv, DInv, [Next]_vars PROVE DInv'
  OBVIOUS
<1>t. TypeOK
  BY DEF TInv
<1>r. Forgots \subseteq Requests /\ Resets \subseteq Requests
  BY DEF Requests
<1>o. \A q \in Requests : ForgotOK(q) /\ ResetOK(q)
  BY DEF RInv
<1> USE DEF DInv
<1>1. ASSUME NEW q \in Requests, Goto(q, "setExpires") \/ Goto(q, "clearUsed") \/ Goto(q, "mail"),
             pc[q] \in ForgotLabels, mailed' = mailed,
             tokenHash' = tokenHash \/ tokenHash' \notin mailed
      PROVE  \A p \in Requests : CheckOK(p)'
  BY <1>1, <1>t DEF Goto, TypeOK, CheckOK, CheckedLabels, ForgotLabels
<1>2. ASSUME NEW q \in Requests, Finish(q), mailed \subseteq mailed', tokenHash' = tokenHash
      PROVE  \A p \in Requests : CheckOK(p)'
  BY <1>2, <1>t DEF Finish, TypeOK, CheckOK, CheckedLabels
(* Steps after which no more ForgotPassword calls are about to write.      *)
<1>m. ASSUME NEW q \in Requests, NEW label,
             pc' = [pc EXCEPT ![q] = label],
             label \in {"setExpires", "clearUsed"} => pc[q] \in {"setExpires", "clearUsed"},
             UNCHANGED <<tokenHash, done>>, mailed \subseteq mailed',
             used' = used \/ tokenHash \notin done
      PROVE  DoneIsMarked'
  BY <1>m, <1>t DEF TypeOK, DoneIsMarked
<1>3. ASSUME NEW q \in Forgots, ForgotBegin(q) PROVE DInv'
  <2>1. \A p \in Requests : CheckOK(p)'
    BY <1>3, <1>t, <1>r DEF ForgotBegin, MayBegin, TypeOK, CheckOK, CheckedLabels, stored
  <2> QED
    BY <1>3, <1>m, <1>r, <2>1 DEF ForgotBegin, stored
<1>4. ASSUME NEW q \in Forgots, ForgotSetHash(q) PROVE DInv'
  <2>1. tokenHash' \notin mailed /\ pc[q] \in ForgotLabels
    BY <1>4, <1>r, <1>o DEF ForgotSetHash, ForgotOK, ForgotLabels
  <2>2. DoneIsMarked'
    BY <1>4, <2>1 DEF ForgotSetHash, DoneIsMarked, history
  <2> QED
    BY <1>4, <1>1, <1>r, <2>1, <2>2 DEF ForgotSetHash, history
<1>5. ASSUME NEW q \in Forgots, ForgotSetExpires(q) PROVE DInv'
  BY <1>5, <1>1, <1>m, <1>r DEF ForgotSetExpires, Goto, ForgotLabels, history
<1>6. ASSUME NEW q \in Forgots, ForgotClearUsed(q) PROVE DInv'
  <2>1. tokenHash \notin done /\ pc[q] \in ForgotLabels
    BY <1>6 DEF ForgotClearUsed, DoneIsMarked, ForgotLabels
  <2> QED
    BY <1>6, <1>1, <1>m, <1>r, <2>1 DEF ForgotClearUsed, Goto, history
<1>7. ASSUME NEW q \in Forgots, ForgotMail(q) PROVE DInv'
  BY <1>7, <1>2, <1>m, <1>r DEF ForgotMail, Finish, stored
<1>8. ASSUME NEW q \in Resets, NEW l \in mailed, ResetBegin(q, l) PROVE DInv'
  <2>1. \A p \in Requests : CheckOK(p)'
    BY <1>8, <1>t, <1>r
       DEF ResetBegin, MayBegin, TypeOK, CheckOK, CheckedLabels, stored, history
  <2> QED
    BY <1>8, <1>m, <1>r, <2>1 DEF ResetBegin, stored, history
<1>9. ASSUME NEW q \in Resets, ResetReadUsed(q) PROVE DInv'
  <2>1. \A p \in Requests : CheckOK(p)'
    BY <1>9, <1>t, <1>r
       DEF ResetReadUsed, Goto, Finish, TypeOK, DoneIsMarked, CheckOK, CheckedLabels, stored,
           history
  <2> QED
    BY <1>9, <1>m, <1>r, <2>1 DEF ResetReadUsed, Goto, Finish, stored, history
<1>10. ASSUME NEW q \in Resets, ResetReadExpires(q) PROVE DInv'
  <2>1. \A p \in Requests : CheckOK(p)'
    BY <1>10, <1>t, <1>r
       DEF ResetReadExpires, Finish, TypeOK, CheckOK, CheckedLabels, stored, history
  <2> QED
    BY <1>10, <1>m, <1>r, <2>1 DEF ResetReadExpires, Finish, stored, history
<1>11. ASSUME NEW q \in Resets, ResetReadHash(q) PROVE DInv'
  <2>1. \A p \in Requests : CheckOK(p)'
    BY <1>11, <1>t, <1>r
       DEF ResetReadHash, Goto, Finish, TypeOK, CheckOK, CheckedLabels, stored, history
  <2> QED
    BY <1>11, <1>m, <1>r, <2>1 DEF ResetReadHash, Goto, Finish, stored, history
<1>12. ASSUME NEW q \in Resets, ResetUpdatePassword(q) PROVE DInv'
  <2>1. \A p \in Requests : CheckOK(p)'
    BY <1>12, <1>t, <1>r
       DEF ResetUpdatePassword, Goto, TypeOK, CheckOK, CheckedLabels, stored
  <2> QED
    BY <1>12, <1>m, <1>r, <2>1 DEF ResetUpdatePassword, Goto, stored
<1>13. ASSUME NEW q \in Resets, ResetMarkUsed(q) PROVE DInv'
  <2>1. /\ link[q] \in mailed /\ used' = TRUE /\ UNCHANGED <<tokenHash, mailed>>
        /\ done' = IF Settled(link[q]) THEN done \cup {link[q]} ELSE done
        /\ q \in Requests
    BY <1>13, <1>r, <1>o DEF ResetMarkUsed, Complete, ResetOK, ResetLabels
  <2>2. ASSUME tokenHash \in done', NEW f \in Forgots
        PROVE  pc[f] \notin {"setExpires", "clearUsed"}
    BY <2>1, <2>2, LateWritersAreRivals DEF DoneIsMarked
  <2>3. \A f \in Forgots : pc'[f] \in {pc[f], "idle"}
    BY <1>13, <1>r, <1>t DEF ResetMarkUsed, Finish, TypeOK
  <2>4. DoneIsMarked'
    BY <2>1, <2>2, <2>3 DEF DoneIsMarked
  <2> QED
    BY <1>13, <1>2, <2>1, <2>4 DEF ResetMarkUsed
<1>14. ASSUME NEW q \in Requests, Fail(q) PROVE DInv'
  BY <1>14, <1>2, <1>m DEF Fail, Finish, stored, history
<1>15. CASE Tick \/ UNCHANGED vars
  BY <1>15 DEF Tick, vars, stored, locals, history, DoneIsMarked, CheckOK
<1> QED
  BY <1>3, <1>4, <1>5, <1>6, <1>7, <1>8, <1>9, <1>10, <1>11, <1>12, <1>13, <1>14,
     <1>15 DEF Next, Forgot, Reset

LEMMA Invariance == Spec => [](TInv /\ RInv /\ DInv)
<1>1. TInv /\ RInv /\ DInv /\ [Next]_vars => (TInv /\ RInv /\ DInv)'
  BY TInvStep, RInvStep, DInvStep
<1> QED
  BY <1>1, TInvInit, RInvInit, DInvInit, PTL DEF Spec

-----------------------------------------------------------------------------
(* Theorems about any number of calls of both endpoints, in any            *)
(* interleaving, any of which may fail.                                    *)

(* No link sets a password unless it was checked within the hour of a link *)
(* that was being issued when it was.                                      *)
THEOREM LinksExpire == Spec => LinkExpires
<1>1. ASSUME RInv, NEW q \in Resets, ResetUpdatePassword(q)
      PROVE  \E l \in Siblings(link[q]) : time[q] <= bornAt[l] + resetTokenExpiry
  BY <1>1 DEF RInv, ResetOK, ResetLabels, OwnHour, Expiry, ResetUpdatePassword, Requests
<1>2. RInv => [\A q \in Resets : ResetUpdatePassword(q) =>
                 \E l \in Siblings(link[q]) : time[q] <= bornAt[l] + resetTokenExpiry]_vars
  BY <1>1
<1> QED
  BY <1>2, Invariance, PTL DEF LinkExpires

(* A reset begun after a newer link was mailed sets no password, unless    *)
(* its link was being issued together with that one.                       *)
THEOREM SupersededLinksAreDead == Spec => SupersededLinkIsDead
<1>1. ASSUME RInv, NEW q \in Resets, ResetUpdatePassword(q)
      PROVE  \A l \in seen[q] : l <= link[q] \/ l \in rivals[link[q]]
  BY <1>1 DEF RInv, ResetOK, ResetLabels, ResetUpdatePassword, Requests
<1>2. RInv => [\A q \in Resets : ResetUpdatePassword(q) =>
                 \A l \in seen[q] : l <= link[q] \/ l \in rivals[link[q]]]_vars
  BY <1>1
<1> QED
  BY <1>2, Invariance, PTL DEF SupersededLinkIsDead

(* No link whose reset was completed, with no rival of it in flight, sets  *)
(* a password for a reset that read the used flag after that, although     *)
(* ForgotPassword clears the flag.                                         *)
THEOREM CompletedLinksAreDead == Spec => CompletedLinkIsDead
<1>1. ASSUME DInv, NEW q \in Resets, ResetUpdatePassword(q)
      PROVE  link[q] \notin doneBefore[q]
  BY <1>1 DEF DInv, CheckOK, ResetUpdatePassword, Requests
<1>2. DInv => [\A q \in Resets : ResetUpdatePassword(q) =>
                 link[q] \notin doneBefore[q]]_vars
  BY <1>1
<1> QED
  BY <1>2, Invariance, PTL DEF CompletedLinkIsDead

-----------------------------------------------------------------------------
(* Single use, which the code promises and only approximates: it holds     *)
(* when the resets take turns and the used flag works, that is, no failing *)
(* Get hides it, none is left unset by a failure after the password was    *)
(* changed, and no ForgotPassword drops it once another call has stored    *)
(* its hash.  ForgotPassword may run beside the resets and beside other    *)
(* calls of itself, and may fail.                                          *)

ResetsTakeTurns == \A p, q \in Resets : pc[p] # "idle" /\ pc[q] # "idle" => p = q

FlagWorks ==
  /\ \A q \in Resets : /\ used /\ ResetReadUsed(q) => Finish(q)
                       /\ Fail(q) => pc[q] # "markUsed"
  /\ \A f \in Forgots : ForgotClearUsed(f) => tokenHash = link[f]

(* The stored link, once it has set a password, is marked or about to be.  *)
UsedIsMarked ==
  /\ consumed \subseteq mailed
  /\ tokenHash \in consumed => used \/ \E q \in Resets : pc[q] = "markUsed"

UnusedOK(q) ==
  /\ pc[q] \in {"readExpires", "readHash"} => tokenHash \notin consumed
  /\ pc[q] = "update" => link[q] \notin consumed

UInv == UsedIsMarked /\ \A q \in Resets : UnusedOK(q)

LEMMA UInvInit == Init => UInv
BY DEF Init, UInv, UsedIsMarked, UnusedOK

LEMMA UInvStep ==
  TInv /\ RInv /\ UInv /\ ResetsTakeTurns /\ [Next]_vars /\ [FlagWorks]_vars => UInv'
<1> SUFFICES ASSUME TInv, RInv, UInv, ResetsTakeTurns, [Next]_vars, [FlagWorks]_vars
             PROVE  UInv'
  OBVIOUS
<1>t. TypeOK
  BY DEF TInv
<1>r. Forgots \subseteq Requests /\ Resets \subseteq Requests
  BY DEF Requests
<1>o. \A q \in Requests : ForgotOK(q) /\ ResetOK(q)
  BY DEF RInv
<1>u. UsedIsMarked /\ \A q \in Resets : UnusedOK(q)
  BY DEF UInv
(* A step of ForgotPassword. *)
<1>1. ASSUME NEW q \in Forgots, Forgot(q) PROVE UInv'
  <2>1. /\ consumed' = consumed /\ mailed \subseteq mailed'
        /\ tokenHash' = tokenHash \/ tokenHash' \notin mailed
        /\ used' = used \/ tokenHash \notin mailed
    <3>1. ForgotClearUsed(q) => used' = used \/ tokenHash = link[q]
      BY <1>1 DEF FlagWorks, vars, stored
    <3> QED
      BY <1>1, <1>o, <1>r, <3>1
         DEF Forgot, ForgotBegin, ForgotSetHash, ForgotSetExpires, ForgotClearUsed, ForgotMail,
             ForgotOK, ForgotLabels, stored, history
  <2>2. /\ pc[q] \in ForgotLabels \cup {"idle"} /\ pc'[q] \in ForgotLabels \cup {"idle"}
        /\ \A p \in Requests \ {q} : pc'[p] = pc[p] /\ link'[p] = link[p]
    BY <1>1, <1>r, <1>t
       DEF Forgot, ForgotBegin, ForgotSetHash, ForgotSetExpires, ForgotClearUsed, ForgotMail,
           MayBegin, Goto, Finish, ForgotLabels, TypeOK
  <2>3. UsedIsMarked'
    BY <1>r, <1>u, <2>1, <2>2 DEF UsedIsMarked, ForgotLabels
  <2>4. \A p \in Resets : UnusedOK(p)'
    BY <1>r, <1>u, <2>1, <2>2 DEF UsedIsMarked, UnusedOK, ForgotLabels
  <2> QED
    BY <2>3, <2>4 DEF UInv
(* A step of ResetPassword: the other resets are idle. *)
<1>2. ASSUME NEW q \in Resets, pc[q] # "idle", tokenHash' = tokenHash, mailed' = mailed,
             \A p \in Requests \ {q} : pc'[p] = pc[p]
      PROVE  \A p \in Resets \ {q} : pc[p] = "idle" /\ pc'[p] = "idle" /\ UnusedOK(p)'
  BY <1>2, <1>r DEF ResetsTakeTurns, UnusedOK
<1>3. ASSUME NEW q \in Resets, NEW l \in mailed, ResetBegin(q, l) PROVE UInv'
  <2>1. /\ UNCHANGED <<tokenHash, used, mailed, consumed>> /\ pc[q] = "idle" /\ pc'[q] = "readUsed"
        /\ \A p \in Requests \ {q} : pc'[p] = pc[p] /\ link'[p] = link[p]
    BY <1>3, <1>r, <1>t DEF ResetBegin, MayBegin, stored, history, TypeOK
  <2> QED
    BY <1>r, <1>u, <2>1 DEF UInv, UsedIsMarked, UnusedOK
<1>4. ASSUME NEW q \in Resets, ResetReadUsed(q) PROVE UInv'
  <2>1. /\ UNCHANGED <<tokenHash, used, mailed, consumed>>
        /\ pc[q] = "readUsed" /\ pc'[q] \in {"readExpires", "idle"}
        /\ \A p \in Requests \ {q} : pc'[p] = pc[p]
    BY <1>4, <1>r, <1>t DEF ResetReadUsed, Goto, Finish, stored, history, TypeOK
  <2>2. \A p \in Resets \ {q} : pc[p] = "idle" /\ pc'[p] = "idle" /\ UnusedOK(p)'
    BY <1>2, <2>1
  <2>3. pc'[q] = "readExpires" => ~used
    BY <1>4, <1>r, <1>t, <2>1 DEF FlagWorks, Finish, TypeOK, vars, locals
  <2>4. UnusedOK(q)' /\ UsedIsMarked'
    BY <1>u, <2>1, <2>2, <2>3 DEF UsedIsMarked, UnusedOK
  <2> QED
    BY <2>2, <2>4 DEF UInv
<1>5. ASSUME NEW q \in Resets, ResetReadExpires(q) \/ ResetReadHash(q) PROVE UInv'
  <2>1. /\ UNCHANGED <<tokenHash, used, mailed, consumed, link>> \/ pc'[q] = "idle"
        /\ UNCHANGED <<tokenHash, used, mailed, consumed>>
        /\ pc[q] \in {"readExpires", "readHash"} /\ pc'[q] \in {"readHash", "update", "idle"}
        /\ pc'[q] = "update" => link[q] = tokenHash
        /\ \A p \in Requests \ {q} : pc'[p] = pc[p]
    BY <1>5, <1>r, <1>t DEF ResetReadExpires, ResetReadHash, Goto, Finish, stored, history, TypeOK
  <2>2. \A p \in Resets \ {q} : pc[p] = "idle" /\ pc'[p] = "idle" /\ UnusedOK(p)'
    BY <1>2, <2>1
  <2>3. UnusedOK(q)' /\ UsedIsMarked'
    BY <1>u, <2>1, <2>2 DEF UsedIsMarked, UnusedOK
  <2> QED
    BY <2>2, <2>3 DEF UInv
<1>6. ASSUME NEW q \in Resets, ResetUpdatePassword(q) PROVE UInv'
  <2>1. /\ UNCHANGED <<tokenHash, used, mailed>> /\ consumed' = consumed \cup {link[q]}
        /\ pc[q] = "update" /\ pc'[q] = "markUsed"
        /\ \A p \in Requests \ {q} : pc'[p] = pc[p]
    BY <1>6, <1>r, <1>t DEF ResetUpdatePassword, Goto, stored, TypeOK
  <2>2. link[q] \in mailed
    BY <1>o, <1>r, <2>1 DEF ResetOK, ResetLabels
  <2>3. \A p \in Resets \ {q} : UnusedOK(p)'
    BY <1>2, <2>1
  <2> QED
    BY <1>u, <2>1, <2>2, <2>3 DEF UInv, UsedIsMarked, UnusedOK
<1>7. ASSUME NEW q \in Resets, ResetMarkUsed(q) PROVE UInv'
  <2>1. /\ UNCHANGED <<tokenHash, mailed, consumed>> /\ used' = TRUE
        /\ pc[q] = "markUsed" /\ pc'[q] = "idle"
        /\ \A p \in Requests \ {q} : pc'[p] = pc[p]
    BY <1>7, <1>r, <1>t DEF ResetMarkUsed, Finish, TypeOK
  <2>2. \A p \in Resets \ {q} : UnusedOK(p)'
    BY <1>2, <2>1
  <2> QED
    BY <1>u, <2>1, <2>2 DEF UInv, UsedIsMarked, UnusedOK
<1>8. ASSUME NEW q \in Requests, Fail(q) PROVE UInv'
  <2>1. /\ UNCHANGED <<tokenHash, used, mailed, consumed>> /\ pc'[q] = "idle"
        /\ \A p \in Requests \ {q} : pc'[p] = pc[p] /\ link'[p] = link[p]
    BY <1>8, <1>t DEF Fail, Finish, stored, history, TypeOK
  <2>2. pc[q] # "idle"
    BY <1>8 DEF Fail
  <2>3. q \in Resets => pc[q] # "markUsed"
    BY <1>8, <2>1, <2>2 DEF FlagWorks, vars, locals
  <2> QED
    BY <1>r, <1>u, <2>1, <2>3 DEF UInv, UsedIsMarked, UnusedOK
<1>9. CASE Tick \/ UNCHANGED vars
  BY <1>u, <1>9 DEF Tick, vars, stored, locals, history, UInv, UsedIsMarked, UnusedOK
<1> QED
  BY <1>1, <1>3, <1>4, <1>5, <1>6, <1>7, <1>8, <1>9 DEF Next, Reset

(* Resets that take turns, with a used flag that works, use a link once.   *)
THEOREM LinksServeOnce == Spec /\ []ResetsTakeTurns /\ [][FlagWorks]_vars => SingleUse
<1>1. TInv /\ RInv /\ UInv /\ ResetsTakeTurns /\ [Next]_vars /\ [FlagWorks]_vars => UInv'
  BY UInvStep
<1>2. ASSUME UInv, NEW q \in Resets, ResetUpdatePassword(q) PROVE link[q] \notin consumed
  BY <1>2 DEF UInv, UnusedOK, ResetUpdatePassword
<1>3. UInv => [\A q \in Resets : ResetUpdatePassword(q) => link[q] \notin consumed]_vars
  BY <1>2
<1> QED
  BY <1>1, <1>3, Invariance, UInvInit, PTL DEF Spec, SingleUse
=============================================================================
