---------------------------- MODULE SecondFactor ----------------------------
(***************************************************************************)
(* What the authenticator-app factor promises its user, without statements,*)
(* requests or counters: a device is enrolled together with a batch of     *)
(* recovery codes, becomes active, each code of the batch works once, and  *)
(* the factor goes when its user removes it.  Totp implements it as long   *)
(* as one request at a time works on the account.                          *)
(***************************************************************************)
EXTENDS Naturals

CONSTANTS Devices, NoDevice, recoveryCodeCount

VARIABLES
  phase,   \* "none", "pending" (enrolled, not confirmed) or "active"
  device,  \* the enrolled device
  codes,   \* the recovery codes that still work
  used,    \* the devices enrolled so far
  redeemed \* the recovery codes that have let somebody in

factorVars == <<phase, device, codes, used, redeemed>>

Batch(d) == {d} \X (1 .. recoveryCodeCount)

Init ==
  /\ phase = "none"
  /\ device = NoDevice
  /\ codes = {}
  /\ used = {}
  /\ redeemed = {}

(* A new device replaces a pending one, never an active one.               *)
Enrol(d) ==
  /\ phase # "active"
  /\ d \in Devices \ used
  /\ phase' = "pending"
  /\ device' = d
  /\ codes' = Batch(d)
  /\ used' = used \cup {d}
  /\ UNCHANGED redeemed

Activate ==
  /\ phase = "pending"
  /\ phase' = "active"
  /\ UNCHANGED <<device, codes, used, redeemed>>

Redeem(c) ==
  /\ phase = "active"
  /\ c \in codes
  /\ c \notin redeemed
  /\ codes' = codes \ {c}
  /\ redeemed' = redeemed \cup {c}
  /\ UNCHANGED <<phase, device, used>>

Remove ==
  /\ phase = "active"
  /\ phase' = "none"
  /\ device' = NoDevice
  /\ codes' = {}
  /\ UNCHANGED <<used, redeemed>>

Next ==
  \/ \E d \in Devices : Enrol(d)
  \/ Activate
  \/ \E c \in codes : Redeem(c)
  \/ Remove

Spec == Init /\ [][Next]_factorVars
=============================================================================
