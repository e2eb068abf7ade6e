---------------------------- MODULE DesktopLease ----------------------------
(***************************************************************************)
(* What control arbitration promises, without descriptors, files or        *)
(* processes: a client is one deskpal server together with the private     *)
(* children it started.  At most one client holds the desktop, only the    *)
(* holder is active, a living client gives the desktop up only when it is  *)
(* idle, and what a dead client leaves behind may keep the desktop until   *)
(* the last of it is gone.                                                 *)
(***************************************************************************)
CONSTANTS
  Client,
  None      \* no client

VARIABLES alive, holder, active

leaseVars == <<alive, holder, active>>

LeaseInit ==
  /\ alive = Client
  /\ holder = None
  /\ active = {}

Acquire(c) ==
  /\ c \in alive
  /\ holder = None
  /\ holder' = c
  /\ UNCHANGED <<alive, active>>

Begin(c) ==
  /\ holder = c
  /\ active' = active \cup {c}
  /\ UNCHANGED <<alive, holder>>

Finish(c) ==
  /\ active' = active \ {c}
  /\ UNCHANGED <<alive, holder>>

Release(c) ==
  /\ c \in alive
  /\ holder = c
  /\ c \notin active
  /\ holder' = None
  /\ UNCHANGED <<alive, active>>

\* Orderly exit or crash; children that survive keep the desktop.
Die(c) ==
  /\ c \in alive
  /\ alive' = alive \ {c}
  /\ holder' \in (IF holder = c THEN {c, None} ELSE {holder})
  /\ active' \in {active, active \ {c}}
  /\ holder' # c => c \notin active'

\* The last survivor of a dead client goes.
Drop(c) ==
  /\ c \notin alive
  /\ holder = c
  /\ holder' = None
  /\ active' = active \ {c}
  /\ UNCHANGED alive

LeaseNext ==
  \E c \in Client :
    Acquire(c) \/ Begin(c) \/ Finish(c) \/ Release(c) \/ Die(c) \/ Drop(c)

LeaseSpec == LeaseInit /\ [][LeaseNext]_leaseVars
=============================================================================
