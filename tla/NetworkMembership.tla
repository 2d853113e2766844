-------------------------- MODULE NetworkMembership --------------------------
(***************************************************************************)
(* What the device endpoints promise, with no request, session or row lock *)
(* in sight: who administers a WiFi network, and which devices are on it.  *)
(* A device joins a network, an account's device may move to another one,  *)
(* and a device is removed.  A network nobody administers is claimed by    *)
(* the account whose device first joins it, in the same step: no device is *)
(* ever on a network without an administrator, and no network is claimed   *)
(* without a device.                                                       *)
(***************************************************************************)
CONSTANTS
    Users,     \* accounts
    Macs,      \* networks
    Devices,   \* device ids
    None       \* nobody, or no device

VARIABLES
    admin,     \* [Macs -> the account that administers the network]
    member     \* [Devices -> the owner and the network of the device]

vars == <<admin, member>>

Member == [owner : Users \cup {None}, net : Macs]

\* No device yet; an account keeps a network whose last device was removed.
Init ==
    /\ admin \in [Macs -> Users \cup {None}]
    /\ member = [d \in Devices |-> None]

\* Who administers the networks once `user` has brought a device to network m.
AdminsAfter(user, m) == [admin EXCEPT ![m] = IF @ = None THEN user ELSE @]

\* A device, of an account or of a guest, is registered for the first time.
Enrol(d, user, m) ==
    /\ member[d] = None
    /\ admin[m] # None \/ user # None
    /\ admin' = AdminsAfter(user, m)
    /\ member' = [member EXCEPT ![d] = [owner |-> user, net |-> m]]

\* An account's device registers from another network.  A guest never moves.
Relocate(d, m) ==
    /\ member[d] # None
    /\ member[d].owner # None
    /\ admin' = AdminsAfter(member[d].owner, m)
    /\ member' = [member EXCEPT ![d].net = m]

Expel(d) ==
    /\ member[d] # None
    /\ member' = [member EXCEPT ![d] = None]
    /\ UNCHANGED admin

Next ==
    \E d \in Devices :
      \/ \E user \in Users \cup {None}, m \in Macs : Enrol(d, user, m)
      \/ \E m \in Macs : Relocate(d, m)
      \/ Expel(d)

Spec == Init /\ [][Next]_vars
=============================================================================
