-------------------------- MODULE MCDeviceRegistry --------------------------
(* Small instances of DeviceRegistry for TLC.                              *)
EXTENDS DeviceRegistryInv, TLC

CONSTANTS a, b, home, mesh, p, q, r1, r2

\* One phone that keeps the token it was issued.
SingleToken == {"tp"}
SingleHolder == [t \in SingleToken |-> p]

\* One phone that declined notifications.
NoTokens == {}
NoHolder == [t \in NoTokens |-> p]

\* Two phones with a token each.
TwoPhoneTokens == {"tp", "tq"}
TwoPhoneHolder == [t \in TwoPhoneTokens |-> IF t = "tp" THEN p ELSE q]

\* Requests are interchangeable.
Symmetry == Permutations({r1, r2})

\* The state in which account a, on one network already, removed its device.
ClaimedInit ==
    /\ networks = [m \in Macs |-> IF m = home THEN a ELSE None]
    /\ devices = [d \in Ids |-> None]
    /\ claim = [m \in Macs |-> None]
    /\ lock = [d \in Ids |-> None]
    /\ shadow = [d \in Ids |-> None]
    /\ session = [r \in Requests |-> Idle]
    /\ nextId = 1
    /\ known = {}

ClaimedSpec == ClaimedInit /\ [][RegistryNext]_registryVars
=============================================================================
