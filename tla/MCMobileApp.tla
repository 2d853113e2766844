----------------------------- MODULE MCMobileApp -----------------------------
(***************************************************************************)
(* Small instances of the phone's screens for TLC.  The six components     *)
(* share no state: a behaviour moves one of them, `part`, and the other    *)
(* five stay where they started: their states add up and do not multiply.  *)
(***************************************************************************)
EXTENDS MobileDevices, NetworkScan, MobilePreferences, MobileForms, MobileMessages,
        MobileAlerts

CONSTANTS a1, a2

VARIABLE part

appVars == <<part, devicesVars, scanVars, preferenceVars, formsVars, messagesVars,
             alertsVars>>

MCDefaults == [k \in Key |-> k # SilentKey]
MCTypeHint == [n \in Names |-> IF n = "Office printer" THEN "printer" ELSE "null"]

\* One device is registered and another is still to come.
AppInit ==
    /\ part \in {"devices", "scan", "preferences", "forms", "messages", "alerts"}
    /\ DevicesInit /\ server = [d \in Phones |-> IF d = "p1" THEN "ONLINE" ELSE "absent"]
    /\ ScanInit /\ FormsInit /\ MessagesInit /\ AlertsInit
    /\ PreferencesInit /\ (part # "preferences" => stored = Defaults)
    /\ (part # "alerts" => oreo)

AppNext ==
    /\ UNCHANGED part
    /\ \/ /\ part = "devices" /\ DevicesNext
          /\ UNCHANGED <<scanVars, preferenceVars, formsVars, messagesVars, alertsVars>>
       \/ /\ part = "scan" /\ ScanNext
          /\ UNCHANGED <<devicesVars, preferenceVars, formsVars, messagesVars, alertsVars>>
       \/ /\ part = "preferences" /\ PreferencesNext
          /\ UNCHANGED <<devicesVars, scanVars, formsVars, messagesVars, alertsVars>>
       \/ /\ part = "forms" /\ FormsNext
          /\ UNCHANGED <<devicesVars, scanVars, preferenceVars, messagesVars, alertsVars>>
       \/ /\ part = "messages" /\ MessagesNext
          /\ UNCHANGED <<devicesVars, scanVars, preferenceVars, formsVars, alertsVars>>
       \/ /\ part = "alerts" /\ AlertsNext
          /\ UNCHANGED <<devicesVars, scanVars, preferenceVars, formsVars, messagesVars>>

AppSpec == AppInit /\ [][AppNext]_appVars

\* Every part of the app keeps to its types.
AppTypeOK ==
    /\ DevicesTypeOK /\ ScanTypeOK /\ PreferencesTypeOK /\ FormsTypeOK /\ MessagesTypeOK
    /\ AlertsTypeOK

AppSymmetry == Permutations({a1, a2})
=============================================================================
