------------------------------ MODULE MCWebApp -------------------------------
(***************************************************************************)
(* Small instances of the dashboard for TLC.  The four components share no *)
(* state, so a behaviour moves one of them, `part`, and the others stay    *)
(* where they started: their states add up and do not multiply.  The       *)
(* session is taken in two parts: one tab with its card in full, and two   *)
(* tabs of one storage that only sign in and out.                          *)
(***************************************************************************)
EXTENDS WebSession, WebDevices, WebHistory, WebSettings, TLC

CONSTANTS c1, c2, t1, t2

VARIABLE part

webVars == <<part, sessionVars, webDevicesVars, historyVars, webSettingsVars>>

\* Both devices are online, or the guest is still to come; two things were seen
\* on the WiFi, or nothing yet.
WebInit ==
    /\ part \in {"card", "tabs", "devices", "history", "settings"}
    /\ SessionInit /\ (part # "card" => persistent)
    /\ WebDevicesInit
    /\ \/ server = [d \in Devices |-> "ONLINE"]
       \/ /\ part = "devices"
          /\ server = [d \in Devices |-> IF d = "d2" THEN "absent" ELSE "UNKNOWN"]
    /\ HistoryInit /\ (part # "history" => limit = PageSize)
    /\ WebSettingsInit /\ stored = [k \in Keys |-> TRUE]
    /\ used = Observed \/ (part = "settings" /\ used = {})

\* Four kinds of alert tell the figures apart.
FewAlerts ==
    log' # log => [failed |-> log'[1].failed, targets |-> log'[1].targets] \in
        {[failed |-> f, targets |-> <<"d1">>] : f \in BOOLEAN}
        \cup {[failed |-> f, targets |-> IF f THEN <<"d2">> ELSE <<"d2", "d1">>] : f \in BOOLEAN}

OneTab == \A t, u \in Tabs : tab'[t].open /\ tab'[u].open => t = u
SignInOnly == \A t \in Tabs : card'[t].mode = "login"

WebNext ==
    /\ UNCHANGED part
    /\ \/ /\ part \in {"card", "tabs"} /\ SessionNext
          /\ IF part = "card" THEN OneTab ELSE SignInOnly
          /\ UNCHANGED <<webDevicesVars, historyVars, webSettingsVars>>
       \/ /\ part = "devices" /\ WebDevicesNext /\ events' + wishes' <= 2
          /\ UNCHANGED <<sessionVars, historyVars, webSettingsVars>>
       \/ /\ part = "history" /\ HistoryNext /\ FewAlerts
          /\ UNCHANGED <<sessionVars, webDevicesVars, webSettingsVars>>
       \/ /\ part = "settings" /\ WebSettingsNext
          /\ used # Observed => presses' <= 1
          /\ UNCHANGED <<sessionVars, webDevicesVars, historyVars>>

WebSpec == WebInit /\ [][WebNext]_webVars

\* Every component of the dashboard keeps to its types.
WebTypeOK == WebSessionTypeOK /\ WebDevicesTypeOK /\ HistoryTypeOK /\ WebSettingsTypeOK

\* What is shown is what was answered: the history's figures count the alerts
\* of the page they were computed from, and the switches are as stored.  While
\* another part moves there are no figures: nothing is shown yet.
ShowsWhatWasAnswered == (part = "history" => FiguresAddUp) /\ SwitchesShowStored

WebSymmetry == Permutations({c1, c2}) \cup Permutations({t1, t2})
=============================================================================
