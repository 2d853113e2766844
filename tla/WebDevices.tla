----------------------------- MODULE WebDevices ------------------------------
(***************************************************************************)
(* The dashboard's device list and what is done from it: the rows every    *)
(* page shares, the status frames applied to them, the dialog that removes *)
(* a device, the guests' own Remove buttons and the dialog that sends an   *)
(* alert.  The list is read once for a session; from then on it changes by *)
(* frames and by this tab's own removals alone.  A dialog can be closed    *)
(* while its request runs (Escape, the cross, the backdrop), and the       *)
(* answer lands on what is there by then.                                  *)
(***************************************************************************)
EXTENDS Naturals, Sequences, SequencesExt, FiniteSets

CONSTANTS
    Devices, Guests, NoDevice,
    Requests,
    MaxEvents,      \* bound: heartbeats, newcomers and removals elsewhere
    MaxWishes       \* bound: dialogs opened and buttons pressed that send

ASSUME WebDevicesBounds == Guests \subseteq Devices /\ {MaxEvents, MaxWishes} \subseteq Nat

VARIABLES
    server,     \* [Devices -> status or "absent"]: the network's rows
    rows,       \* the same, as DeviceContext has them
    loaded,     \* the first list answer, or failure, has landed
    wire,       \* status frames on their way to this tab, oldest first
    page,       \* the page shown
    confirming, \* DevicesPage: the device its remove dialog names
    removing,   \* DevicesPage: a removal it sent is running
    dialog,     \* the send-alert dialog, or NoDevice
    request,    \* [Requests -> request \cup {NoDevice}]
    gone,       \* history: devices the server has removed
    events, wishes

webDevicesVars ==
    <<server, rows, loaded, wire, page, confirming, removing, dialog, request, gone, events, wishes>>

Status == {"ONLINE", "OFFLINE", "UNKNOWN"}
Pages == {"dashboard", "devices", "settings"}
Rows == [Devices -> Status \cup {"absent"}]

Dialog == [selected : SUBSET Devices, sending : BOOLEAN,
           result : (SUBSET Devices) \cup {NoDevice}, sent : SUBSET SUBSET Devices]
Request == [kind : {"list", "remove", "drop", "alert"}, targets : SUBSET Devices,
            here : BOOLEAN, answer : {"none", "ok", "failed"}, read : Rows \cup {NoDevice}]

\* NoDevice stands for "not there": it is no dialog and no request.
ASSUME WebDevicesNames == NoDevice \notin Dialog /\ NoDevice \notin Request

\* `sent` is history: what this dialog has asked to alert.
NewDialog(targets) == [selected |-> targets, sending |-> FALSE, result |-> NoDevice, sent |-> {}]

\* `here`: the page or dialog that sent it is still shown.
NewWish(kind, targets) ==
    [kind |-> kind, targets |-> targets, here |-> TRUE, answer |-> "none",
     read |-> NoDevice]

WebDevicesInit ==
    /\ server \in Rows
    /\ rows = [d \in Devices |-> "absent"] /\ loaded = FALSE /\ wire = <<>>
    /\ page = "dashboard" /\ confirming = NoDevice /\ removing = FALSE
    /\ dialog = NoDevice
    /\ request = [r \in Requests |-> NoDevice]
    /\ gone = {} /\ events = 0 /\ wishes = 0

WebDevicesTypeOK ==
    /\ {server, rows} \subseteq Rows
    /\ page \in Pages
    /\ confirming \in Devices \cup {NoDevice} /\ {loaded, removing} \subseteq BOOLEAN
    /\ dialog \in Dialog \cup {NoDevice}
    /\ request \in [Requests -> Request \cup {NoDevice}]

-----------------------------------------------------------------------------
(* What the pages show and offer.                                          *)

Present == {d \in Devices : rows[d] # "absent"}
Alertable(d) == rows[d] \in Status \ {"UNKNOWN"}
Reachable == {d \in Present : Alertable(d)}

\* "offline" is whatever is not online.
Filtered(filter) ==
    {d \in Present : filter = "all" \/ (filter = "online") = (rows[d] = "ONLINE")}

\* Whatever filter is set, searched or sorted, some choice brings a row up.
Shown(p) ==
    IF p = "settings" THEN Present \cap Guests
    ELSE UNION {Filtered(filter) : filter \in {"all", "online", "offline"}}

\* A dialog covers the page.
Uncovered(p) == page = p /\ dialog = NoDevice /\ confirming = NoDevice

Wish == wishes < MaxWishes /\ wishes' = wishes + 1

\* What was sent from a page or dialog that is gone.
Homeless(kinds) ==
    [r \in Requests |-> IF request[r] # NoDevice /\ request[r].kind \in kinds
                          THEN [request[r] EXCEPT !.here = FALSE] ELSE request[r]]

\* A page's own state goes with it, and by the browser's Back its dialogs do.
GoTo(p) ==
    /\ p # page
    /\ page' = p /\ removing' = FALSE
    /\ confirming' = NoDevice /\ dialog' = NoDevice
    /\ request' = Homeless({"remove", "drop", "alert"})
    /\ UNCHANGED <<server, rows, loaded, wire, gone, events, wishes>>

-----------------------------------------------------------------------------
(* Removing.                                                               *)

AskRemoval(d) ==
    /\ Uncovered("devices") /\ d \in Shown("devices") /\ Wish
    /\ confirming' = d
    /\ UNCHANGED <<server, rows, loaded, wire, page, removing, dialog,
                   request, gone, events>>

\* Cancel waits for a running removal; Escape, the cross and the backdrop do not.
CloseConfirm ==
    /\ confirming # NoDevice
    /\ confirming' = NoDevice
    /\ UNCHANGED <<server, rows, loaded, wire, page, removing, dialog,
                   request, gone, events, wishes>>

Place(r, kind, targets) ==
    request[r] = NoDevice /\ request' = [request EXCEPT ![r] = NewWish(kind, targets)]

ConfirmRemove(r) ==
    /\ confirming # NoDevice /\ ~removing
    /\ Place(r, "remove", {confirming})
    /\ removing' = TRUE
    /\ UNCHANGED <<server, rows, loaded, wire, page, confirming, dialog, gone, events,
                   wishes>>

\* A guest's Remove asks nothing and may be pressed again.
DropGuest(r, d) ==
    /\ Uncovered("settings") /\ d \in Shown("settings") /\ Wish
    /\ Place(r, "drop", {d})
    /\ UNCHANGED <<server, rows, loaded, wire, page, confirming, removing, dialog, gone,
                   events>>

-----------------------------------------------------------------------------
(* Alerting.                                                               *)

\* From a row with that row selected, or from the page with nothing.
OpenAlert(targets) ==
    /\ \E p \in {"dashboard", "devices"} : Uncovered(p)
    /\ targets \subseteq Reachable /\ Cardinality(targets) <= 1 /\ Reachable # {} /\ Wish
    /\ dialog' = NewDialog(targets)
    /\ UNCHANGED <<server, rows, loaded, wire, page, confirming, removing,
                   request, gone, events>>

\* The fields go with the answer; only its close buttons are left.
Choosing == dialog # NoDevice /\ dialog.result = NoDevice

Toggle(d) ==
    /\ Choosing /\ d \in Reachable
    /\ dialog' = [dialog EXCEPT !.selected =
                    IF d \in @ THEN @ \ {d} ELSE @ \cup {d}]
    /\ UNCHANGED <<server, rows, loaded, wire, page, confirming, removing,
                   request, gone, events, wishes>>

\* "All" is told by the number of what is selected, which may include rows
\* that have become unreachable since and are no longer shown.
AllSelected == Reachable # {} /\ Cardinality(dialog.selected) = Cardinality(Reachable)

ToggleAll ==
    /\ Choosing /\ Reachable # {}
    /\ dialog' = [dialog EXCEPT !.selected = IF AllSelected THEN {} ELSE Reachable]
    /\ UNCHANGED <<server, rows, loaded, wire, page, confirming, removing,
                   request, gone, events, wishes>>

\* No selection is every device of the network.
SendAlert(r) ==
    /\ Choosing /\ ~dialog.sending /\ Reachable # {}
    /\ Place(r, "alert", dialog.selected)
    /\ dialog' = [dialog EXCEPT !.sending = TRUE, !.sent = @ \cup {dialog.selected}]
    /\ UNCHANGED <<server, rows, loaded, wire, page, confirming, removing, gone,
                   events, wishes>>

CloseAlert ==
    /\ dialog # NoDevice
    /\ dialog' = NoDevice /\ request' = Homeless({"alert"})
    /\ UNCHANGED <<server, rows, loaded, wire, page, confirming, removing, gone,
                   events, wishes>>

-----------------------------------------------------------------------------
(* The server, and answers.                                                *)

Waiting(r) == request[r] # NoDevice /\ request[r].answer = "none"
Reply(r, a) ==
    request' = [request EXCEPT ![r].answer = a,
        ![r].read = IF request[r].kind = "list" THEN server ELSE NoDevice]

LoadList(r) ==
    /\ ~loaded /\ \A q \in Requests : request[q] # NoDevice => request[q].kind # "list"
    /\ Place(r, "list", {})
    /\ UNCHANGED <<server, rows, loaded, wire, page, confirming, removing,
                   dialog, gone, events, wishes>>

\* Nothing absent or on another network is alerted, and no alert reaches nobody.
Deliverable(targets) ==
    LET on == {d \in Devices : server[d] \in Status \ {"UNKNOWN"}}
    IN  IF targets = {} THEN on # {} ELSE targets \subseteq on

\* A list answer is the rows as they are now; a removal takes its row.  Any
\* request may also fail, taken or not.
Grant(r) ==
    /\ Waiting(r)
    /\ LET removed == IF request[r].kind \in {"remove", "drop"} THEN request[r].targets ELSE {}
           found == \A d \in removed : server[d] # "absent"
           served == [d \in Devices |-> IF d \in removed THEN "absent" ELSE server[d]]
       IN  \/ /\ found /\ (request[r].kind = "alert" => Deliverable(request[r].targets))
              /\ server' = served /\ gone' = gone \cup removed
              /\ \E a \in {"ok", "failed"} : Reply(r, a)
           \/ Reply(r, "failed") /\ UNCHANGED <<server, gone>>
    /\ UNCHANGED <<rows, loaded, wire, page, confirming, removing, dialog,
                   events, wishes>>

Back(r, kinds) ==
    request[r] # NoDevice /\ request[r].answer # "none" /\ request[r].kind \in kinds
Done(r) == request' = [request EXCEPT ![r] = NoDevice]
Refused(r) == request[r].answer = "failed"

LandList(r) ==
    /\ Back(r, {"list"}) /\ Done(r)
    /\ rows' = IF Refused(r) THEN rows ELSE request[r].read
    /\ loaded' = TRUE
    /\ UNCHANGED <<server, wire, page, confirming, removing, dialog, gone,
                   events, wishes>>

\* Mistake: the row that goes is the one the dialog names by now.
LandRemovalOnDialog(r) ==
    /\ Back(r, {"remove", "drop"}) /\ Done(r)
    /\ rows' = [d \in Devices |-> IF ~Refused(r) /\ d = confirming THEN "absent" ELSE rows[d]]
    /\ removing' = (removing /\ request[r].kind = "drop")
    /\ confirming' = IF Refused(r) \/ request[r].kind = "drop" THEN confirming ELSE NoDevice
    /\ UNCHANGED <<server, loaded, wire, page, dialog, gone, events, wishes>>

\* A success closes the page's dialog, also one opened since on another row.
LandRemoval(r) ==
    LET own == request[r].here /\ request[r].kind = "remove"
    IN  /\ Back(r, {"remove", "drop"}) /\ Done(r)
        /\ rows' = [d \in Devices |->
                      IF ~Refused(r) /\ d \in request[r].targets THEN "absent" ELSE rows[d]]
        /\ removing' = (removing /\ ~own)
        /\ confirming' = IF own /\ ~Refused(r) THEN NoDevice ELSE confirming
        /\ UNCHANGED <<server, loaded, wire, page, dialog, gone, events, wishes>>

LandAlert(r) ==
    /\ Back(r, {"alert"}) /\ Done(r)
    /\ dialog' = IF ~request[r].here \/ dialog = NoDevice THEN dialog
                 ELSE [dialog EXCEPT !.sending = FALSE,
                                     !.result = IF Refused(r) THEN @ ELSE request[r].targets]
    /\ UNCHANGED <<server, rows, loaded, wire, page, confirming, removing, gone,
                   events, wishes>>

-----------------------------------------------------------------------------
(* The rest of the network.                                                *)

Event == events < MaxEvents /\ events' = events + 1

\* A registration or a heartbeat; its frame reaches a socket that is up.
Beat(d, s) ==
    /\ Event
    /\ server' = [server EXCEPT ![d] = s]
    /\ \/ wire' = Append(wire, <<d, s>>)
       \/ UNCHANGED wire
    /\ UNCHANGED <<rows, loaded, page, confirming, removing, dialog, request,
                   gone, wishes>>

\* Another client's removal is not told to anyone.
RemovedElsewhere(d) ==
    /\ Event /\ server[d] # "absent"
    /\ server' = [server EXCEPT ![d] = "absent"] /\ gone' = gone \cup {d}
    /\ UNCHANGED <<rows, loaded, wire, page, confirming, removing, dialog, request, wishes>>

\* applyFrame: a row that is not listed is not added.
LandFrame ==
    /\ wire # <<>>
    /\ LET d == Head(wire)[1] IN
         rows' = [rows EXCEPT ![d] = IF @ = "absent" THEN @ ELSE Head(wire)[2]]
    /\ wire' = Tail(wire)
    /\ UNCHANGED <<server, loaded, page, confirming, removing, dialog,
                   request, gone, events, wishes>>

WebDevicesNext ==
    \/ LandFrame \/ CloseConfirm \/ CloseAlert \/ ToggleAll
    \/ \E p \in Pages : GoTo(p)
    \/ \E d \in Devices : AskRemoval(d) \/ Toggle(d) \/ RemovedElsewhere(d)
    \/ \E targets \in SUBSET Devices : OpenAlert(targets)
    \/ \E r \in Requests : LoadList(r) \/ ConfirmRemove(r) \/ SendAlert(r) \/ Grant(r)
    \/ \E r \in Requests, d \in Devices : DropGuest(r, d)
    \/ \E r \in Requests : LandList(r) \/ LandRemoval(r) \/ LandAlert(r)
    \/ \E d \in Devices, s \in Status : Beat(d, s)

WebDevicesSpec == WebDevicesInit /\ [][WebDevicesNext]_webDevicesVars

-----------------------------------------------------------------------------

\* A listed row goes only when the server has removed that device, whichever
\* dialogs were closed and opened while its removal ran; and a dialog reports
\* only an alert it sent itself, to what was selected in it then.
ActsOnWhatWasPicked ==
    [][/\ \A d \in Present : rows'[d] = "absent" => d \in gone
       /\ dialog' # NoDevice /\ dialog'.result # NoDevice =>
            dialog'.result \in dialog'.sent]_webDevicesVars
=============================================================================
