---------------------------- MODULE MobileDevices ----------------------------
(***************************************************************************)
(* The phone's device list and what is done from it: DeviceContext, the    *)
(* dashboard, one device's screen and their dialogs.                       *)
(*                                                                         *)
(* The list has three sources that race: answers to list calls, frames of  *)
(* the status socket, and answers to removals.  Every one is applied when  *)
(* it arrives.  asked[c] is an async function of the app and its request;  *)
(* what it does up to its next await is one step.                          *)
(*                                                                         *)
(* `known`, `stale`, `historyStale` and the `old` of calls and frames are  *)
(* history: what the last answer listed, and whether what is shown, or on  *)
(* its way, was overtaken.                                                 *)
(***************************************************************************)
EXTENDS Naturals, Sequences, FiniteSets, TLC

CONSTANTS
    Phones, Asks, None,
    MaxChanges,    \* bound: changes at the server, lost answers, errors, sign-outs
    MaxSends       \* bound: alerts the server takes

ASSUME DevicesBounds == {MaxChanges, MaxSends} \subseteq Nat

VARIABLES
    server,     \* [Phones -> Standing]: the rows of this network
    logged,     \* [Phones -> Nat]: alert_log rows
    list,       \* [Phones -> Shown]: DeviceContext's devices
    flags,      \* its isLoading, isRefreshing, isSending, and isAuthenticated
    screen,     \* dashboard target; device screen, its dialogs and its history
    asked,      \* [Asks -> Ask \cup {None}]
    socket,     \* "up" or "down"
    frames,     \* frames sent and not yet arrived, a FIFO
    known, stale, historyStale,
    changes

devicesVars == <<server, logged, list, flags, screen, asked, socket, frames,
                 known, stale, historyStale, changes>>

Statuses == {"ONLINE", "OFFLINE", "UNKNOWN"}
Standing == Statuses \cup {"absent", "removed"}
Shown == Statuses \cup {"absent"}
Empty == [d \in Phones |-> "absent"]

Items == [Phones -> Shown] \cup 0..MaxSends \cup {None}

\* An async function of the app: what it asked, of which device, from which of
\* this session's screens, and whether that screen has been left since.
Ask == [kind : {"first", "refresh", "log", "remove", "send"}, dev : Phones \cup {None},
        from : {"dashboard", "detail", None}, gone : BOOLEAN, at : {"sent", "answered"},
        result : {"ok", "refused", "lost", None}, items : Items, old : BOOLEAN]

\* None stands for "not there": it is no device, no screen, no result, no request.
ASSUME DevicesNames ==
    None \notin Phones \cup {"dashboard", "detail", "ok"} /\ None \notin Ask

Closed == [target |-> None, route |-> None, alertOpen |-> FALSE, removeOpen |-> FALSE,
           history |-> 0]

SignedOut == [loading |-> FALSE, refreshing |-> FALSE, sending |-> FALSE, signedIn |-> FALSE]

Listed == {d \in Phones : list[d] # "absent"}

\* canReceiveAlert, canSendAlertTo
CanAlert(status) == status # "UNKNOWN"

DevicesInit ==
    /\ server \in [Phones -> {"ONLINE", "absent"}]
    /\ logged = [d \in Phones |-> 0]
    /\ list = Empty /\ flags = SignedOut /\ screen = Closed
    /\ asked = [c \in Asks |-> None]
    /\ socket = "down" /\ frames = <<>>
    /\ known = {} /\ stale = FALSE /\ historyStale = FALSE
    /\ changes = 0

DevicesTypeOK ==
    /\ server \in [Phones -> Standing] /\ list \in [Phones -> Shown]
    /\ logged \in [Phones -> 0..MaxSends]
    /\ flags \in [loading : BOOLEAN, refreshing : BOOLEAN, sending : BOOLEAN, signedIn : BOOLEAN]
    /\ screen.target \in Phones \cup {None} /\ screen.route \in Phones \cup {None}
    /\ socket \in {"up", "down"} /\ known \subseteq Phones
    /\ changes \in 0..MaxChanges

-----------------------------------------------------------------------------
(* Requests.                                                               *)

Waiting(c, kind) == asked[c] # None /\ asked[c].kind = kind
Sends == {c \in Asks : Waiting(c, "send")}

\* The callers of load: the first load and a refresh.
IsListCall(r) == r.kind \in {"first", "refresh"}
ListCall(c) == asked[c] # None /\ IsListCall(asked[c])

NewAsk(kind, d, from) ==
    [kind |-> kind, dev |-> d, from |-> from, gone |-> FALSE, at |-> "sent",
     result |-> None, items |-> None, old |-> FALSE]

AskFor(c, record) == asked[c] = None /\ asked' = [asked EXCEPT ![c] = record]

Change ==
    changes < MaxChanges /\ changes' = changes + 1

Answered(c, result, items) ==
    [asked EXCEPT ![c].at = "answered", ![c].result = result, ![c].items = items]

\* Answers already read that an event has overtaken.
Overtaken(calls, Late(_)) ==
    [c \in Asks |-> IF calls[c] # None /\ Late(calls[c]) THEN [calls[c] EXCEPT !.old = TRUE]
                    ELSE calls[c]]

ReadList(r) == IsListCall(r) /\ r.at = "answered"
ReadHistory(r) == r.kind = "log" /\ r.at = "answered"

\* A screen that is gone hears of no answer; a history is read for nobody else.
Left(calls) ==
    [c \in Asks |-> IF calls[c] = None \/ Waiting(c, "log") THEN None
                    ELSE [calls[c] EXCEPT !.gone = TRUE]]

\* Nothing is left of a session's screens, nor of the navigation between them.
Unscreened(calls) ==
    [c \in Asks |-> IF calls[c] = None \/ Waiting(c, "log") THEN None
                    ELSE [calls[c] EXCEPT !.from = None]]

\* Begun on the device screen that is still there.
FromDetail(c) == asked[c].from = "detail" /\ ~asked[c].gone

\* What the server does with each kind of request.
Answer(c) ==
    /\ asked[c] # None /\ asked[c].at = "sent"
    /\ LET d == asked[c].dev
       IN  \/ /\ ListCall(c)
              /\ asked' = Answered(c, "ok", [p \in Phones |->
                            IF server[p] \in Statuses THEN server[p] ELSE "absent"])
              /\ UNCHANGED <<server, logged, historyStale>>
           \/ /\ Waiting(c, "remove") /\ server[d] \in Statuses
              /\ server' = [server EXCEPT ![d] = "removed"]
              /\ asked' = Answered(c, "ok", None)
              /\ UNCHANGED <<logged, historyStale>>
           \/ /\ Waiting(c, "send") /\ logged[d] < MaxSends
              /\ logged' = [logged EXCEPT ![d] = @ + 1]
              /\ asked' = Overtaken(Answered(c, "ok", None), ReadHistory)
              /\ historyStale' = (historyStale \/ (~FromDetail(c) /\ screen.route = d))
              /\ UNCHANGED server
           \/ /\ Waiting(c, "log")
              /\ asked' = Answered(c, "ok", logged[d])
              /\ UNCHANGED <<server, logged, historyStale>>
           \/ /\ asked[c].kind \in {"remove", "send"}
              /\ asked' = Answered(c, "refused", None)
              /\ UNCHANGED <<server, logged, historyStale>>
    /\ UNCHANGED <<list, flags, screen, socket, frames, known, stale, changes>>

\* The request or its answer is lost; the API client gives an error either way.
LoseAsk(c) ==
    /\ asked[c] # None /\ asked[c].result \notin {"refused", "lost"}
    /\ Change
    /\ asked' = Answered(c, "lost", None)
    /\ UNCHANGED <<server, logged, list, flags, screen, socket, frames, known, stale, historyStale>>

Arrived(c, kind) == Waiting(c, kind) /\ asked[c].at = "answered"

-----------------------------------------------------------------------------
(* DeviceContext.                                                          *)

LoadFirstPage(c) ==
    /\ AskFor(c, NewAsk("first", None, None))
    /\ flags' = [flags EXCEPT !.signedIn = TRUE, !.loading = TRUE]
    /\ UNCHANGED <<server, logged, list, screen, socket, frames, known, stale, historyStale>>

\* The first load, and the socket effect's connect.
SignInToList(c) ==
    /\ ~flags.signedIn
    /\ LoadFirstPage(c)
    /\ UNCHANGED changes

\* `load` is made anew with every value of ErrorContext: whenever errors of any
\* screen are shown, dismissed or expire, its effect loads the first page again.
ErrorsChange(c) ==
    /\ flags.signedIn
    /\ Change
    /\ LoadFirstPage(c)

\* The list is emptied and the socket closed, the screens unmounted; requests
\* in flight are not cancelled and land as if nothing had happened.
SignOutOfList ==
    /\ flags.signedIn
    /\ Change
    /\ flags' = [flags EXCEPT !.signedIn = FALSE]
    /\ list' = Empty /\ known' = {} /\ stale' = FALSE
    /\ screen' = Closed /\ historyStale' = FALSE
    /\ socket' = "down" /\ frames' = <<>>
    /\ asked' = Overtaken(Unscreened(asked), IsListCall)
    /\ UNCHANGED <<server, logged>>

\* Pull to refresh, and the empty state's button; nothing waits for the last.
RefreshList(c) ==
    /\ flags.signedIn /\ ~flags.loading /\ screen.target = None /\ screen.route = None
    /\ ~flags.refreshing \/ Listed = {}
    /\ AskFor(c, NewAsk("refresh", None, None))
    /\ flags' = [flags EXCEPT !.refreshing = TRUE]
    /\ UNCHANGED <<server, logged, list, screen, socket, frames, known, stale, historyStale, changes>>

Reloaded(c) ==
    IF Waiting(c, "first") THEN [flags EXCEPT !.loading = FALSE]
    ELSE [flags EXCEPT !.refreshing = FALSE]

\* load(FIRST_PAGE, replace): the answer is the list, whichever came before it.
LandList(c) ==
    /\ ListCall(c) /\ asked[c].at = "answered"
    /\ IF asked[c].result = "ok"
         THEN /\ list' = asked[c].items
              /\ known' = {d \in Phones : asked[c].items[d] # "absent"}
              /\ stale' = asked[c].old
         ELSE UNCHANGED <<list, known, stale>>
    /\ flags' = Reloaded(c)
    /\ asked' = [asked EXCEPT ![c] = None]
    /\ UNCHANGED <<server, logged, screen, socket, frames, historyStale, changes>>

\* Mistake: the handler maps the list its effect closed over, which was still empty.
LandFrameOnCaptured ==
    /\ frames # <<>> /\ frames' = Tail(frames)
    /\ list' = Empty /\ stale' = (stale \/ Head(frames).old)
    /\ asked' = Overtaken(asked, ReadList)
    /\ UNCHANGED <<server, logged, flags, screen, socket, known, historyStale, changes>>

\* A frame changes the device if it is listed.  A null status would leave it as
\* it is, but the server sends none.
LandFrame ==
    /\ frames # <<>> /\ frames' = Tail(frames)
    /\ LET f == Head(frames)
       IN  /\ list' = [list EXCEPT ![f.dev] = IF @ = "absent" THEN @ ELSE f.status]
           /\ stale' = (stale \/ f.old)
    /\ asked' = Overtaken(asked, ReadList)
    /\ UNCHANGED <<server, logged, flags, screen, socket, known, historyStale, changes>>

\* removeDevice, then goBack, whether or not it worked: a device's screen closes,
\* also under an alert dialog opened in the meantime, and if the user has left by
\* himself, also the screen of another device that he has opened since.
LandRemoval(c) ==
    /\ Arrived(c, "remove")
    /\ LET d == asked[c].dev
           ok == asked[c].result = "ok"
           back == asked[c].from = "detail" /\ screen.route # None
           calls == [IF ok THEN Overtaken(asked, ReadList) ELSE asked EXCEPT ![c] = None]
       IN  /\ list' = IF ok THEN [list EXCEPT ![d] = "absent"] ELSE list
           /\ known' = IF ok THEN known \ {d} ELSE known
           /\ asked' = IF back THEN Left(calls) ELSE calls
           /\ screen' = IF back THEN Closed ELSE screen
           /\ historyStale' = (historyStale /\ ~back)
    /\ UNCHANGED <<server, logged, flags, socket, frames, stale, changes>>

-----------------------------------------------------------------------------
(* The dashboard and its dialog.  A modal covers the screen under it.      *)

OnDashboard == flags.signedIn /\ screen.route = None /\ screen.target = None

OnDetail ==
    /\ flags.signedIn /\ screen.route # None
    /\ ~screen.alertOpen /\ ~screen.removeOpen

\* The screen says "no longer on the network" and shows no dialogs.
Missing == screen.route # None /\ list[screen.route] = "absent"

OpenTarget(d) ==
    /\ OnDashboard /\ ~flags.loading
    /\ d \in Listed /\ CanAlert(list[d])
    /\ screen' = [screen EXCEPT !.target = d]
    /\ UNCHANGED <<server, logged, list, flags, asked, socket, frames, known, stale, historyStale, changes>>

Send(c, d, from) ==
    /\ AskFor(c, NewAsk("send", d, from))
    /\ flags' = [flags EXCEPT !.sending = TRUE]
    /\ UNCHANGED <<server, logged, list, screen, socket, frames, known, stale, historyStale, changes>>

\* The confirm button is inert while any alert is being sent.
ConfirmTarget(c) ==
    /\ screen.target # None /\ ~flags.sending
    /\ Send(c, screen.target, "dashboard")

\* Mistake: the dialog can be dismissed while it is sending.
DismissWhileBusy ==
    /\ \/ screen.target # None /\ screen' = [screen EXCEPT !.target = None]
       \/ screen.alertOpen /\ ~Missing /\ screen' = [screen EXCEPT !.alertOpen = FALSE]
       \/ screen.removeOpen /\ ~Missing /\ screen' = [screen EXCEPT !.removeOpen = FALSE]
    /\ UNCHANGED <<server, logged, list, flags, asked, socket, frames, known, stale, historyStale, changes>>

\* ConfirmDialog: cancel, the scrim and the back gesture are inert while busy;
\* the removal dialog is never busy.
Dismiss ==
    /\ \/ ~flags.sending /\ screen.target # None /\ screen' = [screen EXCEPT !.target = None]
       \/ ~flags.sending /\ screen.alertOpen /\ ~Missing /\ screen' = [screen EXCEPT !.alertOpen = FALSE]
       \/ screen.removeOpen /\ ~Missing /\ screen' = [screen EXCEPT !.removeOpen = FALSE]
    /\ UNCHANGED <<server, logged, list, flags, asked, socket, frames, known, stale, historyStale, changes>>

LandDashboardSend(c) ==
    /\ Arrived(c, "send") /\ ~FromDetail(c)
    /\ flags' = [flags EXCEPT !.sending = FALSE]
    /\ screen' = IF asked[c].from = "dashboard" THEN [screen EXCEPT !.target = None] ELSE screen
    /\ asked' = [asked EXCEPT ![c] = None]
    /\ UNCHANGED <<server, logged, list, socket, frames, known, stale, historyStale, changes>>

-----------------------------------------------------------------------------
(* One device's screen.                                                    *)

OpenDetail(c, d) ==
    /\ OnDashboard /\ ~flags.loading /\ d \in Listed
    /\ screen' = [Closed EXCEPT !.route = d]
    /\ historyStale' = FALSE
    /\ AskFor(c, NewAsk("log", d, "detail"))
    /\ UNCHANGED <<server, logged, list, flags, socket, frames, known, stale, changes>>

GoBack ==
    /\ OnDetail \/ Missing
    /\ screen' = Closed /\ historyStale' = FALSE
    /\ asked' = Left(asked)
    /\ UNCHANGED <<server, logged, list, flags, socket, frames, known, stale, changes>>

OpenAlertDialog ==
    /\ OnDetail /\ ~Missing /\ CanAlert(list[screen.route])
    /\ screen' = [screen EXCEPT !.alertOpen = TRUE]
    /\ UNCHANGED <<server, logged, list, flags, asked, socket, frames, known, stale, historyStale, changes>>

OpenRemoveDialog ==
    /\ OnDetail /\ ~Missing
    /\ screen' = [screen EXCEPT !.removeOpen = TRUE]
    /\ UNCHANGED <<server, logged, list, flags, asked, socket, frames, known, stale, historyStale, changes>>

\* onRemove closes its dialog at once.
ConfirmRemove(c) ==
    /\ screen.removeOpen /\ ~Missing
    /\ AskFor(c, NewAsk("remove", screen.route, "detail"))
    /\ screen' = [screen EXCEPT !.removeOpen = FALSE]
    /\ UNCHANGED <<server, logged, list, flags, socket, frames, known, stale, historyStale, changes>>

\* A guest's row in the settings has a button of its own, and asks nothing.
RemoveGuest(c, d) ==
    /\ OnDashboard /\ d \in Listed
    /\ AskFor(c, NewAsk("remove", d, None))
    /\ UNCHANGED <<server, logged, list, flags, screen, socket, frames, known, stale, historyStale, changes>>

ConfirmAlert(c) ==
    /\ screen.alertOpen /\ ~Missing /\ ~flags.sending
    /\ Send(c, screen.route, "detail")

\* Mistake: the history is read again only if the alert went through.
LandDetailSendIfSent(c) ==
    /\ Arrived(c, "send") /\ FromDetail(c)
    /\ flags' = [flags EXCEPT !.sending = FALSE]
    /\ screen' = [screen EXCEPT !.alertOpen = FALSE]
    /\ asked' = [asked EXCEPT ![c] =
                   IF asked[c].result = "ok" THEN NewAsk("log", asked[c].dev, "detail") ELSE None]
    /\ UNCHANGED <<server, logged, list, socket, frames, known, stale, historyStale, changes>>

\* onConfirmAlert reads the history again, however the send ended.
LandDetailSend(c) ==
    /\ Arrived(c, "send") /\ FromDetail(c)
    /\ flags' = [flags EXCEPT !.sending = FALSE]
    /\ screen' = [screen EXCEPT !.alertOpen = FALSE]
    /\ asked' = [asked EXCEPT ![c] = NewAsk("log", asked[c].dev, "detail")]
    /\ UNCHANGED <<server, logged, list, socket, frames, known, stale, historyStale, changes>>

\* A failed read keeps what was shown.
LandHistory(c) ==
    /\ Arrived(c, "log")
    /\ asked' = [asked EXCEPT ![c] = None]
    /\ IF asked[c].result = "ok"
         THEN screen' = [screen EXCEPT !.history = asked[c].items] /\ historyStale' = asked[c].old
         ELSE UNCHANGED screen /\ historyStale' = TRUE
    /\ UNCHANGED <<server, logged, list, flags, socket, frames, known, stale, changes>>

-----------------------------------------------------------------------------
(* The server and the socket.                                              *)

Missed == socket = "down"

\* A heartbeat; a connected app is sent a frame of it.
Beaten(d, status) ==
    /\ server[d] \in Statuses
    /\ server' = [server EXCEPT ![d] = status]
    /\ frames' = IF Missed THEN frames
                 ELSE Append(frames, [dev |-> d, status |-> status, old |-> FALSE])
    /\ stale' = (stale \/ Missed)
    /\ asked' = IF Missed THEN Overtaken(asked, ReadList) ELSE asked

\* Without a frame: the phone registers again, a push finds its token dead, or
\* it has been silent for too long.
Unannounced(d, status) ==
    /\ server[d] \in Statuses \ {status}
    /\ server' = [server EXCEPT ![d] = status]
    /\ frames' = [i \in DOMAIN frames |->
                     [frames[i] EXCEPT !.old = @ \/ frames[i].dev = d]]
    /\ stale' = TRUE
    /\ asked' = Overtaken(asked, ReadList)

\* The other two: a new row, or somebody else's removal.
RowChange(d) ==
    /\ Change
    /\ \/ \E status \in {"ONLINE", "UNKNOWN"} : Beaten(d, status)
       \/ \E status \in {"ONLINE", "OFFLINE"} : Unannounced(d, status)
       \/ /\ server[d] # "removed"
          /\ server' = [server EXCEPT ![d] = IF @ = "absent" THEN "ONLINE" ELSE "removed"]
          /\ UNCHANGED <<frames, stale, asked>>
    /\ UNCHANGED <<logged, list, flags, screen, socket, known, historyStale>>

OpenSocket ==
    /\ flags.signedIn /\ socket = "down" /\ socket' = "up"
    /\ UNCHANGED <<server, logged, list, flags, screen, asked, frames, known, stale, historyStale, changes>>

\* What was on its way is lost, and nothing is read again when it is back.
DropSocket ==
    /\ socket = "up" /\ socket' = "down"
    /\ Change
    /\ frames' = <<>>
    /\ stale' = (stale \/ frames # <<>>)
    /\ asked' = IF frames # <<>> THEN Overtaken(asked, ReadList) ELSE asked
    /\ UNCHANGED <<server, logged, list, flags, screen, known, historyStale>>

DevicesNext ==
    \/ SignOutOfList \/ LandFrame \/ Dismiss \/ GoBack
    \/ OpenAlertDialog \/ OpenRemoveDialog \/ OpenSocket \/ DropSocket
    \/ \E c \in Asks :
         \/ Answer(c) \/ LoseAsk(c) \/ SignInToList(c) \/ ErrorsChange(c) \/ RefreshList(c)
         \/ LandList(c) \/ LandRemoval(c) \/ ConfirmTarget(c) \/ LandDashboardSend(c)
         \/ ConfirmRemove(c) \/ ConfirmAlert(c) \/ LandDetailSend(c) \/ LandHistory(c)
    \/ \E c \in Asks, d \in Phones : OpenDetail(c, d) \/ RemoveGuest(c, d)
    \/ \E d \in Phones : OpenTarget(d) \/ RowChange(d)

DevicesSpec == DevicesInit /\ [][DevicesNext]_devicesVars

-----------------------------------------------------------------------------
(* Safety.                                                                 *)

\* Frames, removals and answers meet in one list and none undoes another's
\* work, with three exceptions that `stale` records: an answer that was read
\* before a frame or removal landed and lands after it, a frame missed while the
\* socket was down, and a status that changed without a frame since the list was
\* read (or before a frame that was already on its way).  Else the list is the
\* last answer's devices less those removed since, each with the status the
\* server has for it.
ListCatchesUp ==
    ~stale =>
      /\ Listed = known
      /\ frames = <<>> => \A d \in Listed : server[d] \in {list[d], "removed"}

\* DeviceContext.tsx says that every screen reads one "always-current" list: with
\* the socket up, no frame on its way and no list being read, the devices shown
\* have the status the server has for them.
ListIsCurrent ==
    socket = "up" /\ frames = <<>> /\ ~(\E c \in Asks : ListCall(c)) =>
      \A d \in Listed : server[d] \in {list[d], "removed"}

\* The dialog a send was confirmed in is on the phone, for the same device.
InDialog(c) ==
    /\ c \in Sends
    /\ \/ asked[c].from = "dashboard" /\ screen.target = asked[c].dev
       \/ FromDetail(c) /\ screen.route = asked[c].dev /\ screen.alertOpen /\ ~Missing

\* isSending is held by exactly one send at a time, and no key, tap or gesture
\* takes its dialog away while it runs: the dialog goes with the send's own
\* answer, with the session, when the device has left the list, or when the
\* answer to a removal asked for on a device's screen lands.
OneSendItsDialog ==
    /\ [](Cardinality(Sends) = IF flags.sending THEN 1 ELSE 0)
    /\ [][\A c \in Asks : InDialog(c) /\ ~InDialog(c)' =>
            \/ Arrived(c, "send") /\ c \notin Sends'
            \/ ~flags'.signedIn
            \/ asked[c].from = "detail" /\ list'[asked[c].dev] = "absent"
            \/ asked[c].from = "detail" /\ \E r \in Asks :
                 Arrived(r, "remove") /\ asked[r].from = "detail" /\ asked'[r] = None]_devicesVars

\* useAlerts.ts says that "the dialog must stay open, and un-dismissable, while a
\* send is on the wire": as long as the session lasts, a send's dialog is there.
DialogStaysOpen ==
    \A c \in Sends : asked[c].from # None => InDialog(c)

\* The history shows the alert just sent, even when the app never learnt that
\* the server took it; unless an answer read before the alert landed last, the
\* reading itself failed, or the alert was sent by a screen that has gone.
HistoryShowsSends ==
    screen.route # None /\ ~historyStale /\
    (\A c \in Asks : asked[c] # None => asked[c].kind \notin {"log", "send"}) =>
      screen.history = logged[screen.route]
=============================================================================
