--------------------------- MODULE MobileSession ----------------------------
(***************************************************************************)
(* One phone: who it is signed in as, and the device row it keeps alive.   *)
(*                                                                         *)
(* JavaScript runs one step at a time, but every await is a point where    *)
(* another async function goes on: a registration, a heartbeat, a sign-in  *)
(* and the answer to a screen's request interleave, and meet in three      *)
(* places, AsyncStorage (`store`), React state and refs (`app`), and the   *)
(* server.  A running async function is a call: call[c] is where it is.    *)
(* One step takes a call from one await to the next; what it asked of      *)
(* AsyncStorage takes effect in the step in which it is answered.          *)
(*                                                                         *)
(* The server is reduced to what its answers depend on: which user tokens  *)
(* are dead, the phone's rows and who administers each network.            *)
(***************************************************************************)
EXTENDS Naturals, Sequences

CONSTANTS
    Users, Bssids, None,
    Places,        \* what the phone can read as its BSSID, None for nothing
    Calls,         \* bound: async functions running at once
    MaxSignIns, MaxRows,     \* bounds
    MaxTroubles    \* bound: relaunches, losses, expiries, rotations, walks, together

ASSUME MobileBounds ==
    /\ Places \subseteq Bssids \cup {None}
    /\ {MaxSignIns, MaxRows, MaxTroubles} \subseteq Nat

VARIABLES
    store,      \* the three AsyncStorage keys
    app,        \* React state, refs and module state of this launch
    call,       \* [Calls -> Call \cup {None}]
    rows,       \* server: [Rows -> Row \cup {None}], this phone's rows
    admin,      \* server: [Bssids -> Users \cup {None}]
    dead,       \* server: the sign-ins whose token is revoked or expired
    wifi,       \* the BSSID the phone can read now, or None
    count,      \* how often each bounded thing has happened
    overlapped  \* history: something began while a call ran or an effect was due

vars == <<store, app, call, rows, admin, dead, wifi, count, overlapped>>

Rows == 1..MaxRows
PushTokens == 0..MaxTroubles

UserTokens == {"user"} \X Users \X (1..MaxSignIns)
DeviceTokens == {"device"} \X Rows
Tokens == UserTokens \cup DeviceTokens

Row == [owner : Users \cup {None}, mac : Bssids, push : PushTokens \cup {None}]

Nothing == [token |-> None, user |-> None, device |-> None]

\* previousUserId starts as a symbol that is neither a user nor null.
Unset == "unset"

\* What can be told apart: null, and that symbol, from every value that is there.
ASSUME MobileNames ==
    /\ \A S \in {Users, Bssids, Tokens, Rows, PushTokens, Row} : None \notin S
    /\ Unset \notin Users /\ Unset # None

Deps(a) == <<a.push, a.ready, a.loading, a.user>>

\* A launch: nothing restored, nothing asked, `since` the sign-ins before it.
Launched(since) ==
    [loading |-> TRUE, token |-> None, user |-> None,
     ready |-> FALSE, push |-> None, listening |-> FALSE,
     device |-> None, registering |-> FALSE, mac |-> None, previous |-> Unset,
     deps |-> None, reads |-> <<>>, since |-> since]

NewCall(fn, at) ==
    [fn |-> fn, at |-> at, request |-> None, user |-> None, push |-> None,
     dev |-> None, mac |-> None, cred |-> None, answer |-> None]

Answer(kind, dev, cred) == [kind |-> kind, dev |-> dev, cred |-> cred]

TypeOK ==
    /\ store \in [token : Tokens \cup {None}, user : Users \cup {None},
                  device : Rows \cup {None}]
    /\ app.token \in Tokens \cup {None} /\ app.user \in Users \cup {None}
    /\ app.push \in PushTokens \cup {None} /\ app.device \in Rows \cup {None}
    /\ app.mac \in Bssids \cup {None} /\ app.previous \in Users \cup {None, Unset}
    /\ {app.loading, app.ready, app.listening, app.registering} \subseteq BOOLEAN
    /\ rows \in [Rows -> Row \cup {None}]
    /\ admin \in [Bssids -> Users \cup {None}]
    /\ dead \subseteq 1..MaxSignIns /\ wifi \in Bssids \cup {None}
    /\ overlapped \in BOOLEAN
    /\ \A c \in Calls : call[c] # None =>
         /\ call[c].cred \in Tokens \cup {None} /\ call[c].dev \in Rows \cup {None}
         /\ call[c].mac \in Bssids \cup {None} /\ call[c].user \in Users \cup {None}

Init ==
    /\ store = Nothing
    /\ app = Launched(0)
    /\ call = [c \in Calls |-> None]
    /\ rows = [d \in Rows |-> None]
    /\ admin \in [Bssids -> Users \cup {None}]
    /\ dead = {}
    /\ wifi \in Places
    /\ count = [signIns |-> 0, rows |-> 0, rotations |-> 0, troubles |-> 0]
    /\ overlapped = FALSE

-----------------------------------------------------------------------------
(* Calls, and what overlaps with them.                                     *)

Running == {c \in Calls : call[c] # None}
EffectDue == Deps(app) # app.deps
Quiet == Running = {} /\ ~EffectDue /\ ~app.loading

Trouble ==
    /\ count.troubles < MaxTroubles
    /\ count' = [count EXCEPT !.troubles = @ + 1]

\* What begins while a call runs may meet it half-way.
Meddle == overlapped' = (overlapped \/ ~Quiet)

Start(c, record) == call[c] = None /\ call' = [call EXCEPT ![c] = record]
Goto(c, at) == call' = [call EXCEPT ![c].at = at]
End(c) == call' = [call EXCEPT ![c] = None]

\* The interceptor reads the stored token when the request is sent.
Request(c, kind, record) ==
    call' = [call EXCEPT ![c] = [record EXCEPT !.request = kind, !.at = "send"]]

\* A call that does nothing before it sends.
Ask(c, kind, user) ==
    Start(c, [NewCall(kind, "sent") EXCEPT !.request = kind, !.user = user, !.cred = store.token])

Send(c) ==
    /\ call[c] # None /\ call[c].at = "send"
    /\ call' = [call EXCEPT ![c].cred = store.token, ![c].at = "sent"]
    /\ UNCHANGED <<store, app, rows, admin, dead, wifi, count, overlapped>>

-----------------------------------------------------------------------------
(* The server.                                                             *)

Live(cred) == cred \in UserTokens /\ cred[3] \notin dead

\* Nobody waits for an orphan's answer.
Reply(c, answer) ==
    IF call[c].at = "orphan"
      THEN End(c)
      ELSE call' = [call EXCEPT ![c].answer = answer, ![c].at = "answered"]

\* The owner's row anywhere, or the guest row on this network.
RowsOf(user, mac) ==
    {d \in Rows : /\ rows[d] # None /\ rows[d].owner = user
                  /\ user # None \/ rows[d].mac = mac}

\* get_optional_user_id: no token is a guest, a token that is no live user
\* token is an error.
Register(c) ==
    LET r == call[c]
        user == IF r.cred = None THEN None ELSE r.cred[2]
        found == RowsOf(user, r.mac)
        new == count.rows + 1
        d == IF found = {} THEN new ELSE CHOOSE e \in found : TRUE
    IN  /\ r.request = "register"
        /\ IF r.cred # None /\ ~Live(r.cred)
             THEN Reply(c, Answer("rejected", None, None)) /\ UNCHANGED <<rows, admin, count>>
           ELSE IF user = None /\ admin[r.mac] = None
             THEN Reply(c, Answer("refused", None, None)) /\ UNCHANGED <<rows, admin, count>>
           ELSE /\ d \in Rows
                /\ rows' = [rows EXCEPT ![d] = [owner |-> user, mac |-> r.mac, push |-> r.push]]
                /\ admin' = [admin EXCEPT ![r.mac] = IF @ = None THEN user ELSE @]
                /\ count' = [count EXCEPT !.rows = IF found = {} THEN new ELSE @]
                /\ Reply(c, Answer("ok", d, IF user = None THEN <<"device", d>> ELSE None))
        /\ UNCHANGED dead

\* Only the administrator of the row's network may remove it.
Remove(c) ==
    LET d == call[c].dev
        cred == call[c].cred
        mayRemove == rows[d] # None /\ admin[rows[d].mac] = cred[2]
    IN  /\ call[c].request = "remove"
        /\ IF ~Live(cred)
             THEN Reply(c, Answer("rejected", None, None)) /\ UNCHANGED rows
             ELSE /\ Reply(c, Answer(IF mayRemove THEN "ok" ELSE "refused", None, None))
                  /\ rows' = IF mayRemove THEN [rows EXCEPT ![d] = None] ELSE rows
        /\ UNCHANGED <<admin, dead, count>>

\* require_device_access: this device's own token, or its owner's.
Beat(c) ==
    LET d == call[c].dev
        cred == call[c].cred
    IN  /\ call[c].request = "beat"
        /\ Reply(c, Answer(
             IF cred \in DeviceTokens
               THEN IF cred[2] = d /\ rows[d] # None THEN "ok" ELSE "refused"
             ELSE IF ~Live(cred) THEN "rejected"
             ELSE IF rows[d] # None /\ rows[d].owner = cred[2] THEN "ok" ELSE "refused",
             None, None))
        /\ UNCHANGED <<rows, admin, dead, count>>

\* Any other endpoint a screen calls.
Other(c) ==
    /\ call[c].request = "fetch"
    /\ Reply(c, Answer(IF Live(call[c].cred) THEN "ok" ELSE "rejected", None, None))
    /\ UNCHANGED <<rows, admin, dead, count>>

SignIn(c) ==
    LET n == count.signIns + 1
    IN  /\ call[c].request = "login"
        /\ \/ /\ n <= MaxSignIns
              /\ Reply(c, Answer("ok", None, <<"user", call[c].user, n>>))
              /\ count' = [count EXCEPT !.signIns = n]
           \/ Reply(c, Answer("refused", None, None)) /\ UNCHANGED count
        /\ UNCHANGED <<rows, admin, dead>>

\* A sign-out without a good token has nothing left to do, and is no error.
SignOut(c) ==
    /\ call[c].request = "logout"
    /\ dead' = IF Live(call[c].cred) THEN dead \cup {call[c].cred[3]} ELSE dead
    /\ Reply(c, Answer("ok", None, None))
    /\ UNCHANGED <<rows, admin, count>>

Serve(c) ==
    /\ call[c] # None /\ call[c].at \in {"sent", "orphan"}
    /\ Register(c) \/ Remove(c) \/ Beat(c) \/ Other(c) \/ SignIn(c) \/ SignOut(c)
    /\ UNCHANGED <<store, app, wifi, overlapped>>

\* The request is lost, or its answer is: the client cannot tell.
Lose(c) ==
    /\ call[c] # None /\ call[c].at \in {"sent", "orphan", "answered"}
    /\ Trouble
    /\ IF call[c].at = "orphan" THEN End(c)
       ELSE call' = [call EXCEPT ![c].answer = Answer("lost", None, None), ![c].at = "answered"]
    /\ UNCHANGED <<store, app, rows, admin, dead, wifi, overlapped>>

-----------------------------------------------------------------------------
(* The client's side of an answer.                                         *)

Succeeded(c, kind) ==
    /\ call[c] # None /\ call[c].request = kind
    /\ call[c].at = "answered" /\ call[c].answer.kind = "ok"

Failed(c, kind) ==
    /\ call[c] # None /\ call[c].request = kind
    /\ call[c].at = "answered" /\ call[c].answer.kind \in {"refused", "lost"}

Forget(a) == [a EXCEPT !.user = None, !.token = None, !.listening = FALSE]

\* register() up to its first await: the overlap guard.
TryRegister(c) ==
    IF app.registering THEN End(c)
    ELSE call' = [call EXCEPT ![c].request = "register", ![c].at = "bssid"]

\* What each caller does about a failure, whatever it was; a sign-out has still
\* to clear what is stored.
AfterFailure(c) ==
    IF call[c].request = "remove" THEN TryRegister(c)
    ELSE IF call[c].request = "logout" THEN Goto(c, "clear")
    ELSE End(c)

\* Mistake: register has no finally.
ReleasedLate(c, a) == a

Released(c, a) ==
    [a EXCEPT !.registering = IF call[c].request = "register" THEN FALSE ELSE @]

Fail(c) ==
    /\ \E kind \in {"register", "remove", "beat", "fetch", "login", "logout"} : Failed(c, kind)
    /\ app' = Released(c, app)
    /\ AfterFailure(c)
    /\ UNCHANGED <<store, rows, admin, dead, wifi, count, overlapped>>

(***************************************************************************)
(* The response interceptor: a session-ending code clears whatever is      *)
(* stored by now, not the token that was rejected; then the caller fails.  *)
(***************************************************************************)
ClearToken(c) ==
    /\ call[c] # None /\ call[c].at = "answered" /\ call[c].answer.kind = "rejected"
    /\ store' = [store EXCEPT !.token = None]
    /\ Goto(c, "clearing")
    /\ UNCHANGED <<app, rows, admin, dead, wifi, count, overlapped>>

ClearUser(c) ==
    /\ call[c] # None /\ call[c].at = "clearing"
    /\ store' = [store EXCEPT !.user = None]
    /\ app' = Released(c, Forget(app))
    /\ AfterFailure(c)
    /\ UNCHANGED <<rows, admin, dead, wifi, count, overlapped>>

-----------------------------------------------------------------------------
(* AuthContext.                                                            *)

server == <<rows, admin, dead>>

Restore ==
    /\ app.loading
    /\ app' = [app EXCEPT !.token = store.token, !.user = store.user, !.loading = FALSE]
    /\ UNCHANGED <<store, call, server, wifi, count, overlapped>>

\* The form waits for its answer; the log-out dialog does not.
AuthBusy == \E c \in Running : call[c].fn = "login"

\* The sign-in and register forms are what a phone without a token shows.
Login(c, u) ==
    /\ ~app.loading /\ app.token = None /\ ~AuthBusy
    /\ Ask(c, "login", u)
    /\ Meddle
    /\ UNCHANGED <<store, app, server, wifi, count>>

PersistToken(c) ==
    /\ Succeeded(c, "login")
    /\ store' = [store EXCEPT !.token = call[c].answer.cred]
    /\ Goto(c, "persist")
    /\ UNCHANGED <<app, server, wifi, count, overlapped>>

PersistUser(c) ==
    /\ call[c] # None /\ call[c].at = "persist"
    /\ store' = [store EXCEPT !.user = call[c].user]
    /\ app' = [app EXCEPT !.token = call[c].answer.cred]
    /\ Goto(c, "user")
    /\ UNCHANGED <<server, wifi, count, overlapped>>

SetUser(c) ==
    /\ call[c] # None /\ call[c].at = "user"
    /\ app' = [app EXCEPT !.user = store.user]
    /\ End(c)
    /\ UNCHANGED <<store, server, wifi, count, overlapped>>

Logout(c) ==
    /\ ~app.loading /\ app.token # None
    /\ Ask(c, "logout", None)
    /\ Meddle
    /\ UNCHANGED <<store, app, server, wifi, count>>

AskedOut(c) == Succeeded(c, "logout") \/ (call[c] # None /\ call[c].at = "clear")

\* Mistake: storage is cleared only when the server took the sign-out.
ClearAllIfAccepted(c) ==
    /\ AskedOut(c)
    /\ store' = IF Succeeded(c, "logout") THEN Nothing ELSE store
    /\ app' = Forget(app)
    /\ End(c)
    /\ UNCHANGED <<server, wifi, count, overlapped>>

\* Whatever the server said.
ClearAll(c) ==
    /\ AskedOut(c)
    /\ store' = Nothing
    /\ app' = Forget(app)
    /\ End(c)
    /\ UNCHANGED <<server, wifi, count, overlapped>>

\* A screen of the signed-in stack asks the server for something.
Fetch(c) ==
    /\ app.token # None
    /\ \A o \in Calls : call[o] # None => call[o].fn # "fetch"
    /\ Ask(c, "fetch", None)
    /\ Meddle
    /\ UNCHANGED <<store, app, server, wifi, count>>

EndFetch(c) ==
    /\ Succeeded(c, "fetch")
    /\ End(c)
    /\ UNCHANGED <<store, app, server, wifi, count, overlapped>>

-----------------------------------------------------------------------------
(* usePushNotifications.                                                   *)

\* The platform's token; null when declined, or when it could not be had.
PermissionAnswers == {count.rotations, None}

\* The permission request settles, either way.
SettlePush ==
    /\ ~app.ready
    /\ \E token \in PermissionAnswers :
         app' = [app EXCEPT !.push = token, !.ready = TRUE,
                            !.listening = @ \/ token # None]
    /\ overlapped' = (overlapped \/ Running # {})
    /\ UNCHANGED <<store, call, server, wifi, count>>

RotateToken ==
    /\ count.troubles < MaxTroubles
    /\ count' = [count EXCEPT !.troubles = @ + 1, !.rotations = @ + 1]
    /\ app' = [app EXCEPT !.push = count.rotations + 1]
    /\ Meddle
    /\ UNCHANGED <<store, call, server, wifi>>

-----------------------------------------------------------------------------
(* useDeviceRegistration.                                                  *)

\* The effect runs when what it depends on has changed, and closes over it.
\* AsyncStorage answers reads in the order they were asked.
RunEffect(c, settled) ==
    /\ EffectDue
    /\ app' = [app EXCEPT !.deps = Deps(app),
                          !.reads = IF settled THEN Append(@, c) ELSE @]
    /\ IF settled
         THEN Start(c, [NewCall("settle", "read") EXCEPT !.user = app.user, !.push = app.push])
         ELSE UNCHANGED call
    /\ overlapped' = (overlapped \/ (settled /\ Running # {}))
    /\ UNCHANGED <<store, server, wifi, count>>

\* Mistakes: the effect does not wait for the push token, or the session.
SettleUnready(c) ==
    RunEffect(c, ~app.loading)

SettleUnrestored(c) ==
    RunEffect(c, app.ready)

\* Nothing happens until the push token and the session have both settled.
Settle(c) ==
    RunEffect(c, app.ready /\ ~app.loading)

\* settle() after it has read the stored device id.
ReadStored(c) ==
    /\ app.reads # <<>> /\ c = Head(app.reads)
    /\ LET user == call[c].user
           changed == app.previous # Unset /\ app.previous # user
           retire == changed /\ app.previous = None /\ user # None
       IN  /\ app' = [app EXCEPT !.previous = user, !.reads = Tail(@),
                        !.device = IF changed THEN None
                                   ELSE IF store.device # None THEN store.device ELSE @]
           /\ IF changed
                THEN call' = [call EXCEPT ![c].at = "drop",
                                          ![c].dev = IF retire THEN store.device ELSE None]
                ELSE TryRegister(c)
    /\ UNCHANGED <<store, server, wifi, count, overlapped>>

DropStored(c) ==
    /\ call[c] # None /\ call[c].at = "drop"
    /\ store' = [store EXCEPT !.device = None]
    /\ IF call[c].dev # None THEN Request(c, "remove", call[c]) ELSE TryRegister(c)
    /\ UNCHANGED <<app, server, wifi, count, overlapped>>

Retired(c) ==
    /\ Succeeded(c, "remove")
    /\ TryRegister(c)
    /\ UNCHANGED <<store, app, server, wifi, count, overlapped>>

\* getWifiMacAddress has answered; only now is the guard set.
ReadBssid(c) ==
    /\ call[c] # None /\ call[c].at = "bssid" /\ call[c].request = "register"
    /\ IF wifi = None THEN End(c) /\ UNCHANGED app
       ELSE /\ app' = [app EXCEPT !.registering = TRUE]
            /\ Request(c, "register", [call[c] EXCEPT !.mac = wifi])
    /\ UNCHANGED <<store, server, wifi, count, overlapped>>

Registered(c, a) ==
    [a EXCEPT !.device = call[c].answer.dev, !.mac = call[c].mac, !.registering = FALSE]

\* An account's phone is done; a guest's has a token to keep.
StoreDevice(c) ==
    /\ Succeeded(c, "register")
    /\ store' = [store EXCEPT !.device = call[c].answer.dev]
    /\ IF call[c].answer.cred # None
         THEN Goto(c, "credential") /\ UNCHANGED app
         ELSE app' = Registered(c, app) /\ End(c)
    /\ UNCHANGED <<server, wifi, count, overlapped>>

\* Mistake: the token is put under the user's key.
StoreCredentialAsUser(c) ==
    /\ call[c] # None /\ call[c].at = "credential"
    /\ store' = [store EXCEPT !.user = call[c].answer.cred]
    /\ app' = Registered(c, app)
    /\ End(c)
    /\ UNCHANGED <<server, wifi, count, overlapped>>

\* The guest's token goes where a user's would.
StoreCredential(c) ==
    /\ call[c] # None /\ call[c].at = "credential"
    /\ store' = [store EXCEPT !.token = call[c].answer.cred]
    /\ app' = Registered(c, app)
    /\ End(c)
    /\ UNCHANGED <<server, wifi, count, overlapped>>

\* A heartbeat closes over the device id it was started for.  One ends, by the
\* API timeout if need be, before the interval starts the next.
Tick(c) ==
    /\ app.device # None
    /\ \A o \in Calls : call[o] # None => call[o].fn # "beat" \/ call[o].dev # app.device
    /\ Start(c, [NewCall("beat", "bssid") EXCEPT !.request = "beat", !.dev = app.device])
    /\ Meddle
    /\ UNCHANGED <<store, app, server, wifi, count>>

TickRead(c) ==
    /\ call[c] # None /\ call[c].at = "bssid" /\ call[c].request = "beat"
    /\ IF wifi = None THEN End(c)
       ELSE IF app.mac # None /\ app.mac # wifi
         THEN IF app.registering THEN End(c)
              ELSE call' = [call EXCEPT ![c].request = "register", ![c].push = app.push]
       ELSE Request(c, "beat", [call[c] EXCEPT !.mac = wifi])
    /\ UNCHANGED <<store, app, server, wifi, count, overlapped>>

EndBeat(c) ==
    /\ Succeeded(c, "beat")
    /\ End(c)
    /\ UNCHANGED <<store, app, server, wifi, count, overlapped>>

-----------------------------------------------------------------------------
(* The world around the app.                                               *)

\* The app is killed and started again; what was sent may still arrive.
Relaunch ==
    /\ Trouble
    /\ app' = Launched(count.signIns)
    /\ call' = [c \in Calls |->
                  IF call[c] # None /\ call[c].at \in {"sent", "orphan"}
                    THEN [call[c] EXCEPT !.at = "orphan"] ELSE None]
    /\ Meddle
    /\ UNCHANGED <<store, server, wifi>>

Walk(mac) ==
    /\ wifi # mac /\ wifi' = mac
    /\ Trouble /\ Meddle
    /\ UNCHANGED <<store, app, call, server>>

Expire(n) ==
    /\ n <= count.signIns /\ dead' = dead \cup {n} /\ n \notin dead
    /\ Trouble /\ Meddle
    /\ UNCHANGED <<store, app, call, rows, admin, wifi>>

CallStep(c) ==
    \/ Send(c) \/ Serve(c) \/ Lose(c) \/ Fail(c) \/ ClearToken(c) \/ ClearUser(c)
    \/ PersistToken(c) \/ PersistUser(c) \/ SetUser(c) \/ ClearAll(c)
    \/ EndFetch(c) \/ EndBeat(c)
    \/ ReadStored(c) \/ DropStored(c) \/ Retired(c) \/ ReadBssid(c)
    \/ StoreDevice(c) \/ StoreCredential(c) \/ TickRead(c)

Next ==
    \/ Restore \/ SettlePush \/ RotateToken \/ Relaunch
    \/ \E c \in Calls : CallStep(c)
    \/ \E c \in Calls : Settle(c) \/ Fetch(c) \/ Tick(c) \/ Logout(c)
    \/ \E c \in Calls, u \in Users : Login(c, u)
    \/ \E mac \in Places : Walk(mac)
    \/ \E n \in 1..MaxSignIns : Expire(n)

Spec == Init /\ [][Next]_vars

-----------------------------------------------------------------------------
(* Safety.                                                                 *)

\* A registration is only ever sent by an app that knows who it is for and
\* which push token it has: the empty token goes out only after a refusal.
RegistersWhatItKnows ==
    \A c \in Calls :
      call[c] # None /\ call[c].request = "register" /\ call[c].at # "orphan" =>
        ~app.loading /\ app.ready

\* A row is retired only in a launch in which somebody signed in: restoring a
\* session is never taken for a sign-in, nor is signing out.
OnlyASignInRetires ==
    \A c \in Calls :
      call[c] # None /\ call[c].request = "remove" /\ call[c].at # "orphan" =>
        count.signIns > app.since

\* isRegistering never stays set: some call is on its way to clear it.
FlagIsHeld ==
    app.registering =>
      \E c \in Calls : call[c] # None /\ call[c].request = "register"
                       /\ call[c].at # "bssid"

\* As long as calls ran one by one, lost ones included: a phone at rest that
\* shows nobody keeps nobody's token, and what it beats for, signed in, is a
\* row of that account.
AtRest ==
    Quiet /\ ~overlapped =>
      /\ app.token = None => store.token \notin UserTokens
      /\ app.user # None /\ app.mac # None /\ app.device # None /\ rows[app.device] # None =>
           rows[app.device].owner = app.user

\* "This token is the only credential it will ever hold": a guest's token is
\* erased by nothing but a sign-out.
GuestKeepsCredential ==
    [][store.token \in DeviceTokens /\ store'.token = None => \E c \in Calls : AskedOut(c)]_vars
=============================================================================
