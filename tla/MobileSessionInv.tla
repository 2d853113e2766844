-------------------------- MODULE MobileSessionInv ---------------------------
(***************************************************************************)
(* What the phone's session keeps to in every step: the inductive          *)
(* invariant that MobileSessionProofs proves.                              *)
(***************************************************************************)
EXTENDS MobileSession

Requests == {"register", "remove", "beat", "fetch", "login", "logout"}
Functions == {"settle", "beat", "fetch", "login", "logout"}
Awaits == {"read", "drop", "bssid", "send", "sent", "orphan", "answered", "clearing", "clear",
           "persist", "user", "credential"}

User == Users \cup {None}
Device == Rows \cup {None}
Mac == Bssids \cup {None}
Push == PushTokens \cup {None}
Credential == Tokens \cup {None}

Answers == [kind : {"ok", "refused", "rejected", "lost"}, dev : Device, cred : Credential]

Call == [fn : Functions, at : Awaits, request : Requests \cup {None}, user : User, push : Push,
         dev : Device, mac : Mac, cred : Credential, answer : Answers \cup {None}]

\* None is no request that was made, no answer and no call.
ASSUME NoneIsNoCall == None \notin Requests /\ None \notin Answers /\ None \notin Call

\* Nor is it what an effect depends on.
ASSUME NoneIsNoDeps == None \notin (Push \X BOOLEAN \X BOOLEAN \X User)

App == [loading : BOOLEAN, token : Credential, user : User,
        ready : BOOLEAN, push : Push, listening : BOOLEAN,
        device : Device, registering : BOOLEAN, mac : Mac, previous : User \cup {Unset},
        deps : (Push \X BOOLEAN \X BOOLEAN \X User) \cup {None},
        reads : Seq(Calls), since : 0..MaxSignIns]

\* Of those, what no step of the program but a relaunch takes back.
Counts == [signIns : 0..MaxSignIns, rows : 0..MaxRows, rotations : 0..MaxTroubles,
           troubles : 0..MaxTroubles]

MobileTypes ==
    /\ store \in [token : Credential, user : User, device : Device]
    /\ app \in App
    /\ call \in [Calls -> Call \cup {None}]
    /\ rows \in [Rows -> Row \cup {None}]
    /\ admin \in [Bssids -> User]
    /\ dead \subseteq 1..MaxSignIns
    /\ wifi \in Mac
    /\ count \in Counts /\ count.rotations <= count.troubles
    /\ overlapped \in BOOLEAN

-----------------------------------------------------------------------------
(* What each call under way agrees with.                                   *)

\* A call of this launch: of an earlier one only requests are left.
Mine(k) == k.at # "orphan"

\* Where a function waits, and what it has asked for by then.
Shape(k) ==
    /\ k.fn \in {"login", "logout", "fetch"} => k.request = k.fn
    /\ k.request \in {"login", "logout", "fetch"} => k.fn = k.request
    /\ k.at \in {"read", "drop"} => k.fn = "settle" /\ k.request = None
    /\ k.request = "remove" => k.fn = "settle"
    /\ k.at = "bssid" => k.request \in {"register", "beat"}
    /\ k.at \in {"send", "sent", "orphan", "answered", "clearing"} => k.request # None
    /\ k.at = "clear" => k.request = "logout"
    /\ k.at \in {"persist", "user"} => k.request = "login"
    /\ k.at = "credential" => k.request = "register"
    /\ k.at \in {"answered", "clearing", "clear", "persist", "user", "credential"} =>
         k.answer # None
    /\ k.request = "login" => k.user # None
    /\ k.request \in {"register", "beat"} /\ k.at # "bssid" => k.mac # None
    /\ k.request \in {"register", "beat"} => k.fn \in {"settle", "beat"}

Settled(a) == ~a.loading /\ a.ready

SignedInSince(a, n) == n.signIns > a.since

\* The row a sign-in leaves behind is on its way to be retired.
Retires(k) == k.request = "remove" \/ (k.at = "drop" /\ k.dev # None)

SignedIn(k) ==
    /\ k.request = "login"
    /\ k.at \in {"persist", "user"} \/ (k.at = "answered" /\ k.answer.kind = "ok")

\* With the app a and the counts n.
Agrees(k, a, n) ==
    /\ Shape(k)
    /\ Mine(k) /\ k.fn \in {"settle", "beat"} => Settled(a)
    /\ Mine(k) /\ Retires(k) => SignedInSince(a, n)
    /\ Mine(k) /\ SignedIn(k) => SignedInSince(a, n)

CallsAgree == \A c \in Calls : call[c] # None => Agrees(call[c], app, count)

\* The calls that wait for the stored device id, each once, in order.
ReadsAreQueued ==
    /\ \A i \in 1..Len(app.reads) :
         call[app.reads[i]] # None /\ call[app.reads[i]].at = "read"
    /\ \A i, j \in 1..Len(app.reads) : app.reads[i] = app.reads[j] => i = j

\* What the app knows of itself and of its device it learned with both settled.
KnownWhenSettled == app.device # None \/ app.previous # Unset => Settled(app)

\* With no sign-in in this launch, whoever was seen signed out stays so: in the
\* last settled effect, in those queued, in the order asked, and now.
NobodyStays ==
    ~SignedInSince(app, count) =>
      /\ app.previous = None =>
           app.user = None /\ \A i \in 1..Len(app.reads) : call[app.reads[i]].user = None
      /\ \A i, j \in 1..Len(app.reads) :
           i <= j /\ call[app.reads[i]].user = None =>
             app.user = None /\ call[app.reads[j]].user = None

\* A registration past its guard, of this launch.
Holds(k) == k # None /\ k.request = "register" /\ k.at \notin {"bssid", "orphan"}

SomeoneHolds == app.registering => \E c \in Calls : Holds(call[c])

MobileInvariant ==
    /\ MobileTypes
    /\ count.signIns >= app.since
    /\ CallsAgree
    /\ ReadsAreQueued
    /\ KnownWhenSettled
    /\ NobodyStays
    /\ SomeoneHolds
-----------------------------------------------------------------------------
(* As long as calls ran one by one: what the stored session s, the app a,  *)
(* the one call k under way, None if there is none, and the rows rs have   *)
(* to do with each other.                                                  *)

Waits(k, places) == k # None /\ k.at \in places
Asks(k, requests) == k # None /\ k.request \in requests

\* A user's id and a user's token are stored together, but for the steps that
\* write and clear them.
StoreAgrees(s, k) ==
    /\ s.user # None /\ ~Waits(k, {"clearing"}) =>
         s.token \in UserTokens /\ s.token[2] = s.user
    /\ s.user = None /\ ~Waits(k, {"persist"}) => s.token \notin UserTokens
    /\ Waits(k, {"clearing"}) => s.token = None

\* Once restored, the app shows who is stored.
AppAgrees(s, a, k) ==
    /\ a.loading => k = None
    /\ ~a.loading /\ ~Waits(k, {"user"}) => a.user = s.user
    /\ a.user # None => ~a.loading /\ a.token # None

\* A sign-in finds nobody signed in, and ends with its own user in the app.
LoginAgrees(s, a, k) ==
    Asks(k, {"login"}) =>
      /\ a.user = None /\ a.previous \in {None, Unset} /\ Deps(a) = a.deps
      /\ k.at # "user" => s.user = None
      /\ k.at = "user" => s.user = k.user /\ a.token # None
      /\ SignedIn(k) /\ k.at # "user" =>
           k.answer.cred \in UserTokens /\ k.answer.cred[2] = k.user
      /\ k.at = "persist" => s.token = k.answer.cred

\* Row d, if there still is one, belongs to the account `user`.
Owned(rs, user, d) == d # None /\ rs[d] # None => rs[d].owner = user

\* A registration made in an account's name is of a row of that account, and a
\* guest's token only ever meets a phone nobody is signed in on.
RegisterAgrees(s, a, k, rs) ==
    Asks(k, {"register"}) =>
      /\ k.at = "sent" => k.cred = s.token
      /\ k.at = "credential" => k.answer.cred # None
      /\ k.at = "credential" \/ (k.at = "answered" /\ k.answer.kind = "ok") =>
           /\ a.user # None => Owned(rs, a.user, k.answer.dev)
           /\ k.answer.cred # None => a.user = None /\ k.answer.cred \notin UserTokens

\* The last run of the effect saw what the app shows, or another is due.
EffectAgrees(a, k) ==
    /\ a.deps # None /\ a.deps[2] => a.ready
    /\ a.deps # None /\ ~a.deps[3] => ~a.loading
    /\ k # None /\ a.user # None => Deps(a) = a.deps
    /\ Waits(k, {"read"}) => k.user = a.user
    /\ Deps(a) = a.deps /\ Settled(a) => a.previous = a.user \/ Waits(k, {"read"})
    /\ a.previous = Unset =>
         /\ a.mac = None /\ a.device = None
         /\ k # None /\ k.fn \in {"settle", "beat"} => k.at = "read"

\* What the app and the storage keep for an account since it last registered
\* is a row of that account; another's is dropped before it registers.
RowAgrees(s, a, k, rs) ==
    a.user # None /\ a.previous = a.user /\ a.mac # None =>
      /\ Owned(rs, a.user, a.device)
      /\ Waits(k, {"drop"}) \/ Owned(rs, a.user, s.device)

Orderly(s, a, k, rs) ==
    /\ k # None => Mine(k)
    /\ StoreAgrees(s, k)
    /\ AppAgrees(s, a, k)
    /\ LoginAgrees(s, a, k)
    /\ RegisterAgrees(s, a, k, rs)
    /\ EffectAgrees(a, k)
    /\ RowAgrees(s, a, k, rs)

OneByOne ==
    ~overlapped =>
      /\ \A c, d \in Running : c = d
      /\ Running = {} => Orderly(store, app, None, rows)
      /\ \A c \in Running : Orderly(store, app, call[c], rows)
=============================================================================
