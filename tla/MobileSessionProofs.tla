------------------------- MODULE MobileSessionProofs -------------------------
(***************************************************************************)
(* Machine-checked proofs about the phone's session, for any number of     *)
(* accounts, networks, calls under way, sign-ins, rows and troubles.       *)
(***************************************************************************)
EXTENDS MobileSessionInv, TLAPS

-----------------------------------------------------------------------------
(* What the steps have in common.                                          *)

\* What a call agrees with stays so within a launch: the session and the push
\* token stay settled, and a sign-in is not taken back.
LEMMA AgreesOn ==
    ASSUME NEW k, NEW a, NEW b, NEW n, NEW m, Agrees(k, a, n),
           Settled(a) => Settled(b), SignedInSince(a, n) => SignedInSince(b, m)
    PROVE  Agrees(k, b, m)
  BY DEF Agrees, Shape, Mine, Retires, SignedIn

\* A step within a launch that leaves the queue of reads alone: the calls it
\* changes were not in it, and what it makes of them agrees with the app.
LEMMA WithinLaunch ==
    ASSUME MobileInvariant, MobileTypes',
           Settled(app) => Settled(app'),
           count'.signIns >= count.signIns,
           app'.since = app.since, app'.reads = app.reads, app'.previous = app.previous,
           app'.device # None => app.device # None \/ Settled(app),
           app'.user \in {app.user, None} \/ app.loading \/ SignedInSince(app, count),
           \A c \in Calls :
             \/ call'[c] = call[c]
             \/ /\ call[c] = None \/ call[c].at # "read"
                /\ call'[c] # None => Agrees(call'[c], app', count'),
           SomeoneHolds'
    PROVE  MobileInvariant'
<1>1. /\ app \in App /\ app' \in App /\ count \in Counts /\ count' \in Counts
      /\ \A i \in 1..Len(app.reads) : app.reads[i] \in Calls
  BY DEF MobileInvariant, MobileTypes, App
<1>2. /\ app.since \in Nat /\ count.signIns \in Nat /\ count'.signIns \in Nat
      /\ count'.signIns >= app'.since
      /\ SignedInSince(app, count) => SignedInSince(app', count')
  BY <1>1 DEF MobileInvariant, App, Counts, SignedInSince
<1>3. CallsAgree'
  BY <1>2, AgreesOn DEF MobileInvariant, CallsAgree
<1>4. \A i \in 1..Len(app.reads) : call'[app.reads[i]] = call[app.reads[i]]
  BY <1>1 DEF MobileInvariant, ReadsAreQueued
<1>5. ReadsAreQueued'
  BY <1>4 DEF MobileInvariant, ReadsAreQueued
<1>6. KnownWhenSettled'
  BY DEF MobileInvariant, KnownWhenSettled

\* Nothing is queued while the session is being restored.
<1>7. app.loading => app.reads = <<>> /\ app.previous = Unset
  <2>1. \A i \in 1..Len(app.reads) : Settled(app)
    BY <1>1 DEF MobileInvariant, ReadsAreQueued, CallsAgree, Agrees, Shape, Mine
  <2>2. app.reads \in Seq(Calls)
    BY <1>1 DEF App
  <2>3. app.reads # <<>> => 1 \in 1..Len(app.reads)
    BY <2>2
  <2> QED
    BY <2>1, <2>3 DEF Settled, MobileInvariant, KnownWhenSettled
<1>8. NobodyStays'
  <2>1. CASE app.loading
    BY <1>7, <2>1, MobileNames DEF NobodyStays
  <2>2. CASE SignedInSince(app, count)
    BY <1>2, <2>2 DEF NobodyStays
  <2>3. CASE app'.user \in {app.user, None}
    BY <1>2, <1>4, <2>3 DEF MobileInvariant, NobodyStays
  <2> QED
    BY <2>1, <2>2, <2>3
<1> QED
  BY <1>2, <1>3, <1>5, <1>6, <1>8 DEF MobileInvariant

\* The same for the step of one call that was not reading: if a registration is
\* under way, it still is, or has just begun.
LEMMA OneCallPreserves ==
    ASSUME MobileInvariant, MobileTypes', NEW c \in Calls, NEW k \in Call \cup {None},
           call' = [call EXCEPT ![c] = k],
           call[c] = None \/ call[c].at # "read",
           k # None => Agrees(k, app', count'),
           Settled(app) => Settled(app'),
           count'.signIns >= count.signIns,
           app'.since = app.since, app'.reads = app.reads, app'.previous = app.previous,
           app'.device # None => app.device # None \/ Settled(app),
           app'.user \in {app.user, None} \/ app.loading \/ SignedInSince(app, count),
           app'.registering => Holds(k) \/ (app.registering /\ ~Holds(call[c]))
    PROVE  MobileInvariant'
<1>1. call'[c] = k /\ \A d \in Calls : d # c => call'[d] = call[d]
  BY DEF MobileInvariant, MobileTypes
<1>2. SomeoneHolds'
  BY <1>1 DEF MobileInvariant, SomeoneHolds
<1>3. \A d \in Calls :
        \/ call'[d] = call[d]
        \/ /\ call[d] = None \/ call[d].at # "read"
           /\ call'[d] # None => Agrees(call'[d], app', count')
  BY <1>1
<1> QED
  BY <1>2, <1>3, WithinLaunch

\* The call a step takes further.
LEMMA CallIsTyped ==
    ASSUME MobileInvariant, NEW c \in Calls, call[c] # None
    PROVE  /\ call[c] \in Call /\ Agrees(call[c], app, count) /\ Shape(call[c])
           /\ app \in App /\ count \in Counts
           /\ store \in [token : Credential, user : User, device : Device]
  BY DEF MobileInvariant, MobileTypes, CallsAgree, Agrees

\* A step of one call that touches nothing else.
LEMMA OnlyCallPreserves ==
    ASSUME MobileInvariant, NEW c \in Calls, NEW k \in Call \cup {None},
           call' = [call EXCEPT ![c] = k],
           call[c] = None \/ call[c].at # "read",
           k # None => Agrees(k, app, count),
           Holds(call[c]) => Holds(k),
           UNCHANGED <<store, app, rows, admin, dead, wifi, count>>, overlapped' \in BOOLEAN
    PROVE  MobileInvariant'
<1>1. MobileTypes'
  BY DEF MobileInvariant, MobileTypes
<1>2. count'.signIns >= count.signIns
  BY DEF MobileInvariant, MobileTypes, Counts
<1> QED
  BY <1>1, <1>2, OneCallPreserves

\* A new call, that has asked for nothing, or for what it is named after.
LEMMA NewCallIsTyped ==
    ASSUME NEW fn \in Functions, NEW at \in Awaits
    PROVE  /\ NewCall(fn, at) \in Call
           /\ NewCall(fn, at).fn = fn /\ NewCall(fn, at).at = at
           /\ NewCall(fn, at).request = None /\ NewCall(fn, at).dev = None
           /\ NewCall(fn, at).user = None
  BY DEF NewCall, Call, User, Push, Device, Mac, Credential

-----------------------------------------------------------------------------
(* Sending and answering.                                                  *)

LEMMA SendPreserves ==
    ASSUME MobileInvariant, NEW c \in Calls, Send(c)
    PROVE  MobileInvariant'
<1> DEFINE k == [call[c] EXCEPT !.cred = store.token, !.at = "sent"]
<1>1. /\ call[c] # None /\ call[c].at = "send" /\ call' = [call EXCEPT ![c] = k]
      /\ UNCHANGED <<store, app, rows, admin, dead, wifi, count, overlapped>>
  BY DEF Send
<1>2. /\ call[c] \in Call /\ Agrees(call[c], app, count)
      /\ store.token \in Credential
  BY <1>1, CallIsTyped
<1>3. /\ k \in Call /\ k.fn = call[c].fn /\ k.at = "sent" /\ k.request = call[c].request
      /\ k.user = call[c].user /\ k.mac = call[c].mac
  BY <1>2 DEF Call, Awaits
<1> HIDE DEF k
<1>4. Agrees(k, app, count)
  BY <1>1, <1>2, <1>3 DEF Agrees, Shape, Mine, Retires, SignedIn
<1>5. Holds(call[c]) => Holds(k)
  BY <1>3, NoneIsNoCall DEF Holds
<1>6. overlapped' \in BOOLEAN
  BY <1>1 DEF MobileInvariant, MobileTypes
<1> QED
  BY <1>1, <1>3, <1>4, <1>5, <1>6, OnlyCallPreserves

\* The server's answer: an orphan's is dropped, any other waits to be read.
LEMMA ReplyPreserves ==
    ASSUME MobileInvariant, NEW c \in Calls, NEW answer \in Answers, Reply(c, answer),
           call[c] # None, call[c].at \in {"sent", "orphan"},
           UNCHANGED <<store, app, wifi, overlapped>>,
           rows' \in [Rows -> Row \cup {None}], admin' \in [Bssids -> User],
           dead' \subseteq 1..MaxSignIns, count' \in Counts,
           count'.rotations = count.rotations, count'.troubles = count.troubles,
           count'.signIns >= count.signIns,
           call[c].request = "login" /\ answer.kind = "ok" => count'.signIns > count.signIns
    PROVE  MobileInvariant'
<1> DEFINE k == [call[c] EXCEPT !.answer = answer, !.at = "answered"]
<1>1. /\ call[c] \in Call /\ Agrees(call[c], app, count) /\ app \in App /\ count \in Counts
  BY CallIsTyped
<1>2. app.since \in Nat /\ count.signIns \in Nat /\ count'.signIns \in Nat
  BY <1>1 DEF App, Counts
<1>3. SignedInSince(app, count) => SignedInSince(app', count')
  BY <1>2 DEF SignedInSince
<1>4. CASE call[c].at = "orphan"
  <2>1. call' = [call EXCEPT ![c] = None] /\ ~Holds(call[c])
    BY <1>4 DEF Reply, End, Holds
  <2>2. MobileTypes'
    BY <2>1 DEF MobileInvariant, MobileTypes
  <2> QED
    BY <1>4, <2>1, <2>2, OneCallPreserves
<1>5. CASE call[c].at = "sent"
  <2>1. call' = [call EXCEPT ![c] = k]
    BY <1>5 DEF Reply
  <2>2. /\ k \in Call /\ k.fn = call[c].fn /\ k.at = "answered" /\ k.answer = answer
        /\ k.request = call[c].request /\ k.user = call[c].user /\ k.mac = call[c].mac
    BY <1>1 DEF Call, Awaits
  <2> HIDE DEF k
  <2>3. answer # None
    BY NoneIsNoCall
  <2>4. call[c].request = "login" /\ answer.kind = "ok" => SignedInSince(app', count')
    BY <1>2 DEF SignedInSince, MobileInvariant
  <2>5. Agrees(k, app', count')
    BY <1>1, <1>3, <1>5, <2>2, <2>3, <2>4 DEF Agrees, Shape, Mine, Retires, SignedIn, Settled
  <2>6. Holds(call[c]) => Holds(k)
    BY <2>2, NoneIsNoCall DEF Holds
  <2>7. MobileTypes'
    BY <2>1, <2>2 DEF MobileInvariant, MobileTypes
  <2> QED
    BY <1>5, <2>1, <2>2, <2>5, <2>6, <2>7, OneCallPreserves
<1> QED
  BY <1>4, <1>5
LEMMA AnswerIsTyped ==
    ASSUME NEW kind \in {"ok", "refused", "rejected", "lost"}, NEW dev \in Device,
           NEW cred \in Credential
    PROVE  Answer(kind, dev, cred) \in Answers /\ Answer(kind, dev, cred).kind = kind
           /\ Answer(kind, dev, cred).dev = dev /\ Answer(kind, dev, cred).cred = cred
  BY DEF Answer, Answers

\* A live token names an account and one of its sign-ins.
LEMMA LiveToken ==
    ASSUME NEW cred, Live(cred)
    PROVE  cred[2] \in Users /\ cred[3] \in 1..MaxSignIns
  BY DEF Live, UserTokens

LEMMA NoDevice == None \in Device /\ None \in Credential /\ None \in User /\ None \in Push
  BY DEF Device, Credential, User, Push

\* A registration creates one row, or updates one that was there.
LEMMA RegisterPreserves ==
    ASSUME MobileInvariant, NEW c \in Calls, call[c] # None,
           call[c].at \in {"sent", "orphan"}, Register(c),
           UNCHANGED <<store, app, wifi, overlapped>>
    PROVE  MobileInvariant'
<1> DEFINE r == call[c]
           user == IF r.cred = None THEN None ELSE r.cred[2]
           found == RowsOf(user, r.mac)
           new == count.rows + 1
           d == IF found = {} THEN new ELSE CHOOSE e \in found : TRUE
           rejected == r.cred # None /\ ~Live(r.cred)
           refused == user = None /\ admin[r.mac] = None
           row == [owner |-> user, mac |-> r.mac, push |-> r.push]
           cred == IF user = None THEN <<"device", d>> ELSE None
<1>1. /\ r \in Call /\ Shape(r) /\ count \in Counts /\ r.request = "register"
      /\ UNCHANGED dead
  BY CallIsTyped DEF Register
<1>2. /\ rows \in [Rows -> Row \cup {None}] /\ admin \in [Bssids -> User]
      /\ dead \subseteq 1..MaxSignIns /\ count.signIns \in Nat
  BY <1>1 DEF MobileInvariant, MobileTypes, Counts
<1>3. r.mac \in Bssids /\ r.push \in Push
  BY <1>1 DEF Shape, Call, Mac
<1>4. CASE rejected \/ refused
  <2>1. PICK kind \in {"rejected", "refused"} : Reply(c, Answer(kind, None, None))
    BY <1>4 DEF Register
  <2>2. UNCHANGED <<rows, admin, count>>
    BY <1>4 DEF Register
  <2> QED
    BY <1>1, <1>2, <2>1, <2>2, NoDevice, AnswerIsTyped, ReplyPreserves
<1>5. CASE ~rejected /\ ~refused
  <2>1. /\ d \in Rows
        /\ rows' = [rows EXCEPT ![d] = row]
        /\ admin' = [admin EXCEPT ![r.mac] = IF @ = None THEN user ELSE @]
        /\ count' = [count EXCEPT !.rows = IF found = {} THEN new ELSE @]
        /\ Reply(c, Answer("ok", d, cred))
    BY <1>5 DEF Register
  <2>2. user \in User
    BY <1>5, LiveToken DEF User
  <2>3. row \in Row
    BY <1>3, <2>2 DEF Row, User, Push
  <2>4. cred \in Credential
    BY <2>1 DEF Credential, Tokens, DeviceTokens
  <2>5. found = {} => new \in 0..MaxRows
    BY <2>1 DEF Rows
  <2> HIDE DEF row, user, cred, d, found, new, rejected, refused
  <2>6. rows' \in [Rows -> Row \cup {None}] /\ admin' \in [Bssids -> User]
    BY <1>2, <1>3, <2>1, <2>2, <2>3
  <2>7. /\ count' \in Counts /\ count'.rotations = count.rotations
        /\ count'.troubles = count.troubles /\ count'.signIns = count.signIns
    BY <1>1, <2>1, <2>5 DEF Counts
  <2>8. Answer("ok", d, cred) \in Answers
    BY <2>1, <2>4, AnswerIsTyped DEF Device
  <2>9. r.request # "login" /\ count'.signIns >= count.signIns
    BY <1>1, <1>2, <2>7
  <2> QED
    BY <1>1, <1>2, <2>1, <2>6, <2>7, <2>8, <2>9, ReplyPreserves
<1> QED
  BY <1>4, <1>5

\* The rest of the server's answers.
LEMMA ServePreserves ==
    ASSUME MobileInvariant, NEW c \in Calls, Serve(c)
    PROVE  MobileInvariant'
<1>1. /\ call[c] # None /\ call[c].at \in {"sent", "orphan"}
      /\ UNCHANGED <<store, app, wifi, overlapped>>
  BY DEF Serve
<1>2. /\ call[c] \in Call /\ Shape(call[c]) /\ count \in Counts
      /\ rows \in [Rows -> Row \cup {None}] /\ admin \in [Bssids -> User]
      /\ dead \subseteq 1..MaxSignIns /\ count.signIns \in Nat
  BY <1>1, CallIsTyped DEF MobileInvariant, MobileTypes, Counts
<1>3. \A kind \in {"ok", "refused", "rejected", "lost"} : Answer(kind, None, None) \in Answers
  BY NoDevice, AnswerIsTyped
<1>4. CASE Register(c)
  BY <1>1, <1>4, RegisterPreserves
<1>5. CASE Remove(c)
  <2>1. rows' \in [Rows -> Row \cup {None}]
    BY <1>2, <1>5 DEF Remove
  <2>2. PICK kind \in {"ok", "refused", "rejected"} : Reply(c, Answer(kind, None, None))
    BY <1>5 DEF Remove
  <2>3. call[c].request # "login" /\ UNCHANGED <<admin, dead, count>>
    BY <1>5 DEF Remove
  <2> QED
    BY <1>1, <1>2, <1>3, <2>1, <2>2, <2>3, ReplyPreserves
<1>6. CASE Beat(c)
  <2>1. PICK kind \in {"ok", "refused", "rejected"} : Reply(c, Answer(kind, None, None))
    BY <1>6 DEF Beat
  <2>2. call[c].request # "login" /\ UNCHANGED <<rows, admin, dead, count>>
    BY <1>6 DEF Beat
  <2> QED
    BY <1>1, <1>2, <1>3, <2>1, <2>2, ReplyPreserves
<1>7. CASE Other(c)
  <2>1. PICK kind \in {"ok", "rejected"} : Reply(c, Answer(kind, None, None))
    BY <1>7 DEF Other
  <2>2. call[c].request # "login" /\ UNCHANGED <<rows, admin, dead, count>>
    BY <1>7 DEF Other
  <2> QED
    BY <1>1, <1>2, <1>3, <2>1, <2>2, ReplyPreserves
<1>8. CASE SignIn(c)
  <2> DEFINE n == count.signIns + 1
             token == <<"user", call[c].user, n>>
  <2>1. UNCHANGED <<rows, admin, dead>> /\ call[c].request = "login"
    BY <1>8 DEF SignIn
  <2>2. CASE /\ n <= MaxSignIns /\ Reply(c, Answer("ok", None, token))
             /\ count' = [count EXCEPT !.signIns = n]
    <3>1. call[c].user \in Users /\ n \in 1..MaxSignIns
      BY <1>2, <2>1, <2>2, MobileBounds DEF Shape, Call, User
    <3>2. token \in Credential
      BY <3>1 DEF Credential, Tokens, UserTokens
    <3> HIDE DEF token
    <3>3. Answer("ok", None, token) \in Answers
      BY <3>2, NoDevice, AnswerIsTyped
    <3>4. /\ count' \in Counts /\ count'.signIns = n /\ count'.rotations = count.rotations
          /\ count'.troubles = count.troubles
      BY <1>2, <2>2, <3>1 DEF Counts
    <3>5. n > count.signIns /\ n >= count.signIns
      BY <1>2
    <3> HIDE DEF n
    <3> QED
      BY <1>1, <1>2, <2>1, <2>2, <3>3, <3>4, <3>5, ReplyPreserves
  <2>3. CASE Reply(c, Answer("refused", None, None)) /\ UNCHANGED count
    BY <1>1, <1>2, <1>3, <2>1, <2>3, NoDevice, AnswerIsTyped, ReplyPreserves
  <2> QED
    BY <1>8, <2>2, <2>3 DEF SignIn
<1>9. CASE SignOut(c)
  <2>1. dead' \subseteq 1..MaxSignIns
    BY <1>2, <1>9, LiveToken DEF SignOut
  <2>2. PICK kind \in {"ok", "rejected"} : Reply(c, Answer(kind, None, None))
    BY <1>9 DEF SignOut
  <2>3. call[c].request # "login" /\ UNCHANGED <<rows, admin, count>>
    BY <1>9 DEF SignOut
  <2> QED
    BY <1>1, <1>2, <1>3, <2>1, <2>2, <2>3, ReplyPreserves
<1> QED
  BY <1>4, <1>5, <1>6, <1>7, <1>8, <1>9 DEF Serve

\* A lost request or answer looks like a failed one.
LEMMA LosePreserves ==
    ASSUME MobileInvariant, NEW c \in Calls, Lose(c)
    PROVE  MobileInvariant'
<1> DEFINE lost == Answer("lost", None, None)
           k == [call[c] EXCEPT !.answer = lost, !.at = "answered"]
<1>1. /\ call[c] # None /\ call[c].at \in {"sent", "orphan", "answered"}
      /\ UNCHANGED <<store, app, rows, admin, dead, wifi, overlapped>>
      /\ count' = [count EXCEPT !.troubles = @ + 1] /\ count.troubles < MaxTroubles
  BY DEF Lose, Trouble
<1>2. /\ call[c] \in Call /\ Agrees(call[c], app, count) /\ count \in Counts
  BY <1>1, CallIsTyped
<1>3. /\ count' \in Counts /\ count'.signIns = count.signIns
      /\ count'.rotations <= count'.troubles /\ count'.signIns >= count.signIns
  BY <1>1, <1>2, MobileBounds DEF Counts, MobileInvariant, MobileTypes
<1>4. CASE call[c].at = "orphan"
  <2>1. call' = [call EXCEPT ![c] = None] /\ ~Holds(call[c])
    BY <1>4 DEF Lose, End, Holds
  <2>2. MobileTypes'
    BY <1>1, <1>3, <2>1 DEF MobileInvariant, MobileTypes
  <2> QED
    BY <1>1, <1>3, <1>4, <2>1, <2>2, OneCallPreserves
<1>5. CASE call[c].at # "orphan"
  <2>1. call' = [call EXCEPT ![c] = k]
    BY <1>5 DEF Lose
  <2>2. lost \in Answers /\ lost # None /\ lost.kind = "lost"
    BY NoDevice, AnswerIsTyped, NoneIsNoCall
  <2> HIDE DEF lost
  <2>3. /\ k \in Call /\ k.fn = call[c].fn /\ k.at = "answered" /\ k.answer = lost
        /\ k.request = call[c].request /\ k.user = call[c].user /\ k.mac = call[c].mac
    BY <1>2, <2>2 DEF Call, Awaits
  <2> HIDE DEF k
  <2>4. Agrees(k, app', count')
    BY <1>1, <1>2, <1>3, <1>5, <2>2, <2>3
       DEF Agrees, Shape, Mine, Retires, SignedIn, Settled, SignedInSince
  <2>5. Holds(call[c]) => Holds(k)
    BY <2>3, NoneIsNoCall DEF Holds
  <2>6. MobileTypes'
    BY <1>1, <1>3, <2>1, <2>3 DEF MobileInvariant, MobileTypes
  <2> QED
    BY <1>1, <1>3, <2>1, <2>3, <2>4, <2>5, <2>6, OneCallPreserves
<1> QED
  BY <1>4, <1>5

\* register() runs up to its first await, or ends at the guard.
LEMMA TryRegisterCall ==
    ASSUME NEW c \in Calls, call[c] \in Call, call[c].fn = "settle", Settled(app),
           TryRegister(c)
    PROVE  \E k \in Call \cup {None} :
             /\ call' = [call EXCEPT ![c] = k]
             /\ k # None => Agrees(k, app, count)
<1> DEFINE k == [call[c] EXCEPT !.request = "register", !.at = "bssid"]
<1>1. k \in Call /\ k.fn = "settle" /\ k.request = "register" /\ k.at = "bssid"
  BY DEF Call, Awaits, Requests
<1>2. call' = [call EXCEPT ![c] = None] \/ call' = [call EXCEPT ![c] = k]
  BY DEF TryRegister, End
<1> HIDE DEF k
<1>3. Agrees(k, app, count)
  BY <1>1, NoneIsNoCall DEF Agrees, Shape, Mine, Retires, SignedIn, Requests
<1> QED
  BY <1>1, <1>2, <1>3

\* What a caller does about a failure: whatever it was for, it is no registration
\* past its guard any more.
LEMMA AfterFailureCall ==
    ASSUME MobileInvariant, NEW c \in Calls, call[c] # None,
           call[c].at \in {"answered", "clearing"}, AfterFailure(c)
    PROVE  \E k \in Call \cup {None} :
             /\ call' = [call EXCEPT ![c] = k]
             /\ k # None => Agrees(k, app, count)
<1>1. call[c] \in Call /\ Agrees(call[c], app, count) /\ Shape(call[c]) /\ Mine(call[c])
  BY CallIsTyped DEF Mine
<1>2. CASE call[c].request = "remove"
  <2>1. TryRegister(c) /\ call[c].fn = "settle" /\ Settled(app)
    BY <1>1, <1>2 DEF AfterFailure, Shape, Agrees
  <2> QED
    BY <1>1, <2>1, TryRegisterCall
<1>3. CASE call[c].request = "logout"
  <2> DEFINE k == [call[c] EXCEPT !.at = "clear"]
  <2>1. call' = [call EXCEPT ![c] = k]
    BY <1>3 DEF AfterFailure, Goto
  <2>2. /\ k \in Call /\ k.fn = call[c].fn /\ k.at = "clear" /\ k.answer = call[c].answer
        /\ k.request = "logout" /\ k.user = call[c].user /\ k.mac = call[c].mac
    BY <1>1, <1>3 DEF Call, Awaits
  <2> HIDE DEF k
  <2>3. Agrees(k, app, count)
    BY <1>1, <1>3, <2>2 DEF Agrees, Shape, Mine, Retires, SignedIn
  <2> QED
    BY <2>1, <2>2, <2>3
<1>4. CASE call[c].request \notin {"remove", "logout"}
  BY <1>4 DEF AfterFailure, End
<1> QED
  BY <1>2, <1>3, <1>4

\* With its outcome, a registration takes the overlap guard with it.
LEMMA ReleasedApp ==
    ASSUME NEW c \in Calls, NEW a \in App
    PROVE  /\ Released(c, a) \in App
           /\ Released(c, a).registering => a.registering /\ call[c].request # "register"
           /\ Released(c, a).loading = a.loading /\ Released(c, a).ready = a.ready
           /\ Released(c, a).since = a.since /\ Released(c, a).reads = a.reads
           /\ Released(c, a).previous = a.previous /\ Released(c, a).user = a.user
           /\ Released(c, a).device = a.device
  BY DEF Released, App

LEMMA ForgetApp ==
    ASSUME NEW a \in App
    PROVE  /\ Forget(a) \in App
           /\ Forget(a).registering = a.registering
           /\ Forget(a).loading = a.loading /\ Forget(a).ready = a.ready
           /\ Forget(a).since = a.since /\ Forget(a).reads = a.reads
           /\ Forget(a).previous = a.previous /\ Forget(a).user = None
           /\ Forget(a).device = a.device
  BY NoDevice DEF Forget, App

\* A failed call ends, or goes on without what it asked for.
LEMMA FailPreserves ==
    ASSUME MobileInvariant, NEW c \in Calls, Fail(c)
    PROVE  MobileInvariant'
<1>1. /\ call[c] # None /\ call[c].at = "answered" /\ app' = Released(c, app)
      /\ UNCHANGED <<store, rows, admin, dead, wifi, count, overlapped>>
  BY DEF Fail, Failed
<1>2. app \in App /\ count.signIns \in Nat
  BY DEF MobileInvariant, MobileTypes, Counts
<1>3. PICK k \in Call \cup {None} :
        /\ call' = [call EXCEPT ![c] = k]
        /\ k # None => Agrees(k, app, count)
  BY <1>1, AfterFailureCall DEF Fail
<1>4. /\ app' \in App
      /\ app'.registering => app.registering /\ ~Holds(call[c])
      /\ app'.since = app.since /\ app'.reads = app.reads /\ app'.previous = app.previous
      /\ app'.loading = app.loading /\ app'.ready = app.ready
      /\ app'.device = app.device /\ app'.user = app.user
  BY <1>1, <1>2, ReleasedApp DEF Holds
<1>5. Settled(app) => Settled(app')
  BY <1>4 DEF Settled
<1>6. k # None => Agrees(k, app', count')
  BY <1>1, <1>3, <1>4, <1>5, AgreesOn DEF SignedInSince
<1>7. call' \in [Calls -> Call \cup {None}] /\ count'.signIns >= count.signIns
  BY <1>1, <1>2, <1>3 DEF MobileInvariant, MobileTypes
<1>8. MobileTypes'
  BY <1>1, <1>4, <1>7 DEF MobileInvariant, MobileTypes
<1> QED
  BY <1>1, <1>3, <1>4, <1>5, <1>6, <1>7, <1>8, OneCallPreserves

LEMMA ClearTokenPreserves ==
    ASSUME MobileInvariant, NEW c \in Calls, ClearToken(c)
    PROVE  MobileInvariant'
<1> DEFINE k == [call[c] EXCEPT !.at = "clearing"]
<1>1. /\ call[c] # None /\ call[c].at = "answered"
      /\ store' = [store EXCEPT !.token = None] /\ call' = [call EXCEPT ![c] = k]
      /\ UNCHANGED <<app, rows, admin, dead, wifi, count, overlapped>>
  BY DEF ClearToken, Goto
<1>2. /\ call[c] \in Call /\ Agrees(call[c], app, count) /\ count.signIns \in Nat
      /\ store \in [token : Credential, user : User, device : Device]
  BY <1>1, CallIsTyped DEF Counts
<1>3. /\ k \in Call /\ k.fn = call[c].fn /\ k.at = "clearing" /\ k.answer = call[c].answer
      /\ k.request = call[c].request /\ k.user = call[c].user /\ k.mac = call[c].mac
  BY <1>2 DEF Call, Awaits
<1> HIDE DEF k
<1>4. Agrees(k, app', count')
  BY <1>1, <1>2, <1>3 DEF Agrees, Shape, Mine, Retires, SignedIn
<1>5. Holds(call[c]) => Holds(k)
  BY <1>3, NoneIsNoCall DEF Holds
<1>6. MobileTypes' /\ count'.signIns >= count.signIns
  BY <1>1, <1>2, <1>3, NoDevice DEF MobileInvariant, MobileTypes
<1> QED
  BY <1>1, <1>2, <1>3, <1>4, <1>5, <1>6, OneCallPreserves

LEMMA ClearUserPreserves ==
    ASSUME MobileInvariant, NEW c \in Calls, ClearUser(c)
    PROVE  MobileInvariant'
<1>1. /\ call[c] # None /\ call[c].at = "clearing" /\ app' = Released(c, Forget(app))
      /\ store' = [store EXCEPT !.user = None]
      /\ UNCHANGED <<rows, admin, dead, wifi, count, overlapped>>
  BY DEF ClearUser
<1>2. app \in App /\ count.signIns \in Nat
  BY DEF MobileInvariant, MobileTypes, Counts
<1>3. PICK k \in Call \cup {None} :
        /\ call' = [call EXCEPT ![c] = k]
        /\ k # None => Agrees(k, app, count)
  BY <1>1, AfterFailureCall DEF ClearUser
<1>4. /\ app' \in App
      /\ app'.registering => app.registering /\ ~Holds(call[c])
      /\ app'.since = app.since /\ app'.reads = app.reads /\ app'.previous = app.previous
      /\ app'.loading = app.loading /\ app'.ready = app.ready
      /\ app'.device = app.device /\ app'.user = None
  <2>1. Forget(app) \in App
    BY <1>2, ForgetApp
  <2> QED
    BY <1>1, <1>2, <2>1, ForgetApp, ReleasedApp DEF Holds
<1>5. Settled(app) => Settled(app')
  BY <1>4 DEF Settled
<1>6. k # None => Agrees(k, app', count')
  BY <1>1, <1>3, <1>4, <1>5, AgreesOn DEF SignedInSince
<1>7. call' \in [Calls -> Call \cup {None}] /\ count'.signIns >= count.signIns
  BY <1>1, <1>2, <1>3 DEF MobileInvariant, MobileTypes
<1>8. MobileTypes'
  BY <1>1, <1>4, <1>7, NoDevice DEF MobileInvariant, MobileTypes
<1> QED
  BY <1>1, <1>3, <1>4, <1>5, <1>6, <1>7, <1>8, OneCallPreserves

-----------------------------------------------------------------------------
(* AuthContext.                                                            *)

\* A step that leaves the calls alone, and of the app everything but what it has
\* settled and, while it loads, who it shows.
LEMMA NoCallPreserves ==
    ASSUME MobileInvariant, MobileTypes', UNCHANGED call,
           Settled(app) => Settled(app'),
           count'.signIns = count.signIns,
           app'.since = app.since, app'.reads = app.reads, app'.previous = app.previous,
           app'.device = app.device, app'.registering = app.registering,
           app'.user = app.user \/ app.loading
    PROVE  MobileInvariant'
<1>1. count'.signIns >= count.signIns
  BY DEF MobileInvariant, MobileTypes, Counts
<1>2. SomeoneHolds'
  BY DEF MobileInvariant, SomeoneHolds
<1> QED
  BY <1>1, <1>2, WithinLaunch

LEMMA RestorePreserves ==
    ASSUME MobileInvariant, Restore
    PROVE  MobileInvariant'
<1>1. app \in App /\ store \in [token : Credential, user : User, device : Device]
  BY DEF MobileInvariant, MobileTypes
<1>2. /\ app.loading
      /\ app' = [app EXCEPT !.token = store.token, !.user = store.user, !.loading = FALSE]
      /\ UNCHANGED <<store, call, rows, admin, dead, wifi, count, overlapped>>
  BY DEF Restore, server
<1>3. /\ app' \in App
      /\ app'.since = app.since /\ app'.reads = app.reads /\ app'.previous = app.previous
      /\ app'.device = app.device /\ app'.registering = app.registering
  BY <1>1, <1>2 DEF App
<1>4. MobileTypes'
  BY <1>2, <1>3 DEF MobileInvariant, MobileTypes
<1>5. ~Settled(app)
  BY <1>2 DEF Settled
<1> QED
  BY <1>2, <1>3, <1>4, <1>5, NoCallPreserves

\* A call that begins asks with what is stored.
LEMMA AskPreserves ==
    ASSUME MobileInvariant, NEW c \in Calls, NEW kind \in {"login", "logout", "fetch"},
           NEW user \in User, kind = "login" => user # None,
           Ask(c, kind, user), Meddle,
           UNCHANGED <<store, app, rows, admin, dead, wifi, count>>
    PROVE  MobileInvariant'
<1> DEFINE k == [NewCall(kind, "sent") EXCEPT !.request = kind, !.user = user,
                                              !.cred = store.token]
<1>1. call[c] = None /\ call' = [call EXCEPT ![c] = k]
  BY DEF Ask, Start
<1>2. store.token \in Credential
  BY DEF MobileInvariant, MobileTypes
<1>3. kind \in Functions /\ kind \in Requests /\ "sent" \in Awaits
  BY DEF Functions, Requests, Awaits
<1>4. NewCall(kind, "sent") \in Call /\ NewCall(kind, "sent").fn = kind
      /\ NewCall(kind, "sent").at = "sent"
  BY <1>3, NewCallIsTyped
<1>5. /\ k \in Call /\ k.fn = kind /\ k.at = "sent" /\ k.request = kind /\ k.user = user
  BY <1>2, <1>3, <1>4 DEF Call
<1> HIDE DEF k
<1>6. Agrees(k, app, count)
  BY <1>5, NoneIsNoCall DEF Agrees, Shape, Retires, SignedIn, Requests
<1>7. overlapped' \in BOOLEAN
  BY DEF Meddle
<1>8. ~Holds(call[c])
  BY <1>1 DEF Holds
<1> QED
  BY <1>1, <1>5, <1>6, <1>7, <1>8, OnlyCallPreserves

LEMMA AsksPreserve ==
    ASSUME MobileInvariant, NEW c \in Calls,
           (\E u \in Users : Login(c, u)) \/ Logout(c) \/ Fetch(c)
    PROVE  MobileInvariant'
<1>1. ASSUME NEW u \in Users, Login(c, u)
      PROVE  MobileInvariant'
  <2>1. u \in User /\ u # None
    BY MobileNames DEF User
  <2> QED
    BY <1>1, <2>1, AskPreserves DEF Login, server
<1>2. CASE Logout(c)
  BY <1>2, NoDevice, AskPreserves DEF Logout, server
<1>3. CASE Fetch(c)
  BY <1>3, NoDevice, AskPreserves DEF Fetch, server
<1> QED
  BY <1>1, <1>2, <1>3

\* The three steps of a sign-in that was answered.
LEMMA PersistTokenPreserves ==
    ASSUME MobileInvariant, NEW c \in Calls, PersistToken(c)
    PROVE  MobileInvariant'
<1> DEFINE k == [call[c] EXCEPT !.at = "persist"]
<1>1. /\ call[c] # None /\ call[c].at = "answered" /\ call[c].request = "login"
      /\ call[c].answer.kind = "ok"
      /\ store' = [store EXCEPT !.token = call[c].answer.cred]
      /\ call' = [call EXCEPT ![c] = k]
      /\ UNCHANGED <<app, rows, admin, dead, wifi, count, overlapped>>
  BY DEF PersistToken, Succeeded, Goto, server
<1>2. /\ call[c] \in Call /\ Agrees(call[c], app, count) /\ count.signIns \in Nat
      /\ store \in [token : Credential, user : User, device : Device]
  BY <1>1, CallIsTyped DEF Counts
<1>3. call[c].answer.cred \in Credential
  BY <1>1, <1>2 DEF Agrees, Shape, Call, Answers
<1>4. /\ k \in Call /\ k.fn = call[c].fn /\ k.at = "persist" /\ k.answer = call[c].answer
      /\ k.request = call[c].request /\ k.user = call[c].user /\ k.mac = call[c].mac
  BY <1>2 DEF Call, Awaits
<1> HIDE DEF k
<1>5. Agrees(k, app', count')
  BY <1>1, <1>2, <1>4 DEF Agrees, Shape, Mine, Retires, SignedIn
<1>6. ~Holds(call[c])
  BY <1>1 DEF Holds
<1>7. MobileTypes' /\ count'.signIns >= count.signIns
  BY <1>1, <1>2, <1>3, <1>4 DEF MobileInvariant, MobileTypes
<1> QED
  BY <1>1, <1>2, <1>4, <1>5, <1>6, <1>7, OneCallPreserves

LEMMA PersistUserPreserves ==
    ASSUME MobileInvariant, NEW c \in Calls, PersistUser(c)
    PROVE  MobileInvariant'
<1> DEFINE k == [call[c] EXCEPT !.at = "user"]
<1>1. /\ call[c] # None /\ call[c].at = "persist"
      /\ store' = [store EXCEPT !.user = call[c].user]
      /\ app' = [app EXCEPT !.token = call[c].answer.cred]
      /\ call' = [call EXCEPT ![c] = k]
      /\ UNCHANGED <<rows, admin, dead, wifi, count, overlapped>>
  BY DEF PersistUser, Goto, server
<1>2. /\ call[c] \in Call /\ Agrees(call[c], app, count) /\ count.signIns \in Nat
      /\ store \in [token : Credential, user : User, device : Device] /\ app \in App
  BY <1>1, CallIsTyped DEF Counts
<1>3. /\ call[c].answer.cred \in Credential /\ call[c].user \in User
      /\ call[c].request = "login"
  BY <1>1, <1>2 DEF Agrees, Shape, Call, Answers
<1>4. /\ k \in Call /\ k.fn = call[c].fn /\ k.at = "user" /\ k.answer = call[c].answer
      /\ k.request = call[c].request /\ k.user = call[c].user /\ k.mac = call[c].mac
  BY <1>2 DEF Call, Awaits
<1> HIDE DEF k
<1>5. /\ app' \in App /\ app'.loading = app.loading /\ app'.ready = app.ready
      /\ app'.since = app.since /\ app'.reads = app.reads /\ app'.previous = app.previous
      /\ app'.device = app.device /\ app'.registering = app.registering
      /\ app'.user = app.user
  BY <1>1, <1>2, <1>3 DEF App
<1>6. Settled(app) <=> Settled(app')
  BY <1>5 DEF Settled
<1>7. Agrees(k, app', count')
  BY <1>1, <1>2, <1>4, <1>5, <1>6 DEF Agrees, Shape, Mine, Retires, SignedIn, SignedInSince
<1>8. ~Holds(call[c])
  BY <1>3 DEF Holds
<1>9. MobileTypes' /\ count'.signIns >= count.signIns
  BY <1>1, <1>2, <1>3, <1>4, <1>5 DEF MobileInvariant, MobileTypes
<1> QED
  BY <1>1, <1>2, <1>4, <1>5, <1>6, <1>7, <1>8, <1>9, OneCallPreserves

LEMMA SetUserPreserves ==
    ASSUME MobileInvariant, NEW c \in Calls, SetUser(c)
    PROVE  MobileInvariant'
<1>1. /\ call[c] # None /\ call[c].at = "user"
      /\ app' = [app EXCEPT !.user = store.user]
      /\ call' = [call EXCEPT ![c] = None]
      /\ UNCHANGED <<store, rows, admin, dead, wifi, count, overlapped>>
  BY DEF SetUser, End, server
<1>2. /\ Agrees(call[c], app, count) /\ count.signIns \in Nat
      /\ store.user \in User /\ app \in App
  BY <1>1, CallIsTyped DEF Counts
<1>3. SignedInSince(app, count) /\ ~Holds(call[c])
  BY <1>1, <1>2 DEF Agrees, Shape, Mine, SignedIn, Holds
<1>4. /\ app' \in App /\ app'.loading = app.loading /\ app'.ready = app.ready
      /\ app'.since = app.since /\ app'.reads = app.reads /\ app'.previous = app.previous
      /\ app'.device = app.device /\ app'.registering = app.registering
  BY <1>1, <1>2 DEF App
<1>5. Settled(app) => Settled(app')
  BY <1>4 DEF Settled
<1>6. MobileTypes' /\ count'.signIns >= count.signIns
  BY <1>1, <1>2, <1>4 DEF MobileInvariant, MobileTypes
<1> QED
  BY <1>1, <1>3, <1>4, <1>5, <1>6, OneCallPreserves

\* Signing out ends with nothing stored and nobody shown.
LEMMA ClearAllPreserves ==
    ASSUME MobileInvariant, NEW c \in Calls, ClearAll(c)
    PROVE  MobileInvariant'
<1>1. /\ call[c] # None /\ call[c].at \in {"answered", "clear"}
      /\ call[c].at = "answered" => call[c].request = "logout"
      /\ store' = Nothing /\ app' = Forget(app)
      /\ call' = [call EXCEPT ![c] = None]
      /\ UNCHANGED <<rows, admin, dead, wifi, count, overlapped>>
  BY DEF ClearAll, AskedOut, Succeeded, End, server
<1>2. /\ Shape(call[c]) /\ count.signIns \in Nat /\ app \in App
  BY <1>1, CallIsTyped DEF Counts
<1>3. ~Holds(call[c])
  BY <1>1, <1>2 DEF Shape, Holds
<1>4. /\ app' \in App /\ app'.loading = app.loading /\ app'.ready = app.ready
      /\ app'.since = app.since /\ app'.reads = app.reads /\ app'.previous = app.previous
      /\ app'.device = app.device /\ app'.registering = app.registering
      /\ app'.user = None
  BY <1>1, <1>2, ForgetApp
<1>5. Settled(app) => Settled(app')
  BY <1>4 DEF Settled
<1>6. Nothing \in [token : Credential, user : User, device : Device]
  BY NoDevice DEF Nothing
<1>7. MobileTypes' /\ count'.signIns >= count.signIns
  BY <1>1, <1>2, <1>4, <1>6 DEF MobileInvariant, MobileTypes
<1> QED
  BY <1>1, <1>3, <1>4, <1>5, <1>7, OneCallPreserves

\* What ends with an answer nothing is done with.
LEMMA EndsPreserve ==
    ASSUME MobileInvariant, NEW c \in Calls, EndFetch(c) \/ EndBeat(c)
    PROVE  MobileInvariant'
<1>1. /\ call[c].at = "answered" /\ call[c].request \in {"fetch", "beat"}
      /\ call' = [call EXCEPT ![c] = None]
      /\ UNCHANGED <<store, app, rows, admin, dead, wifi, count, overlapped>>
  BY DEF EndFetch, EndBeat, Succeeded, End, server
<1>2. ~Holds(call[c]) /\ overlapped' \in BOOLEAN
  BY <1>1 DEF Holds, MobileInvariant, MobileTypes
<1> QED
  BY <1>1, <1>2, OnlyCallPreserves

-----------------------------------------------------------------------------
(* usePushNotifications, and the world.                                    *)

LEMMA SettlePushPreserves ==
    ASSUME MobileInvariant, SettlePush
    PROVE  MobileInvariant'
<1>1. app \in App /\ count \in Counts
  BY DEF MobileInvariant, MobileTypes
<1>2. PICK token \in PermissionAnswers :
        app' = [app EXCEPT !.push = token, !.ready = TRUE, !.listening = @ \/ token # None]
  BY DEF SettlePush
<1>3. ~app.ready /\ UNCHANGED <<store, call, rows, admin, dead, wifi, count>>
      /\ overlapped' = (overlapped \/ Running # {})
  BY DEF SettlePush, server
<1>4. token \in Push
  BY <1>1, <1>2 DEF PermissionAnswers, Counts, Push, PushTokens
<1>5. /\ app' \in App
      /\ app'.since = app.since /\ app'.reads = app.reads /\ app'.previous = app.previous
      /\ app'.device = app.device /\ app'.registering = app.registering
      /\ app'.user = app.user
  BY <1>1, <1>2, <1>4 DEF App
<1>6. MobileTypes'
  BY <1>3, <1>5 DEF MobileInvariant, MobileTypes
<1>7. ~Settled(app)
  BY <1>3 DEF Settled
<1> QED
  BY <1>3, <1>5, <1>6, <1>7, NoCallPreserves

LEMMA RotateTokenPreserves ==
    ASSUME MobileInvariant, RotateToken
    PROVE  MobileInvariant'
<1>1. app \in App /\ count \in Counts /\ count.rotations <= count.troubles
  BY DEF MobileInvariant, MobileTypes
<1>2. /\ count.troubles < MaxTroubles
      /\ count' = [count EXCEPT !.troubles = @ + 1, !.rotations = @ + 1]
      /\ app' = [app EXCEPT !.push = count.rotations + 1]
      /\ UNCHANGED <<store, call, rows, admin, dead, wifi>> /\ overlapped' \in BOOLEAN
  BY DEF RotateToken, Meddle, server
<1>3. /\ count' \in Counts /\ count'.rotations <= count'.troubles
      /\ count'.signIns = count.signIns
      /\ count.rotations + 1 \in Push
  <2>1. count.rotations \in 0..MaxTroubles /\ count.troubles \in 0..MaxTroubles
    BY <1>1 DEF Counts
  <2>2. count.rotations + 1 \in 0..MaxTroubles /\ count.troubles + 1 \in 0..MaxTroubles
        /\ count.rotations + 1 <= count.troubles + 1
    BY <1>1, <1>2, <2>1, MobileBounds
  <2> QED
    BY <1>1, <1>2, <2>2 DEF Counts, Push, PushTokens
<1>4. /\ app' \in App /\ app'.loading = app.loading /\ app'.ready = app.ready
      /\ app'.since = app.since /\ app'.reads = app.reads /\ app'.previous = app.previous
      /\ app'.device = app.device /\ app'.registering = app.registering
      /\ app'.user = app.user
  BY <1>1, <1>2, <1>3 DEF App
<1>5. MobileTypes'
  BY <1>2, <1>3, <1>4 DEF MobileInvariant, MobileTypes
<1> QED
  BY <1>2, <1>3, <1>4, <1>5, NoCallPreserves DEF Settled

\* Another network, or a token that ends: the app has still to notice.
LEMMA WorldPreserves ==
    ASSUME MobileInvariant,
           (\E mac \in Places : Walk(mac)) \/ (\E n \in 1..MaxSignIns : Expire(n))
    PROVE  MobileInvariant'
<1>1. /\ UNCHANGED <<store, app, call, rows, admin>> /\ overlapped' \in BOOLEAN
      /\ count.troubles < MaxTroubles /\ count' = [count EXCEPT !.troubles = @ + 1]
  BY DEF Walk, Expire, Trouble, Meddle, server
<1>2. wifi' \in Mac /\ dead' \subseteq 1..MaxSignIns
  BY MobileBounds DEF Walk, Expire, Mac, MobileInvariant, MobileTypes, server
<1>3. count' \in Counts /\ count'.rotations <= count'.troubles
      /\ count'.signIns = count.signIns
  BY <1>1, MobileBounds DEF Counts, MobileInvariant, MobileTypes
<1>4. MobileTypes'
  BY <1>1, <1>2, <1>3 DEF MobileInvariant, MobileTypes
<1> QED
  BY <1>1, <1>3, <1>4, NoCallPreserves

-----------------------------------------------------------------------------
(* useDeviceRegistration.                                                  *)

LEMMA DepsAreTyped ==
    ASSUME NEW a \in App
    PROVE  Deps(a) \in (Push \X BOOLEAN \X BOOLEAN \X User) \cup {None}
  BY DEF Deps, App

\* Before both have settled the effect only takes note of what it depends on.
LEMMA UnsettledEffectPreserves ==
    ASSUME MobileInvariant, NEW c \in Calls, RunEffect(c, Settled(app)), ~Settled(app)
    PROVE  MobileInvariant'
<1>1. app \in App
  BY DEF MobileInvariant, MobileTypes
<1>2. /\ app' = [app EXCEPT !.deps = Deps(app), !.reads = app.reads]
      /\ UNCHANGED <<store, call, rows, admin, dead, wifi, count>>
      /\ overlapped' \in BOOLEAN
  BY DEF RunEffect, server
<1>3. /\ app' \in App /\ app'.loading = app.loading /\ app'.ready = app.ready
      /\ app'.since = app.since /\ app'.reads = app.reads /\ app'.previous = app.previous
      /\ app'.device = app.device /\ app'.registering = app.registering
      /\ app'.user = app.user
  BY <1>1, <1>2, DepsAreTyped DEF App
<1>4. MobileTypes'
  BY <1>2, <1>3 DEF MobileInvariant, MobileTypes
<1> QED
  BY <1>2, <1>3, <1>4, NoCallPreserves

\* A settled effect joins the queue of reads with whom the app shows now.
LEMMA SettledEffectPreserves ==
    ASSUME MobileInvariant, NEW c \in Calls, RunEffect(c, Settled(app)), Settled(app)
    PROVE  MobileInvariant'
<1> DEFINE k == [NewCall("settle", "read") EXCEPT !.user = app.user, !.push = app.push]
           n == Len(app.reads)
           q == Append(app.reads, c)
<1>1. app \in App /\ app.reads \in Seq(Calls) /\ n \in Nat /\ q \in Seq(Calls)
  BY DEF MobileInvariant, MobileTypes, App
<1>2. /\ app' = [app EXCEPT !.deps = Deps(app), !.reads = q]
      /\ call[c] = None /\ call' = [call EXCEPT ![c] = k]
      /\ UNCHANGED <<store, rows, admin, dead, wifi, count>>
      /\ overlapped' \in BOOLEAN
  BY DEF RunEffect, Start, server
<1>3. /\ k \in Call /\ k.fn = "settle" /\ k.at = "read" /\ k.request = None
      /\ k.user = app.user /\ k.dev = None
  <2>1. /\ NewCall("settle", "read") \in Call /\ NewCall("settle", "read").fn = "settle"
        /\ NewCall("settle", "read").at = "read" /\ NewCall("settle", "read").request = None
        /\ NewCall("settle", "read").dev = None
    BY NewCallIsTyped DEF Functions, Awaits
  <2> QED
    BY <1>1, <2>1 DEF Call, App
<1>4. /\ Len(q) = n + 1 /\ q[n + 1] = c
      /\ \A i \in 1..n : q[i] = app.reads[i] /\ app.reads[i] \in Calls
  BY <1>1
<1> HIDE DEF k, q
<1>5. /\ app' \in App /\ app'.loading = app.loading /\ app'.ready = app.ready
      /\ app'.since = app.since /\ app'.previous = app.previous
      /\ app'.device = app.device /\ app'.registering = app.registering
      /\ app'.user = app.user /\ app'.reads = q
      /\ Settled(app')
      /\ SignedInSince(app, count) <=> SignedInSince(app', count')
  BY <1>1, <1>2, DepsAreTyped DEF App, Settled, SignedInSince
<1>6. /\ call'[c] = k /\ k # None
      /\ \A d \in Calls : d # c => call'[d] = call[d]
  BY <1>2, <1>3, NoneIsNoCall DEF MobileInvariant, MobileTypes
<1>7. \A i \in 1..n : app.reads[i] # c /\ call'[app.reads[i]] = call[app.reads[i]]
  BY <1>2, <1>4, <1>6 DEF MobileInvariant, ReadsAreQueued
<1>8. MobileTypes' /\ count'.signIns >= app'.since
  BY <1>2, <1>3, <1>5 DEF MobileInvariant, MobileTypes
<1>9. CallsAgree'
  <2>1. Agrees(k, app', count')
    BY <1>3, <1>5, NoneIsNoCall DEF Agrees, Shape, Retires, SignedIn, Requests
  <2>2. \A d \in Calls : call[d] # None => Agrees(call[d], app', count')
    BY <1>5, AgreesOn DEF MobileInvariant, CallsAgree
  <2> QED
    BY <1>6, <2>1, <2>2 DEF CallsAgree
<1>10. ReadsAreQueued'
  <2>1. \A i \in 1..n + 1 : i \in 1..n \/ i = n + 1
    BY <1>1
  <2> QED
    <3>1. \A i \in 1..n + 1 : call'[q[i]] # None /\ call'[q[i]].at = "read"
      BY <1>3, <1>4, <1>6, <1>7, <2>1 DEF MobileInvariant, ReadsAreQueued
    <3>2. \A i, j \in 1..n + 1 : q[i] = q[j] => i = j
      BY <1>4, <1>7, <2>1 DEF MobileInvariant, ReadsAreQueued
    <3> QED
      BY <1>4, <1>5, <3>1, <3>2 DEF ReadsAreQueued
<1>11. KnownWhenSettled'
  BY <1>5 DEF KnownWhenSettled
<1>12. NobodyStays'
  <2> SUFFICES ASSUME ~SignedInSince(app, count)
               PROVE  NobodyStays'
    BY <1>5 DEF NobodyStays
  <2>1. \A i \in 1..n + 1 : i \in 1..n \/ i = n + 1
    BY <1>1
  <2> DEFINE whom(i) == call'[q[i]].user
  <2>2. /\ whom(n + 1) = app.user
        /\ \A i \in 1..n : whom(i) = call[app.reads[i]].user
    BY <1>3, <1>4, <1>6, <1>7
  <2> HIDE DEF whom
  <2>3. app.previous = None => app.user = None /\ \A i \in 1..n : call[app.reads[i]].user = None
    BY DEF MobileInvariant, NobodyStays
  <2>4. \A i, j \in 1..n : i <= j /\ call[app.reads[i]].user = None =>
          app.user = None /\ call[app.reads[j]].user = None
    BY DEF MobileInvariant, NobodyStays
  <2>5. \A i, j \in 1..n + 1 : i <= j /\ whom(i) = None =>
          app.user = None /\ whom(j) = None
    <3> SUFFICES ASSUME NEW i \in 1..n + 1, NEW j \in 1..n + 1, i <= j,
                        whom(i) = None
                 PROVE  app.user = None /\ whom(j) = None
      OBVIOUS
    <3>1. app.user = None
      BY <1>1, <2>1, <2>2, <2>4
    <3>2. j \in 1..n => i \in 1..n
      BY <1>1
    <3> QED
      BY <2>1, <2>2, <2>4, <3>1, <3>2
  <2>6. app.previous = None => app.user = None /\ \A i \in 1..n + 1 : whom(i) = None
    BY <2>1, <2>2, <2>3
  <2> QED
    BY <1>4, <1>5, <2>5, <2>6 DEF NobodyStays, whom
<1>13. SomeoneHolds'
  BY <1>2, <1>5, <1>6 DEF MobileInvariant, SomeoneHolds, Holds
<1> QED
  BY <1>8, <1>9, <1>10, <1>11, <1>12, <1>13 DEF MobileInvariant

LEMMA SettlePreserves ==
    ASSUME MobileInvariant, NEW c \in Calls, Settle(c)
    PROVE  MobileInvariant'
<1>1. (app.ready /\ ~app.loading) = Settled(app)
  BY DEF Settled, MobileInvariant, MobileTypes, App
<1>2. RunEffect(c, Settled(app))
  BY <1>1 DEF Settle
<1> QED
  BY <1>2, UnsettledEffectPreserves, SettledEffectPreserves

\* What becomes of an effect that has read the stored device id: a row is only
\* retired if somebody signed in since it was first seen that nobody had.
LEMMA ReadStoredCall ==
    ASSUME MobileInvariant, NEW c \in Calls, ReadStored(c), call[c] # None,
           call[c].at = "read", Agrees(call[c], app, count),
           app.previous = None /\ call[c].user # None => SignedInSince(app, count)
    PROVE  \E k \in Call \cup {None} :
             /\ call' = [call EXCEPT ![c] = k]
             /\ k # None => Agrees(k, app, count) /\ k.at # "read"
<1> DEFINE user == call[c].user
           changed == app.previous # Unset /\ app.previous # user
           retire == changed /\ app.previous = None /\ user # None
           dev == IF retire THEN store.device ELSE None
           k == [call[c] EXCEPT !.at = "drop", !.dev = dev]
<1>1. /\ call[c] \in Call /\ Settled(app) /\ call[c].fn = "settle"
      /\ call[c].request = None /\ store.device \in Device
  BY CallIsTyped DEF Agrees, Shape, Mine
<1>2. CASE changed
  <2>1. call' = [call EXCEPT ![c] = k]
    BY <1>2 DEF ReadStored
  <2>2. dev \in Device /\ dev # None => retire
    BY <1>1, NoDevice
  <2>3. dev \in Device
    BY <1>1, NoDevice
  <2>4. retire => SignedInSince(app, count)
    OBVIOUS
  <2> HIDE DEF dev, retire
  <2>5. /\ k \in Call /\ k.fn = "settle" /\ k.at = "drop" /\ k.request = None /\ k.dev = dev
    BY <1>1, <2>3 DEF Call, Awaits
  <2> HIDE DEF k
  <2>6. Agrees(k, app, count)
    BY <1>1, <2>2, <2>3, <2>4, <2>5, NoneIsNoCall
       DEF Agrees, Shape, Retires, SignedIn, Requests
  <2> QED
    BY <2>1, <2>5, <2>6
<1>3. CASE ~changed
  <2>1. TryRegister(c)
    BY <1>3 DEF ReadStored
  <2> DEFINE x == [call[c] EXCEPT !.request = "register", !.at = "bssid"]
  <2>2. x \in Call /\ x.fn = "settle" /\ x.request = "register" /\ x.at = "bssid"
    BY <1>1 DEF Call, Awaits, Requests
  <2>3. call' = [call EXCEPT ![c] = None] \/ call' = [call EXCEPT ![c] = x]
    BY <2>1 DEF TryRegister, End
  <2> HIDE DEF x
  <2>4. Agrees(x, app, count)
    BY <1>1, <2>2, NoneIsNoCall DEF Agrees, Shape, Mine, Retires, SignedIn, Requests
  <2> QED
    BY <2>2, <2>3, <2>4
<1> QED
  BY <1>2, <1>3

LEMMA ReadStoredPreserves ==
    ASSUME MobileInvariant, NEW c \in Calls, ReadStored(c)
    PROVE  MobileInvariant'
<1> DEFINE n == Len(app.reads)
           q == Tail(app.reads)
           user == call[c].user
<1>1. /\ app \in App /\ app.reads \in Seq(Calls) /\ n \in Nat /\ app.reads # <<>>
      /\ c = Head(app.reads)
  BY DEF MobileInvariant, MobileTypes, App, ReadStored
<1>2. /\ n >= 1 /\ c = app.reads[1] /\ q \in Seq(Calls) /\ Len(q) = n - 1
      /\ \A i \in 1..n - 1 : q[i] = app.reads[i + 1]
      /\ \A i \in 1..n : app.reads[i] \in Calls
  BY <1>1
<1>3. 1 \in 1..n /\ \A i \in 1..n - 1 : i + 1 \in 1..n /\ i + 1 # 1
  BY <1>2, <1>1
<1>4. call[c] # None /\ call[c].at = "read"
  BY <1>2, <1>3 DEF MobileInvariant, ReadsAreQueued
<1>5. /\ call[c] \in Call /\ Agrees(call[c], app, count) /\ store.device \in Device
      /\ Settled(app) /\ user \in User
  BY <1>4, CallIsTyped DEF Agrees, Shape, Mine, Call
<1>6. \A i \in 1..n - 1 : q[i] # c /\ q[i] \in Calls
  BY <1>2, <1>3 DEF MobileInvariant, ReadsAreQueued
<1>7. app.previous = None /\ user # None => SignedInSince(app, count)
  BY <1>2, <1>3 DEF MobileInvariant, NobodyStays
<1>8. PICK k \in Call \cup {None} :
        /\ call' = [call EXCEPT ![c] = k]
        /\ k # None => Agrees(k, app, count) /\ k.at # "read"
  BY <1>4, <1>5, <1>7, ReadStoredCall
<1> DEFINE changed == app.previous # Unset /\ app.previous # user
           device == IF changed THEN None
                     ELSE IF store.device # None THEN store.device ELSE app.device
<1>9. /\ app' = [app EXCEPT !.previous = user, !.reads = q, !.device = device]
      /\ UNCHANGED <<store, rows, admin, dead, wifi, count, overlapped>>
  BY DEF ReadStored, server
<1>10. device \in Device
  BY <1>1, <1>5, NoDevice DEF App
<1> HIDE DEF q, device, user
<1>11. /\ app' \in App /\ app'.loading = app.loading /\ app'.ready = app.ready
       /\ app'.since = app.since /\ app'.previous = user
       /\ app'.registering = app.registering
       /\ app'.user = app.user /\ app'.reads = q
  BY <1>1, <1>2, <1>5, <1>9, <1>10 DEF App
<1>12. /\ Settled(app')
       /\ SignedInSince(app, count) <=> SignedInSince(app', count')
  BY <1>5, <1>9, <1>11 DEF Settled, SignedInSince
<1>13. call'[c] = k /\ \A d \in Calls : d # c => call'[d] = call[d]
  BY <1>8 DEF MobileInvariant, MobileTypes
<1>14. call' \in [Calls -> Call \cup {None}]
  BY <1>8 DEF MobileInvariant, MobileTypes
<1>15. MobileTypes' /\ count'.signIns >= app'.since
  BY <1>9, <1>11, <1>14 DEF MobileInvariant, MobileTypes
<1>16. CallsAgree'
  <2>1. k # None => Agrees(k, app', count')
    BY <1>8, <1>12, AgreesOn
  <2>2. \A d \in Calls : call[d] # None => Agrees(call[d], app', count')
    BY <1>12, AgreesOn DEF MobileInvariant, CallsAgree
  <2> QED
    BY <1>13, <2>1, <2>2 DEF CallsAgree
<1>17. \A i \in 1..n - 1 : call'[q[i]] = call[app.reads[i + 1]]
  BY <1>2, <1>6, <1>13 DEF q
<1>18. ReadsAreQueued'
  <2>1. \A i \in 1..n - 1 : call'[q[i]] # None /\ call'[q[i]].at = "read"
    BY <1>3, <1>17 DEF MobileInvariant, ReadsAreQueued
  <2>2. \A i, j \in 1..n - 1 : q[i] = q[j] => i = j
    <3> SUFFICES ASSUME NEW i \in 1..n - 1, NEW j \in 1..n - 1, q[i] = q[j]
                 PROVE  i = j
      OBVIOUS
    <3>1. app.reads[i + 1] = app.reads[j + 1]
      BY <1>2 DEF q
    <3>2. i + 1 = j + 1
      BY <1>3, <3>1 DEF MobileInvariant, ReadsAreQueued
    <3> QED
      BY <3>2
  <2> QED
    BY <1>2, <1>11, <2>1, <2>2 DEF ReadsAreQueued, q
<1>19. KnownWhenSettled'
  BY <1>12 DEF KnownWhenSettled
<1>20. NobodyStays'
  <2> SUFFICES ASSUME ~SignedInSince(app, count)
               PROVE  NobodyStays'
    BY <1>12 DEF NobodyStays
  <2>1. \A i, j \in 1..n : i <= j /\ call[app.reads[i]].user = None =>
          app.user = None /\ call[app.reads[j]].user = None
    BY DEF MobileInvariant, NobodyStays
  <2>2. user = None => app.user = None /\ \A i \in 1..n - 1 : call'[q[i]].user = None
    <3> SUFFICES ASSUME user = None
                 PROVE  app.user = None /\ \A i \in 1..n - 1 : call'[q[i]].user = None
      OBVIOUS
    <3>1. call[app.reads[1]].user = None
      BY <1>2 DEF user
    <3>2. \A j \in 1..n : 1 <= j
      OBVIOUS
    <3>3. app.user = None /\ \A j \in 1..n : call[app.reads[j]].user = None
      BY <1>3, <2>1, <3>1, <3>2
    <3> QED
      BY <1>3, <1>17, <3>3
  <2>3. \A i, j \in 1..n - 1 : i <= j /\ call'[q[i]].user = None =>
          app.user = None /\ call'[q[j]].user = None
    <3> SUFFICES ASSUME NEW i \in 1..n - 1, NEW j \in 1..n - 1, i <= j,
                        call'[q[i]].user = None
                 PROVE  app.user = None /\ call'[q[j]].user = None
      OBVIOUS
    <3>1. i + 1 <= j + 1 /\ i + 1 \in 1..n /\ j + 1 \in 1..n
      BY <1>3
    <3> QED
      BY <1>17, <2>1, <3>1
  <2> QED
    BY <1>2, <1>11, <2>2, <2>3 DEF NobodyStays, q
<1>21. SomeoneHolds'
  <2>1. ~Holds(call[c])
    BY <1>4, <1>5, NoneIsNoCall DEF Agrees, Shape, Holds, Requests
  <2> QED
    BY <1>11, <1>13, <2>1 DEF MobileInvariant, SomeoneHolds
<1> QED
  BY <1>15, <1>16, <1>18, <1>19, <1>20, <1>21 DEF MobileInvariant
LEMMA DropStoredPreserves ==
    ASSUME MobileInvariant, NEW c \in Calls, DropStored(c)
    PROVE  MobileInvariant'
<1>1. /\ call[c] # None /\ call[c].at = "drop" /\ store' = [store EXCEPT !.device = None]
      /\ UNCHANGED <<app, rows, admin, dead, wifi, count, overlapped>>
  BY DEF DropStored, server
<1>2. /\ call[c] \in Call /\ Agrees(call[c], app, count) /\ count.signIns \in Nat
      /\ store \in [token : Credential, user : User, device : Device]
      /\ call[c].fn = "settle" /\ Settled(app) /\ call[c].request = None
  BY <1>1, CallIsTyped DEF Counts, Agrees, Shape, Mine
<1>3. \E k \in Call \cup {None} :
        /\ call' = [call EXCEPT ![c] = k]
        /\ k # None => Agrees(k, app, count)
  <2>1. CASE call[c].dev # None
    <3> DEFINE k == [call[c] EXCEPT !.request = "remove", !.at = "send"]
    <3>1. call' = [call EXCEPT ![c] = k]
      BY <2>1 DEF DropStored, Request
    <3>2. k \in Call /\ k.fn = "settle" /\ k.request = "remove" /\ k.at = "send"
      BY <1>2 DEF Call, Awaits, Requests
    <3>3. SignedInSince(app, count)
      BY <1>1, <1>2, <2>1 DEF Agrees, Mine, Retires
    <3> HIDE DEF k
    <3>4. Agrees(k, app, count)
      BY <1>2, <3>2, <3>3, NoneIsNoCall DEF Agrees, Shape, SignedIn, Requests
    <3> QED
      BY <3>1, <3>2, <3>4
  <2>2. CASE call[c].dev = None
    <3>1. TryRegister(c)
      BY <2>2 DEF DropStored
    <3> QED
      BY <1>2, <3>1, TryRegisterCall
  <2> QED
    BY <2>1, <2>2
<1>4. PICK k \in Call \cup {None} :
        /\ call' = [call EXCEPT ![c] = k]
        /\ k # None => Agrees(k, app, count)
  BY <1>3
<1>5. ~Holds(call[c])
  BY <1>2, NoneIsNoCall DEF Holds, Requests
<1>6. call' \in [Calls -> Call \cup {None}] /\ count'.signIns >= count.signIns
  BY <1>1, <1>2, <1>4 DEF MobileInvariant, MobileTypes
<1>7. MobileTypes'
  BY <1>1, <1>2, <1>6, NoDevice DEF MobileInvariant, MobileTypes
<1> QED
  BY <1>1, <1>4, <1>5, <1>6, <1>7, OneCallPreserves

LEMMA RetiredPreserves ==
    ASSUME MobileInvariant, NEW c \in Calls, Retired(c)
    PROVE  MobileInvariant'
<1>1. /\ call[c] # None /\ call[c].at = "answered" /\ call[c].request = "remove"
      /\ TryRegister(c)
      /\ UNCHANGED <<store, app, rows, admin, dead, wifi, count, overlapped>>
  BY DEF Retired, Succeeded, server
<1>2. call[c] \in Call /\ call[c].fn = "settle" /\ Settled(app)
  BY <1>1, CallIsTyped DEF Agrees, Shape, Mine
<1>3. PICK k \in Call \cup {None} :
        /\ call' = [call EXCEPT ![c] = k]
        /\ k # None => Agrees(k, app, count)
  BY <1>1, <1>2, TryRegisterCall
<1>4. ~Holds(call[c]) /\ overlapped' \in BOOLEAN
  BY <1>1 DEF Holds, MobileInvariant, MobileTypes
<1> QED
  BY <1>1, <1>3, <1>4, OnlyCallPreserves

\* Past its guard, a registration holds the flag it has set.
LEMMA ReadBssidPreserves ==
    ASSUME MobileInvariant, NEW c \in Calls, ReadBssid(c)
    PROVE  MobileInvariant'
<1> DEFINE k == [[call[c] EXCEPT !.mac = wifi] EXCEPT !.request = "register", !.at = "send"]
<1>1. /\ call[c] # None /\ call[c].at = "bssid" /\ call[c].request = "register"
      /\ UNCHANGED <<store, rows, admin, dead, wifi, count, overlapped>>
  BY DEF ReadBssid, server
<1>2. /\ call[c] \in Call /\ Agrees(call[c], app, count) /\ app \in App
      /\ call[c].fn \in {"settle", "beat"} /\ Settled(app) /\ count.signIns \in Nat
  BY <1>1, CallIsTyped DEF Counts, Agrees, Shape, Mine
<1>3. ~Holds(call[c]) /\ overlapped' \in BOOLEAN
  BY <1>1 DEF Holds, MobileInvariant, MobileTypes
<1>4. CASE wifi = None
  <2>1. call' = [call EXCEPT ![c] = None] /\ UNCHANGED app
    BY <1>4 DEF ReadBssid, End
  <2> QED
    BY <1>1, <1>3, <2>1, OnlyCallPreserves
<1>5. CASE wifi # None
  <2>1. app' = [app EXCEPT !.registering = TRUE] /\ call' = [call EXCEPT ![c] = k]
    BY <1>5 DEF ReadBssid, Request
  <2>2. wifi \in Mac
    BY DEF MobileInvariant, MobileTypes
  <2>3. /\ k \in Call /\ k.fn = call[c].fn /\ k.request = "register" /\ k.at = "send"
        /\ k.mac = wifi
    BY <1>2, <2>2 DEF Call, Awaits, Requests
  <2> HIDE DEF k
  <2>4. /\ app' \in App /\ app'.loading = app.loading /\ app'.ready = app.ready
        /\ app'.since = app.since /\ app'.reads = app.reads /\ app'.previous = app.previous
        /\ app'.device = app.device /\ app'.user = app.user
    BY <1>2, <2>1 DEF App
  <2>5. Settled(app')
    BY <1>2, <2>4 DEF Settled
  <2>6. Agrees(k, app', count') /\ Holds(k)
    BY <1>2, <1>5, <2>3, <2>5, NoneIsNoCall
       DEF Agrees, Shape, Retires, SignedIn, Requests, Holds
  <2>7. MobileTypes' /\ count'.signIns >= count.signIns
    BY <1>1, <1>2, <2>1, <2>3, <2>4 DEF MobileInvariant, MobileTypes
  <2> QED
    BY <1>1, <2>1, <2>3, <2>4, <2>5, <2>6, <2>7, OneCallPreserves
<1> QED
  BY <1>4, <1>5

\* What a registration that came through leaves in the app.
LEMMA RegisteredApp ==
    ASSUME NEW c \in Calls, call[c] \in Call, call[c].answer \in Answers, NEW a \in App
    PROVE  /\ Registered(c, a) \in App
           /\ ~Registered(c, a).registering
           /\ Registered(c, a).loading = a.loading /\ Registered(c, a).ready = a.ready
           /\ Registered(c, a).since = a.since /\ Registered(c, a).reads = a.reads
           /\ Registered(c, a).previous = a.previous /\ Registered(c, a).user = a.user
<1>1. call[c].answer.dev \in Device /\ call[c].mac \in Mac
  BY DEF Call, Answers
<1> QED
  BY <1>1 DEF Registered, App

\* The last step of a registration, whatever it stores.
LEMMA RegisteredPreserves ==
    ASSUME MobileInvariant, NEW c \in Calls, call[c] # None,
           call[c].at \in {"answered", "credential"}, call[c].request = "register",
           store' \in [token : Credential, user : User, device : Device],
           app' = Registered(c, app), call' = [call EXCEPT ![c] = None],
           UNCHANGED <<rows, admin, dead, wifi, count, overlapped>>
    PROVE  MobileInvariant'
<1>1. /\ call[c] \in Call /\ app \in App /\ count.signIns \in Nat
      /\ call[c].fn \in {"settle", "beat"} /\ Settled(app) /\ call[c].answer \in Answers
  BY CallIsTyped DEF Counts, Agrees, Shape, Mine, Call
<1>2. /\ app' \in App /\ ~app'.registering
      /\ app'.loading = app.loading /\ app'.ready = app.ready
      /\ app'.since = app.since /\ app'.reads = app.reads /\ app'.previous = app.previous
      /\ app'.user = app.user
  BY <1>1, RegisteredApp
<1>3. Settled(app')
  BY <1>1, <1>2 DEF Settled
<1>4. MobileTypes' /\ count'.signIns >= count.signIns
  BY <1>1, <1>2 DEF MobileInvariant, MobileTypes
<1> QED
  BY <1>1, <1>2, <1>3, <1>4, OneCallPreserves

LEMMA StoreDevicePreserves ==
    ASSUME MobileInvariant, NEW c \in Calls, StoreDevice(c)
    PROVE  MobileInvariant'
<1>1. /\ call[c] # None /\ call[c].at = "answered" /\ call[c].request = "register"
      /\ store' = [store EXCEPT !.device = call[c].answer.dev]
      /\ UNCHANGED <<rows, admin, dead, wifi, count, overlapped>>
  BY DEF StoreDevice, Succeeded, server
<1>2. /\ call[c] \in Call /\ Agrees(call[c], app, count) /\ count.signIns \in Nat
      /\ store \in [token : Credential, user : User, device : Device]
      /\ call[c].answer \in Answers
  BY <1>1, CallIsTyped DEF Counts, Shape, Call
<1>3. call[c].answer.dev \in Device
  BY <1>2 DEF Answers
<1>4. store' \in [token : Credential, user : User, device : Device]
  BY <1>1, <1>2, <1>3
<1>5. CASE call[c].answer.cred # None
  <2> DEFINE k == [call[c] EXCEPT !.at = "credential"]
  <2>1. call' = [call EXCEPT ![c] = k] /\ UNCHANGED app
    BY <1>5 DEF StoreDevice, Goto
  <2>2. /\ k \in Call /\ k.fn = call[c].fn /\ k.at = "credential"
        /\ k.answer = call[c].answer /\ k.request = "register" /\ k.mac = call[c].mac
    BY <1>1, <1>2 DEF Call, Awaits
  <2> HIDE DEF k
  <2>3. Agrees(k, app', count') /\ Holds(k)
    BY <1>1, <1>2, <2>1, <2>2, NoneIsNoCall DEF Agrees, Shape, Mine, Retires, SignedIn, Holds
  <2>4. MobileTypes' /\ count'.signIns >= count.signIns
    BY <1>1, <1>2, <1>4, <2>1, <2>2 DEF MobileInvariant, MobileTypes
  <2> QED
    BY <1>1, <2>1, <2>2, <2>3, <2>4, OneCallPreserves
<1>6. CASE call[c].answer.cred = None
  <2>1. app' = Registered(c, app) /\ call' = [call EXCEPT ![c] = None]
    BY <1>6 DEF StoreDevice, End
  <2> QED
    BY <1>1, <1>4, <2>1, RegisteredPreserves
<1> QED
  BY <1>5, <1>6

LEMMA StoreCredentialPreserves ==
    ASSUME MobileInvariant, NEW c \in Calls, StoreCredential(c)
    PROVE  MobileInvariant'
<1>1. /\ call[c] # None /\ call[c].at = "credential"
      /\ store' = [store EXCEPT !.token = call[c].answer.cred]
      /\ app' = Registered(c, app) /\ call' = [call EXCEPT ![c] = None]
      /\ UNCHANGED <<rows, admin, dead, wifi, count, overlapped>>
  BY DEF StoreCredential, End, server
<1>2. /\ call[c] \in Call /\ call[c].request = "register"
      /\ store \in [token : Credential, user : User, device : Device]
      /\ call[c].answer \in Answers
  BY <1>1, CallIsTyped DEF Shape, Call
<1>3. call[c].answer.cred \in Credential
  BY <1>2 DEF Answers
<1> QED
  BY <1>1, <1>2, <1>3, RegisteredPreserves

\* A heartbeat is only started for a device the app knows.
LEMMA TickPreserves ==
    ASSUME MobileInvariant, NEW c \in Calls, Tick(c)
    PROVE  MobileInvariant'
<1> DEFINE k == [NewCall("beat", "bssid") EXCEPT !.request = "beat", !.dev = app.device]
<1>1. /\ app.device # None /\ call[c] = None /\ call' = [call EXCEPT ![c] = k]
      /\ UNCHANGED <<store, app, rows, admin, dead, wifi, count>> /\ overlapped' \in BOOLEAN
  BY DEF Tick, Start, Meddle, server
<1>2. app.device \in Device /\ Settled(app)
  BY <1>1 DEF MobileInvariant, MobileTypes, App, KnownWhenSettled
<1>3. /\ NewCall("beat", "bssid") \in Call /\ NewCall("beat", "bssid").fn = "beat"
      /\ NewCall("beat", "bssid").at = "bssid"
  BY NewCallIsTyped DEF Functions, Awaits
<1>4. k \in Call /\ k.fn = "beat" /\ k.at = "bssid" /\ k.request = "beat"
  BY <1>2, <1>3 DEF Call, Requests
<1> HIDE DEF k
<1>5. Agrees(k, app, count)
  BY <1>2, <1>4 DEF Agrees, Shape, Retires, SignedIn
<1>6. ~Holds(call[c])
  BY <1>1 DEF Holds
<1> QED
  BY <1>1, <1>4, <1>5, <1>6, OnlyCallPreserves

LEMMA TickReadPreserves ==
    ASSUME MobileInvariant, NEW c \in Calls, TickRead(c)
    PROVE  MobileInvariant'
<1> DEFINE again == [call[c] EXCEPT !.request = "register", !.push = app.push]
           beat == [[call[c] EXCEPT !.mac = wifi] EXCEPT !.request = "beat", !.at = "send"]
<1>1. /\ call[c] # None /\ call[c].at = "bssid" /\ call[c].request = "beat"
      /\ UNCHANGED <<store, app, rows, admin, dead, wifi, count, overlapped>>
  BY DEF TickRead, server
<1>2. /\ call[c] \in Call /\ Agrees(call[c], app, count) /\ app.push \in Push
      /\ wifi \in Mac /\ call[c].fn \in {"settle", "beat"} /\ Settled(app)
  BY <1>1, CallIsTyped DEF MobileInvariant, MobileTypes, Agrees, Shape, Mine, App
<1>3. ~Holds(call[c]) /\ overlapped' \in BOOLEAN
  BY <1>1 DEF Holds, MobileInvariant, MobileTypes
<1>4. CASE call' = [call EXCEPT ![c] = None]
  BY <1>1, <1>3, <1>4, OnlyCallPreserves
<1>5. CASE call' = [call EXCEPT ![c] = again]
  <2>1. again \in Call /\ again.fn = call[c].fn /\ again.request = "register"
        /\ again.at = "bssid"
    BY <1>1, <1>2 DEF Call, Requests
  <2> HIDE DEF again
  <2>2. Agrees(again, app, count)
    BY <1>2, <2>1 DEF Agrees, Shape, Retires, SignedIn
  <2> QED
    BY <1>1, <1>3, <1>5, <2>1, <2>2, OnlyCallPreserves
<1>6. CASE wifi # None /\ call' = [call EXCEPT ![c] = beat]
  <2>1. /\ beat \in Call /\ beat.fn = call[c].fn /\ beat.request = "beat"
        /\ beat.at = "send" /\ beat.mac = wifi
    BY <1>2 DEF Call, Awaits, Requests
  <2> HIDE DEF beat
  <2>2. Agrees(beat, app, count)
    BY <1>2, <1>6, <2>1, NoneIsNoCall DEF Agrees, Shape, Retires, SignedIn, Requests
  <2> QED
    BY <1>1, <1>3, <1>6, <2>1, <2>2, OnlyCallPreserves
<1>7. \/ call' = [call EXCEPT ![c] = None]
      \/ call' = [call EXCEPT ![c] = again]
      \/ wifi # None /\ call' = [call EXCEPT ![c] = beat]
  <2>1. CASE wifi = None
    BY <2>1 DEF TickRead, End
  <2>2. CASE wifi # None /\ app.mac # None /\ app.mac # wifi /\ app.registering
    BY <2>2 DEF TickRead, End
  <2>3. CASE wifi # None /\ app.mac # None /\ app.mac # wifi /\ ~app.registering
    BY <2>3 DEF TickRead
  <2>4. CASE wifi # None /\ ~(app.mac # None /\ app.mac # wifi)
    BY <2>4 DEF TickRead, Request
  <2> QED
    BY <2>1, <2>2, <2>3, <2>4
<1> QED
  BY <1>4, <1>5, <1>6, <1>7

-----------------------------------------------------------------------------
(* The theorems.                                                           *)

\* A launch knows nothing yet; of the calls before it only sent requests are left.
LEMMA RelaunchPreserves ==
    ASSUME MobileInvariant, Relaunch
    PROVE  MobileInvariant'
<1>1. /\ count.troubles < MaxTroubles /\ count' = [count EXCEPT !.troubles = @ + 1]
      /\ app' = Launched(count.signIns)
      /\ UNCHANGED <<store, rows, admin, dead, wifi>> /\ overlapped' \in BOOLEAN
      /\ call' = [c \in Calls |->
                    IF call[c] # None /\ call[c].at \in {"sent", "orphan"}
                      THEN [call[c] EXCEPT !.at = "orphan"] ELSE None]
  BY DEF Relaunch, Trouble, Meddle, server
<1>2. /\ count' \in Counts /\ count'.rotations <= count'.troubles
      /\ count'.signIns = count.signIns /\ count.signIns \in 0..MaxSignIns
  BY <1>1, MobileBounds DEF Counts, MobileInvariant, MobileTypes
<1>3. <<>> \in Seq(Calls)
  OBVIOUS
<1>4. /\ app' \in App /\ app'.since = count.signIns /\ app'.reads = <<>>
      /\ app'.previous = Unset /\ app'.device = None /\ ~app'.registering
  BY <1>1, <1>2, <1>3, NoDevice DEF Launched, App, Mac, Unset
<1>5. ASSUME NEW c \in Calls
      PROVE  /\ call'[c] \in Call \cup {None}
             /\ call'[c] # None => Agrees(call'[c], app', count')
  <2> DEFINE k == [call[c] EXCEPT !.at = "orphan"]
  <2>1. CASE call[c] # None /\ call[c].at \in {"sent", "orphan"}
    <3>1. call[c] \in Call /\ Shape(call[c])
      BY <2>1, CallIsTyped
    <3>2. /\ k \in Call /\ k.fn = call[c].fn /\ k.at = "orphan" /\ k.mac = call[c].mac
          /\ k.request = call[c].request /\ k.user = call[c].user
      BY <3>1 DEF Call, Awaits
    <3>3. call'[c] = k
      BY <1>1, <2>1
    <3> HIDE DEF k
    <3>4. Agrees(k, app', count')
      BY <2>1, <3>1, <3>2 DEF Agrees, Shape, Mine
    <3> QED
      BY <3>2, <3>3, <3>4
  <2>2. CASE ~(call[c] # None /\ call[c].at \in {"sent", "orphan"})
    BY <1>1, <2>2
  <2> QED
    BY <2>1, <2>2
<1>6. call' \in [Calls -> Call \cup {None}]
  BY <1>1, <1>5
<1>7. MobileTypes' /\ count'.signIns >= app'.since
  BY <1>1, <1>2, <1>4, <1>6 DEF MobileInvariant, MobileTypes
<1>8. CallsAgree'
  BY <1>5 DEF CallsAgree
<1>9. ReadsAreQueued' /\ NobodyStays' /\ KnownWhenSettled' /\ SomeoneHolds'
  BY <1>4, MobileNames DEF ReadsAreQueued, NobodyStays, KnownWhenSettled, SomeoneHolds
<1> QED
  BY <1>7, <1>8, <1>9 DEF MobileInvariant

LEMMA MobileStarts == Init => MobileInvariant
<1> SUFFICES ASSUME Init
             PROVE  MobileInvariant
  OBVIOUS
<1>1. <<>> \in Seq(Calls)
  OBVIOUS
<1>2. /\ app \in App /\ app.since = 0 /\ app.reads = <<>>
      /\ app.previous = Unset /\ app.device = None /\ ~app.registering
  BY <1>1, NoDevice, MobileBounds DEF Init, Launched, App, Mac, Unset
<1>3. store \in [token : Credential, user : User, device : Device]
  BY NoDevice DEF Init, Nothing
<1>4. wifi \in Mac
  BY MobileBounds DEF Init, Mac
<1>5. count \in Counts /\ count.rotations <= count.troubles /\ count.signIns >= 0
  BY MobileBounds DEF Init, Counts
<1>6. MobileTypes
  BY <1>2, <1>3, <1>4, <1>5 DEF Init, MobileTypes, User
<1> QED
  BY <1>2, <1>5, <1>6, MobileNames
     DEF Init, MobileInvariant, CallsAgree, ReadsAreQueued, NobodyStays, KnownWhenSettled,
         SomeoneHolds

LEMMA MobileStep == MobileInvariant /\ [Next]_vars => MobileInvariant'
<1> SUFFICES ASSUME MobileInvariant, [Next]_vars
             PROVE  MobileInvariant'
  OBVIOUS
<1>1. CASE Restore \/ SettlePush \/ RotateToken \/ Relaunch
  BY <1>1, RestorePreserves, SettlePushPreserves, RotateTokenPreserves, RelaunchPreserves
<1>2. ASSUME NEW c \in Calls, CallStep(c)
      PROVE  MobileInvariant'
  BY <1>2, SendPreserves, ServePreserves, LosePreserves, FailPreserves, ClearTokenPreserves,
     ClearUserPreserves, PersistTokenPreserves, PersistUserPreserves, SetUserPreserves,
     ClearAllPreserves, EndsPreserve, ReadStoredPreserves, DropStoredPreserves,
     RetiredPreserves, ReadBssidPreserves, StoreDevicePreserves, StoreCredentialPreserves,
     TickReadPreserves DEF CallStep
<1>3. ASSUME NEW c \in Calls, Settle(c) \/ Fetch(c) \/ Tick(c) \/ Logout(c)
      PROVE  MobileInvariant'
  BY <1>3, SettlePreserves, AsksPreserve, TickPreserves
<1>4. ASSUME NEW c \in Calls, NEW u \in Users, Login(c, u)
      PROVE  MobileInvariant'
  BY <1>4, AsksPreserve
<1>5. CASE (\E mac \in Places : Walk(mac)) \/ (\E n \in 1..MaxSignIns : Expire(n))
  BY <1>5, WorldPreserves
<1>6. CASE UNCHANGED vars
  BY <1>6 DEF vars, MobileInvariant, MobileTypes, CallsAgree, ReadsAreQueued, NobodyStays,
              KnownWhenSettled, SomeoneHolds
<1> QED
  BY <1>1, <1>2, <1>3, <1>4, <1>5, <1>6 DEF Next

\* However the awaits of registrations, heartbeats, sign-ins and screens fall, and
\* whenever the app is killed, the invariant holds.
THEOREM MobileInvariantHolds == Spec => []MobileInvariant
<1>1. Init => MobileInvariant
  BY MobileStarts
<1>2. MobileInvariant /\ [Next]_vars => MobileInvariant'
  BY MobileStep
<1> QED
  BY <1>1, <1>2, PTL DEF Spec

\* Type correctness of the phone's storage, state and calls, and of the server's
\* rows as far as this phone sees them.
THEOREM MobileTypesCorrect == Spec => []TypeOK
<1>1. MobileInvariant => TypeOK
  <2> SUFFICES ASSUME MobileInvariant
               PROVE  TypeOK
    OBVIOUS
  <2>1. \A c \in Calls : call[c] # None => call[c] \in Call
    BY CallIsTyped
  <2>2. app \in App
    BY DEF MobileInvariant, MobileTypes
  <2> QED
    BY <2>1, <2>2 DEF TypeOK, MobileInvariant, MobileTypes, App, Call, Credential, User,
                      Device, Mac, Push
<1> QED
  BY <1>1, MobileInvariantHolds, PTL

\* A registration of this launch is only sent by an app that has settled who it
\* is for and which push token it has.
THEOREM RegistrationsAreInformed == Spec => []RegistersWhatItKnows
<1>1. MobileInvariant => RegistersWhatItKnows
  BY DEF MobileInvariant, CallsAgree, Agrees, Shape, Mine, Settled, RegistersWhatItKnows
<1> QED
  BY <1>1, MobileInvariantHolds, PTL

\* A restored session, or a sign-out, is never taken for a sign-in: no row is
\* retired in a launch in which nobody signed in.
THEOREM SignInsRetire == Spec => []OnlyASignInRetires
<1>1. MobileInvariant => OnlyASignInRetires
  BY DEF MobileInvariant, CallsAgree, Agrees, Mine, Retires, SignedInSince,
         OnlyASignInRetires
<1> QED
  BY <1>1, MobileInvariantHolds, PTL

\* The overlap guard is never left set: a registration that will clear it is
\* under way.
THEOREM FlagsAreHeld == Spec => []FlagIsHeld
<1>1. MobileInvariant => FlagIsHeld
  BY DEF MobileInvariant, SomeoneHolds, Holds, FlagIsHeld
<1> QED
  BY <1>1, MobileInvariantHolds, PTL
-----------------------------------------------------------------------------
(* As long as calls run one by one: OneByOne is inductive.                 *)

\* Apps that differ in nothing OneByOne speaks of.
Alike(a, b) ==
    /\ b.loading = a.loading /\ b.token = a.token /\ b.user = a.user
    /\ b.ready = a.ready /\ b.push = a.push /\ b.device = a.device
    /\ b.mac = a.mac /\ b.previous = a.previous /\ b.deps = a.deps

\* A step of the one call under way.
LEMMA OneCallKeeps ==
    ASSUME MobileInvariant, OneByOne, NEW c \in Calls, call[c] # None,
           NEW k \in Call \cup {None}, call' = [call EXCEPT ![c] = k],
           overlapped' = overlapped,
           Orderly(store, app, call[c], rows) => Orderly(store', app', k, rows')
    PROVE  OneByOne'
<1> SUFFICES ASSUME ~overlapped'
             PROVE  /\ \A d, e \in Running' : d = e
                    /\ Running' = {} => Orderly(store', app', None, rows')
                    /\ \A d \in Running' : Orderly(store', app', call'[d], rows')
  BY DEF OneByOne
<1>1. c \in Running /\ Orderly(store, app, call[c], rows)
  BY DEF OneByOne, Running
<1>2. \A d \in Calls \ {c} : call[d] = None
  BY <1>1 DEF OneByOne, Running
<1>3. call'[c] = k /\ \A d \in Calls \ {c} : call'[d] = None
  BY <1>2 DEF MobileInvariant, MobileTypes
<1>4. Running' = IF k = None THEN {} ELSE {c}
  BY <1>3 DEF Running
<1> QED
  BY <1>1, <1>3, <1>4

\* A call that starts: OneByOne only speaks of it if none ran.
LEMMA FirstCallKeeps ==
    ASSUME MobileInvariant, OneByOne, NEW c \in Calls, NEW k \in Call,
           call' = [call EXCEPT ![c] = k],
           ~overlapped' => ~overlapped /\ Running = {},
           ~overlapped' /\ Orderly(store, app, None, rows) => Orderly(store', app', k, rows')
    PROVE  OneByOne'
<1> SUFFICES ASSUME ~overlapped'
             PROVE  /\ \A d, e \in Running' : d = e
                    /\ Running' = {} => Orderly(store', app', None, rows')
                    /\ \A d \in Running' : Orderly(store', app', call'[d], rows')
  BY DEF OneByOne
<1>1. Orderly(store, app, None, rows) /\ \A d \in Calls : call[d] = None
  BY DEF OneByOne, Running
<1>2. call'[c] = k /\ k # None /\ \A d \in Calls \ {c} : call'[d] = None
  BY <1>1, NoneIsNoCall DEF MobileInvariant, MobileTypes
<1>3. Running' = {c}
  BY <1>2 DEF Running
<1> QED
  BY <1>1, <1>2, <1>3

\* A step beside the calls.
LEMMA BesideKeeps ==
    ASSUME MobileInvariant, OneByOne, call' = call, ~overlapped' => ~overlapped,
           \A k \in Call \cup {None} :
             /\ ~overlapped' /\ (k = None <=> Running = {})
             /\ Orderly(store, app, k, rows)
             => Orderly(store', app', k, rows')
    PROVE  OneByOne'
<1> SUFFICES ASSUME ~overlapped'
             PROVE  /\ \A d, e \in Running' : d = e
                    /\ Running' = {} => Orderly(store', app', None, rows')
                    /\ \A d \in Running' : Orderly(store', app', call'[d], rows')
  BY DEF OneByOne
<1>1. Running' = Running
  BY DEF Running
<1>2. \A d \in Running : call[d] \in Call /\ call[d] # None
  BY NoneIsNoCall DEF Running, MobileInvariant, MobileTypes
<1> QED
  BY <1>1, <1>2 DEF OneByOne

\* What a call asks for and waits for next may be all that changes.
LEMMA CalmStep ==
    ASSUME NEW s, NEW a, NEW b, NEW k, NEW j, NEW rs, NEW rt,
           Orderly(s, a, k, rs), k # None, Alike(a, b),
           s.device \in Device, a.device \in Device,
           ~Waits(k, {"clearing", "persist", "user", "read", "drop"}),
           j # None => /\ Mine(j) /\ j.fn = k.fn
                       /\ j.at \notin {"clearing", "persist", "user", "read", "drop"},
           LoginAgrees(s, b, j), RegisterAgrees(s, b, j, rt),
           \A d \in Device : a.user # None /\ Owned(rs, a.user, d) => Owned(rt, a.user, d)
    PROVE  Orderly(s, b, j, rt)
<1>1. StoreAgrees(s, j)
  BY DEF Orderly, StoreAgrees, Waits
<1>2. AppAgrees(s, b, j)
  BY DEF Orderly, AppAgrees, Waits, Alike
<1>3. Deps(b) = Deps(a) /\ (Settled(b) <=> Settled(a))
  BY DEF Deps, Alike, Settled
<1>4. EffectAgrees(b, j)
  BY <1>3 DEF Orderly, EffectAgrees, Waits, Alike
<1>5. RowAgrees(s, b, j, rt)
  BY DEF Orderly, RowAgrees, Waits, Alike
<1> QED
  BY <1>1, <1>2, <1>4, <1>5 DEF Orderly

LEMMA CalmKeeps ==
    ASSUME MobileInvariant, OneByOne, NEW c \in Calls, call[c] # None,
           NEW k \in Call \cup {None}, call' = [call EXCEPT ![c] = k],
           UNCHANGED <<store, overlapped>>, Alike(app, app'),
           call[c].at \notin {"clearing", "persist", "user", "read", "drop"},
           k # None => /\ Mine(call[c]) => Mine(k)
                       /\ k.fn = call[c].fn
                       /\ k.at \notin {"clearing", "persist", "user", "read", "drop"},
           Orderly(store, app, call[c], rows) =>
             /\ LoginAgrees(store, app', k)
             /\ RegisterAgrees(store, app', k, rows')
             /\ \A d \in Device :
                  app.user # None /\ Owned(rows, app.user, d) => Owned(rows', app.user, d)
    PROVE  OneByOne'
<1> SUFFICES ASSUME Orderly(store, app, call[c], rows)
             PROVE  Orderly(store', app', k, rows')
  BY OneCallKeeps
<1>1. store.device \in Device /\ app.device \in Device /\ store' = store
  BY DEF MobileInvariant, MobileTypes, App
<1>2. ~Waits(call[c], {"clearing", "persist", "user", "read", "drop"}) /\ Mine(call[c])
  BY DEF Waits, Orderly
<1> QED
  BY <1>1, <1>2, CalmStep

\* Neither a sign-in nor a registration.
LEMMA NeitherAgrees ==
    ASSUME NEW s, NEW a, NEW k, NEW rs,
           k = None \/ k.request \notin {"login", "register"}
           \/ (k.request = "register" /\ k.at \in {"bssid", "send"})
    PROVE  LoginAgrees(s, a, k) /\ RegisterAgrees(s, a, k, rs)
  BY DEF LoginAgrees, RegisterAgrees, Asks
LEMMA AlikeItself ==
    ASSUME NEW a
    PROVE  Alike(a, a)
  BY DEF Alike

\* A request goes out with the token that is stored as it does.
LEMMA SendKeeps ==
    ASSUME MobileInvariant, OneByOne, NEW c \in Calls, Send(c)
    PROVE  OneByOne'
<1> DEFINE k == [call[c] EXCEPT !.cred = store.token, !.at = "sent"]
<1>1. /\ call[c] # None /\ call[c].at = "send" /\ call' = [call EXCEPT ![c] = k]
      /\ UNCHANGED <<store, app, rows, overlapped>>
  BY DEF Send
<1>2. call[c] \in Call /\ store.token \in Credential
  BY <1>1, CallIsTyped
<1>3. /\ k \in Call /\ k.fn = call[c].fn /\ k.at = "sent" /\ k.request = call[c].request
      /\ k.user = call[c].user /\ k.cred = store.token
  BY <1>2 DEF Call, Awaits
<1> HIDE DEF k
<1>4. Alike(app, app')
  BY <1>1, AlikeItself
<1>5. Orderly(store, app, call[c], rows) =>
        LoginAgrees(store, app', k) /\ RegisterAgrees(store, app', k, rows')
  BY <1>1, <1>3 DEF Orderly, LoginAgrees, RegisterAgrees, Asks, SignedIn
<1>6. Mine(k)
  BY <1>3 DEF Mine
<1> QED
  BY <1>1, <1>3, <1>4, <1>5, <1>6, CalmKeeps

\* The server's answer, which nobody who runs alone is an orphan to.
LEMMA ReplyKeeps ==
    ASSUME MobileInvariant, OneByOne, NEW c \in Calls, NEW answer \in Answers,
           Reply(c, answer), call[c] # None, call[c].at \in {"sent", "orphan"},
           UNCHANGED <<store, app, overlapped>>,
           call[c].at = "sent" /\ Orderly(store, app, call[c], rows) =>
             /\ call[c].request = "login" /\ answer.kind = "ok" =>
                  answer.cred \in UserTokens /\ answer.cred[2] = call[c].user
             /\ call[c].request = "register" /\ answer.kind = "ok" =>
                  /\ app.user # None => Owned(rows', app.user, answer.dev)
                  /\ answer.cred # None => app.user = None /\ answer.cred \notin UserTokens
             /\ \A d \in Device :
                  app.user # None /\ Owned(rows, app.user, d) => Owned(rows', app.user, d)
    PROVE  OneByOne'
<1> DEFINE k == [call[c] EXCEPT !.answer = answer, !.at = "answered"]
<1>1. call[c] \in Call /\ Alike(app, app')
  BY CallIsTyped, AlikeItself
<1>2. CASE call[c].at = "orphan"
  <2>1. call' = [call EXCEPT ![c] = None]
    BY <1>2 DEF Reply, End
  <2>2. ~Orderly(store, app, call[c], rows)
    BY <1>2 DEF Orderly, Mine
  <2> QED
    BY <2>1, <2>2, OneCallKeeps
<1>3. CASE call[c].at = "sent"
  <2>1. call' = [call EXCEPT ![c] = k]
    BY <1>3 DEF Reply
  <2>2. /\ k \in Call /\ k.fn = call[c].fn /\ k.at = "answered" /\ k.answer = answer
        /\ k.request = call[c].request /\ k.user = call[c].user
    BY <1>1 DEF Call, Awaits
  <2> HIDE DEF k
  <2>3. Orderly(store, app, call[c], rows) =>
          LoginAgrees(store, app', k) /\ RegisterAgrees(store, app', k, rows')
    BY <1>3, <2>2 DEF Orderly, LoginAgrees, RegisterAgrees, Asks, SignedIn
  <2>4. Mine(k)
    BY <2>2 DEF Mine
  <2> QED
    BY <1>1, <1>3, <2>1, <2>2, <2>3, <2>4, CalmKeeps
<1> QED
  BY <1>2, <1>3

\* Whoever the app shows, the token that is stored names.
LEMMA StoredTokenNames ==
    ASSUME NEW s, NEW a, NEW k, NEW rs, Orderly(s, a, k, rs), a.user # None,
           ~Waits(k, {"clearing", "persist", "user"})
    PROVE  s.token \in UserTokens /\ s.token[2] = a.user /\ s.user = a.user
  BY DEF Orderly, StoreAgrees, AppAgrees, Waits

\* A registration in an account's name is of a row that is from then on its own.
LEMMA RegisterKeeps ==
    ASSUME MobileInvariant, OneByOne, NEW c \in Calls, call[c] # None,
           call[c].at \in {"sent", "orphan"}, Register(c),
           UNCHANGED <<store, app, wifi, overlapped>>
    PROVE  OneByOne'
<1> DEFINE r == call[c]
           user == IF r.cred = None THEN None ELSE r.cred[2]
           found == RowsOf(user, r.mac)
           new == count.rows + 1
           d == IF found = {} THEN new ELSE CHOOSE e \in found : TRUE
           rejected == r.cred # None /\ ~Live(r.cred)
           refused == user = None /\ admin[r.mac] = None
           row == [owner |-> user, mac |-> r.mac, push |-> r.push]
           cred == IF user = None THEN <<"device", d>> ELSE None
<1>1. r.request = "register"
  BY DEF Register
<1>2. rows \in [Rows -> Row \cup {None}]
  BY DEF MobileInvariant, MobileTypes
<1>3. CASE rejected \/ refused
  <2>1. PICK kind \in {"rejected", "refused"} : Reply(c, Answer(kind, None, None))
    BY <1>3 DEF Register
  <2>2. UNCHANGED rows
    BY <1>3 DEF Register
  <2>3. Answer(kind, None, None) \in Answers /\ Answer(kind, None, None).kind = kind
    BY NoDevice, AnswerIsTyped
  <2> QED
    BY <1>1, <2>1, <2>2, <2>3, ReplyKeeps
<1>4. CASE ~rejected /\ ~refused
  <2>1. /\ d \in Rows /\ rows' = [rows EXCEPT ![d] = row]
        /\ Reply(c, Answer("ok", d, cred))
    BY <1>4 DEF Register
  <2>2. cred \in Credential /\ cred \notin UserTokens
    BY <2>1, MobileNames DEF Credential, Tokens, DeviceTokens, UserTokens
  <2>3. Answer("ok", d, cred) \in Answers
        /\ Answer("ok", d, cred).dev = d /\ Answer("ok", d, cred).cred = cred
    BY <2>1, <2>2, AnswerIsTyped DEF Device
  <2>4. ASSUME r.at = "sent", Orderly(store, app, r, rows), app.user # None
        PROVE  user = app.user
    <3>1. r.cred = store.token
      BY <1>1, <2>4 DEF Orderly, RegisterAgrees, Asks
    <3>2. ~Waits(r, {"clearing", "persist", "user"})
      BY <2>4 DEF Waits
    <3> QED
      BY <2>4, <3>1, <3>2, StoredTokenNames, MobileNames DEF Tokens
  <2>5. row.owner = user /\ (cred # None => user = None)
    OBVIOUS
  <2> HIDE DEF row, user, cred, d, found, new, rejected, refused
  <2>6. ASSUME r.at = "sent", Orderly(store, app, r, rows)
        PROVE  /\ app.user # None => Owned(rows', app.user, d)
               /\ \A e \in Device :
                    app.user # None /\ Owned(rows, app.user, e) => Owned(rows', app.user, e)
    BY <1>2, <2>1, <2>4, <2>5, <2>6 DEF Owned, Device
  <2> QED
    BY <1>1, <2>1, <2>2, <2>3, <2>4, <2>5, <2>6, ReplyKeeps
<1> QED
  BY <1>3, <1>4
\* The rest of the server's answers.
LEMMA ServeKeeps ==
    ASSUME MobileInvariant, OneByOne, NEW c \in Calls, Serve(c)
    PROVE  OneByOne'
<1>1. /\ call[c] # None /\ call[c].at \in {"sent", "orphan"}
      /\ UNCHANGED <<store, app, wifi, overlapped>>
  BY DEF Serve
<1>2. /\ call[c] \in Call /\ Shape(call[c]) /\ count.signIns \in Nat
      /\ rows \in [Rows -> Row \cup {None}]
  BY <1>1, CallIsTyped DEF Counts, MobileInvariant, MobileTypes
<1>3. \A kind \in {"ok", "refused", "rejected", "lost"} :
        Answer(kind, None, None) \in Answers /\ Answer(kind, None, None).kind = kind
  BY NoDevice, AnswerIsTyped
<1>4. CASE Register(c)
  BY <1>1, <1>4, RegisterKeeps
<1>5. CASE Remove(c)
  <2>1. PICK kind \in {"ok", "refused", "rejected"} : Reply(c, Answer(kind, None, None))
    BY <1>5 DEF Remove
  <2>2. call[c].request \notin {"login", "register"}
    BY <1>5 DEF Remove
  <2>3. \A d \in Device : Owned(rows, app.user, d) => Owned(rows', app.user, d)
    <3>1. rows' = rows \/ rows' = [rows EXCEPT ![call[c].dev] = None]
      BY <1>5 DEF Remove
    <3> QED
      BY <1>2, <3>1 DEF Owned, Device
  <2> QED
    BY <1>1, <1>3, <2>1, <2>2, <2>3, ReplyKeeps
<1>6. CASE Beat(c)
  <2>1. PICK kind \in {"ok", "refused", "rejected"} : Reply(c, Answer(kind, None, None))
    BY <1>6 DEF Beat
  <2>2. call[c].request \notin {"login", "register"} /\ UNCHANGED rows
    BY <1>6 DEF Beat
  <2> QED
    BY <1>1, <1>3, <2>1, <2>2, ReplyKeeps
<1>7. CASE Other(c)
  <2>1. PICK kind \in {"ok", "rejected"} : Reply(c, Answer(kind, None, None))
    BY <1>7 DEF Other
  <2>2. call[c].request \notin {"login", "register"} /\ UNCHANGED rows
    BY <1>7 DEF Other
  <2> QED
    BY <1>1, <1>3, <2>1, <2>2, ReplyKeeps
<1>8. CASE SignIn(c)
  <2> DEFINE n == count.signIns + 1
             token == <<"user", call[c].user, n>>
  <2>1. UNCHANGED rows /\ call[c].request = "login"
    BY <1>8 DEF SignIn
  <2>2. CASE n <= MaxSignIns /\ Reply(c, Answer("ok", None, token))
    <3>1. call[c].user \in Users /\ n \in 1..MaxSignIns
      BY <1>2, <2>1, <2>2, MobileBounds DEF Shape, Call, User
    <3>2. token \in UserTokens /\ token[2] = call[c].user /\ token \in Credential
      BY <3>1 DEF Credential, Tokens, UserTokens
    <3> HIDE DEF token, n
    <3>3. Answer("ok", None, token) \in Answers /\ Answer("ok", None, token).cred = token
      BY <3>2, NoDevice, AnswerIsTyped
    <3> QED
      BY <1>1, <2>1, <2>2, <3>2, <3>3, ReplyKeeps
  <2>3. CASE Reply(c, Answer("refused", None, None))
    BY <1>1, <1>3, <2>1, <2>3, ReplyKeeps
  <2> QED
    BY <1>8, <2>2, <2>3 DEF SignIn
<1>9. CASE SignOut(c)
  <2>1. PICK kind \in {"ok", "rejected"} : Reply(c, Answer(kind, None, None))
    BY <1>9 DEF SignOut
  <2>2. call[c].request \notin {"login", "register"} /\ UNCHANGED rows
    BY <1>9 DEF SignOut
  <2> QED
    BY <1>1, <1>3, <2>1, <2>2, ReplyKeeps
<1> QED
  BY <1>4, <1>5, <1>6, <1>7, <1>8, <1>9 DEF Serve

LEMMA LoseKeeps ==
    ASSUME MobileInvariant, OneByOne, NEW c \in Calls, Lose(c)
    PROVE  OneByOne'
<1> DEFINE lost == Answer("lost", None, None)
           k == [call[c] EXCEPT !.answer = lost, !.at = "answered"]
<1>1. /\ call[c] # None /\ call[c].at \in {"sent", "orphan", "answered"}
      /\ UNCHANGED <<store, app, rows, overlapped>>
  BY DEF Lose
<1>2. call[c] \in Call /\ Alike(app, app')
  BY <1>1, CallIsTyped, AlikeItself
<1>3. CASE call[c].at = "orphan"
  <2>1. call' = [call EXCEPT ![c] = None]
    BY <1>3 DEF Lose, End
  <2>2. ~Orderly(store, app, call[c], rows)
    BY <1>1, <1>3 DEF Orderly, Mine
  <2> QED
    BY <1>1, <2>1, <2>2, OneCallKeeps
<1>4. CASE call[c].at # "orphan"
  <2>1. call' = [call EXCEPT ![c] = k]
    BY <1>4 DEF Lose
  <2>2. lost \in Answers /\ lost.kind = "lost"
    BY NoDevice, AnswerIsTyped
  <2> HIDE DEF lost
  <2>3. /\ k \in Call /\ k.fn = call[c].fn /\ k.at = "answered" /\ k.answer = lost
        /\ k.request = call[c].request /\ k.user = call[c].user
    BY <1>2, <2>2 DEF Call, Awaits
  <2> HIDE DEF k
  <2>4. Orderly(store, app, call[c], rows) =>
          LoginAgrees(store, app', k) /\ RegisterAgrees(store, app', k, rows')
    BY <1>1, <2>2, <2>3 DEF Orderly, LoginAgrees, RegisterAgrees, Asks, SignedIn
  <2>5. Mine(k)
    BY <2>3 DEF Mine
  <2> QED
    BY <1>1, <1>2, <2>1, <2>3, <2>4, <2>5, CalmKeeps
<1> QED
  BY <1>3, <1>4

\* What becomes of a call that goes on to register, or not at all.
LEMMA TriesCall ==
    ASSUME NEW c \in Calls, call[c] \in Call, TryRegister(c)
    PROVE  \E k \in Call \cup {None} :
             /\ call' = [call EXCEPT ![c] = k]
             /\ k # None => k.fn = call[c].fn /\ k.at = "bssid" /\ k.request = "register"
<1> DEFINE k == [call[c] EXCEPT !.request = "register", !.at = "bssid"]
<1>1. /\ k \in Call /\ k.fn = call[c].fn /\ k.at = "bssid" /\ k.request = "register"
  BY DEF Call, Awaits, Requests
<1>2. call' = [call EXCEPT ![c] = k] \/ call' = [call EXCEPT ![c] = None]
  BY DEF TryRegister, End
<1> QED
  BY <1>1, <1>2

\* What becomes of a call that has failed.
LEMMA FailedCall ==
    ASSUME NEW c \in Calls, call[c] \in Call, AfterFailure(c)
    PROVE  \E k \in Call \cup {None} :
             /\ call' = [call EXCEPT ![c] = k]
             /\ k # None => /\ k.fn = call[c].fn
                            /\ \/ k.at = "bssid" /\ k.request = "register"
                                  /\ call[c].request = "remove"
                               \/ k.at = "clear" /\ k.request = "logout"
                                  /\ call[c].request = "logout"
<1>1. CASE call[c].request = "remove"
  BY <1>1, TriesCall DEF AfterFailure
<1>2. CASE call[c].request = "logout"
  <2> DEFINE k == [call[c] EXCEPT !.at = "clear"]
  <2>1. /\ k \in Call /\ k.fn = call[c].fn /\ k.at = "clear" /\ k.request = "logout"
    BY <1>2 DEF Call, Awaits
  <2>2. call' = [call EXCEPT ![c] = k]
    BY <1>2 DEF AfterFailure, Goto
  <2> HIDE DEF k
  <2> QED
    BY <1>2, <2>1, <2>2
<1>3. CASE call[c].request \notin {"remove", "logout"}
  BY <1>3 DEF AfterFailure, End
<1> QED
  BY <1>1, <1>2, <1>3

LEMMA ReleasedAlike ==
    ASSUME NEW c \in Calls, NEW a \in App
    PROVE  Alike(a, Released(c, a))
  BY DEF Released, App, Alike

LEMMA FailKeeps ==
    ASSUME MobileInvariant, OneByOne, NEW c \in Calls, Fail(c)
    PROVE  OneByOne'
<1>1. /\ call[c] # None /\ call[c].at = "answered" /\ app' = Released(c, app)
      /\ AfterFailure(c)
      /\ UNCHANGED <<store, rows, overlapped>>
  BY DEF Fail, Failed
<1>2. call[c] \in Call /\ Alike(app, app')
  BY <1>1, CallIsTyped, ReleasedAlike
<1>3. PICK k \in Call \cup {None} :
        /\ call' = [call EXCEPT ![c] = k]
        /\ k # None => /\ k.fn = call[c].fn
                       /\ \/ k.at = "bssid" /\ k.request = "register"
                          \/ k.at = "clear" /\ k.request = "logout"
  BY <1>1, <1>2, FailedCall
<1>4. LoginAgrees(store, app', k) /\ RegisterAgrees(store, app', k, rows')
  BY <1>3, NeitherAgrees
<1>5. k # None => Mine(k) /\ k.at \notin {"clearing", "persist", "user", "read", "drop"}
  BY <1>3 DEF Mine
<1> QED
  BY <1>1, <1>2, <1>3, <1>4, <1>5, CalmKeeps
LEMMA EndsKeep ==
    ASSUME MobileInvariant, OneByOne, NEW c \in Calls,
           EndFetch(c) \/ EndBeat(c) \/ Retired(c)
    PROVE  OneByOne'
<1>1. /\ call[c] # None /\ call[c].at = "answered"
      /\ End(c) \/ TryRegister(c)
      /\ UNCHANGED <<store, app, rows, overlapped>>
  BY DEF EndFetch, EndBeat, Retired, Succeeded, server
<1>2. call[c] \in Call /\ Alike(app, app')
  BY <1>1, CallIsTyped, AlikeItself
<1>3. PICK k \in Call \cup {None} :
        /\ call' = [call EXCEPT ![c] = k]
        /\ k # None => k.fn = call[c].fn /\ k.at = "bssid" /\ k.request = "register"
  BY <1>1, <1>2, TriesCall DEF End
<1>4. LoginAgrees(store, app', k) /\ RegisterAgrees(store, app', k, rows')
  BY <1>3, NeitherAgrees
<1>5. k # None => Mine(k) /\ k.at \notin {"clearing", "persist", "user", "read", "drop"}
  BY <1>3 DEF Mine
<1> QED
  BY <1>1, <1>2, <1>3, <1>4, <1>5, CalmKeeps

LEMMA ReadBssidKeeps ==
    ASSUME MobileInvariant, OneByOne, NEW c \in Calls, ReadBssid(c)
    PROVE  OneByOne'
<1> DEFINE k == [[call[c] EXCEPT !.mac = wifi] EXCEPT !.request = "register", !.at = "send"]
<1>1. /\ call[c] # None /\ call[c].at = "bssid" /\ call[c].request = "register"
      /\ UNCHANGED <<store, rows, overlapped>>
  BY DEF ReadBssid, server
<1>2. call[c] \in Call /\ app \in App /\ wifi \in Mac
  BY <1>1, CallIsTyped DEF MobileInvariant, MobileTypes
<1>3. CASE wifi = None
  <2>1. call' = [call EXCEPT ![c] = None] /\ Alike(app, app')
    BY <1>3, AlikeItself DEF ReadBssid, End
  <2>2. LoginAgrees(store, app', None) /\ RegisterAgrees(store, app', None, rows')
    BY NeitherAgrees
  <2> QED
    BY <1>1, <2>1, <2>2, CalmKeeps
<1>4. CASE wifi # None
  <2>1. call' = [call EXCEPT ![c] = k] /\ app' = [app EXCEPT !.registering = TRUE]
    BY <1>4 DEF ReadBssid, Request
  <2>2. Alike(app, app')
    BY <1>2, <2>1 DEF App, Alike
  <2>3. k \in Call /\ k.fn = call[c].fn /\ k.at = "send" /\ k.request = "register"
    BY <1>2 DEF Call, Awaits, Requests
  <2> HIDE DEF k
  <2>4. LoginAgrees(store, app', k) /\ RegisterAgrees(store, app', k, rows')
    BY <2>3, NeitherAgrees
  <2>5. Mine(k)
    BY <2>3 DEF Mine
  <2> QED
    BY <1>1, <2>1, <2>2, <2>3, <2>4, <2>5, CalmKeeps
<1> QED
  BY <1>3, <1>4

LEMMA TickReadKeeps ==
    ASSUME MobileInvariant, OneByOne, NEW c \in Calls, TickRead(c)
    PROVE  OneByOne'
<1> DEFINE j == [call[c] EXCEPT !.request = "register", !.push = app.push]
           k == [[call[c] EXCEPT !.mac = wifi] EXCEPT !.request = "beat", !.at = "send"]
<1>1. /\ call[c] # None /\ call[c].at = "bssid" /\ call[c].request = "beat"
      /\ UNCHANGED <<store, app, rows, overlapped>>
  BY DEF TickRead, server
<1>2. call[c] \in Call /\ app.push \in Push /\ wifi \in Mac /\ Alike(app, app')
  BY <1>1, CallIsTyped, AlikeItself DEF MobileInvariant, MobileTypes, App
<1>3. CASE call' = [call EXCEPT ![c] = None]
  <2>1. LoginAgrees(store, app', None) /\ RegisterAgrees(store, app', None, rows')
    BY NeitherAgrees
  <2> QED
    BY <1>1, <1>2, <1>3, <2>1, CalmKeeps
<1>4. CASE call' = [call EXCEPT ![c] = j]
  <2>1. j \in Call /\ j.fn = call[c].fn /\ j.at = "bssid" /\ j.request = "register"
    BY <1>1, <1>2 DEF Call, Requests
  <2> HIDE DEF j
  <2>2. LoginAgrees(store, app', j) /\ RegisterAgrees(store, app', j, rows')
    BY <2>1, NeitherAgrees
  <2>3. Mine(j)
    BY <2>1 DEF Mine
  <2> QED
    BY <1>1, <1>2, <1>4, <2>1, <2>2, <2>3, CalmKeeps
<1>5. CASE call' = [call EXCEPT ![c] = k]
  <2>1. k \in Call /\ k.fn = call[c].fn /\ k.at = "send" /\ k.request = "beat"
    BY <1>2 DEF Call, Awaits, Requests
  <2> HIDE DEF k
  <2>2. LoginAgrees(store, app', k) /\ RegisterAgrees(store, app', k, rows')
    BY <2>1, NeitherAgrees
  <2>3. Mine(k)
    BY <2>1 DEF Mine
  <2> QED
    BY <1>1, <1>2, <1>5, <2>1, <2>2, <2>3, CalmKeeps
<1> QED
  BY <1>3, <1>4, <1>5 DEF TickRead, End, Request

-----------------------------------------------------------------------------
(* The steps that write what is stored, or what the app shows.             *)

LEMMA ClearTokenKeeps ==
    ASSUME MobileInvariant, OneByOne, NEW c \in Calls, ClearToken(c)
    PROVE  OneByOne'
<1> DEFINE k == [call[c] EXCEPT !.at = "clearing"]
<1>1. /\ call[c] # None /\ call[c].at = "answered" /\ call' = [call EXCEPT ![c] = k]
      /\ store' = [store EXCEPT !.token = None]
      /\ UNCHANGED <<app, rows, overlapped>>
  BY DEF ClearToken, Goto
<1>2. call[c] \in Call /\ store \in [token : Credential, user : User, device : Device]
  BY <1>1, CallIsTyped
<1>3. /\ k \in Call /\ k.fn = call[c].fn /\ k.at = "clearing" /\ k.request = call[c].request
      /\ k.user = call[c].user /\ k # None
  BY <1>2, NoneIsNoCall DEF Call, Awaits
<1> HIDE DEF k
<1>4. store'.token = None /\ store'.user = store.user /\ store'.device = store.device
  BY <1>1, <1>2
<1> SUFFICES ASSUME Orderly(store, app, call[c], rows)
             PROVE  Orderly(store', app', k, rows')
  BY <1>1, <1>3, OneCallKeeps
<1>5. StoreAgrees(store', k)
  BY <1>3, <1>4, MobileNames DEF StoreAgrees, Waits, Tokens
<1>6. AppAgrees(store', app', k)
  BY <1>1, <1>3, <1>4 DEF Orderly, AppAgrees, Waits
<1>7. LoginAgrees(store', app', k)
  BY <1>1, <1>3, <1>4 DEF Orderly, LoginAgrees, Asks, SignedIn
<1>8. RegisterAgrees(store', app', k, rows')
  BY <1>3 DEF RegisterAgrees
<1>9. EffectAgrees(app', k)
  BY <1>1, <1>3 DEF Orderly, EffectAgrees, Waits
<1>10. RowAgrees(store', app', k, rows')
  BY <1>1, <1>3, <1>4 DEF Orderly, RowAgrees, Waits
<1> QED
  BY <1>3, <1>5, <1>6, <1>7, <1>8, <1>9, <1>10 DEF Orderly, Mine

\* What the effect depended on, read back.
LEMMA DepsParts ==
    ASSUME NEW a \in App
    PROVE  /\ Deps(a) # None
           /\ Deps(a)[2] = a.ready /\ Deps(a)[3] = a.loading /\ Deps(a)[4] = a.user
  BY DepsAreTyped, NoneIsNoDeps DEF Deps, App

\* Whoever was shown is not any more: if it was somebody, the effect is due.
LEMMA ForgottenAgrees ==
    ASSUME NEW a \in App, NEW b \in App, NEW j, NEW k,
           j # None, ~Waits(j, {"read"}), EffectAgrees(a, j),
           k # None => k.fn = j.fn /\ k.at # "read",
           b.user = None, b.loading = a.loading, b.ready = a.ready, b.push = a.push,
           b.deps = a.deps, b.previous = a.previous, b.mac = a.mac, b.device = a.device
    PROVE  EffectAgrees(b, k)
<1>1. Deps(b) = b.deps => Deps(a) = a.deps /\ a.user = None
  BY DepsParts DEF EffectAgrees, Deps
<1> QED
  BY <1>1 DEF EffectAgrees, Waits, Settled

LEMMA ForgetsWhom ==
    ASSUME NEW a \in App
    PROVE  /\ Forget(a) \in App /\ Forget(a).user = None /\ Forget(a).loading = a.loading
           /\ Forget(a).ready = a.ready /\ Forget(a).push = a.push
           /\ Forget(a).deps = a.deps /\ Forget(a).previous = a.previous
           /\ Forget(a).mac = a.mac /\ Forget(a).device = a.device
  BY NoDevice DEF Forget, App

LEMMA ClearUserKeeps ==
    ASSUME MobileInvariant, OneByOne, NEW c \in Calls, ClearUser(c)
    PROVE  OneByOne'
<1>1. /\ call[c] # None /\ call[c].at = "clearing" /\ AfterFailure(c)
      /\ store' = [store EXCEPT !.user = None] /\ app' = Released(c, Forget(app))
      /\ UNCHANGED <<rows, overlapped>>
  BY DEF ClearUser
<1>2. call[c] \in Call /\ store \in [token : Credential, user : User, device : Device]
      /\ app \in App
  BY <1>1, CallIsTyped
<1>3. PICK k \in Call \cup {None} :
        /\ call' = [call EXCEPT ![c] = k]
        /\ k # None => /\ k.fn = call[c].fn
                       /\ \/ k.at = "bssid" /\ k.request = "register"
                          \/ k.at = "clear" /\ k.request = "logout"
  BY <1>1, <1>2, FailedCall
<1>4. store'.token = store.token /\ store'.user = None /\ store'.device = store.device
  BY <1>1, <1>2
<1>5. /\ app' \in App /\ app'.user = None /\ app'.loading = app.loading
      /\ app'.ready = app.ready /\ app'.push = app.push
      /\ app'.deps = app.deps /\ app'.previous = app.previous
      /\ app'.mac = app.mac /\ app'.device = app.device
  BY <1>1, <1>2, ForgetsWhom, ReleasedApp, ReleasedAlike DEF Alike
<1> SUFFICES ASSUME Orderly(store, app, call[c], rows)
             PROVE  Orderly(store', app', k, rows')
  BY <1>1, <1>3, OneCallKeeps
<1>6. StoreAgrees(store', k)
  BY <1>1, <1>3, <1>4, MobileNames DEF Orderly, StoreAgrees, Waits, Tokens
<1>7. AppAgrees(store', app', k)
  BY <1>1, <1>3, <1>4, <1>5 DEF Orderly, AppAgrees, Waits
<1>8. LoginAgrees(store', app', k) /\ RegisterAgrees(store', app', k, rows')
  BY <1>3, NeitherAgrees
<1>9. EffectAgrees(app', k)
  <2>1. EffectAgrees(app, call[c]) /\ ~Waits(call[c], {"read"})
    BY <1>1 DEF Orderly, Waits
  <2> QED
    BY <1>1, <1>2, <1>3, <1>5, <2>1, ForgottenAgrees
<1>10. RowAgrees(store', app', k, rows')
  BY <1>5 DEF RowAgrees
<1> QED
  BY <1>3, <1>6, <1>7, <1>8, <1>9, <1>10 DEF Orderly, Mine
LEMMA PersistTokenKeeps ==
    ASSUME MobileInvariant, OneByOne, NEW c \in Calls, PersistToken(c)
    PROVE  OneByOne'
<1> DEFINE k == [call[c] EXCEPT !.at = "persist"]
<1>1. /\ call[c] # None /\ call[c].at = "answered" /\ call[c].request = "login"
      /\ call[c].answer.kind = "ok" /\ call' = [call EXCEPT ![c] = k]
      /\ store' = [store EXCEPT !.token = call[c].answer.cred]
      /\ UNCHANGED <<app, rows, overlapped>>
  BY DEF PersistToken, Succeeded, Goto, server
<1>2. call[c] \in Call /\ store \in [token : Credential, user : User, device : Device]
  BY <1>1, CallIsTyped
<1>3. /\ k \in Call /\ k.fn = call[c].fn /\ k.at = "persist" /\ k.request = "login"
      /\ k.user = call[c].user /\ k.answer = call[c].answer /\ k # None
  BY <1>1, <1>2, NoneIsNoCall DEF Call, Awaits
<1> HIDE DEF k
<1>4. /\ store'.token = call[c].answer.cred /\ store'.user = store.user
      /\ store'.device = store.device
  BY <1>1, <1>2
<1> SUFFICES ASSUME Orderly(store, app, call[c], rows)
             PROVE  Orderly(store', app', k, rows')
  BY <1>1, <1>3, OneCallKeeps
<1>5. /\ app.user = None /\ app.previous \in {None, Unset} /\ Deps(app) = app.deps
      /\ store.user = None /\ call[c].answer.cred \in UserTokens
      /\ call[c].answer.cred[2] = call[c].user
  BY <1>1 DEF Orderly, LoginAgrees, Asks, SignedIn
<1>6. StoreAgrees(store', k)
  BY <1>3, <1>4, <1>5 DEF StoreAgrees, Waits
<1>7. AppAgrees(store', app', k)
  BY <1>1, <1>3, <1>4 DEF Orderly, AppAgrees, Waits
<1>8. LoginAgrees(store', app', k)
  BY <1>1, <1>3, <1>4, <1>5 DEF LoginAgrees
<1>9. RegisterAgrees(store', app', k, rows')
  BY <1>3 DEF RegisterAgrees, Asks
<1>10. EffectAgrees(app', k)
  BY <1>1, <1>3 DEF Orderly, EffectAgrees, Waits
<1>11. RowAgrees(store', app', k, rows')
  BY <1>1, <1>5 DEF RowAgrees
<1> QED
  BY <1>3, <1>6, <1>7, <1>8, <1>9, <1>10, <1>11 DEF Orderly, Mine

LEMMA PersistUserKeeps ==
    ASSUME MobileInvariant, OneByOne, NEW c \in Calls, PersistUser(c)
    PROVE  OneByOne'
<1> DEFINE k == [call[c] EXCEPT !.at = "user"]
<1>1. /\ call[c] # None /\ call[c].at = "persist" /\ call' = [call EXCEPT ![c] = k]
      /\ store' = [store EXCEPT !.user = call[c].user]
      /\ app' = [app EXCEPT !.token = call[c].answer.cred]
      /\ UNCHANGED <<rows, overlapped>>
  BY DEF PersistUser, Goto, server
<1>2. /\ call[c] \in Call /\ store \in [token : Credential, user : User, device : Device]
      /\ app \in App /\ call[c].request = "login" /\ call[c].user # None
  BY <1>1, CallIsTyped DEF Shape
<1>3. /\ k \in Call /\ k.fn = call[c].fn /\ k.at = "user" /\ k.request = "login"
      /\ k.user = call[c].user /\ k.answer = call[c].answer /\ k # None
  BY <1>1, <1>2, NoneIsNoCall DEF Call, Awaits
<1> HIDE DEF k
<1>4. /\ store'.token = store.token /\ store'.user = call[c].user
      /\ store'.device = store.device
  BY <1>1, <1>2
<1>5. /\ app'.token = call[c].answer.cred /\ app'.user = app.user
      /\ app'.loading = app.loading /\ app'.ready = app.ready /\ app'.push = app.push
      /\ app'.deps = app.deps /\ app'.previous = app.previous
      /\ app'.mac = app.mac /\ app'.device = app.device
  BY <1>1, <1>2 DEF App
<1> SUFFICES ASSUME Orderly(store, app, call[c], rows)
             PROVE  Orderly(store', app', k, rows')
  BY <1>1, <1>3, OneCallKeeps
<1>6. /\ app.user = None /\ app.previous \in {None, Unset} /\ Deps(app) = app.deps
      /\ store.token = call[c].answer.cred /\ store.token \in UserTokens
      /\ store.token[2] = call[c].user
  BY <1>1, <1>2 DEF Orderly, LoginAgrees, Asks, SignedIn
<1>7. Deps(app') = app'.deps /\ (Settled(app') <=> Settled(app))
  BY <1>5, <1>6 DEF Deps, Settled
<1>8. StoreAgrees(store', k)
  BY <1>2, <1>3, <1>4, <1>6 DEF StoreAgrees, Waits
<1>9. AppAgrees(store', app', k)
  BY <1>1, <1>3, <1>5, <1>6 DEF Orderly, AppAgrees, Waits
<1>10. LoginAgrees(store', app', k)
  BY <1>3, <1>4, <1>5, <1>6, <1>7, MobileNames DEF LoginAgrees, Tokens
<1>11. RegisterAgrees(store', app', k, rows')
  BY <1>3 DEF RegisterAgrees, Asks
<1>12. EffectAgrees(app', k)
  BY <1>1, <1>3, <1>5, <1>6, <1>7 DEF Orderly, EffectAgrees, Waits
<1>13. RowAgrees(store', app', k, rows')
  BY <1>5, <1>6 DEF RowAgrees
<1> QED
  BY <1>3, <1>8, <1>9, <1>10, <1>11, <1>12, <1>13 DEF Orderly, Mine

\* The sign-in ends: the effect is due for whom it signed in.
LEMMA SetUserKeeps ==
    ASSUME MobileInvariant, OneByOne, NEW c \in Calls, SetUser(c)
    PROVE  OneByOne'
<1>1. /\ call[c] # None /\ call[c].at = "user" /\ call' = [call EXCEPT ![c] = None]
      /\ app' = [app EXCEPT !.user = store.user]
      /\ UNCHANGED <<store, rows, overlapped>>
  BY DEF SetUser, End, server
<1>2. /\ call[c] \in Call /\ store.user \in User
      /\ app \in App /\ call[c].request = "login" /\ call[c].user # None
  BY <1>1, CallIsTyped DEF Shape
<1>3. /\ app' \in App /\ app'.user = store.user /\ app'.token = app.token
      /\ app'.loading = app.loading /\ app'.ready = app.ready /\ app'.push = app.push
      /\ app'.deps = app.deps /\ app'.previous = app.previous
      /\ app'.mac = app.mac /\ app'.device = app.device
  BY <1>1, <1>2 DEF App
<1> SUFFICES ASSUME Orderly(store, app, call[c], rows)
             PROVE  Orderly(store', app', None, rows')
  BY <1>1, OneCallKeeps
<1>4. /\ app.user = None /\ app.previous \in {None, Unset} /\ Deps(app) = app.deps
      /\ store.user = call[c].user /\ store.user # None /\ app.token # None
  BY <1>1, <1>2 DEF Orderly, LoginAgrees, Asks
<1>5. Deps(app') # app'.deps
  BY <1>2, <1>3, <1>4, DepsParts
<1>6. app'.user # app'.previous
  BY <1>2, <1>3, <1>4, MobileNames DEF User
<1>7. StoreAgrees(store', None)
  BY <1>1 DEF Orderly, StoreAgrees, Waits
<1>8. AppAgrees(store', app', None)
  BY <1>1, <1>3, <1>4 DEF Orderly, AppAgrees, Waits
<1>9. LoginAgrees(store', app', None) /\ RegisterAgrees(store', app', None, rows')
  BY NeitherAgrees
<1>10. EffectAgrees(app', None)
  BY <1>3, <1>5 DEF Orderly, EffectAgrees, Waits
<1>11. RowAgrees(store', app', None, rows')
  BY <1>6 DEF RowAgrees
<1> QED
  BY <1>7, <1>8, <1>9, <1>10, <1>11 DEF Orderly

LEMMA ClearAllKeeps ==
    ASSUME MobileInvariant, OneByOne, NEW c \in Calls, ClearAll(c)
    PROVE  OneByOne'
<1>1. /\ call[c] # None /\ call[c].at \in {"answered", "clear"}
      /\ call' = [call EXCEPT ![c] = None]
      /\ store' = Nothing /\ app' = Forget(app)
      /\ UNCHANGED <<rows, overlapped>>
  BY DEF ClearAll, AskedOut, Succeeded, End, server
<1>2. app \in App
  BY <1>1, CallIsTyped
<1>3. store'.token = None /\ store'.user = None
  BY <1>1 DEF Nothing
<1>4. /\ app' \in App /\ app'.user = None /\ app'.loading = app.loading
      /\ app'.ready = app.ready /\ app'.push = app.push
      /\ app'.deps = app.deps /\ app'.previous = app.previous
      /\ app'.mac = app.mac /\ app'.device = app.device
  BY <1>1, <1>2, ForgetsWhom
<1> SUFFICES ASSUME Orderly(store, app, call[c], rows)
             PROVE  Orderly(store', app', None, rows')
  BY <1>1, OneCallKeeps
<1>5. StoreAgrees(store', None)
  BY <1>3, MobileNames DEF StoreAgrees, Waits, Tokens
<1>6. AppAgrees(store', app', None)
  BY <1>3, <1>4 DEF AppAgrees
<1>7. LoginAgrees(store', app', None) /\ RegisterAgrees(store', app', None, rows')
  BY NeitherAgrees
<1>8. EffectAgrees(app', None)
  <2>1. EffectAgrees(app, call[c]) /\ ~Waits(call[c], {"read"})
    BY <1>1 DEF Orderly, Waits
  <2> QED
    BY <1>1, <1>2, <1>4, <2>1, ForgottenAgrees
<1>9. RowAgrees(store', app', None, rows')
  BY <1>4 DEF RowAgrees
<1> QED
  BY <1>5, <1>6, <1>7, <1>8, <1>9 DEF Orderly

-----------------------------------------------------------------------------
(* The steps of an effect that change what is kept of the device.          *)

\* Another account's device is dropped before anything is asked about it.
LEMMA ReadStoredKeeps ==
    ASSUME MobileInvariant, OneByOne, NEW c \in Calls, ReadStored(c)
    PROVE  OneByOne'
<1> DEFINE user == call[c].user
           changed == app.previous # Unset /\ app.previous # user
           dev == IF changed /\ app.previous = None /\ user # None THEN store.device ELSE None
           drop == [call[c] EXCEPT !.at = "drop", !.dev = dev]
<1>1. /\ app \in App /\ app.reads \in Seq(Calls) /\ app.reads # <<>> /\ c = app.reads[1]
      /\ 1 \in 1..Len(app.reads) /\ Tail(app.reads) \in Seq(Calls)
  BY DEF ReadStored, MobileInvariant, MobileTypes, App
<1>2. call[c] # None /\ call[c].at = "read"
  BY <1>1 DEF MobileInvariant, ReadsAreQueued
<1>3. /\ call[c] \in Call /\ Shape(call[c]) /\ store.device \in Device
      /\ user \in User /\ user # Unset
  BY <1>2, CallIsTyped, MobileNames DEF Call, User
<1>4. /\ app' = [app EXCEPT !.previous = user, !.reads = Tail(app.reads),
                   !.device = IF changed THEN None
                              ELSE IF store.device # None THEN store.device ELSE @]
      /\ UNCHANGED <<store, rows, overlapped>>
  BY DEF ReadStored, server
<1>5. /\ app'.token = app.token /\ app'.user = app.user /\ app'.loading = app.loading
      /\ app'.ready = app.ready /\ app'.push = app.push /\ app'.deps = app.deps
      /\ app'.mac = app.mac /\ app'.previous = user
      /\ app'.device = IF changed THEN None
                       ELSE IF store.device # None THEN store.device ELSE app.device
  BY <1>1, <1>4 DEF App
<1>6. \E k \in Call \cup {None} :
        /\ call' = [call EXCEPT ![c] = k]
        /\ k # None => /\ k.fn = call[c].fn
                       /\ \/ k.at = "drop" /\ k.request = None
                          \/ ~changed /\ k.at = "bssid" /\ k.request = "register"
        /\ changed => k # None /\ k.at = "drop"
  <2>1. CASE changed
    <3>1. call' = [call EXCEPT ![c] = drop]
      BY <2>1 DEF ReadStored
    <3>2. dev \in Device
      BY <1>3, NoDevice
    <3> HIDE DEF dev
    <3>3. /\ drop \in Call /\ drop.fn = call[c].fn /\ drop.at = "drop"
          /\ drop.request = None /\ drop # None
      BY ZenonT(60), <1>2, <1>3, <3>2, NoneIsNoCall DEF Call, Awaits, Shape
    <3> QED
      BY <3>1, <3>3
  <2>2. CASE ~changed
    <3>1. TryRegister(c)
      BY <2>2 DEF ReadStored
    <3> QED
      BY <1>3, <2>2, <3>1, TriesCall
  <2> QED
    BY <2>1, <2>2
<1>7. PICK k \in Call \cup {None} :
        /\ call' = [call EXCEPT ![c] = k]
        /\ k # None => /\ k.fn = call[c].fn
                       /\ \/ k.at = "drop" /\ k.request = None
                          \/ ~changed /\ k.at = "bssid" /\ k.request = "register"
        /\ changed => k # None /\ k.at = "drop"
  BY <1>6
<1> SUFFICES ASSUME Orderly(store, app, call[c], rows)
             PROVE  Orderly(store', app', k, rows')
  BY <1>2, <1>4, <1>7, OneCallKeeps
<1>8. user = app.user
  BY <1>2 DEF Orderly, EffectAgrees, Waits
<1>9. StoreAgrees(store', k)
  BY <1>2, <1>4, <1>7 DEF Orderly, StoreAgrees, Waits
<1>10. AppAgrees(store', app', k)
  BY <1>2, <1>4, <1>5, <1>7 DEF Orderly, AppAgrees, Waits
<1>11. LoginAgrees(store', app', k) /\ RegisterAgrees(store', app', k, rows')
  BY <1>7, NoneIsNoCall, NeitherAgrees DEF Requests
<1>12. EffectAgrees(app', k)
  <2>1. Deps(app') = Deps(app)
    BY <1>5 DEF Deps
  <2> QED
    BY <1>2, <1>3, <1>5, <1>7, <1>8, <2>1 DEF Orderly, EffectAgrees, Waits
<1>13. RowAgrees(store', app', k, rows')
  <2>1. CASE changed
    BY <1>5, <1>7, <2>1 DEF RowAgrees, Owned, Waits
  <2>2. CASE app.previous = Unset
    BY <1>5, <2>2 DEF Orderly, EffectAgrees, RowAgrees
  <2>3. CASE app.previous = user
    BY <1>2, <1>4, <1>5, <1>8, <2>3 DEF Orderly, RowAgrees, Waits
  <2> QED
    BY <2>1, <2>2, <2>3
<1>14. k # None => Mine(k)
  BY <1>7 DEF Mine
<1> QED
  BY <1>9, <1>10, <1>11, <1>12, <1>13, <1>14 DEF Orderly
LEMMA DropStoredKeeps ==
    ASSUME MobileInvariant, OneByOne, NEW c \in Calls, DropStored(c)
    PROVE  OneByOne'
<1>1. /\ call[c] # None /\ call[c].at = "drop" /\ store' = [store EXCEPT !.device = None]
      /\ UNCHANGED <<app, rows, overlapped>>
  BY DEF DropStored, server
<1>2. /\ call[c] \in Call /\ call[c].fn = "settle"
      /\ store \in [token : Credential, user : User, device : Device]
  BY <1>1, CallIsTyped DEF Shape
<1>3. \E k \in Call \cup {None} :
        /\ call' = [call EXCEPT ![c] = k]
        /\ k # None => /\ k.fn = call[c].fn
                       /\ \/ k.at = "send" /\ k.request = "remove"
                          \/ k.at = "bssid" /\ k.request = "register"
  <2>1. CASE call[c].dev # None
    <3> DEFINE k == [call[c] EXCEPT !.request = "remove", !.at = "send"]
    <3>1. call' = [call EXCEPT ![c] = k]
      BY <2>1 DEF DropStored, Request
    <3>2. k \in Call /\ k.fn = call[c].fn /\ k.request = "remove" /\ k.at = "send"
      BY <1>2 DEF Call, Awaits, Requests
    <3> HIDE DEF k
    <3> QED
      BY <3>1, <3>2
  <2>2. CASE call[c].dev = None
    BY <1>2, <2>2, TriesCall DEF DropStored
  <2> QED
    BY <2>1, <2>2
<1>4. PICK k \in Call \cup {None} :
        /\ call' = [call EXCEPT ![c] = k]
        /\ k # None => /\ k.fn = call[c].fn
                       /\ \/ k.at = "send" /\ k.request = "remove"
                          \/ k.at = "bssid" /\ k.request = "register"
  BY <1>3
<1>5. store'.token = store.token /\ store'.user = store.user /\ store'.device = None
  BY <1>1, <1>2
<1> SUFFICES ASSUME Orderly(store, app, call[c], rows)
             PROVE  Orderly(store', app', k, rows')
  BY <1>1, <1>4, OneCallKeeps
<1>6. StoreAgrees(store', k)
  BY <1>1, <1>4, <1>5 DEF Orderly, StoreAgrees, Waits
<1>7. AppAgrees(store', app', k)
  BY <1>1, <1>4, <1>5 DEF Orderly, AppAgrees, Waits
<1>8. LoginAgrees(store', app', k) /\ RegisterAgrees(store', app', k, rows')
  BY <1>4, NeitherAgrees
<1>9. EffectAgrees(app', k)
  BY <1>1, <1>2, <1>4 DEF Orderly, EffectAgrees, Waits
<1>10. RowAgrees(store', app', k, rows')
  BY <1>1, <1>5 DEF Orderly, RowAgrees, Owned
<1> QED
  BY <1>4, <1>6, <1>7, <1>8, <1>9, <1>10 DEF Orderly, Mine

LEMMA RegisteredWhom ==
    ASSUME NEW c \in Calls, NEW a \in App
    PROVE  /\ Registered(c, a).user = a.user /\ Registered(c, a).token = a.token
           /\ Registered(c, a).loading = a.loading /\ Registered(c, a).ready = a.ready
           /\ Registered(c, a).push = a.push /\ Registered(c, a).deps = a.deps
           /\ Registered(c, a).previous = a.previous
           /\ Registered(c, a).device = call[c].answer.dev
  BY DEF Registered, App

\* The last step of a registration, whatever it stores: an account's is of a row
\* of its own.
LEMMA RegisteredKeeps ==
    ASSUME MobileInvariant, OneByOne, NEW c \in Calls, call[c] # None,
           call[c].request = "register",
           call[c].at = "credential" \/ (call[c].at = "answered" /\ call[c].answer.kind = "ok"),
           app' = Registered(c, app), call' = [call EXCEPT ![c] = None],
           UNCHANGED <<rows, overlapped>>, store'.user = store.user,
           Orderly(store, app, call[c], rows) =>
             /\ StoreAgrees(store', None)
             /\ app.user # None => store'.device = call[c].answer.dev
    PROVE  OneByOne'
<1>1. call[c] \in Call /\ app \in App /\ call[c].fn \in {"settle", "beat"}
  BY CallIsTyped DEF Shape
<1>2. /\ app'.user = app.user /\ app'.token = app.token /\ app'.loading = app.loading
      /\ app'.ready = app.ready /\ app'.push = app.push /\ app'.deps = app.deps
      /\ app'.previous = app.previous /\ app'.device = call[c].answer.dev
  BY <1>1, RegisteredWhom
<1> SUFFICES ASSUME Orderly(store, app, call[c], rows)
             PROVE  Orderly(store', app', None, rows')
  BY OneCallKeeps
<1>3. AppAgrees(store', app', None)
  BY <1>2 DEF Orderly, AppAgrees, Waits
<1>4. LoginAgrees(store', app', None) /\ RegisterAgrees(store', app', None, rows')
  BY NeitherAgrees
<1>5. EffectAgrees(app', None)
  <2>1. Deps(app') = Deps(app)
    BY <1>2 DEF Deps
  <2> QED
    BY <1>1, <1>2, <2>1 DEF Orderly, EffectAgrees, Waits, Settled
<1>6. RowAgrees(store', app', None, rows')
  BY <1>2 DEF Orderly, RowAgrees, RegisterAgrees, Asks
<1> QED
  BY <1>3, <1>4, <1>5, <1>6 DEF Orderly

LEMMA StoreDeviceKeeps ==
    ASSUME MobileInvariant, OneByOne, NEW c \in Calls, StoreDevice(c)
    PROVE  OneByOne'
<1>1. /\ call[c] # None /\ call[c].at = "answered" /\ call[c].request = "register"
      /\ call[c].answer.kind = "ok"
      /\ store' = [store EXCEPT !.device = call[c].answer.dev]
      /\ UNCHANGED <<rows, overlapped>>
  BY DEF StoreDevice, Succeeded, server
<1>2. /\ call[c] \in Call /\ store \in [token : Credential, user : User, device : Device]
  BY <1>1, CallIsTyped
<1>3. /\ store'.token = store.token /\ store'.user = store.user
      /\ store'.device = call[c].answer.dev
  BY <1>1, <1>2
<1>4. CASE call[c].answer.cred # None
  <2> DEFINE k == [call[c] EXCEPT !.at = "credential"]
  <2>1. call' = [call EXCEPT ![c] = k] /\ UNCHANGED app
    BY <1>4 DEF StoreDevice, Goto
  <2>2. /\ k \in Call /\ k.fn = call[c].fn /\ k.at = "credential"
        /\ k.answer = call[c].answer /\ k.request = "register"
    BY <1>1, <1>2 DEF Call, Awaits
  <2> HIDE DEF k
  <2> SUFFICES ASSUME Orderly(store, app, call[c], rows)
               PROVE  Orderly(store', app', k, rows')
    BY <1>1, <2>1, <2>2, OneCallKeeps
  <2>3. app.user = None
    BY <1>1, <1>4 DEF Orderly, RegisterAgrees, Asks
  <2>4. StoreAgrees(store', k)
    BY <1>1, <1>3, <2>2 DEF Orderly, StoreAgrees, Waits
  <2>5. AppAgrees(store', app', k)
    BY <1>1, <1>3, <2>1, <2>2 DEF Orderly, AppAgrees, Waits
  <2>6. LoginAgrees(store', app', k)
    BY <2>2 DEF LoginAgrees, Asks
  <2>7. RegisterAgrees(store', app', k, rows')
    BY <1>1, <1>4, <2>1, <2>2 DEF Orderly, RegisterAgrees, Asks
  <2>8. EffectAgrees(app', k)
    BY <1>1, <2>1, <2>2 DEF Orderly, EffectAgrees, Waits
  <2>9. RowAgrees(store', app', k, rows')
    BY <2>1, <2>3 DEF RowAgrees
  <2> QED
    BY <2>2, <2>4, <2>5, <2>6, <2>7, <2>8, <2>9 DEF Orderly, Mine
<1>5. CASE call[c].answer.cred = None
  <2>1. app' = Registered(c, app) /\ call' = [call EXCEPT ![c] = None]
    BY <1>5 DEF StoreDevice, End
  <2>2. Orderly(store, app, call[c], rows) => StoreAgrees(store', None)
    BY <1>1, <1>3 DEF Orderly, StoreAgrees, Waits
  <2> QED
    BY <1>1, <1>3, <2>1, <2>2, RegisteredKeeps
<1> QED
  BY <1>4, <1>5

\* A guest's token is stored where nobody's is.
LEMMA StoreCredentialKeeps ==
    ASSUME MobileInvariant, OneByOne, NEW c \in Calls, StoreCredential(c)
    PROVE  OneByOne'
<1>1. /\ call[c] # None /\ call[c].at = "credential"
      /\ store' = [store EXCEPT !.token = call[c].answer.cred]
      /\ app' = Registered(c, app) /\ call' = [call EXCEPT ![c] = None]
      /\ UNCHANGED <<rows, overlapped>>
  BY DEF StoreCredential, End, server
<1>2. /\ call[c] \in Call /\ call[c].request = "register"
      /\ store \in [token : Credential, user : User, device : Device]
  BY <1>1, CallIsTyped DEF Shape
<1>3. store'.token = call[c].answer.cred /\ store'.user = store.user
  BY <1>1, <1>2
<1>4. ASSUME Orderly(store, app, call[c], rows)
      PROVE  app.user = None /\ StoreAgrees(store', None)
  <2>1. app.user = None /\ call[c].answer.cred \notin UserTokens
    BY <1>1, <1>2, <1>4 DEF Orderly, RegisterAgrees, Asks
  <2>2. store.user = None
    BY <1>1, <1>4, <2>1 DEF Orderly, AppAgrees, Waits
  <2> QED
    BY <1>3, <2>1, <2>2 DEF StoreAgrees, Waits
<1> QED
  BY <1>1, <1>2, <1>3, <1>4, RegisteredKeeps
-----------------------------------------------------------------------------
(* What begins: OneByOne speaks of it if nothing else was going on.        *)

\* A request of a screen, or a heartbeat, that begins alone.
LEMMA AloneKeeps ==
    ASSUME MobileInvariant, OneByOne, NEW c \in Calls, NEW k \in Call,
           call' = [call EXCEPT ![c] = k], Meddle, UNCHANGED <<store, app, rows>>,
           k.at \in {"sent", "bssid"}, k.request # "register", k.fn # "settle",
           k.fn = "beat" => app.device # None,
           k.request = "login" => app.token = None
    PROVE  OneByOne'
<1>1. k # None
  BY NoneIsNoCall
<1>2. ~overlapped' => ~overlapped /\ Running = {} /\ Deps(app) = app.deps /\ ~app.loading
  BY DEF Meddle, Quiet, EffectDue
<1> SUFFICES ASSUME ~overlapped', Orderly(store, app, None, rows)
             PROVE  Orderly(store', app', k, rows')
  BY <1>2, FirstCallKeeps
<1>3. StoreAgrees(store', k)
  BY DEF Orderly, StoreAgrees, Waits
<1>4. AppAgrees(store', app', k)
  BY <1>2 DEF Orderly, AppAgrees, Waits
<1>5. LoginAgrees(store', app', k)
  <2> SUFFICES ASSUME k.request = "login"
               PROVE  LoginAgrees(store', app', k)
    BY DEF LoginAgrees, Asks
  <2>1. app.user = None /\ store.user = None
    BY <1>2 DEF Orderly, AppAgrees, Waits
  <2>2. app.previous \in {None, Unset}
    BY <1>2, <2>1 DEF Orderly, EffectAgrees, Waits, MobileInvariant, KnownWhenSettled
  <2> QED
    BY <1>2, <2>1, <2>2 DEF LoginAgrees, SignedIn
<1>6. RegisterAgrees(store', app', k, rows')
  BY DEF RegisterAgrees, Asks
<1>7. EffectAgrees(app', k)
  BY <1>2 DEF Orderly, EffectAgrees, Waits
<1>8. RowAgrees(store', app', k, rows')
  BY DEF Orderly, RowAgrees, Waits
<1> QED
  BY <1>3, <1>4, <1>5, <1>6, <1>7, <1>8 DEF Orderly, Mine

LEMMA AsksKeep ==
    ASSUME MobileInvariant, OneByOne, NEW c \in Calls,
           Fetch(c) \/ Logout(c) \/ \E u \in Users : Login(c, u)
    PROVE  OneByOne'
<1>1. PICK kind \in {"fetch", "login", "logout"}, u \in User :
        /\ Ask(c, kind, u) /\ Meddle /\ UNCHANGED <<store, app, rows>>
        /\ kind = "login" => app.token = None
  BY DEF Fetch, Logout, Login, User, server
<1> DEFINE k == [NewCall(kind, "sent") EXCEPT !.request = kind, !.user = u, !.cred = store.token]
<1>2. call' = [call EXCEPT ![c] = k]
  BY <1>1 DEF Ask, Start
<1>3. NewCall(kind, "sent") \in Call /\ NewCall(kind, "sent").fn = kind
      /\ NewCall(kind, "sent").at = "sent"
  BY NewCallIsTyped DEF Functions, Awaits
<1>4. store.token \in Credential
  BY DEF MobileInvariant, MobileTypes
<1>5. k \in Call /\ k.fn = kind /\ k.at = "sent" /\ k.request = kind
  BY <1>3, <1>4 DEF Call, Requests
<1> HIDE DEF k
<1> QED
  BY <1>1, <1>2, <1>5, AloneKeeps

LEMMA TickKeeps ==
    ASSUME MobileInvariant, OneByOne, NEW c \in Calls, Tick(c)
    PROVE  OneByOne'
<1> DEFINE k == [NewCall("beat", "bssid") EXCEPT !.request = "beat", !.dev = app.device]
<1>1. /\ app.device # None /\ call' = [call EXCEPT ![c] = k] /\ Meddle
      /\ UNCHANGED <<store, app, rows>>
  BY DEF Tick, Start, server
<1>2. NewCall("beat", "bssid") \in Call /\ NewCall("beat", "bssid").fn = "beat"
      /\ NewCall("beat", "bssid").at = "bssid"
  BY NewCallIsTyped DEF Functions, Awaits
<1>3. app.device \in Device
  BY DEF MobileInvariant, MobileTypes, App
<1>4. k \in Call /\ k.fn = "beat" /\ k.at = "bssid" /\ k.request = "beat"
  BY <1>2, <1>3 DEF Call, Requests
<1> HIDE DEF k
<1> QED
  BY <1>1, <1>4, AloneKeeps

LEMMA SettleKeeps ==
    ASSUME MobileInvariant, OneByOne, NEW c \in Calls, Settle(c)
    PROVE  OneByOne'
<1> DEFINE q == IF Settled(app) THEN Append(app.reads, c) ELSE app.reads
           k == [NewCall("settle", "read") EXCEPT !.user = app.user, !.push = app.push]
<1>1. app \in App /\ q \in Seq(Calls)
  BY DEF MobileInvariant, MobileTypes, App
<1>2. /\ app' = [app EXCEPT !.deps = Deps(app), !.reads = q]
      /\ UNCHANGED <<store, rows>>
      /\ Settled(app) => call[c] = None /\ call' = [call EXCEPT ![c] = k]
                         /\ overlapped' = (overlapped \/ Running # {})
      /\ ~Settled(app) => call' = call /\ overlapped' = overlapped
  <2>1. (app.ready /\ ~app.loading) = Settled(app)
    BY <1>1 DEF Settled, App
  <2>2. RunEffect(c, Settled(app))
    BY <2>1 DEF Settle
  <2>3. overlapped \in BOOLEAN
    BY DEF MobileInvariant, MobileTypes
  <2> QED
    BY <2>2, <2>3 DEF RunEffect, Start, server
<1> HIDE DEF q
<1>3. /\ app'.token = app.token /\ app'.user = app.user /\ app'.loading = app.loading
      /\ app'.ready = app.ready /\ app'.push = app.push /\ app'.previous = app.previous
      /\ app'.mac = app.mac /\ app'.device = app.device
      /\ app'.deps = Deps(app)
  BY <1>1, <1>2, DepsAreTyped DEF App
<1>4. /\ Deps(app)[2] = app.ready /\ Deps(app)[3] = app.loading
      /\ Deps(app') = Deps(app)
  <2>1. Deps(app') = Deps(app)
    BY <1>3 DEF Deps
  <2> QED
    BY <1>1, <2>1, DepsParts
<1>5. CASE Settled(app)
  <2>1. /\ k \in Call /\ k.fn = "settle" /\ k.at = "read" /\ k.request = None
        /\ k.user = app.user /\ k # None
    <3>1. /\ NewCall("settle", "read") \in Call /\ NewCall("settle", "read").fn = "settle"
          /\ NewCall("settle", "read").at = "read"
          /\ NewCall("settle", "read").request = None
      BY NewCallIsTyped DEF Functions, Awaits
    <3> QED
      BY <1>1, <3>1, NoneIsNoCall DEF Call, App
  <2> HIDE DEF k
  <2> SUFFICES ASSUME Orderly(store, app, None, rows)
               PROVE  Orderly(store', app', k, rows')
    BY <1>2, <1>5, <2>1, FirstCallKeeps
  <2>2. StoreAgrees(store', k)
    BY <1>2, <2>1 DEF Orderly, StoreAgrees, Waits
  <2>3. AppAgrees(store', app', k)
    BY <1>2, <1>3, <1>5, <2>1 DEF Orderly, AppAgrees, Waits, Settled
  <2>4. LoginAgrees(store', app', k) /\ RegisterAgrees(store', app', k, rows')
    BY <2>1, NoneIsNoCall, NeitherAgrees DEF Requests
  <2>5. EffectAgrees(app', k)
    BY <1>3, <1>4, <2>1 DEF Orderly, EffectAgrees, Waits
  <2>6. RowAgrees(store', app', k, rows')
    BY <1>2, <1>3 DEF Orderly, RowAgrees, Waits
  <2> QED
    BY <2>1, <2>2, <2>3, <2>4, <2>5, <2>6 DEF Orderly, Mine
<1>6. CASE ~Settled(app)
  <2> SUFFICES ASSUME NEW j \in Call \cup {None}, Orderly(store, app, j, rows)
               PROVE  Orderly(store', app', j, rows')
    BY <1>2, <1>6, BesideKeeps
  <2>1. StoreAgrees(store', j)
    BY <1>2 DEF Orderly
  <2>2. AppAgrees(store', app', j)
    BY <1>2, <1>3 DEF Orderly, AppAgrees
  <2>3. LoginAgrees(store', app', j)
    BY <1>2, <1>3, <1>4 DEF Orderly, LoginAgrees
  <2>4. RegisterAgrees(store', app', j, rows')
    BY <1>2, <1>3 DEF Orderly, RegisterAgrees
  <2>5. EffectAgrees(app', j)
    BY <1>3, <1>4, <1>6 DEF Orderly, EffectAgrees, Settled
  <2>6. RowAgrees(store', app', j, rows')
    BY <1>2, <1>3 DEF Orderly, RowAgrees
  <2> QED
    BY <2>1, <2>2, <2>3, <2>4, <2>5, <2>6 DEF Orderly
<1> QED
  BY <1>5, <1>6

LEMMA RestoreKeeps ==
    ASSUME MobileInvariant, OneByOne, Restore
    PROVE  OneByOne'
<1>1. /\ app.loading /\ UNCHANGED <<store, call, rows, overlapped>>
      /\ app' = [app EXCEPT !.token = store.token, !.user = store.user, !.loading = FALSE]
  BY DEF Restore, server
<1>2. app \in App /\ store \in [token : Credential, user : User, device : Device]
  BY DEF MobileInvariant, MobileTypes
<1>3. /\ app' \in App /\ app'.token = store.token /\ app'.user = store.user
      /\ app'.loading = FALSE
      /\ app'.ready = app.ready /\ app'.push = app.push /\ app'.previous = app.previous
      /\ app'.mac = app.mac /\ app'.device = app.device /\ app'.deps = app.deps
  BY <1>1, <1>2 DEF App
<1>4. app.previous = Unset
  BY <1>1 DEF MobileInvariant, KnownWhenSettled, Settled
<1>5. store.user # Unset
  BY <1>2, MobileNames DEF User
<1> SUFFICES ASSUME NEW k \in Call \cup {None}, Orderly(store, app, k, rows)
             PROVE  Orderly(store', app', k, rows')
  BY <1>1, BesideKeeps
<1>6. k = None
  BY <1>1 DEF Orderly, AppAgrees
<1>7. StoreAgrees(store', k)
  BY <1>1 DEF Orderly
<1>8. AppAgrees(store', app', k)
  BY <1>1, <1>3, <1>6, MobileNames DEF Orderly, AppAgrees, StoreAgrees, Waits, Tokens
<1>9. LoginAgrees(store', app', k) /\ RegisterAgrees(store', app', k, rows')
  BY <1>6, NeitherAgrees
<1>10. EffectAgrees(app', k)
  <2>1. app.deps # None => app.deps[3]
    BY <1>1 DEF Orderly, EffectAgrees
  <2>2. Deps(app') # app'.deps
    BY <1>3, <2>1, DepsParts
  <2> QED
    BY <1>3, <1>6, <2>2 DEF Orderly, EffectAgrees, Waits
<1>11. RowAgrees(store', app', k, rows')
  BY <1>3, <1>4, <1>5 DEF RowAgrees
<1> QED
  BY <1>6, <1>7, <1>8, <1>9, <1>10, <1>11 DEF Orderly

LEMMA SettlePushKeeps ==
    ASSUME MobileInvariant, OneByOne, SettlePush
    PROVE  OneByOne'
<1>1. /\ ~app.ready /\ UNCHANGED <<store, call, rows>>
      /\ overlapped' = (overlapped \/ Running # {})
  BY DEF SettlePush, server
<1>2. PICK token \in PermissionAnswers :
        app' = [app EXCEPT !.push = token, !.ready = TRUE, !.listening = @ \/ token # None]
  BY DEF SettlePush, PermissionAnswers
<1>3. app \in App /\ token \in Push
  BY MobileBounds DEF MobileInvariant, MobileTypes, PermissionAnswers, Counts, Push, PushTokens
<1>4. /\ app' \in App /\ app'.token = app.token /\ app'.user = app.user
      /\ app'.loading = app.loading /\ app'.ready = TRUE /\ app'.previous = app.previous
      /\ app'.mac = app.mac /\ app'.device = app.device /\ app'.deps = app.deps
  BY <1>2, <1>3 DEF App
<1>5. app.previous = Unset /\ app.user # Unset
  BY <1>1, <1>3, MobileNames DEF MobileInvariant, KnownWhenSettled, Settled, App, User
<1> SUFFICES ASSUME Orderly(store, app, None, rows), ~overlapped'
             PROVE  Orderly(store', app', None, rows')
  BY <1>1, BesideKeeps
<1>6. StoreAgrees(store', None)
  BY <1>1 DEF Orderly
<1>7. AppAgrees(store', app', None)
  BY <1>1, <1>4 DEF Orderly, AppAgrees
<1>8. LoginAgrees(store', app', None) /\ RegisterAgrees(store', app', None, rows')
  BY NeitherAgrees
<1>9. EffectAgrees(app', None)
  <2>1. app.deps # None => ~app.deps[2]
    BY <1>1 DEF Orderly, EffectAgrees
  <2>2. Deps(app') # app'.deps
    BY <1>4, <2>1, DepsParts
  <2> QED
    BY <1>4, <2>2 DEF Orderly, EffectAgrees, Waits
<1>10. RowAgrees(store', app', None, rows')
  BY <1>4, <1>5 DEF RowAgrees
<1> QED
  BY <1>6, <1>7, <1>8, <1>9, <1>10 DEF Orderly
\* A step of the world around a phone at rest: what it shows and keeps is as it
\* was, or the effect is due.
LEMMA RestKeeps ==
    ASSUME MobileInvariant, OneByOne, UNCHANGED <<store, call, rows>>, Meddle,
           app' \in App, app'.token = app.token, app'.user = app.user,
           app'.loading = app.loading, app'.ready = app.ready, app'.deps = app.deps,
           app'.previous = app.previous, app'.mac = app.mac, app'.device = app.device
    PROVE  OneByOne'
<1>1. ~overlapped' => ~overlapped /\ Running = {} /\ Deps(app) = app.deps
  BY DEF Meddle, Quiet, EffectDue
<1> SUFFICES ASSUME Orderly(store, app, None, rows), ~overlapped'
             PROVE  Orderly(store', app', None, rows')
  BY <1>1, BesideKeeps
<1>2. StoreAgrees(store', None)
  BY DEF Orderly
<1>3. AppAgrees(store', app', None)
  BY DEF Orderly, AppAgrees
<1>4. LoginAgrees(store', app', None) /\ RegisterAgrees(store', app', None, rows')
  BY NeitherAgrees
<1>5. EffectAgrees(app', None)
  BY <1>1 DEF Orderly, EffectAgrees, Waits, Settled
<1>6. RowAgrees(store', app', None, rows')
  BY DEF Orderly, RowAgrees
<1> QED
  BY <1>2, <1>3, <1>4, <1>5, <1>6 DEF Orderly

LEMMA WorldKeeps ==
    ASSUME MobileInvariant, OneByOne,
           \/ RotateToken \/ (\E mac \in Places : Walk(mac))
           \/ (\E n \in 1..MaxSignIns : Expire(n))
    PROVE  OneByOne'
<1>1. /\ UNCHANGED <<store, call, rows>> /\ Meddle
      /\ app' = app \/ app' = [app EXCEPT !.push = count.rotations + 1]
  BY DEF RotateToken, Walk, Expire, server
<1>2. MobileInvariant'
  BY RotateTokenPreserves, WorldPreserves
<1>3. app \in App /\ app' \in App
  BY <1>2 DEF MobileInvariant, MobileTypes
<1>4. /\ app'.token = app.token /\ app'.user = app.user
      /\ app'.loading = app.loading /\ app'.ready = app.ready /\ app'.deps = app.deps
      /\ app'.previous = app.previous /\ app'.mac = app.mac /\ app'.device = app.device
  BY <1>1, <1>3 DEF App
<1> QED
  BY <1>1, <1>3, <1>4, RestKeeps

\* A launch that has restored nothing agrees with whatever is stored.
LEMMA LaunchedAgrees ==
    ASSUME NEW s, NEW rs, NEW n \in 0..MaxSignIns, StoreAgrees(s, None)
    PROVE  Orderly(s, Launched(n), None, rs)
<1> DEFINE a == Launched(n)
<1>1. /\ a.loading /\ a.user = None /\ a.device = None /\ a.mac = None
      /\ a.previous = Unset /\ a.deps = None
  BY DEF Launched
<1> HIDE DEF a
<1>2. AppAgrees(s, a, None)
  BY <1>1 DEF AppAgrees
<1>3. LoginAgrees(s, a, None) /\ RegisterAgrees(s, a, None, rs)
  BY NeitherAgrees
<1>4. EffectAgrees(a, None)
  BY <1>1 DEF EffectAgrees, Waits, Settled
<1>5. RowAgrees(s, a, None, rs)
  BY <1>1 DEF RowAgrees
<1>6. Orderly(s, a, None, rs)
  BY <1>2, <1>3, <1>4, <1>5 DEF Orderly
<1> QED
  BY <1>6 DEF a

LEMMA RelaunchKeeps ==
    ASSUME MobileInvariant, OneByOne, Relaunch
    PROVE  OneByOne'
<1>1. /\ app' = Launched(count.signIns) /\ UNCHANGED <<store, rows>> /\ Meddle
      /\ call' = [c \in Calls |->
                    IF call[c] # None /\ call[c].at \in {"sent", "orphan"}
                      THEN [call[c] EXCEPT !.at = "orphan"] ELSE None]
  BY DEF Relaunch, server
<1> SUFFICES ASSUME ~overlapped'
             PROVE  /\ \A d, e \in Running' : d = e
                    /\ Running' = {} => Orderly(store', app', None, rows')
                    /\ \A d \in Running' : Orderly(store', app', call'[d], rows')
  BY DEF OneByOne
<1>2. Running = {} /\ ~overlapped
  BY <1>1 DEF Meddle, Quiet
<1>3. Running' = {}
  BY <1>1, <1>2 DEF Running
<1>4. StoreAgrees(store, None)
  BY <1>2 DEF OneByOne, Orderly
<1>5. count.signIns \in 0..MaxSignIns
  BY DEF MobileInvariant, MobileTypes, Counts
<1>6. Orderly(store', app', None, rows')
  BY <1>1, <1>4, <1>5, LaunchedAgrees
<1> QED
  BY <1>3, <1>6

-----------------------------------------------------------------------------
(* The theorems about calls that run one by one.                           *)

LEMMA OneByOneStarts == Init => OneByOne
<1> SUFFICES ASSUME Init
             PROVE  OneByOne
  OBVIOUS
<1>1. Running = {}
  BY DEF Init, Running
<1>2. StoreAgrees(store, None)
  BY MobileNames DEF Init, Nothing, StoreAgrees, Waits, Tokens
<1>3. Orderly(store, app, None, rows)
  BY <1>2, MobileBounds, LaunchedAgrees DEF Init
<1> QED
  BY <1>1, <1>3 DEF OneByOne

LEMMA OneByOneStep == MobileInvariant /\ OneByOne /\ [Next]_vars => OneByOne'
<1> SUFFICES ASSUME MobileInvariant, OneByOne, [Next]_vars
             PROVE  OneByOne'
  OBVIOUS
<1>1. CASE Restore \/ SettlePush \/ RotateToken \/ Relaunch
  BY <1>1, RestoreKeeps, SettlePushKeeps, WorldKeeps, RelaunchKeeps
<1>2. ASSUME NEW c \in Calls, CallStep(c)
      PROVE  OneByOne'
  BY <1>2, SendKeeps, ServeKeeps, LoseKeeps, FailKeeps, ClearTokenKeeps, ClearUserKeeps,
     PersistTokenKeeps, PersistUserKeeps, SetUserKeeps, ClearAllKeeps, EndsKeep,
     ReadStoredKeeps, DropStoredKeeps, ReadBssidKeeps, StoreDeviceKeeps,
     StoreCredentialKeeps, TickReadKeeps DEF CallStep
<1>3. ASSUME NEW c \in Calls, Settle(c) \/ Fetch(c) \/ Tick(c) \/ Logout(c)
      PROVE  OneByOne'
  BY <1>3, SettleKeeps, AsksKeep, TickKeeps
<1>4. ASSUME NEW c \in Calls, NEW u \in Users, Login(c, u)
      PROVE  OneByOne'
  BY <1>4, AsksKeep
<1>5. CASE (\E mac \in Places : Walk(mac)) \/ (\E n \in 1..MaxSignIns : Expire(n))
  BY <1>5, WorldKeeps
<1>6. CASE UNCHANGED vars
  BY <1>6 DEF vars, OneByOne, Running
<1> QED
  BY <1>1, <1>2, <1>3, <1>4, <1>5, <1>6 DEF Next

\* As long as nothing began while something else was under way, lost answers and
\* expired sessions included, what is stored, what the app shows, the one call
\* under way and the phone's rows agree.
THEOREM OneByOneHolds == Spec => []OneByOne
<1>1. Init => OneByOne
  BY OneByOneStarts
<1>2. MobileInvariant /\ OneByOne /\ [Next]_vars => OneByOne'
  BY OneByOneStep
<1> QED
  BY <1>1, <1>2, MobileInvariantHolds, PTL DEF Spec

\* A phone at rest whose calls ran one by one keeps no account's token when it
\* shows nobody, and beats, signed in, for a row of that account.
THEOREM PhonesRest == Spec => []AtRest
<1>1. MobileInvariant /\ OneByOne => AtRest
  <2> SUFFICES ASSUME MobileInvariant, OneByOne, Quiet, ~overlapped
               PROVE  /\ app.token = None => store.token \notin UserTokens
                      /\ app.user # None /\ app.mac # None /\ app.device # None
                           /\ rows[app.device] # None =>
                           rows[app.device].owner = app.user
    BY DEF AtRest
  <2>1. Orderly(store, app, None, rows) /\ Deps(app) = app.deps /\ ~app.loading
    BY DEF Quiet, EffectDue, OneByOne
  <2>2. app.token = None => store.token \notin UserTokens
    BY <2>1 DEF Orderly, AppAgrees, StoreAgrees, Waits
  <2>3. app.mac # None => app.previous = app.user
    BY <2>1 DEF Orderly, EffectAgrees, Waits, MobileInvariant, KnownWhenSettled
  <2> QED
    BY <2>1, <2>2, <2>3 DEF Orderly, RowAgrees, Owned
<1> QED
  BY <1>1, MobileInvariantHolds, OneByOneHolds, PTL
=============================================================================
