----------------------------- MODULE StatusFeed ------------------------------
(***************************************************************************)
(* The live status feed: the server's registry of sockets, what it pushes  *)
(* through them, and the two clients that keep a socket open.  A socket is *)
(* accepted first and authenticated by its first frame; a client that      *)
(* loses its socket opens another after a delay.  The dashboard reads the  *)
(* stored token each time and tries for ever; the phone keeps the token it *)
(* was given and gives up after MaxAttempts.                               *)
(* Sessions of a client are numbered; a token is its session's number.     *)
(***************************************************************************)
EXTENDS Naturals, FiniteSets

CONSTANTS
    Browsers, Handsets,     \* clients, each signed in to an account of its own
    Sockets, Casts, Nil,
    MaxAttempts,            \* WS_MAX_RECONNECT_ATTEMPTS
    MaxSignIns,             \* bound: sessions of a client
    MaxMishaps,             \* bound: cuts, timeouts, revocations and restarts
    MaxCasts                \* bound: status changes broadcast

Clients == Browsers \cup Handsets

ASSUME FeedBounds == {MaxAttempts, MaxSignIns, MaxMishaps, MaxCasts} \subseteq Nat

ASSUME FeedNames ==
    /\ Browsers \cap Handsets = {}
    /\ Nil \notin Clients /\ Nil \notin Sockets /\ Nil \notin Nat

VARIABLES
    client,     \* [Clients -> client]
    stored,     \* [Clients -> token in its storage, or Nil]
    session,    \* server: [Clients -> sessions issued]
    alive,      \* server: [Clients -> the last one is still good]
    socket,     \* [Sockets -> connection]
    registry,   \* server: [Sockets -> the account registered with it, or Nil]
    cast,       \* server: [Casts -> broadcast under way, or Nil]
    mishaps, casts

feedVars == <<client, stored, session, alive, socket, registry, cast, mishaps, casts>>

\* `given`: the phone's copy of the token.  `tokenless`: a browser found none.
Idle == [want |-> FALSE, given |-> Nil, sock |-> Nil, timer |-> FALSE,
         attempt |-> 0, live |-> FALSE, tokenless |-> FALSE]

\* `bearer`: the token it was opened for.  `heard`: its close still reaches
\* the client.  `told` is history: whose status went through it.
Free == [owner |-> Nil, peer |-> "closed", heard |-> FALSE, server |-> "closed",
         bearer |-> Nil, token |-> Nil, cut |-> FALSE, told |-> {}]

FeedInit ==
    /\ client = [c \in Clients |-> Idle] /\ stored = [c \in Clients |-> Nil]
    /\ session = [c \in Clients |-> 0] /\ alive = [c \in Clients |-> FALSE]
    /\ socket = [s \in Sockets |-> Free] /\ registry = [s \in Sockets |-> Nil]
    /\ cast = [b \in Casts |-> Nil] /\ mishaps = 0 /\ casts = 0

-----------------------------------------------------------------------------
(* Opening a socket.                                                       *)

\* Ids are never used again; a name here is, once nothing refers to it.
Unused(s) ==
    /\ socket[s] = Free
    /\ \A b \in Casts : cast[b] # Nil => s \notin cast[b].left

Dialled(c, token) ==
    [Free EXCEPT !.owner = c, !.peer = "connecting", !.heard = TRUE, !.server = "none",
                 !.bearer = token]

\* `record` is the client once nothing is pending for it.  Any unused name does.
Dial(c, record, token) ==
    LET s == CHOOSE u \in Sockets : Unused(u) IN
        /\ \E u \in Sockets : Unused(u)
        /\ socket' = [socket EXCEPT ![s] = Dialled(c, token)]
        /\ client' = [client EXCEPT ![c] = [record EXCEPT !.sock = s]]

\* Signed in: the effect connects.
Mount(c) ==
    /\ ~client[c].want /\ session[c] < MaxSignIns
    /\ session' = [session EXCEPT ![c] = @ + 1] /\ alive' = [alive EXCEPT ![c] = TRUE]
    /\ stored' = [stored EXCEPT ![c] = session[c] + 1]
    /\ Dial(c, [Idle EXCEPT !.want = TRUE,
                            !.given = IF c \in Handsets THEN session[c] + 1 ELSE Nil],
            session[c] + 1)
    /\ UNCHANGED <<registry, cast, mishaps, casts>>

\* A browser that finds no token does nothing more.
Fire(c) ==
    /\ client[c].timer
    /\ LET record == [client[c] EXCEPT !.timer = FALSE] IN
         IF c \in Browsers /\ stored[c] = Nil
           THEN /\ client' = [client EXCEPT ![c] = [record EXCEPT !.tokenless = TRUE]]
                /\ UNCHANGED socket
           ELSE Dial(c, record, IF c \in Handsets THEN record.given ELSE stored[c])
    /\ UNCHANGED <<stored, session, alive, registry, cast, mishaps, casts>>

\* onopen: the token goes first; the client calls itself live from here on.
Opened(s) ==
    /\ socket[s].peer = "connecting" /\ socket[s].server # "none" /\ ~socket[s].cut
    /\ socket' = [socket EXCEPT ![s].peer = "open", ![s].token = socket[s].bearer]
    /\ client' = [client EXCEPT ![socket[s].owner].live = TRUE,
                                ![socket[s].owner].attempt = 0]
    /\ UNCHANGED <<stored, session, alive, registry, cast, mishaps, casts>>

-----------------------------------------------------------------------------
(* Losing it.                                                              *)

\* Both ends are through with it.
Settled(record) ==
    IF record.peer = "closed" /\ record.server = "closed" THEN Free ELSE record

\* Mistake: only a socket that had opened is replaced.
ReconnectingOpened(c, record) == IF client[c].live THEN [record EXCEPT !.timer = TRUE] ELSE record

\* A browser tries again whatever happens; the phone counts.
Reconnecting(c, record) ==
    IF c \in Browsers THEN [record EXCEPT !.timer = TRUE]
    ELSE IF ~record.want \/ record.attempt >= MaxAttempts THEN record
    ELSE [record EXCEPT !.timer = TRUE, !.attempt = @ + 1]

\* onclose, for a socket whose close is still heard.  The phone forgets whatever
\* socket it holds by then.
OnClose(c) ==
    client' = [client EXCEPT ![c] =
                 Reconnecting(c, [client[c] EXCEPT !.live = FALSE, !.sock = Nil])]

\* The client's end is closed; the server never gets to accept what it had not.
Shut(record) ==
    [record EXCEPT !.peer = "closed",
                   !.server = IF record.server = "none" THEN "closed" ELSE record.server]

\* A client learns that its socket is closed: it closed it itself, the server did,
\* or the break came to its notice.
Closed(s) ==
    /\ socket[s].peer \in {"connecting", "open", "closing"}
    /\ socket[s].peer = "closing" \/ socket[s].server = "closed" \/ socket[s].cut
    /\ socket' = [socket EXCEPT ![s] = Settled(Shut(@))]
    /\ IF socket[s].heard THEN OnClose(socket[s].owner) ELSE UNCHANGED client
    /\ UNCHANGED <<stored, session, alive, registry, cast, mishaps, casts>>

\* Mistake: the phone closes its socket with the handler still in place.
HungUpAloud(record) ==
    [record EXCEPT !.peer = "closing", !.heard = record.owner \in Handsets]

\* The handler goes before the socket is closed (the browser's would do nothing
\* by then anyway, the phone's would reconnect if it is connected again).
HungUp(record) == [record EXCEPT !.peer = "closing", !.heard = FALSE]

\* Signed out or unmounted: the timer is cleared and the socket closed.
Unmount(c) ==
    /\ client[c].want
    /\ client' = [client EXCEPT ![c] = Idle]
    /\ socket' = IF client[c].sock = Nil THEN socket
                 ELSE [socket EXCEPT ![client[c].sock] = HungUp(@)]
    /\ stored' = [stored EXCEPT ![c] = Nil] /\ alive' = [alive EXCEPT ![c] = FALSE]
    /\ UNCHANGED <<session, registry, cast, mishaps, casts>>

-----------------------------------------------------------------------------
(* The server's end.                                                       *)

Accept(s) ==
    /\ socket[s].server = "none" /\ ~socket[s].cut
    /\ socket' = [socket EXCEPT ![s].server = "accepted"]
    /\ UNCHANGED <<client, stored, session, alive, registry, cast, mishaps, casts>>

Good(c, token) == alive[c] /\ token = session[c]

\* The first frame is the token: registered, or closed.
Authenticate(s) ==
    LET c == socket[s].owner
        accepted == Good(c, socket[s].token)
    IN  /\ socket[s].server = "accepted" /\ socket[s].token # Nil /\ ~socket[s].cut
        /\ socket' = [socket EXCEPT ![s] = IF accepted
                        THEN [@ EXCEPT !.server = "serving", !.token = Nil]
                        ELSE Settled([@ EXCEPT !.server = "closed"])]
        /\ registry' = IF accepted THEN [registry EXCEPT ![s] = c] ELSE registry
        /\ UNCHANGED <<client, stored, session, alive, cast, mishaps, casts>>

\* Waiting for a token or for the disconnect, it learns of the disconnect.
Notice(s) ==
    /\ socket[s].server \in {"accepted", "serving"}
    /\ socket[s].cut \/ (socket[s].peer \in {"closing", "closed"} /\ socket[s].token = Nil)
    /\ socket' = [socket EXCEPT ![s] = Settled([@ EXCEPT !.server = "closed"])]
    /\ registry' = [registry EXCEPT ![s] = Nil]
    /\ UNCHANGED <<client, stored, session, alive, cast, mishaps, casts>>

\* Those registered now for the network's administrator.
Audience(c) == {s \in Sockets : registry[s] = c}

\* A heartbeat of a device in a client's network starts a broadcast.
Broadcast(b, c) ==
    /\ cast[b] = Nil /\ casts < MaxCasts /\ casts' = casts + 1
    /\ cast' = [cast EXCEPT ![b] = [about |-> c, left |-> Audience(c)]]
    /\ UNCHANGED <<client, stored, session, alive, socket, registry, mishaps>>

\* One send: whoever is gone by now is skipped, a send that fails takes the
\* socket off the registry.
SendNext(b) ==
    /\ cast[b] # Nil
    /\ \/ cast[b].left = {} /\ cast' = [cast EXCEPT ![b] = Nil] /\ UNCHANGED <<socket, registry>>
       \/ \E s \in cast[b].left :
            /\ cast' = [cast EXCEPT ![b].left = @ \ {s}]
            /\ \/ /\ registry[s] = Nil /\ UNCHANGED <<socket, registry>>
               \/ /\ registry[s] # Nil
                  /\ socket' = [socket EXCEPT ![s].told = @ \cup {cast[b].about}]
                  /\ UNCHANGED registry
               \/ /\ registry[s] # Nil
                  /\ socket[s].cut \/ socket[s].peer \in {"closing", "closed"}
                  /\ registry' = [registry EXCEPT ![s] = Nil] /\ UNCHANGED socket
    /\ UNCHANGED <<client, stored, session, alive, mishaps, casts>>

-----------------------------------------------------------------------------
(* Mishaps.                                                                *)

Mishap == mishaps < MaxMishaps /\ mishaps' = mishaps + 1

\* The connection breaks; each end finds out by itself.
Cut(s) ==
    /\ socket[s].owner # Nil /\ ~socket[s].cut /\ Mishap
    /\ socket' = [socket EXCEPT ![s].cut = TRUE, ![s].token = Nil]
    /\ UNCHANGED <<client, stored, session, alive, registry, cast, casts>>

\* WS_AUTH_TIMEOUT_SECONDS without the token.
TimeOut(s) ==
    /\ socket[s].server = "accepted" /\ Mishap
    /\ socket' = [socket EXCEPT ![s] = Settled([@ EXCEPT !.server = "closed"])]
    /\ UNCHANGED <<client, stored, session, alive, registry, cast, casts>>

\* The session expires.  What it opened stays open.
Revoke(c) ==
    /\ alive[c] /\ Mishap /\ alive' = [alive EXCEPT ![c] = FALSE]
    /\ UNCHANGED <<client, stored, session, socket, registry, cast, casts>>

\* Another tab of the browser signs out, or in again to the same account: this one
\* is not told.
OtherTab(c) ==
    /\ c \in Browsers /\ client[c].want
    /\ IF stored[c] # Nil
         THEN /\ stored' = [stored EXCEPT ![c] = Nil] /\ alive' = [alive EXCEPT ![c] = FALSE]
              /\ UNCHANGED session
         ELSE /\ session[c] < MaxSignIns /\ session' = [session EXCEPT ![c] = @ + 1]
              /\ stored' = [stored EXCEPT ![c] = session[c] + 1]
              /\ alive' = [alive EXCEPT ![c] = TRUE]
    /\ UNCHANGED <<client, socket, registry, cast, mishaps, casts>>

\* The registry lives in the process.
Restart ==
    /\ Mishap
    /\ registry' = [s \in Sockets |-> Nil] /\ cast' = [b \in Casts |-> Nil]
    /\ socket' = [s \in Sockets |->
                    IF socket[s].server = "none" THEN socket[s]
                    ELSE Settled([socket[s] EXCEPT !.server = "closed"])]
    /\ UNCHANGED <<client, stored, session, alive, casts>>

FeedNext ==
    \/ Restart
    \/ \E c \in Clients : Mount(c) \/ Fire(c) \/ Unmount(c) \/ Revoke(c) \/ OtherTab(c)
    \/ \E s \in Sockets : Opened(s) \/ Closed(s) \/ Accept(s) \/ Authenticate(s) \/ Notice(s)
    \/ \E s \in Sockets : Cut(s) \/ TimeOut(s)
    \/ \E b \in Casts : SendNext(b) \/ \E c \in Clients : Broadcast(b, c)

\* What closes a socket is sure to reach the client: its own close, or one of the
\* server's over a connection that holds.  A break is not: neither client sends
\* anything after the token, pings, or limits how long nothing may come.
Announced(s) == (socket[s].peer = "closing" \/ ~socket[s].cut) /\ Closed(s)

\* Timers fire, frames and announced closes arrive, the server's loop turns and
\* notices a break (the library it runs on pings); no one has to sign in or out,
\* and no mishap has to happen.
FeedFairness ==
    /\ \A c \in Clients : WF_feedVars(Fire(c))
    /\ \A s \in Sockets :
         /\ WF_feedVars(Opened(s)) /\ WF_feedVars(Announced(s)) /\ WF_feedVars(Accept(s))
         /\ WF_feedVars(Authenticate(s)) /\ WF_feedVars(Notice(s))
    /\ \A b \in Casts : WF_feedVars(SendNext(b))

FeedSpec == FeedInit /\ [][FeedNext]_feedVars /\ FeedFairness

-----------------------------------------------------------------------------
(* Properties.                                                             *)

Running(c) == {s \in Sockets : socket[s].owner = c /\ socket[s].peer \in {"connecting", "open"}}

\* A client runs one socket, the one it holds, or waits for one timer, and
\* neither once it no longer wants the feed, however its mounts and the closes of
\* its earlier sockets fall; a socket on the registry was authenticated for its
\* owner, and only ever carries news of its owner's network.
OneFeedEach ==
    /\ \A c \in Clients :
         /\ Running(c) \subseteq {client[c].sock}
         /\ client[c].timer => Running(c) = {}
         /\ ~client[c].want => ~client[c].timer /\ Running(c) = {}
         /\ client[c].live => Running(c) # {}
    /\ \A s \in Sockets :
         /\ registry[s] # Nil => registry[s] = socket[s].owner /\ socket[s].server = "serving"
         /\ socket[s].told \subseteq {socket[s].owner}

Fed(c) == client[c].sock # Nil /\ registry[client[c].sock] = c

\* The two ways the code stops trying.
GaveUp(c) ==
    \/ client[c].tokenless
    \/ /\ c \in Handsets /\ client[c].attempt >= MaxAttempts
       /\ client[c].sock = Nil /\ ~client[c].timer

\* It waits on a connection that broke: nothing has to tell it.
OnDeadLine(c) == client[c].sock # Nil /\ socket[client[c].sock].cut

\* A client that wants the feed and whose session is good gets it, again and
\* again after whatever broke it, unless it gave up or sits on a connection whose
\* break it was not told of; and a socket whose other end is gone leaves the
\* registry.
FeedComesBack ==
    /\ \A c \in Clients :
         (client[c].want /\ alive[c]) ~> (\/ Fed(c) \/ GaveUp(c) \/ OnDeadLine(c)
                                         \/ ~client[c].want \/ ~alive[c])
    /\ \A s \in Sockets :
         (registry[s] # Nil /\ (socket[s].cut \/ socket[s].peer \in {"closing", "closed"}))
           ~> registry[s] = Nil

\* The claim of the dashboard's hook (useStatusSocket.ts:40) that `live` means open
\* and authenticated: the server no longer waits for the token.
LiveIsAuthenticated ==
    \A c \in Browsers : client[c].live => socket[client[c].sock].server # "accepted"
=============================================================================
