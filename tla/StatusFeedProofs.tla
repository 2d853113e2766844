-------------------------- MODULE StatusFeedProofs ---------------------------
(***************************************************************************)
(* Machine-checked proofs about the status feed, for every number of       *)
(* clients, sockets, broadcasts, sign-ins and mishaps.                     *)
(***************************************************************************)
EXTENDS StatusFeed, TLAPS

Token == Nat \cup {Nil}

Client == [want : BOOLEAN, given : Token, sock : Sockets \cup {Nil}, timer : BOOLEAN,
           attempt : Nat, live : BOOLEAN, tokenless : BOOLEAN]

Socket == [owner : Clients \cup {Nil}, peer : {"connecting", "open", "closing", "closed"},
           heard : BOOLEAN, server : {"none", "accepted", "serving", "closed"},
           bearer : Token, token : Token, cut : BOOLEAN, told : SUBSET Clients]

FeedTypes ==
    /\ client \in [Clients -> Client]
    /\ stored \in [Clients -> Token]
    /\ session \in [Clients -> Nat]
    /\ socket \in [Sockets -> Socket]
    /\ registry \in [Sockets -> Clients \cup {Nil}]
    /\ cast \in [Casts -> [about : Clients, left : SUBSET Sockets] \cup {Nil}]

\* The client's end of s is up.
Up(s) == socket[s].peer \in {"connecting", "open"}

\* A socket that is nobody's is no socket: nothing goes on at either end.
SocketsAreOwned == \A s \in Sockets : socket[s].owner = Nil => socket[s] = Free

\* The handler is in place exactly as long as the client has not hung up, so
\* that a close that is heard is the close of a socket that was up.
ClosesAreHeardOnce ==
    \A s \in Sockets :
      /\ Up(s) => socket[s].heard
      /\ socket[s].peer = "closing" => ~socket[s].heard

\* A client holds the one socket it has up, wants it, and runs no timer beside it.
SocketsAreHeld ==
    \A s \in Sockets : Up(s) =>
      LET c == socket[s].owner
      IN  client[c].sock = s /\ client[c].want /\ ~client[c].timer

\* The socket a client holds is up and its own, so that hanging up reaches no one
\* else's; only one that holds a socket calls itself live.
ClientsHold ==
    \A c \in Clients :
      /\ client[c].sock # Nil => Up(client[c].sock) /\ socket[client[c].sock].owner = c
      /\ client[c].live => client[c].sock # Nil
      /\ client[c].timer => client[c].want

\* The registry names a socket's owner while its handler serves it.
RegistryIsServed ==
    \A s \in Sockets : registry[s] # Nil =>
      registry[s] = socket[s].owner /\ socket[s].server = "serving"

\* A broadcast has left only sockets of the account it is about, or such as are
\* gone: no name it still holds is used again.
CastsReachOwners ==
    /\ \A b \in Casts : cast[b] # Nil =>
         \A s \in cast[b].left : socket[s].owner \in {cast[b].about, Nil}
    /\ \A s \in Sockets : socket[s].told \subseteq {socket[s].owner}

FeedInvariant ==
    /\ FeedTypes
    /\ SocketsAreOwned
    /\ ClosesAreHeardOnce
    /\ SocketsAreHeld
    /\ ClientsHold
    /\ RegistryIsServed
    /\ CastsReachOwners

-----------------------------------------------------------------------------
(* The model's operators.                                                  *)

\* A name for no socket is a socket nothing refers to.
LEMMA FreeIsSocket ==
    /\ Free \in Socket /\ Free.owner = Nil /\ Free.peer = "closed"
    /\ Free.server = "closed" /\ Free.told = {}
  BY DEF Free, Socket, Token

\* A client that wants nothing holds nothing.
LEMMA IdleIsClient ==
    /\ Idle \in Client /\ ~Idle.want /\ Idle.sock = Nil /\ ~Idle.timer /\ ~Idle.live
  BY DEF Idle, Client, Token

\* A connection is as it was until both its ends are through with it.
LEMMA SettledKeeps ==
    ASSUME NEW record \in Socket
    PROVE  \/ Settled(record) = record
           \/ /\ record.peer = "closed" /\ record.server = "closed"
              /\ Settled(record) = Free
  BY DEF Settled

\* A step of the server's end, or one that only marks a connection, keeps the
\* invariant: it leaves owner and peer alone, or frees a connection whose client
\* has closed it; it registers the socket only while it serves it.
LEMMA MarkPreserves ==
    ASSUME FeedInvariant, NEW s \in Sockets, NEW r \in Socket, NEW n \in Clients \cup {Nil},
           socket' = [socket EXCEPT ![s] = r],
           registry' = [registry EXCEPT ![s] = n],
           UNCHANGED <<client, stored, session, cast>>,
           \/ /\ r.owner = socket[s].owner /\ r.peer = socket[s].peer
              /\ r.heard = socket[s].heard /\ r.told = socket[s].told
              /\ socket[s].owner # Nil
           \/ r = Free /\ ~Up(s) /\ n = Nil,
           n # Nil => n = r.owner /\ r.server = "serving"
    PROVE  FeedInvariant'
<1>1. /\ socket'[s] = r /\ registry'[s] = n
      /\ \A u \in Sockets : u # s => socket'[u] = socket[u] /\ registry'[u] = registry[u]
  BY DEF FeedInvariant, FeedTypes
<1>2. FeedTypes'
  BY DEF FeedInvariant, FeedTypes
<1>3. \A u \in Sockets : /\ Up(u)' <=> Up(u)
                         /\ Up(u) => /\ socket'[u].owner = socket[u].owner
                                     /\ socket'[u].heard = socket[u].heard
  BY <1>1, FreeIsSocket DEF Up
<1>4. SocketsAreOwned'
  BY <1>1 DEF FeedInvariant, SocketsAreOwned
<1>5. ClosesAreHeardOnce'
  <2>1. \A u \in Sockets : Up(u)' => socket'[u].heard
    BY <1>3 DEF FeedInvariant, ClosesAreHeardOnce
  <2>2. \A u \in Sockets : socket'[u].peer = "closing" => ~socket'[u].heard
    BY <1>1, FreeIsSocket DEF FeedInvariant, ClosesAreHeardOnce
  <2> QED
    BY <2>1, <2>2 DEF ClosesAreHeardOnce
<1>6. SocketsAreHeld'
  BY <1>3 DEF FeedInvariant, SocketsAreHeld
<1>7. ClientsHold'
  BY <1>3 DEF FeedInvariant, ClientsHold, FeedTypes, Client
<1>8. RegistryIsServed'
  BY <1>1 DEF FeedInvariant, RegistryIsServed
<1>9. CastsReachOwners'
  BY <1>1, FreeIsSocket DEF FeedInvariant, CastsReachOwners, FeedTypes
<1> QED
  BY <1>2, <1>4, <1>5, <1>6, <1>7, <1>8, <1>9 DEF FeedInvariant

\* A client with nothing pending opens a socket: whatever unused name it gets,
\* no broadcast and no registration of an earlier socket comes to it.
LEMMA DialPreserves ==
    ASSUME FeedInvariant, NEW c \in Clients, NEW record \in Client, NEW token \in Token,
           Dial(c, record, token),
           record.want, ~record.timer, ~record.live,
           \A s \in Sockets : Up(s) => socket[s].owner # c,
           stored' \in [Clients -> Token], session' \in [Clients -> Nat],
           UNCHANGED <<registry, cast>>
    PROVE  FeedInvariant'
<1>1. PICK s \in Sockets :
        /\ Unused(s)
        /\ socket' = [socket EXCEPT ![s] = Dialled(c, token)]
        /\ client' = [client EXCEPT ![c] = [record EXCEPT !.sock = s]]
  BY DEF Dial
<1> DEFINE r == Dialled(c, token)
           k == [record EXCEPT !.sock = s]
<1>2. /\ r \in Socket /\ r.owner = c /\ r.peer = "connecting" /\ r.heard /\ r.told = {}
  BY DEF Dialled, Free, Socket, Token
<1>3. k \in Client /\ k.sock = s /\ k.want /\ ~k.timer /\ ~k.live
  BY DEF Client
<1>4. socket[s] = Free /\ \A b \in Casts : cast[b] # Nil => s \notin cast[b].left
  BY <1>1 DEF Unused
<1> HIDE DEF r, k
<1>5. /\ socket'[s] = r /\ client'[c] = k
      /\ \A u \in Sockets : u # s => socket'[u] = socket[u]
      /\ \A d \in Clients : d # c => client'[d] = client[d]
  BY <1>1 DEF r, k, FeedInvariant, FeedTypes
<1>6. c # Nil /\ s # Nil /\ ~Up(s) /\ registry[s] = Nil
  BY <1>4, FreeIsSocket, FeedNames DEF Up, FeedInvariant, RegistryIsServed
<1>7. FeedTypes'
  BY <1>1, <1>2, <1>3 DEF r, k, FeedInvariant, FeedTypes
<1>8. SocketsAreOwned'
  BY <1>2, <1>5, <1>6 DEF FeedInvariant, SocketsAreOwned
<1>9. ClosesAreHeardOnce'
  BY <1>2, <1>5 DEF FeedInvariant, ClosesAreHeardOnce, Up
<1>10. SocketsAreHeld'
  <2>1. \A u \in Sockets : Up(u) => socket[u].owner \in Clients /\ socket[u].owner # c
    BY FreeIsSocket DEF FeedInvariant, SocketsAreOwned, FeedTypes, Socket, Up
  <2> QED
    BY <1>2, <1>3, <1>5, <2>1 DEF FeedInvariant, SocketsAreHeld, Up
<1>11. ClientsHold'
  BY <1>2, <1>3, <1>5, <1>6 DEF FeedInvariant, ClientsHold, FeedTypes, Client, Up
<1>12. RegistryIsServed'
  BY <1>5, <1>6 DEF FeedInvariant, RegistryIsServed
<1>13. CastsReachOwners'
  BY <1>2, <1>4, <1>5 DEF FeedInvariant, CastsReachOwners, FeedTypes
<1> QED
  BY <1>7, <1>8, <1>9, <1>10, <1>11, <1>12, <1>13 DEF FeedInvariant

-----------------------------------------------------------------------------
(* Each step keeps the invariant.                                          *)

\* Both clients start with nothing.
LEMMA FeedStarts == FeedInit => FeedInvariant
  BY FreeIsSocket, IdleIsClient, FeedNames
     DEF FeedInit, FeedInvariant, FeedTypes, SocketsAreOwned, ClosesAreHeardOnce,
         SocketsAreHeld, ClientsHold, RegistryIsServed, CastsReachOwners, Up, Token

\* Whoever mounts the feed did not want it, and so holds no socket.
LEMMA MountPreserves ==
    ASSUME FeedInvariant, NEW c \in Clients, Mount(c)
    PROVE  FeedInvariant'
<1> DEFINE given == IF c \in Handsets THEN session[c] + 1 ELSE Nil
           record == [Idle EXCEPT !.want = TRUE, !.given = given]
<1>1. session[c] \in Nat /\ session[c] + 1 \in Token /\ given \in Token
  BY DEF FeedInvariant, FeedTypes, Token
<1>2. Dial(c, record, session[c] + 1) /\ UNCHANGED <<registry, cast>>
  BY DEF Mount
<1>3. \A s \in Sockets : Up(s) => socket[s].owner # c
  BY DEF Mount, FeedInvariant, SocketsAreHeld
<1>4. stored' \in [Clients -> Token] /\ session' \in [Clients -> Nat]
  BY <1>1 DEF Mount, FeedInvariant, FeedTypes, Token
<1> HIDE DEF given
<1>5. record \in Client /\ record.want /\ ~record.timer /\ ~record.live
  BY <1>1 DEF Idle, Client, Token
<1> HIDE DEF record
<1> QED
  BY <1>1, <1>2, <1>3, <1>4, <1>5, DialPreserves

\* A timer that fires is the only thing its client waits for.
LEMMA FirePreserves ==
    ASSUME FeedInvariant, NEW c \in Clients, Fire(c)
    PROVE  FeedInvariant'
<1> DEFINE record == [client[c] EXCEPT !.timer = FALSE]
<1>1. client[c] \in Client /\ client[c].timer /\ client[c].want
  BY DEF Fire, FeedInvariant, FeedTypes, ClientsHold
<1>2. \A s \in Sockets : Up(s) => socket[s].owner # c
  BY <1>1 DEF FeedInvariant, SocketsAreHeld
<1>3. client[c].sock = Nil /\ ~client[c].live
  BY <1>1, <1>2 DEF FeedInvariant, ClientsHold, Client
<1>4. /\ record \in Client /\ record.want /\ ~record.timer /\ ~record.live
      /\ record.sock = Nil
  BY <1>1, <1>3 DEF Client
<1>5. CASE c \in Browsers /\ stored[c] = Nil
  <2> DEFINE k == [record EXCEPT !.tokenless = TRUE]
  <2>1. /\ k \in Client /\ k.want /\ ~k.timer /\ ~k.live /\ k.sock = Nil
        /\ client' = [client EXCEPT ![c] = k]
    BY <1>4, <1>5 DEF Fire, Client
  <2>2. UNCHANGED <<stored, session, socket, registry, cast>>
    BY <1>5 DEF Fire
  <2> HIDE DEF k
  <2>3. /\ client'[c] = k /\ \A d \in Clients : d # c => client'[d] = client[d]
        /\ FeedTypes'
    BY <2>1, <2>2 DEF FeedInvariant, FeedTypes
  <2>4. SocketsAreHeld'
    <3>1. \A u \in Sockets : Up(u) => socket[u].owner \in Clients /\ socket[u].owner # c
      BY <1>2, FreeIsSocket DEF FeedInvariant, SocketsAreOwned, FeedTypes, Socket, Up
    <3> QED
      BY <2>2, <2>3, <3>1 DEF FeedInvariant, SocketsAreHeld, Up
  <2>5. ClientsHold'
    BY <2>1, <2>2, <2>3 DEF FeedInvariant, ClientsHold, Up
  <2> QED
    BY <2>2, <2>3, <2>4, <2>5
       DEF FeedInvariant, SocketsAreOwned, ClosesAreHeardOnce, RegistryIsServed,
           CastsReachOwners, Up
<1>6. CASE ~(c \in Browsers /\ stored[c] = Nil)
  <2> DEFINE token == IF c \in Handsets THEN record.given ELSE stored[c]
  <2>1. token \in Token
    BY <1>4 DEF FeedInvariant, FeedTypes, Client
  <2>2. Dial(c, record, token) /\ UNCHANGED <<stored, session, registry, cast>>
    BY <1>6 DEF Fire
  <2>3. stored' \in [Clients -> Token] /\ session' \in [Clients -> Nat]
    BY <2>2 DEF FeedInvariant, FeedTypes
  <2> HIDE DEF token, record
  <2> QED
    BY <1>2, <1>4, <2>1, <2>2, <2>3, DialPreserves
<1> QED
  BY <1>5, <1>6

\* The owner of a socket that is up is a client.
LEMMA UpIsOwned ==
    ASSUME FeedInvariant, NEW s \in Sockets, socket[s] # Free
    PROVE  socket[s] \in Socket /\ socket[s].owner \in Clients /\ socket[s].owner # Nil
  BY FeedNames DEF FeedInvariant, FeedTypes, SocketsAreOwned, Socket

\* What opens is the socket its client holds.
LEMMA OpenedPreserves ==
    ASSUME FeedInvariant, NEW s \in Sockets, Opened(s)
    PROVE  FeedInvariant'
<1> DEFINE c == socket[s].owner
           r == [socket[s] EXCEPT !.peer = "open", !.token = socket[s].bearer]
           k == [client[c] EXCEPT !.live = TRUE, !.attempt = 0]
<1>1. Up(s) /\ socket[s].peer = "connecting"
  BY DEF Opened, Up
<1>2. socket[s] \in Socket /\ c \in Clients /\ c # Nil
  BY <1>1, UpIsOwned, FreeIsSocket
<1>3. client[c] \in Client /\ client[c].sock = s /\ client[c].want /\ ~client[c].timer
  BY <1>1, <1>2 DEF FeedInvariant, FeedTypes, SocketsAreHeld
<1>4. /\ r \in Socket /\ r.owner = c /\ r.peer = "open" /\ r.heard = socket[s].heard
      /\ r.server = socket[s].server /\ r.told = socket[s].told
      /\ socket' = [socket EXCEPT ![s] = r]
  BY <1>2 DEF Opened, Socket
<1>5. /\ k \in Client /\ k.sock = s /\ k.want /\ ~k.timer /\ k.live
      /\ client' = [client EXCEPT ![c] = k]
  BY <1>2, <1>3 DEF Opened, Client
<1>6. UNCHANGED <<stored, session, registry, cast>>
  BY DEF Opened
<1>7. s # Nil
  BY FeedNames
<1> HIDE DEF r, k
<1>8. /\ socket'[s] = r /\ \A u \in Sockets : u # s => socket'[u] = socket[u]
      /\ client'[c] = k /\ \A d \in Clients : d # c => client'[d] = client[d]
      /\ FeedTypes'
  BY <1>2, <1>4, <1>5, <1>6 DEF FeedInvariant, FeedTypes
<1>9. \A u \in Sockets : (Up(u)' <=> Up(u)) /\ socket'[u].owner = socket[u].owner
  BY <1>1, <1>4, <1>8 DEF Up
<1>10. SocketsAreOwned'
  BY <1>2, <1>4, <1>8 DEF FeedInvariant, SocketsAreOwned
<1>11. ClosesAreHeardOnce'
  BY <1>1, <1>4, <1>8 DEF FeedInvariant, ClosesAreHeardOnce, Up
<1>12. SocketsAreHeld'
  <2>1. \A u \in Sockets : Up(u) => socket[u].owner \in Clients
    BY UpIsOwned, FreeIsSocket DEF Up
  <2> QED
    BY <1>3, <1>5, <1>8, <1>9, <2>1 DEF FeedInvariant, SocketsAreHeld
<1>13. ClientsHold'
  BY <1>1, <1>3, <1>5, <1>7, <1>8, <1>9 DEF FeedInvariant, ClientsHold, FeedTypes, Client
<1>14. RegistryIsServed' /\ CastsReachOwners'
  BY <1>4, <1>6, <1>8 DEF FeedInvariant, RegistryIsServed, CastsReachOwners
<1> QED
  BY <1>8, <1>10, <1>11, <1>12, <1>13, <1>14 DEF FeedInvariant

\* A close that is heard is that of the socket its client holds; one that is not
\* heard is of a socket nobody holds any more.
LEMMA ClosedPreserves ==
    ASSUME FeedInvariant, NEW s \in Sockets, Closed(s)
    PROVE  FeedInvariant'
<1> DEFINE c == socket[s].owner
           q == Shut(socket[s])
           r == Settled(q)
<1>1. UNCHANGED <<stored, session, registry, cast>> /\ socket' = [socket EXCEPT ![s] = r]
  BY DEF Closed
<1>2. socket[s] \in Socket /\ c \in Clients /\ c # Nil
  BY UpIsOwned, FreeIsSocket DEF Closed
<1>3. /\ q \in Socket /\ q.owner = c /\ q.peer = "closed" /\ q.told = socket[s].told
      /\ socket[s].server = "serving" => q.server = "serving"
  BY <1>2 DEF Shut, Socket
<1> HIDE DEF q
<1>4. /\ r \in Socket /\ r.peer = "closed"
      /\ \/ r = Free /\ registry[s] = Nil
         \/ r.owner = c /\ (registry[s] # Nil => r.server = "serving")
      /\ r.told \subseteq socket[s].told
      /\ r.owner = Nil => r = Free
  <2>1. registry[s] # Nil => q.server = "serving"
    BY <1>3 DEF FeedInvariant, RegistryIsServed
  <2> QED
    BY <1>2, <1>3, <2>1, SettledKeeps, FreeIsSocket
<1> HIDE DEF r
<1>5. socket'[s] = r /\ \A u \in Sockets : u # s => socket'[u] = socket[u]
  BY <1>1 DEF FeedInvariant, FeedTypes
<1>6. \A u \in Sockets : Up(u)' <=> Up(u) /\ u # s
  BY <1>4, <1>5 DEF Up
<1>7. SocketsAreOwned' /\ ClosesAreHeardOnce' /\ RegistryIsServed' /\ CastsReachOwners'
  <2>1. SocketsAreOwned'
    BY <1>4, <1>5 DEF FeedInvariant, SocketsAreOwned
  <2>2. ClosesAreHeardOnce'
    BY <1>4, <1>5, <1>6 DEF FeedInvariant, ClosesAreHeardOnce
  <2>3. RegistryIsServed'
    BY <1>1, <1>4, <1>5, FreeIsSocket DEF FeedInvariant, RegistryIsServed
  <2>4. CastsReachOwners'
    BY <1>1, <1>4, <1>5, FreeIsSocket DEF FeedInvariant, CastsReachOwners, FeedTypes
  <2> QED
    BY <2>1, <2>2, <2>3, <2>4
<1>8. \A u \in Sockets : Up(u) => socket[u].owner \in Clients
  BY UpIsOwned, FreeIsSocket DEF Up
<1>9. CASE socket[s].heard
  <2> DEFINE lost == [client[c] EXCEPT !.live = FALSE, !.sock = Nil]
             k == Reconnecting(c, lost)
  <2>1. Up(s)
    BY <1>9 DEF Closed, FeedInvariant, ClosesAreHeardOnce, Up
  <2>2. client[c] \in Client /\ client[c].sock = s /\ client[c].want /\ ~client[c].timer
    BY <1>2, <2>1 DEF FeedInvariant, FeedTypes, SocketsAreHeld
  <2>3. lost \in Client /\ lost.want /\ lost.sock = Nil /\ ~lost.live
    BY <2>2 DEF Client
  <2>4. client' = [client EXCEPT ![c] = k]
    BY <1>9 DEF Closed, OnClose
  <2> HIDE DEF lost
  <2>5. k \in Client /\ k.sock = Nil /\ ~k.live /\ k.want
    <3>1. CASE c \in Browsers
      BY <2>3, <3>1 DEF Reconnecting, Client
    <3>2. CASE c \notin Browsers /\ lost.attempt >= MaxAttempts
      BY <2>3, <3>2 DEF Reconnecting
    <3>3. CASE c \notin Browsers /\ ~(lost.attempt >= MaxAttempts)
      <4> DEFINE again == [lost EXCEPT !.timer = TRUE, !.attempt = lost.attempt + 1]
      <4>1. lost.attempt + 1 \in Nat
        BY <2>3 DEF Client
      <4>2. again \in Client /\ again.sock = Nil /\ ~again.live /\ again.want
        BY <2>3, <4>1 DEF Client
      <4>3. k = again
        BY <2>3, <3>3 DEF Reconnecting
      <4> QED
        BY <4>2, <4>3
    <3> QED
      BY <3>1, <3>2, <3>3
  <2> HIDE DEF k
  <2>6. client'[c] = k /\ \A d \in Clients : d # c => client'[d] = client[d]
    BY <1>2, <2>4 DEF FeedInvariant, FeedTypes
  <2>7. FeedTypes'
    BY <1>1, <1>2, <1>4, <2>4, <2>5 DEF FeedInvariant, FeedTypes
  <2>8. SocketsAreHeld'
    <3>1. \A u \in Sockets : Up(u)' => /\ socket'[u] = socket[u] /\ Up(u)
                                       /\ socket[u].owner \in Clients /\ socket[u].owner # c
      BY <1>5, <1>6, <1>8, <2>2 DEF FeedInvariant, SocketsAreHeld
    <3> QED
      BY <2>6, <3>1 DEF FeedInvariant, SocketsAreHeld
  <2>9. ClientsHold'
    BY <1>2, <1>5, <1>6, <2>2, <2>5, <2>6 DEF FeedInvariant, ClientsHold, FeedTypes, Client
  <2> QED
    BY <1>7, <2>7, <2>8, <2>9 DEF FeedInvariant
<1>10. CASE ~socket[s].heard
  <2>1. ~Up(s) /\ client' = client
    BY <1>10 DEF Closed, FeedInvariant, ClosesAreHeardOnce
  <2>2. FeedTypes'
    BY <1>1, <1>4, <2>1 DEF FeedInvariant, FeedTypes
  <2>3. SocketsAreHeld'
    BY <1>5, <1>6, <2>1 DEF FeedInvariant, SocketsAreHeld
  <2>4. ClientsHold'
    BY <1>5, <1>6, <2>1 DEF FeedInvariant, ClientsHold, FeedTypes, Client
  <2> QED
    BY <1>7, <2>2, <2>3, <2>4 DEF FeedInvariant
<1> QED
  BY <1>9, <1>10

\* Whoever unmounts hangs up the one socket it has up.
LEMMA UnmountPreserves ==
    ASSUME FeedInvariant, NEW c \in Clients, Unmount(c)
    PROVE  FeedInvariant'
<1>1. /\ client' = [client EXCEPT ![c] = Idle]
      /\ UNCHANGED <<session, registry, cast>> /\ stored' \in [Clients -> Token]
  BY DEF Unmount, FeedInvariant, FeedTypes, Token
<1>2. client'[c] = Idle /\ \A d \in Clients : d # c => client'[d] = client[d]
  BY <1>1 DEF FeedInvariant, FeedTypes
<1>3. \A u \in Sockets : Up(u) => socket[u].owner \in Clients
  BY UpIsOwned, FreeIsSocket DEF Up
<1>4. CASE client[c].sock = Nil
  <2>1. socket' = socket
    BY <1>4 DEF Unmount
  <2>2. FeedTypes'
    BY <1>1, <2>1, IdleIsClient DEF FeedInvariant, FeedTypes
  <2>3. SocketsAreHeld'
    BY <1>2, <1>3, <1>4, <2>1, FeedNames DEF FeedInvariant, SocketsAreHeld, Up
  <2>4. ClientsHold'
    BY <1>2, <2>1, IdleIsClient DEF FeedInvariant, ClientsHold, Up
  <2> QED
    BY <1>1, <2>1, <2>2, <2>3, <2>4
       DEF FeedInvariant, SocketsAreOwned, ClosesAreHeardOnce, RegistryIsServed,
           CastsReachOwners, Up
<1>5. CASE client[c].sock # Nil
  <2> DEFINE s == client[c].sock
             r == HungUp(socket[s])
  <2>1. s \in Sockets /\ Up(s) /\ socket[s].owner = c /\ c # Nil
    BY <1>5, FeedNames DEF FeedInvariant, FeedTypes, ClientsHold, Client
  <2>2. socket' = [socket EXCEPT ![s] = r]
    BY <1>5 DEF Unmount
  <2>3. /\ r \in Socket /\ r.owner = c /\ r.peer = "closing" /\ ~r.heard
        /\ r.server = socket[s].server /\ r.told = socket[s].told
    BY ZenonT(60), <2>1 DEF HungUp, FeedInvariant, FeedTypes, Socket
  <2> HIDE DEF r
  <2>4. socket'[s] = r /\ \A u \in Sockets : u # s => socket'[u] = socket[u]
    BY <2>1, <2>2 DEF FeedInvariant, FeedTypes
  <2>5. \A u \in Sockets : Up(u)' <=> Up(u) /\ u # s
    BY <2>3, <2>4 DEF Up
  <2>6. FeedTypes'
    BY <1>1, <2>2, <2>3, IdleIsClient DEF FeedInvariant, FeedTypes
  <2>7. SocketsAreOwned' /\ RegistryIsServed' /\ CastsReachOwners'
    BY <1>1, <2>1, <2>3, <2>4
       DEF FeedInvariant, SocketsAreOwned, RegistryIsServed, CastsReachOwners, FeedTypes
  <2>8. ClosesAreHeardOnce'
    BY <2>3, <2>4, <2>5 DEF FeedInvariant, ClosesAreHeardOnce
  <2>9. SocketsAreHeld'
    BY <1>2, <1>3, <2>4, <2>5 DEF FeedInvariant, SocketsAreHeld
  <2>10. ClientsHold'
    BY <1>2, <2>1, <2>4, <2>5, IdleIsClient DEF FeedInvariant, ClientsHold, FeedTypes, Client
  <2> QED
    BY <2>6, <2>7, <2>8, <2>9, <2>10 DEF FeedInvariant
<1> QED
  BY <1>4, <1>5

\* The server takes a connection that waits for it.
LEMMA AcceptPreserves ==
    ASSUME FeedInvariant, NEW s \in Sockets, Accept(s)
    PROVE  FeedInvariant'
<1> DEFINE r == [socket[s] EXCEPT !.server = "accepted"]
<1>1. socket[s] \in Socket /\ socket[s].owner \in Clients /\ socket[s].owner # Nil
  BY UpIsOwned, FreeIsSocket DEF Accept
<1>2. /\ r \in Socket /\ r.owner = socket[s].owner /\ r.peer = socket[s].peer
      /\ r.heard = socket[s].heard /\ r.told = socket[s].told
  BY <1>1 DEF Socket
<1>3. registry[s] = Nil
  BY DEF Accept, FeedInvariant, RegistryIsServed
<1>4. registry' = [registry EXCEPT ![s] = Nil]
  BY <1>3 DEF Accept, FeedInvariant, FeedTypes
<1>5. socket' = [socket EXCEPT ![s] = r] /\ UNCHANGED <<client, stored, session, cast>>
  BY DEF Accept
<1> HIDE DEF r
<1> QED
  BY <1>1, <1>2, <1>4, <1>5, MarkPreserves

\* The server hangs up a connection it has taken, and takes it off the registry.
LEMMA HangUpPreserves ==
    ASSUME FeedInvariant, NEW s \in Sockets, socket[s].server \in {"accepted", "serving"},
           socket' = [socket EXCEPT ![s] = Settled([@ EXCEPT !.server = "closed"])],
           registry' = [registry EXCEPT ![s] = Nil],
           UNCHANGED <<client, stored, session, cast>>
    PROVE  FeedInvariant'
<1> DEFINE q == [socket[s] EXCEPT !.server = "closed"]
           r == Settled(q)
<1>1. socket[s] \in Socket /\ socket[s].owner \in Clients /\ socket[s].owner # Nil
  BY UpIsOwned, FreeIsSocket
<1>2. /\ q \in Socket /\ q.owner = socket[s].owner /\ q.peer = socket[s].peer
      /\ q.heard = socket[s].heard /\ q.told = socket[s].told
  BY <1>1 DEF Socket
<1>3. socket' = [socket EXCEPT ![s] = r]
  OBVIOUS
<1> HIDE DEF q
<1>4. r \in Socket /\ (r = q \/ (r = Free /\ ~Up(s)))
  BY <1>2, SettledKeeps, FreeIsSocket DEF Up
<1> HIDE DEF r
<1> QED
  BY <1>1, <1>2, <1>3, <1>4, MarkPreserves

\* The first frame: the account that opened the socket is registered, or it is
\* closed before it was ever registered.
LEMMA AuthenticatePreserves ==
    ASSUME FeedInvariant, NEW s \in Sockets, Authenticate(s)
    PROVE  FeedInvariant'
<1> DEFINE c == socket[s].owner
<1>1. socket[s] \in Socket /\ c \in Clients /\ c # Nil
  BY UpIsOwned, FreeIsSocket DEF Authenticate
<1>2. /\ socket[s].server = "accepted" /\ registry[s] = Nil
      /\ UNCHANGED <<client, stored, session, cast>>
  BY DEF Authenticate, FeedInvariant, RegistryIsServed
<1>3. CASE Good(c, socket[s].token)
  <2> DEFINE r == [socket[s] EXCEPT !.server = "serving", !.token = Nil]
  <2>1. socket' = [socket EXCEPT ![s] = r] /\ registry' = [registry EXCEPT ![s] = c]
    BY <1>3 DEF Authenticate
  <2>2. /\ r \in Socket /\ r.owner = c /\ r.peer = socket[s].peer /\ r.server = "serving"
        /\ r.heard = socket[s].heard /\ r.told = socket[s].told
    BY <1>1 DEF Socket, Token
  <2> HIDE DEF r
  <2> QED
    BY <1>1, <1>2, <2>1, <2>2, MarkPreserves
<1>4. CASE ~Good(c, socket[s].token)
  <2>1. /\ socket' = [socket EXCEPT ![s] = Settled([@ EXCEPT !.server = "closed"])]
        /\ registry' = registry
    BY <1>4 DEF Authenticate
  <2>2. registry' = [registry EXCEPT ![s] = Nil]
    BY <1>2, <2>1 DEF FeedInvariant, FeedTypes
  <2> QED
    BY <1>2, <2>1, <2>2, HangUpPreserves
<1> QED
  BY <1>3, <1>4

\* The server learns that its client is gone.
LEMMA NoticePreserves ==
    ASSUME FeedInvariant, NEW s \in Sockets, Notice(s)
    PROVE  FeedInvariant'
  BY HangUpPreserves DEF Notice

\* The token did not come in time.
LEMMA TimeOutPreserves ==
    ASSUME FeedInvariant, NEW s \in Sockets, TimeOut(s)
    PROVE  FeedInvariant'
<1>1. registry' = registry /\ registry[s] = Nil
  BY DEF TimeOut, FeedInvariant, RegistryIsServed
<1>2. registry' = [registry EXCEPT ![s] = Nil]
  BY <1>1 DEF FeedInvariant, FeedTypes
<1> QED
  BY <1>2, HangUpPreserves DEF TimeOut

\* A connection breaks; neither end knows.
LEMMA CutPreserves ==
    ASSUME FeedInvariant, NEW s \in Sockets, Cut(s)
    PROVE  FeedInvariant'
<1> DEFINE r == [socket[s] EXCEPT !.cut = TRUE, !.token = Nil]
           n == registry[s]
<1>1. socket[s] \in Socket /\ socket[s].owner # Nil /\ n \in Clients \cup {Nil}
  BY DEF Cut, FeedInvariant, FeedTypes
<1>2. /\ r \in Socket /\ r.owner = socket[s].owner /\ r.peer = socket[s].peer
      /\ r.heard = socket[s].heard /\ r.told = socket[s].told /\ r.server = socket[s].server
  BY <1>1 DEF Socket, Token
<1>3. /\ socket' = [socket EXCEPT ![s] = r] /\ registry' = registry
      /\ UNCHANGED <<client, stored, session, cast>>
  BY DEF Cut
<1>4. registry' = [registry EXCEPT ![s] = n]
  BY <1>3 DEF FeedInvariant, FeedTypes
<1>5. n # Nil => n = socket[s].owner /\ socket[s].server = "serving"
  BY DEF FeedInvariant, RegistryIsServed
<1> HIDE DEF r, n
<1> QED
  BY ZenonT(60), <1>1, <1>2, <1>3, <1>4, <1>5, MarkPreserves

\* A broadcast starts with the sockets registered for the account it is about.
LEMMA BroadcastPreserves ==
    ASSUME FeedInvariant, NEW b \in Casts, NEW c \in Clients, Broadcast(b, c)
    PROVE  FeedInvariant'
<1> DEFINE x == [about |-> c, left |-> Audience(c)]
<1>1. /\ cast' = [cast EXCEPT ![b] = x]
      /\ UNCHANGED <<client, stored, session, socket, registry>>
  BY DEF Broadcast
<1>2. /\ x \in [about : Clients, left : SUBSET Sockets] /\ x.about = c
      /\ \A s \in x.left : registry[s] = c /\ s \in Sockets
  BY DEF Audience
<1>3. \A s \in x.left : socket[s].owner \in {c, Nil}
  BY <1>2, FeedNames DEF FeedInvariant, RegistryIsServed
<1> HIDE DEF x
<1>4. FeedTypes'
  BY <1>1, <1>2 DEF FeedInvariant, FeedTypes
<1>5. CastsReachOwners'
  BY <1>1, <1>2, <1>3 DEF FeedInvariant, FeedTypes, CastsReachOwners
<1> QED
  BY <1>1, <1>4, <1>5
     DEF FeedInvariant, SocketsAreOwned, ClosesAreHeardOnce, SocketsAreHeld, ClientsHold,
         RegistryIsServed, Up

\* A frame goes to a socket still on the registry, and so to one whose owner it
\* is about; a failing send only takes the socket off the registry.
LEMMA SendNextPreserves ==
    ASSUME FeedInvariant, NEW b \in Casts, SendNext(b)
    PROVE  FeedInvariant'
<1>1. UNCHANGED <<client, stored, session>> /\ cast[b] # Nil
  BY DEF SendNext
<1>2. cast[b] \in [about : Clients, left : SUBSET Sockets]
  BY <1>1 DEF FeedInvariant, FeedTypes

\* What is left of the broadcasts only shrinks.
<1>3. /\ cast' \in [Casts -> [about : Clients, left : SUBSET Sockets] \cup {Nil}]
      /\ \A x \in Casts : cast'[x] # Nil =>
           /\ cast[x] # Nil /\ cast'[x].about = cast[x].about
           /\ cast'[x].left \subseteq cast[x].left
  <2>1. CASE cast' = [cast EXCEPT ![b] = Nil]
    BY <2>1 DEF FeedInvariant, FeedTypes
  <2>2. ASSUME NEW s \in cast[b].left, cast' = [cast EXCEPT ![b].left = @ \ {s}]
        PROVE  <1>3
    <3> DEFINE y == [cast[b] EXCEPT !.left = @ \ {s}]
    <3>1. cast' = [cast EXCEPT ![b] = y]
      BY <2>2
    <3>2. /\ y \in [about : Clients, left : SUBSET Sockets]
          /\ y.about = cast[b].about /\ y.left \subseteq cast[b].left
      BY <1>2
    <3> HIDE DEF y
    <3> QED
      BY <1>1, <3>1, <3>2 DEF FeedInvariant, FeedTypes
  <2> QED
    BY <2>1, <2>2 DEF SendNext
<1>4. \A x \in Casts : cast'[x] # Nil =>
        \A s \in cast'[x].left : socket[s].owner \in {cast'[x].about, Nil}
  BY <1>3 DEF FeedInvariant, CastsReachOwners
<1>5. CASE UNCHANGED socket
  <2>1. /\ registry' \in [Sockets -> Clients \cup {Nil}]
        /\ \A s \in Sockets : registry'[s] \in {registry[s], Nil}
    BY DEF SendNext, FeedInvariant, FeedTypes
  <2>2. FeedTypes' /\ RegistryIsServed' /\ CastsReachOwners'
    BY <1>1, <1>3, <1>4, <1>5, <2>1
       DEF FeedInvariant, FeedTypes, RegistryIsServed, CastsReachOwners
  <2> QED
    BY <1>1, <1>5, <2>2
       DEF FeedInvariant, SocketsAreOwned, ClosesAreHeardOnce, SocketsAreHeld, ClientsHold, Up
<1>6. ASSUME NEW s \in cast[b].left, registry[s] # Nil, UNCHANGED registry,
             socket' = [socket EXCEPT ![s].told = @ \cup {cast[b].about}]
      PROVE  FeedInvariant'
  <2> DEFINE r == [socket[s] EXCEPT !.told = @ \cup {cast[b].about}]
  <2>1. s \in Sockets /\ socket[s] \in Socket
    BY <1>2 DEF FeedInvariant, FeedTypes
  <2>2. socket[s].owner = cast[b].about /\ socket[s].server = "serving"
    BY <1>1, <1>6, <2>1
       DEF FeedInvariant, RegistryIsServed, CastsReachOwners
  <2>3. /\ r \in Socket /\ r.owner = socket[s].owner /\ r.peer = socket[s].peer
        /\ r.heard = socket[s].heard /\ r.server = "serving"
        /\ r.told = socket[s].told \cup {cast[b].about}
        /\ socket' = [socket EXCEPT ![s] = r]
    BY <1>2, <1>6, <2>1, <2>2 DEF Socket
  <2>4. r.told \subseteq {r.owner}
    BY <2>1, <2>2, <2>3 DEF FeedInvariant, CastsReachOwners
  <2> HIDE DEF r
  <2>5. socket'[s] = r /\ \A u \in Sockets : u # s => socket'[u] = socket[u]
    BY <2>1, <2>3 DEF FeedInvariant, FeedTypes
  <2>6. \A u \in Sockets : /\ Up(u)' <=> Up(u)
                           /\ socket'[u].owner = socket[u].owner
                           /\ socket'[u].peer = socket[u].peer
                           /\ socket'[u].heard = socket[u].heard
    BY <2>3, <2>5 DEF Up
  <2>7. FeedTypes'
    <3>1. socket' \in [Sockets -> Socket]
      BY <2>1, <2>3 DEF FeedInvariant, FeedTypes
    <3>2. registry' \in [Sockets -> Clients \cup {Nil}]
      BY <1>6 DEF FeedInvariant, FeedTypes
    <3> QED
      BY <1>1, <1>3, <3>1, <3>2 DEF FeedInvariant, FeedTypes
  <2>8. SocketsAreOwned'
    BY <2>1, <2>2, <2>3, <2>5, FreeIsSocket DEF FeedInvariant, SocketsAreOwned
  <2>9. ClosesAreHeardOnce' /\ SocketsAreHeld'
    BY <1>1, <2>6 DEF FeedInvariant, ClosesAreHeardOnce, SocketsAreHeld
  <2>10. ClientsHold'
    BY <1>1, <2>6 DEF FeedInvariant, ClientsHold, FeedTypes, Client
  <2>11. RegistryIsServed'
    BY <1>6, <2>2, <2>3, <2>5 DEF FeedInvariant, RegistryIsServed
  <2>12. CastsReachOwners'
    <3>1. \A u \in Sockets : socket'[u].told \subseteq {socket'[u].owner}
      BY <2>4, <2>5 DEF FeedInvariant, CastsReachOwners
    <3>2. \A x \in Casts : cast'[x] # Nil => cast'[x].left \subseteq Sockets
      BY <1>3
    <3> QED
      BY <1>4, <2>6, <3>1, <3>2 DEF CastsReachOwners
  <2> QED
    BY <2>7, <2>8, <2>9, <2>10, <2>11, <2>12 DEF FeedInvariant
<1> QED
  BY <1>5, <1>6 DEF SendNext

\* A session that ends without its client's doing leaves the sockets alone.
LEMMA SessionsPreserve ==
    ASSUME FeedInvariant, NEW c \in Clients, Revoke(c) \/ OtherTab(c)
    PROVE  FeedInvariant'
<1>1. UNCHANGED <<client, socket, registry, cast>>
  BY DEF Revoke, OtherTab
<1>2. session[c] + 1 \in Nat
  BY DEF FeedInvariant, FeedTypes
<1>3. stored' \in [Clients -> Token] /\ session' \in [Clients -> Nat]
  BY <1>2 DEF Revoke, OtherTab, FeedInvariant, FeedTypes, Token
<1> QED
  BY <1>1, <1>3
     DEF FeedInvariant, FeedTypes, SocketsAreOwned, ClosesAreHeardOnce, SocketsAreHeld,
         ClientsHold, RegistryIsServed, CastsReachOwners, Up

\* A restarted server knows no socket and runs no broadcast; each client's end is
\* as it was.
LEMMA FeedRestartPreserves ==
    ASSUME FeedInvariant, Restart
    PROVE  FeedInvariant'
<1> DEFINE q(s) == [socket[s] EXCEPT !.server = "closed"]
<1>1. /\ UNCHANGED <<client, stored, session>>
      /\ registry' = [s \in Sockets |-> Nil] /\ cast' = [b \in Casts |-> Nil]
      /\ socket' = [s \in Sockets |-> IF socket[s].server = "none" THEN socket[s]
                                      ELSE Settled(q(s))]
  BY DEF Restart
<1>2. ASSUME NEW s \in Sockets
      PROVE  /\ socket'[s] \in Socket
             /\ \/ /\ socket'[s].owner = socket[s].owner /\ socket'[s].peer = socket[s].peer
                   /\ socket'[s].heard = socket[s].heard /\ socket'[s].told = socket[s].told
                   /\ socket[s].owner # Nil
                \/ socket'[s] = Free /\ ~Up(s)
  <2>1. socket[s] \in Socket
    BY DEF FeedInvariant, FeedTypes
  <2>2. /\ q(s) \in Socket /\ q(s).owner = socket[s].owner /\ q(s).peer = socket[s].peer
        /\ q(s).heard = socket[s].heard /\ q(s).told = socket[s].told
    BY <2>1 DEF Socket
  <2>3. socket'[s] = IF socket[s].server = "none" THEN socket[s] ELSE Settled(q(s))
    BY <1>1
  <2>4. socket[s].server = "none" => socket[s].owner # Nil
    BY FreeIsSocket DEF FeedInvariant, SocketsAreOwned
  <2>5. socket[s].owner = Nil => socket[s].peer = "closed"
    BY FreeIsSocket DEF FeedInvariant, SocketsAreOwned
  <2>6. socket[s].owner = Nil => Settled(q(s)) = Free
    BY <2>1, <2>5, FreeIsSocket DEF FeedInvariant, SocketsAreOwned, Settled, Socket
  <2> HIDE DEF q
  <2> QED
    BY <2>1, <2>2, <2>3, <2>4, <2>6, SettledKeeps, FreeIsSocket DEF Up
<1>3. \A s \in Sockets : /\ Up(s)' <=> Up(s)
                         /\ Up(s) => /\ socket'[s].owner = socket[s].owner
                                     /\ socket'[s].heard = socket[s].heard
  BY <1>2, FreeIsSocket DEF Up
<1>4. FeedTypes'
  BY <1>1, <1>2 DEF FeedInvariant, FeedTypes
<1>5. SocketsAreOwned' /\ RegistryIsServed'
  BY <1>1, <1>2 DEF SocketsAreOwned, RegistryIsServed
<1>6. ClosesAreHeardOnce'
  <2>1. \A s \in Sockets : socket'[s].peer = "closing" => ~socket'[s].heard
    BY <1>2, FreeIsSocket DEF FeedInvariant, ClosesAreHeardOnce
  <2> QED
    BY <1>3, <2>1 DEF FeedInvariant, ClosesAreHeardOnce
<1>7. SocketsAreHeld'
  BY <1>1, <1>3 DEF FeedInvariant, SocketsAreHeld
<1>8. ClientsHold'
  BY <1>1, <1>3 DEF FeedInvariant, ClientsHold, FeedTypes, Client
<1>9. CastsReachOwners'
  BY <1>1, <1>2, FreeIsSocket DEF FeedInvariant, CastsReachOwners
<1> QED
  BY <1>4, <1>5, <1>6, <1>7, <1>8, <1>9 DEF FeedInvariant

-----------------------------------------------------------------------------
(* The theorems.                                                           *)

\* Every step keeps the invariant.
LEMMA FeedStep == FeedInvariant /\ [FeedNext]_feedVars => FeedInvariant'
<1> SUFFICES ASSUME FeedInvariant, [FeedNext]_feedVars
             PROVE  FeedInvariant'
  OBVIOUS
<1>1. CASE Restart
  BY <1>1, FeedRestartPreserves
<1>2. ASSUME NEW c \in Clients, Mount(c) \/ Fire(c) \/ Unmount(c) \/ Revoke(c) \/ OtherTab(c)
      PROVE  FeedInvariant'
  BY <1>2, MountPreserves, FirePreserves, UnmountPreserves, SessionsPreserve
<1>3. ASSUME NEW s \in Sockets,
             \/ Opened(s) \/ Closed(s) \/ Accept(s) \/ Authenticate(s) \/ Notice(s)
             \/ Cut(s) \/ TimeOut(s)
      PROVE  FeedInvariant'
  BY <1>3, OpenedPreserves, ClosedPreserves, AcceptPreserves, AuthenticatePreserves,
     NoticePreserves, CutPreserves, TimeOutPreserves
<1>4. ASSUME NEW b \in Casts, SendNext(b) \/ \E c \in Clients : Broadcast(b, c)
      PROVE  FeedInvariant'
  BY <1>4, SendNextPreserves, BroadcastPreserves
<1>5. CASE UNCHANGED feedVars
  BY <1>5 DEF feedVars, FeedInvariant, FeedTypes, SocketsAreOwned, ClosesAreHeardOnce,
              SocketsAreHeld, ClientsHold, RegistryIsServed, CastsReachOwners, Up
<1> QED
  BY <1>1, <1>2, <1>3, <1>4, <1>5 DEF FeedNext

\* What the model-checked property says of the sets of sockets follows from what
\* the invariant says of each socket.
LEMMA OneFeedFollows == FeedInvariant => OneFeedEach
<1> SUFFICES ASSUME FeedInvariant
             PROVE  OneFeedEach
  OBVIOUS
<1>1. ASSUME NEW c \in Clients
      PROVE  /\ Running(c) \subseteq {client[c].sock}
             /\ client[c].timer => Running(c) = {}
             /\ ~client[c].want => ~client[c].timer /\ Running(c) = {}
             /\ client[c].live => Running(c) # {}
  <2>1. \A s \in Running(c) : client[c].sock = s /\ client[c].want /\ ~client[c].timer
    BY DEF Running, FeedInvariant, SocketsAreHeld, Up
  <2>2. client[c].timer => client[c].want
    BY DEF FeedInvariant, ClientsHold
  <2>3. client[c].live => client[c].sock \in Running(c)
    BY DEF FeedInvariant, FeedTypes, Client, ClientsHold, Running, Up
  <2> QED
    BY <2>1, <2>2, <2>3
<1> QED
  BY <1>1 DEF OneFeedEach, FeedInvariant, RegistryIsServed, CastsReachOwners

\* However mounts, closes, timers and the server's handlers interleave, the
\* invariant holds: it needs nothing of the fairness.
THEOREM FeedInvariantHolds == FeedSpec => []FeedInvariant
<1>1. FeedInit => FeedInvariant
  BY FeedStarts
<1>2. FeedInvariant /\ [FeedNext]_feedVars => FeedInvariant'
  BY FeedStep
<1> QED
  BY <1>1, <1>2, PTL DEF FeedSpec

\* A client runs one socket, the one it holds, or one timer, and nothing once it
\* no longer wants the feed; and no account's status reaches another's socket.
THEOREM OneFeed == FeedSpec => []OneFeedEach
<1>1. FeedInvariant => OneFeedEach
  BY OneFeedFollows
<1> QED
  BY <1>1, FeedInvariantHolds, PTL
=============================================================================
