--------------------------- MODULE DeviceRegistry ---------------------------
(***************************************************************************)
(* The device endpoints of the backend -- register, heartbeat, remove --   *)
(* over the database they share.                                           *)
(*                                                                         *)
(* Every request owns one SQLAlchemy session: rows are read once into its  *)
(* identity map, changed in memory, written by an explicit flush() and     *)
(* committed by get_db only after the response has been sent.  Handlers    *)
(* await between those points and run their database work in worker        *)
(* threads, so requests interleave at each of them.  PostgreSQL runs READ  *)
(* COMMITTED: a SELECT sees the last committed version, an UPDATE or       *)
(* DELETE takes the row's lock until its transaction ends.                 *)
(*                                                                         *)
(* `lock[d]` is the request whose uncommitted version of row d is          *)
(* `shadow[d]`; `claim[m]` the request whose INSERT of network m is not    *)
(* committed yet.                                                          *)
(***************************************************************************)
EXTENDS DeviceRows

CONSTANT Requests    \* requests the process handles at a time

ASSUME NoneIsNoRequest == None \notin Requests

VARIABLES
    networks,   \* [Macs -> owner], None while no account has claimed the MAC
    devices,    \* [Ids -> Row], None where there is no row: what is committed
    claim,      \* [Macs -> request with an uncommitted INSERT of the network]
    lock,       \* [Ids -> request holding the row lock]
    shadow,     \* [Ids -> the version the lock holder has flushed]
    session,    \* [Requests -> the state of its handler]
    nextId,     \* the next device id
    known       \* ids a registration was answered with, until removed

registryVars == <<networks, devices, claim, lock, shadow, session, nextId, known>>

(***************************************************************************)
(* A handler.  `at` is the statement it runs next; `dev` the id of the row *)
(* it works on and `row` that row as it was read, until it is flushed      *)
(* (None when a registration found none).                                  *)
(***************************************************************************)
At == {"idle", "claim", "register", "heartbeat", "remove", "respond", "commit", "alert"}

Handler == [at : At, user : Users \cup {None}, mac : Macs \cup {None},
            phone : Phones \cup {None}, install : Phones \cup {None},
            token : Tokens \cup {NoToken, None}, dev : Ids \cup {None},
            row : Row \cup {None}]

Idle == [at |-> "idle", user |-> None, mac |-> None, phone |-> None,
         install |-> None, token |-> None, dev |-> None, row |-> None]

TypeOK ==
    /\ networks \in [Macs -> Users \cup {None}]
    /\ devices \in [Ids -> Row \cup {None}]
    /\ claim \in [Macs -> Requests \cup {None}]
    /\ lock \in [Ids -> Requests \cup {None}]
    /\ shadow \in [Ids -> Row \cup {None}]
    /\ session \in [Requests -> Handler]
    /\ nextId \in Nat
    /\ known \subseteq Ids

RegistryInit ==
    /\ networks = [m \in Macs |-> None]
    /\ devices = [d \in Ids |-> None]
    /\ claim = [m \in Macs |-> None]
    /\ lock = [d \in Ids |-> None]
    /\ shadow = [d \in Ids |-> None]
    /\ session = [r \in Requests |-> Idle]
    /\ nextId = 1
    /\ known = {}

-----------------------------------------------------------------------------
(* The session: get_db and the database under it.                          *)

\* Request r may write row d: no other transaction has it locked.
Writable(r, d) == lock[d] \in {None, r}

\* flush(): r's transaction now holds row d and has `version` in it.
Flush(r, d, version) ==
    /\ lock' = [lock EXCEPT ![d] = r]
    /\ shadow' = [shadow EXCEPT ![d] = version]

\* Mistake: a closed session leaves its row locks behind.
ReleaseClaims(r) ==
    /\ claim' = [m \in Macs |-> IF claim[m] = r THEN None ELSE claim[m]]
    /\ UNCHANGED <<lock, shadow>>

\* Whatever r locked is free again.
Release(r) ==
    /\ lock' = [d \in Ids |-> IF lock[d] = r THEN None ELSE lock[d]]
    /\ shadow' = [d \in Ids |-> IF lock[d] = r THEN None ELSE shadow[d]]
    /\ claim' = [m \in Macs |-> IF claim[m] = r THEN None ELSE claim[m]]

\* An exception left the handler: roll back and close the session.
Rollback(r) ==
    /\ Release(r)
    /\ session' = [session EXCEPT ![r] = Idle]
    /\ UNCHANGED <<networks, devices, nextId, known>>

\* Mistake: the session is closed without a commit of its rows.
InstallNetworks(r) ==
    /\ networks' = [m \in Macs |-> IF claim[m] = r THEN session[r].user ELSE networks[m]]
    /\ UNCHANGED devices

\* The rows and the network r flushed become the committed ones.
Install(r) ==
    /\ devices' = [d \in Ids |-> IF lock[d] = r THEN shadow[d] ELSE devices[d]]
    /\ networks' = [m \in Macs |-> IF claim[m] = r THEN session[r].user ELSE networks[m]]

\* The handler returned and its answer is sent.  Only then does get_db commit.
Respond(r) ==
    /\ session[r].at = "respond"
    /\ session' = [session EXCEPT ![r].at = "commit"]
    /\ known' = IF session[r].phone = None THEN known ELSE known \cup {session[r].dev}
    /\ UNCHANGED <<networks, devices, claim, lock, shadow, nextId>>

Commit(r) ==
    /\ session[r].at = "commit"
    /\ Install(r)
    /\ Release(r)
    /\ session' = [session EXCEPT ![r] = Idle]
    /\ known' = known \ {d \in Ids : lock[d] = r /\ shadow[d] = None}
    /\ UNCHANGED nextId

-----------------------------------------------------------------------------
(* POST /devices/register                                                  *)

(***************************************************************************)
(* The row the registration updates, or the id of the one it creates.  The *)
(* new id is taken when the transaction starts, as created_at is.          *)
(***************************************************************************)
Target(r, user, mac, phone, install, token) ==
    LET found == FindReregistration(devices, user, mac, install, token)
    IN  /\ found = None => nextId \in Ids
        /\ session' = [session EXCEPT ![r] =
              [at |-> "register", user |-> user, mac |-> mac, phone |-> phone,
               install |-> install, token |-> token,
               dev |-> IF found = None THEN nextId ELSE found,
               row |-> IF found = None THEN None ELSE devices[found]]]
        /\ nextId' = IF found = None THEN nextId + 1 ELSE nextId

\* The MAC is claimed: go straight to the search for an existing row.
RegisterOnClaimed(r, user, mac, phone, install, token) ==
    /\ session[r].at = "idle"
    /\ networks[mac] # None
    /\ Target(r, user, mac, phone, install, token)
    /\ UNCHANGED <<networks, devices, claim, lock, shadow, known>>

\* Mistake: a guest may go on to claim the network.
RegisterAnyoneOnUnclaimed(r, user, mac, phone, install, token) ==
    /\ session[r].at = "idle"
    /\ networks[mac] = None
    /\ nextId \in Ids
    /\ session' = [session EXCEPT ![r] =
          [at |-> "claim", user |-> user, mac |-> mac, phone |-> phone,
           install |-> install, token |-> token, dev |-> nextId, row |-> None]]
    /\ nextId' = nextId + 1
    /\ UNCHANGED <<networks, devices, claim, lock, shadow, known>>

\* The MAC is unclaimed.  A guest gets 404; an account goes on to claim it,
\* and its transaction has started: the id it may need is taken here.
RegisterOnUnclaimed(r, user, mac, phone, install, token) ==
    /\ session[r].at = "idle"
    /\ networks[mac] = None
    /\ user # None
    /\ nextId \in Ids
    /\ session' = [session EXCEPT ![r] =
          [at |-> "claim", user |-> user, mac |-> mac, phone |-> phone,
           install |-> install, token |-> token, dev |-> nextId, row |-> None]]
    /\ nextId' = nextId + 1
    /\ UNCHANGED <<networks, devices, claim, lock, shadow, known>>

\* Mistakes: the MAC is not unique; the network is committed ahead of the
\* device that claims it.
ClaimUnchecked(r) ==
    /\ session[r].at = "claim"
    /\ claim' = [claim EXCEPT ![session[r].mac] = r]
    /\ session' = [session EXCEPT ![r].at = "register"]
    /\ UNCHANGED <<networks, devices, lock, shadow, nextId, known>>

ClaimAtOnce(r) ==
    /\ session[r].at = "claim"
    /\ networks[session[r].mac] = None
    /\ networks' = [networks EXCEPT ![session[r].mac] = session[r].user]
    /\ session' = [session EXCEPT ![r].at = "register"]
    /\ UNCHANGED <<devices, claim, lock, shadow, nextId, known>>

(***************************************************************************)
(* INSERT the network and search for an existing row.  The INSERT waits    *)
(* for another uncommitted one of the same MAC.                            *)
(***************************************************************************)
ClaimNetwork(r) ==
    LET s == session[r]
        found == FindReregistration(devices, s.user, s.mac, s.install, s.token)
    IN  /\ s.at = "claim"
        /\ claim[s.mac] = None
        /\ networks[s.mac] = None
        /\ claim' = [claim EXCEPT ![s.mac] = r]
        /\ session' = [session EXCEPT ![r] =
              [s EXCEPT !.at = "register",
                        !.dev = IF found = None THEN @ ELSE found,
                        !.row = IF found = None THEN None ELSE devices[found]]]
        /\ UNCHANGED <<networks, devices, lock, shadow, nextId, known>>

\* mac_address is UNIQUE: the account that came second gets an IntegrityError.
ClaimConflict(r) ==
    /\ session[r].at = "claim"
    /\ networks[session[r].mac] # None
    /\ Rollback(r)

\* Mistake: the new row is not flushed, and the flush is what gives it its id.
InsertUnflushed(r) ==
    /\ session[r].at = "register" /\ session[r].row = None
    /\ session' = [session EXCEPT ![r].at = "respond", ![r].dev = None]
    /\ UNCHANGED <<networks, devices, claim, lock, shadow, nextId, known>>

InsertDevice(r) ==
    LET s == session[r]
        row == NewRow(s.user, s.mac, s.install, s.token, s.phone)
    IN  /\ s.at = "register"
        /\ s.row = None
        /\ Flush(r, s.dev, row)
        /\ session' = [session EXCEPT ![r].at = "respond"]
        /\ UNCHANGED <<networks, devices, claim, nextId, known>>

(***************************************************************************)
(* flush() of a changed row: wait for its lock, write the changed columns. *)
(***************************************************************************)
FlushUpdate(r, want) ==
    LET d == session[r].dev
    IN  /\ Writable(r, d)
        /\ devices[d] # None
        /\ Flush(r, d, Updated(devices[d], session[r].row, want))
        /\ session' = [session EXCEPT ![r].at = "respond", ![r].row = None]
        /\ UNCHANGED <<networks, devices, claim, nextId, known>>

UpdateRegistered(r) ==
    LET s == session[r]
    IN  /\ s.at = "register"
        /\ s.row # None
        /\ FlushUpdate(r, Rejoined(s.row, s.mac, s.install, s.token))

-----------------------------------------------------------------------------
(* PUT /devices/{id}/heartbeat                                             *)

Heartbeat(r, d, mac) ==
    /\ session[r].at = "idle"
    /\ devices[d] # None
    /\ session' = [session EXCEPT ![r] =
          [Idle EXCEPT !.at = "heartbeat", !.dev = d, !.mac = mac, !.row = devices[d]]]
    /\ UNCHANGED <<networks, devices, claim, lock, shadow, nextId, known>>

RecordHeartbeat(r) ==
    /\ session[r].at = "heartbeat"
    /\ FlushUpdate(r, Beaten(session[r].row, session[r].mac))

\* The UPDATE of a registration or a heartbeat met no row: StaleDataError.
UpdateMissed(r) ==
    /\ session[r].at \in {"register", "heartbeat"}
    /\ session[r].row # None
    /\ Writable(r, session[r].dev)
    /\ devices[session[r].dev] = None
    /\ Rollback(r)

-----------------------------------------------------------------------------
(* DELETE /devices/{id}                                                    *)

\* Mistake: any account may remove any device.
RequestAnyRemoval(r, user, d) ==
    /\ session[r].at = "idle"
    /\ devices[d] # None
    /\ session' = [session EXCEPT ![r] =
          [Idle EXCEPT !.at = "remove", !.dev = d, !.user = user, !.row = devices[d]]]
    /\ UNCHANGED <<networks, devices, claim, lock, shadow, nextId, known>>

\* The row is read and the caller confirmed as its network's admin ...
RequestRemoval(r, user, d) ==
    /\ session[r].at = "idle"
    /\ devices[d] # None
    /\ networks[devices[d].net] = user
    /\ session' = [session EXCEPT ![r] =
          [Idle EXCEPT !.at = "remove", !.dev = d, !.user = user, !.row = devices[d]]]
    /\ UNCHANGED <<networks, devices, claim, lock, shadow, nextId, known>>

\* ... and, after another await, deleted.  A DELETE that meets no row is fine.
DeleteDevice(r) ==
    LET d == session[r].dev
    IN  /\ session[r].at = "remove"
        /\ Writable(r, d)
        /\ IF devices[d] = None THEN UNCHANGED <<lock, shadow>> ELSE Flush(r, d, None)
        /\ session' = [session EXCEPT ![r].at = "respond", ![r].row = None]
        /\ UNCHANGED <<networks, devices, claim, nextId, known>>

-----------------------------------------------------------------------------
\* 404 or 403, nothing read is kept: a guest on a MAC nobody has claimed, a
\* device id with no row, a caller who does not administer the row's network.
Refuse(r) ==
    /\ session[r].at = "idle"
    /\ \/ \E mac \in Macs : networks[mac] = None
       \/ \E d \in Ids : devices[d] = None
       \/ \E d \in Ids, user \in Users :
            devices[d] # None /\ networks[devices[d].net] # user
    /\ UNCHANGED registryVars

\* The process dies: every session is gone, only what is committed remains.
Crash ==
    /\ \E r \in Requests : session[r].at # "idle"
    /\ session' = [r \in Requests |-> Idle]
    /\ claim' = [m \in Macs |-> None]
    /\ lock' = [d \in Ids |-> None]
    /\ shadow' = [d \in Ids |-> None]
    /\ UNCHANGED <<networks, devices, nextId, known>>

\* What a phone's app may send: its own install id, or none from an older
\* client; a token issued to it, or none.
Registration(r) ==
    \E user \in Users \cup {None}, mac \in Macs, phone \in Phones :
      \E install \in {phone, None},
         token \in {t \in Tokens : Holder[t] = phone} \cup {NoToken} :
        \/ RegisterOnClaimed(r, user, mac, phone, install, token)
        \/ RegisterOnUnclaimed(r, user, mac, phone, install, token)

Finish(r) ==
    \/ ClaimNetwork(r) \/ ClaimConflict(r)
    \/ InsertDevice(r) \/ UpdateRegistered(r)
    \/ RecordHeartbeat(r) \/ UpdateMissed(r)
    \/ DeleteDevice(r)
    \/ Respond(r) \/ Commit(r)

Serve ==
    \E r \in Requests :
      \/ Registration(r)
      \/ \E d \in Ids, mac \in Macs : Heartbeat(r, d, mac)
      \/ \E d \in Ids, user \in Users : RequestRemoval(r, user, d)
      \/ Refuse(r)
      \/ Finish(r)

RegistryNext == Serve \/ Crash

RegistrySpec == RegistryInit /\ [][RegistryNext]_registryVars

\* The event loop and the worker threads run every request that can run, and
\* PostgreSQL queues the waiters of a row lock, so none is passed over forever.
RequestsRun == \A r \in Requests : SF_registryVars(Finish(r))

-----------------------------------------------------------------------------
(* What each request in flight is. *)

Registering(r) == session[r].phone # None
Beating(r) == session[r].at # "idle" /\ session[r].phone = None /\ session[r].user = None
Removing(r) == session[r].phone = None /\ session[r].user # None
Stored(r) == Commit(r) /\ lock[session[r].dev] = r

(***************************************************************************)
(* No two requests in flight are about the same row or the same phone: the *)
(* schedule of a household whose phones each wait for one call to be       *)
(* committed before the next.                                              *)
(***************************************************************************)
Disjoint ==
    \A r, s \in Requests :
      r # s /\ session[r].at # "idle" /\ session[s].at # "idle" =>
        /\ session[r].dev # session[s].dev
        /\ session[r].phone = None \/ session[r].phone # session[s].phone

DisjointSpec == RegistryInit /\ [][RegistryNext /\ Disjoint']_registryVars

\* A process that stays up, its requests served.
UpSpec == RegistryInit /\ [][Serve]_registryVars /\ RequestsRun

-----------------------------------------------------------------------------
(* Properties that hold whatever the interleaving.                         *)

(***************************************************************************)
(* A registration never updates a row another phone created: neither the   *)
(* install id, nor a push token, nor an empty one merges two phones.       *)
(***************************************************************************)
OnlyOwnRow ==
    \A r \in Requests :
      Registering(r) /\ session[r].row # None => session[r].row.phone = session[r].phone

(***************************************************************************)
(* Every committed row sits on a network some account administers, guests  *)
(* included, so there is always somebody who can list, alert and remove    *)
(* it -- also while the network and the row are being created together.    *)
(***************************************************************************)
NoOrphanRow ==
    \A d \in Ids : devices[d] # None => networks[devices[d].net] # None

\* The account that claimed a network keeps it: of two first registrations
\* on one MAC the second never takes the network over.
NetworkKeepsOwner ==
    [][\A m \in Macs : networks[m] # None => networks'[m] = networks[m]]_registryVars

\* Only an owned row follows its phone to another network (which any behaviour
\* that implements NetworkMembership keeps to).
GuestStaysPut ==
    [][\A d \in Ids : devices[d] # None /\ devices'[d] # None =>
         (devices[d].owner = None => devices'[d].net = devices[d].net)]_registryVars

\* Once stamped with an install id a row keeps it, also when a registration
\* from an older client, or one built from a stale read, updates it.
InstallIsKept ==
    [][\A d \in Ids : devices[d] # None /\ devices'[d] # None =>
         (devices[d].install # None => devices'[d].install = devices[d].install)]_registryVars

-----------------------------------------------------------------------------
(* Properties of handlers that do not overlap on one row.                  *)

\* One phone is one row: an account, or a network's guests, never hold two
\* rows of one install.
OneRowPerInstall ==
    \A d, e \in Ids :
      /\ d # e /\ devices[d] # None /\ devices[e] # None
      /\ devices[d].owner = devices[e].owner
      /\ devices[d].owner = None => devices[d].net = devices[e].net
      => devices[d].install = None \/ devices[d].install # devices[e].install

\* After a heartbeat is committed the row says ONLINE exactly when the
\* heartbeat came from the network the row is on.
HeartbeatSetsStatus ==
    [][\A r \in Requests : Beating(r) /\ Stored(r) =>
         LET row == devices'[session[r].dev]
         IN  row.status = IF session[r].mac = row.net THEN "ONLINE" ELSE "UNKNOWN"
      ]_registryVars

\* After a registration is committed the row is on the network it was sent
\* from, reachable, and holds the push token it brought.
RegistrationTakesEffect ==
    [][\A r \in Requests : Registering(r) /\ Stored(r) =>
         LET row == devices'[session[r].dev]
         IN  /\ row.net = session[r].mac
             /\ row.status = "ONLINE"
             /\ row.token = session[r].token]_registryVars

\* What a phone reports of itself is what its row says once that is committed.
RowsSayWhatWasReported == HeartbeatSetsStatus /\ RegistrationTakesEffect

\* A row is only ever removed by the account that administers its network.
RemovedByItsAdmin ==
    [][\A d \in Ids : devices[d] # None /\ devices'[d] = None =>
         \E r \in Requests :
           lock[d] = r /\ session[r].user = networks[devices[d].net]]_registryVars

-----------------------------------------------------------------------------
(* Liveness.                                                               *)

\* Every request ends: no lock, and no wait for one, outlives its request.
RequestsEnd ==
    \A r \in Requests : session[r].at # "idle" ~> session[r].at = "idle"

\* While the process stays up, an answered registration gets committed.
KnownBecomesStored ==
    \A d \in Ids : d \in known ~> (devices[d] # None \/ d \notin known)
=============================================================================
