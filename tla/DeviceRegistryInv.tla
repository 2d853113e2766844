-------------------------- MODULE DeviceRegistryInv --------------------------
(***************************************************************************)
(* Why DeviceRegistry's invariants hold: the facts every step of every     *)
(* request preserves together.                                             *)
(***************************************************************************)
EXTENDS DeviceRegistry

\* A row speaks for the phone that created it, by install id and by token.
SpeaksForItsPhone(row) ==
    /\ row.install \in {None, row.phone}
    /\ row.token \in Tokens => Holder[row.token] = row.phone

\* `later` is a later version of the row `earlier`: what no update changes.
SameRow(earlier, later) ==
    /\ later.owner = earlier.owner
    /\ later.phone = earlier.phone
    /\ earlier.owner = None => later.net = earlier.net
    /\ earlier.install # None => later.install = earlier.install

\* r's transaction has taken the id of a row it has yet to insert.
Reserving(r) == session[r].at \in {"claim", "register"} /\ session[r].row = None

\* The arguments a handler holds at each of its statements.
HandlerArguments ==
    \A r \in Requests :
      LET s == session[r] IN
      /\ s.at = "idle" => s.dev = None
      /\ s.at \notin {"idle", "alert"} => s.dev # None
      /\ s.at \in {"claim", "register"} =>
           /\ s.mac \in Macs /\ s.phone \in Phones
           /\ s.install \in {None, s.phone}
           /\ s.token \in Tokens \cup {NoToken}
           /\ s.token \in Tokens => Holder[s.token] = s.phone
      /\ s.at = "claim" => s.user \in Users /\ s.row = None
      /\ s.at = "heartbeat" => s.mac \in Macs /\ s.row # None
      /\ s.at = "remove" => s.row # None
      /\ s.at \in {"heartbeat", "remove", "alert"} => s.phone = None
      /\ s.at \in {"idle", "respond", "commit", "alert"} => s.row = None

\* A locked row is the one its holder works on and has flushed, or one of those
\* an alert has, and these exist; a claimed network is the one its holder
\* registers on, and nobody's yet.
LocksAreHeld ==
    /\ \A d \in Ids : lock[d] # None =>
         \/ session[lock[d]].at \in {"respond", "commit"} /\ session[lock[d]].dev = d
         \/ session[lock[d]].at = "alert" /\ devices[d] # None /\ shadow[d] # None
    /\ \A d \in Ids : shadow[d] # None => lock[d] # None
    /\ \A m \in Macs : claim[m] # None =>
         /\ session[claim[m]].at \in {"register", "respond", "commit"}
         /\ session[claim[m]].mac = m
         /\ session[claim[m]].user \in Users
         /\ networks[m] = None

\* Ids below nextId are taken, and a reserved one is its request's alone until
\* the row it names is committed.
IdsAreFresh ==
    /\ \A d \in Ids : devices[d] # None => d < nextId
    /\ \A r \in Requests : session[r].dev # None => session[r].dev < nextId
    /\ \A r \in Requests : Reserving(r) =>
         /\ devices[session[r].dev] = None
         /\ \A s \in Requests \ {r} : session[s].dev # session[r].dev
    /\ \A d \in Ids : devices[d] = None /\ shadow[d] # None =>
         \A s \in Requests : session[s].dev = d => s = lock[d]

\* What a request has read or flushed is a version of the committed row.
VersionsAgree ==
    /\ \A d \in Ids : devices[d] # None => SpeaksForItsPhone(devices[d])
    /\ \A d \in Ids : shadow[d] # None => SpeaksForItsPhone(shadow[d])
    /\ \A d \in Ids : devices[d] # None /\ shadow[d] # None => SameRow(devices[d], shadow[d])
    /\ \A r \in Requests : session[r].row # None =>
         /\ SpeaksForItsPhone(session[r].row)
         /\ devices[session[r].dev] # None => SameRow(session[r].row, devices[session[r].dev])

\* A registration works on a row of its own phone and its own account, and a
\* guest's on the network it was sent from.
RightRow ==
    \A r \in Requests :
      session[r].at = "register" /\ session[r].row # None =>
        /\ session[r].row.phone = session[r].phone
        /\ session[r].row.owner = session[r].user
        /\ session[r].user = None => session[r].row.net = session[r].mac

\* Every row, committed or flushed, is on a network that is claimed, or that
\* the same transaction claims.
NetworksAreClaimed ==
    /\ \A d \in Ids : devices[d] # None => networks[devices[d].net] # None
    /\ \A d \in Ids : shadow[d] # None =>
         \/ networks[shadow[d].net] # None
         \/ lock[d] # None /\ claim[shadow[d].net] = lock[d]
    /\ \A r \in Requests : session[r].at = "register" =>
         networks[session[r].mac] # None \/ claim[session[r].mac] = r
    /\ \A r \in Requests : session[r].row # None => networks[session[r].row.net] # None

\* A transaction that claims a network and has flushed a row has flushed one
\* of the claiming account, on that network.
ClaimsAreUsed ==
    \A m \in Macs : claim[m] # None /\ session[claim[m]].at \in {"respond", "commit"} =>
      LET d == session[claim[m]].dev
      IN  /\ lock[d] = claim[m]
          /\ shadow[d] # None
          /\ shadow[d].net = m
          /\ shadow[d].owner = session[claim[m]].user

Invariant ==
    /\ TypeOK
    /\ HandlerArguments
    /\ LocksAreHeld
    /\ IdsAreFresh
    /\ VersionsAgree
    /\ RightRow
    /\ NetworksAreClaimed
    /\ ClaimsAreUsed

-----------------------------------------------------------------------------
(* What DeviceRegistry implements.                                         *)

ASSUME NoneIsNoMember == None \notin [owner : Users \cup {None}, net : Macs]

\* A committed row, seen as a device of a network.
Seen(row) == IF row = None THEN None ELSE [owner |-> row.owner, net |-> row.net]

Membership == INSTANCE NetworkMembership WITH
    Devices <- Ids,
    admin   <- networks,
    member  <- [d \in Ids |-> Seen(devices[d])]

\* However the requests interleave, fail or are cut off, what is committed
\* changes as NetworkMembership says: one device at a time, with its network.
ImplementsMembership == Membership!Spec
-----------------------------------------------------------------------------
(* Handlers that do not overlap: what DisjointSpec adds.                   *)

\* A request at one of its own statements, and whose it is.
OneOfThree ==
    \A r \in Requests :
      /\ session[r].at # "alert"
      /\ session[r].at = "heartbeat" => session[r].user = None
      /\ session[r].at = "remove" => session[r].user \in Users

\* A registration carries its own phone's install id, or none.
InstallIsOwn ==
    \A r \in Requests :
      session[r].at # "idle" /\ Registering(r) => session[r].install \in {None, session[r].phone}

\* The row a handler has read is still the committed one.
ReadsAreCurrent ==
    \A r \in Requests :
      session[r].row # None => devices[session[r].dev] = session[r].row

\* What a transaction has flushed is what its request asked for.
FlushedAsAsked ==
    \A d \in Ids : lock[d] # None =>
      LET s == session[lock[d]]
          new == shadow[d]
          old == devices[d]
      IN  /\ Registering(lock[d]) =>
               /\ new # None
               /\ new.owner = s.user /\ new.net = s.mac /\ new.phone = s.phone
               /\ new.token = s.token /\ new.status = "ONLINE"
               /\ \/ new.install = s.install
                  \/ s.install = None /\ old # None /\ SameRow(old, new)
                                      /\ new.install = old.install
          /\ Beating(lock[d]) =>
               /\ old # None /\ new # None
               /\ new.owner = old.owner /\ new.net = old.net /\ new.install = old.install
               /\ new.status = IF s.mac = new.net THEN "ONLINE" ELSE "UNKNOWN"
          /\ Removing(lock[d]) => new = None

\* Who asked for a removal still administers the network of the row.
AdminsStay ==
    \A r \in Requests :
      LET s == session[r] IN
      /\ s.at \in {"remove", "respond", "commit"} /\ Removing(r)
      /\ devices[s.dev] # None
      => networks[devices[s.dev].net] = s.user

\* No other row than the one a registration works on carries its install id in
\* the same account, or among the same network's guests.
TargetsAreUnique ==
    \A r \in Requests :
      LET s == session[r] IN
      /\ s.at \in {"register", "respond", "commit"} /\ Registering(r) /\ s.install # None
      => \A e \in Ids \ {s.dev} :
           /\ devices[e] # None /\ devices[e].owner = s.user
           /\ s.user = None => devices[e].net = s.mac
           => devices[e].install # s.install

DisjointInvariant ==
    /\ Invariant
    /\ Disjoint
    /\ OneOfThree
    /\ InstallIsOwn
    /\ ReadsAreCurrent
    /\ FlushedAsAsked
    /\ AdminsStay
    /\ TargetsAreUnique
    /\ OneRowPerInstall
=============================================================================
