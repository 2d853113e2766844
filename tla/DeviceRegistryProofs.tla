------------------------ MODULE DeviceRegistryProofs ------------------------
(***************************************************************************)
(* Machine-checked proofs about DeviceRegistry, for every number of        *)
(* accounts, networks, phones, rows and concurrent requests.               *)
(***************************************************************************)
EXTENDS DeviceRegistryInv, WellFoundedInduction, TLAPS

USE DEF Ids

-----------------------------------------------------------------------------
(* Which row a registration finds.                                         *)

\* A nonempty set of device ids has a newest one.
LEMMA NewestIsOne ==
  ASSUME NEW ids \in SUBSET Ids, ids # {}
  PROVE  Newest(ids) \in ids
<1> DEFINE ranks == {MaxDevices - d : d \in ids}
<1>1. ranks \in SUBSET Nat /\ ranks # {}
  <2>1. \A d \in ids : MaxDevices - d \in Nat
    BY MaxDevicesIsNat
  <2>2. PICK d \in ids : TRUE
    OBVIOUS
  <2>3. MaxDevices - d \in ranks
    BY <2>2
  <2>4. QED
    BY <2>1, <2>3
<1>2. PICK least \in ranks : \A x \in ranks : ~(<<x, least>> \in OpToRel(<, Nat))
  BY <1>1, NatLessThanWellFounded, WFMin
<1>3. PICK d \in ids : least = MaxDevices - d
  OBVIOUS
<1>4. ASSUME NEW e \in ids
      PROVE  e <= d
  <2>1. ~(MaxDevices - e < least)
    BY <1>1, <1>2 DEF OpToRel
  <2>2. QED
    BY <2>1, <1>3, MaxDevicesIsNat
<1>5. QED
  BY <1>4 DEF Newest

\* A table whose rows each speak for their phone.
RowsSpeak(table) ==
  /\ table \in [Ids -> Row \cup {None}]
  /\ \A d \in Ids : table[d] # None => SpeaksForItsPhone(table[d])

\* What the three searches have in common: the row found exists, belongs to
\* the caller, sits on the caller's network if the caller is a guest, and was
\* created by the caller's phone.
LEMMA FoundRow ==
  ASSUME NEW table, RowsSpeak(table), NEW user \in Users \cup {None}, NEW mac \in Macs, NEW phone \in Phones,
         NEW install \in {phone, None},
         NEW token \in {t \in Tokens : Holder[t] = phone} \cup {NoToken},
         FindReregistration(table, user, mac, install, token) # None
  PROVE  LET d == FindReregistration(table, user, mac, install, token)
         IN  /\ d \in Ids
             /\ table[d] # None
             /\ table[d].owner = user
             /\ user = None => table[d].net = mac
             /\ table[d].phone = phone
<1> DEFINE d == FindReregistration(table, user, mac, install, token)
           mine == OfOwner(table, user)
           byInstall == {e \in mine : table[e].install = install
                                      /\ (user = None => table[e].net = mac)}
           adoptable == {e \in mine : table[e].net = mac /\ table[e].token = token
                                      /\ table[e].install = None}
           byToken == {e \in mine : table[e].net = mac /\ table[e].token = token}
<1> USE DEF RowsSpeak
<1>1. mine \in SUBSET Ids /\ \A e \in mine : table[e] # None /\ table[e].owner = user
  BY DEF OfOwner
<1>2. CASE install # None
  <2>1. d = FindByInstall(table, user, mac, install, token)
    BY <1>2 DEF FindReregistration
  <2>2. CASE byInstall # {}
    <3>1. d \in byInstall
      BY <2>1, <2>2, <1>1, NewestIsOne DEF FindByInstall
    <3>2. table[d].phone = phone
      BY <3>1, <1>1, <1>2, NoneIsNobody DEF SpeaksForItsPhone
    <3>3. QED
      BY <3>1, <3>2, <1>1
  <2>3. CASE byInstall = {}
    <3>1. token # NoToken
      BY <2>1, <2>3 DEF FindByInstall, Newest
    <3>2. d \in adoptable
      <4>1. d = Newest(adoptable)
        BY <2>1, <2>3, <3>1 DEF FindByInstall
      <4>2. adoptable # {}
        BY <4>1 DEF Newest
      <4>3. QED
        BY <4>1, <4>2, <1>1, NewestIsOne
    <3>3. table[d].phone = phone
      BY <3>1, <3>2, <1>1 DEF SpeaksForItsPhone
    <3>4. QED
      BY <3>2, <3>3, <1>1
  <2>4. QED
    BY <2>2, <2>3
<1>3. CASE install = None
  <2>1. token # NoToken /\ d = FindByToken(table, user, mac, token)
    BY <1>3 DEF FindReregistration
  <2>2. d \in byToken
    BY <2>1, <1>1, NewestIsOne DEF FindByToken, Newest
  <2>3. table[d].phone = phone
    BY <2>1, <2>2, <1>1 DEF SpeaksForItsPhone
  <2>4. QED
    BY <2>2, <2>3, <1>1
<1>4. QED
  BY <1>2, <1>3

-----------------------------------------------------------------------------
(* What is written to a row.                                               *)

\* An UPDATE built from a stale read still writes a version of the same row.
LEMMA UpdatedRow ==
  ASSUME NEW stored \in Row, NEW read \in Row, NEW want \in Row,
         SameRow(read, stored), SpeaksForItsPhone(stored), SpeaksForItsPhone(want),
         want.phone = read.phone,
         read.owner = None => want.net = read.net,
         read.install # None => want.install # None,
         SpeaksForItsPhone(read)
  PROVE  LET new == Updated(stored, read, want)
         IN  /\ new \in Row
             /\ SpeaksForItsPhone(new)
             /\ SameRow(stored, new)
             /\ new.net = stored.net \/ (new.net = want.net /\ want.net # read.net)
<1> DEFINE new == Updated(stored, read, want)
<1>1. /\ new \in Row
      /\ new.owner = stored.owner /\ new.phone = stored.phone
      /\ new.net = IF want.net = read.net THEN stored.net ELSE want.net
      /\ new.install = IF want.install = read.install THEN stored.install ELSE want.install
      /\ new.token = IF want.token = read.token THEN stored.token ELSE want.token
  BY ZenonT(60) DEF Updated, Row
<1>2. SpeaksForItsPhone(new)
  BY <1>1 DEF SpeaksForItsPhone, SameRow
<1>3. SameRow(stored, new)
  BY <1>1 DEF SpeaksForItsPhone, SameRow
<1>4. QED
  BY <1>1, <1>2, <1>3

LEMMA RejoinedRow ==
  ASSUME NEW row \in Row, SpeaksForItsPhone(row), NEW mac \in Macs,
         NEW install \in {None, row.phone},
         NEW token \in Tokens \cup {NoToken}, token \in Tokens => Holder[token] = row.phone
  PROVE  LET new == Rejoined(row, mac, install, token)
         IN  /\ new \in Row
             /\ SpeaksForItsPhone(new)
             /\ new.phone = row.phone
             /\ new.net = mac
             /\ row.install # None => new.install # None
  BY DEF Row, Rejoined, SpeaksForItsPhone, Status

LEMMA BeatenRow ==
  ASSUME NEW row \in Row, SpeaksForItsPhone(row), NEW mac \in Macs
  PROVE  LET new == Beaten(row, mac)
         IN  /\ new \in Row
             /\ SpeaksForItsPhone(new)
             /\ new.phone = row.phone
             /\ new.net = row.net
             /\ row.install # None => new.install # None
  BY DEF Row, Beaten, SpeaksForItsPhone, Status

\* The arguments a registration keeps.
RegistrationArguments(s) ==
  /\ s.user \in Users \cup {None} /\ s.mac \in Macs /\ s.phone \in Phones
  /\ s.install \in {None, s.phone}
  /\ s.token \in Tokens \cup {NoToken}
  /\ s.token \in Tokens => Holder[s.token] = s.phone

LEMMA InsertedRow ==
  ASSUME NEW s, RegistrationArguments(s)
  PROVE  LET new == NewRow(s.user, s.mac, s.install, s.token, s.phone)
         IN  new \in Row /\ SpeaksForItsPhone(new) /\ new.net = s.mac /\ new.owner = s.user
  BY DEF RegistrationArguments, Row, NewRow, SpeaksForItsPhone, Status

-----------------------------------------------------------------------------
(* The invariant holds initially and every action preserves it.            *)

LEMMA InvariantInit == RegistryInit => Invariant
<1> SUFFICES ASSUME RegistryInit PROVE Invariant
  OBVIOUS
<1> USE DEF RegistryInit, Idle
<1>1. TypeOK
  BY MaxDevicesIsNat DEF TypeOK, Handler, At
<1>2. HandlerArguments
  BY DEF HandlerArguments
<1>3. LocksAreHeld
  BY DEF LocksAreHeld
<1>4. IdsAreFresh
  BY DEF IdsAreFresh, Reserving
<1>5. VersionsAgree /\ RightRow /\ NetworksAreClaimed
  BY DEF VersionsAgree, RightRow, NetworksAreClaimed
<1>6. ClaimsAreUsed
  BY DEF ClaimsAreUsed
<1>7. QED
  BY <1>6, <1>1, <1>2, <1>3, <1>4, <1>5 DEF Invariant

LEMMA InsertDevicePreserves ==
  ASSUME Invariant, NEW r \in Requests, InsertDevice(r)
  PROVE  Invariant'
<1> DEFINE s == session[r]
           d == session[r].dev
           row == NewRow(s.user, s.mac, s.install, s.token, s.phone)
<1> USE DEF Invariant
<1>1. s \in Handler /\ s.at = "register" /\ s.row = None /\ d \in Ids
  BY DEF InsertDevice, TypeOK, HandlerArguments, Handler
<1>2. /\ row \in Row /\ row # None /\ SpeaksForItsPhone(row)
      /\ row.net = s.mac /\ row.owner = s.user
  <2>1. RegistrationArguments(s)
    BY <1>1 DEF HandlerArguments, Handler, RegistrationArguments
  <2>2. row \in Row /\ SpeaksForItsPhone(row) /\ row.net = s.mac /\ row.owner = s.user
    BY <2>1, InsertedRow
  <2>3. QED
    BY <2>2, NoneIsNoRow
<1>3. /\ lock' = [lock EXCEPT ![d] = r]
      /\ shadow' = [shadow EXCEPT ![d] = row]
      /\ session' = [session EXCEPT ![r].at = "respond"]
      /\ UNCHANGED <<networks, devices, claim, nextId, known>>
  BY DEF InsertDevice, Flush
<1>4. devices[d] = None /\ \A q \in Requests \ {r} : session[q].dev # d
  BY <1>1 DEF IdsAreFresh, Reserving
<1>5. TypeOK'
  BY <1>1, <1>2, <1>3 DEF TypeOK, Handler, At
<1>6. HandlerArguments'
  BY <1>1, <1>3 DEF HandlerArguments, TypeOK, Handler
<1>7. LocksAreHeld'
  BY <1>1, <1>3, <1>4, NoneIsNoRequest DEF LocksAreHeld, TypeOK, Handler
<1>8. IdsAreFresh'
  BY <1>1, <1>3 DEF IdsAreFresh, Reserving, TypeOK, Handler
<1>9. VersionsAgree'
  BY <1>1, <1>2, <1>3, <1>4 DEF VersionsAgree, TypeOK, Handler
<1>10. RightRow'
  BY SMTT(40), <1>1, <1>3 DEF RightRow, TypeOK, Handler
<1>11. NetworksAreClaimed'
  BY SMTT(40), <1>1, <1>2, <1>3, NoneIsNoRequest DEF NetworksAreClaimed, TypeOK, Handler
<1>12. ClaimsAreUsed'
  BY <1>1, <1>2, <1>3, <1>4, NoneIsNoRequest DEF ClaimsAreUsed, LocksAreHeld, TypeOK, Handler
<1>13. QED
  BY <1>12, <1>5, <1>6, <1>7, <1>8, <1>9, <1>10, <1>11

\* A registration that found a row and a heartbeat write it the same way.
LEMMA FlushUpdatePreserves ==
  ASSUME Invariant, NEW r \in Requests, session[r].at \in {"register", "heartbeat"},
         session[r].row # None, NEW want \in Row, SpeaksForItsPhone(want),
         want.phone = session[r].row.phone,
         session[r].row.owner = None => want.net = session[r].row.net,
         session[r].row.install # None => want.install # None,
         \/ want.net = session[r].row.net
         \/ networks[want.net] # None
         \/ claim[want.net] = r,
         session[r].at = "register" => want.net = session[r].mac,
         FlushUpdate(r, want)
  PROVE  Invariant'
<1> DEFINE d == session[r].dev
           read == session[r].row
           new == Updated(devices[d], read, want)
<1> USE DEF Invariant
<1>1. session[r] \in Handler /\ d \in Ids /\ read \in Row /\ devices[d] \in Row
  BY DEF FlushUpdate, TypeOK, Handler, HandlerArguments
<1>2. /\ new \in Row /\ SpeaksForItsPhone(new) /\ SameRow(devices[d], new)
      /\ new.net = devices[d].net \/ (new.net = want.net /\ want.net # read.net)
  <2>1. /\ SameRow(read, devices[d]) /\ SpeaksForItsPhone(devices[d])
        /\ SpeaksForItsPhone(read)
    BY <1>1, NoneIsNoRow DEF VersionsAgree
  <2>2. QED
    BY SMTT(40), <1>1, <2>1, UpdatedRow
<1>3. /\ lock[d] \in {None, r} /\ devices[d] # None
      /\ lock' = [lock EXCEPT ![d] = r]
      /\ shadow' = [shadow EXCEPT ![d] = new]
      /\ session' = [session EXCEPT ![r].at = "respond", ![r].row = None]
      /\ UNCHANGED <<networks, devices, claim, nextId, known>>
  BY DEF FlushUpdate, Flush, Writable
<1>4. networks[new.net] # None \/ claim[new.net] = r
  BY <1>1, <1>2, <1>3 DEF NetworksAreClaimed
<1>5. TypeOK'
  BY <1>1, <1>2, <1>3 DEF TypeOK, Handler, At
<1>6. HandlerArguments'
  BY <1>1, <1>3 DEF HandlerArguments, TypeOK, Handler
<1>7. LocksAreHeld'
  BY <1>1, <1>3 DEF LocksAreHeld, TypeOK, Handler
<1>8. IdsAreFresh'
  BY SMTT(40), <1>1, <1>3 DEF IdsAreFresh, Reserving, TypeOK, Handler
<1>9. VersionsAgree'
  BY <1>1, <1>2, <1>3 DEF VersionsAgree, TypeOK, Handler
<1>10. RightRow'
  BY SMTT(40), <1>1, <1>3 DEF RightRow, TypeOK, Handler
<1>11. NetworksAreClaimed'
  BY ZenonT(60), <1>1, <1>2, <1>3, <1>4, NoneIsNoRequest DEF NetworksAreClaimed, TypeOK, Handler
<1>12. ClaimsAreUsed'
  <2>1. ASSUME NEW m \in Macs, claim[m] = r
        PROVE  lock'[d] = r /\ shadow'[d] = new /\ new.net = m /\ new.owner = session[r].user
    <3>1. session[r].at = "register" /\ session[r].mac = m /\ networks[m] = None
      BY <2>1, NoneIsNoRequest DEF LocksAreHeld
    <3>2. want.net = m /\ read.net # m /\ session[r].user = read.owner
      BY <3>1 DEF NetworksAreClaimed, RightRow
    <3>3. devices[d].owner = read.owner /\ devices[d].net # m
      BY <1>1, <1>3, <3>1 DEF VersionsAgree, NetworksAreClaimed, SameRow
    <3>4. new.net = m /\ new.owner = devices[d].owner
      BY <1>1, <3>2 DEF Updated, Row
    <3>5. QED
      BY <1>1, <1>3, <3>2, <3>3, <3>4 DEF TypeOK
  <2>2. ASSUME NEW m \in Macs, claim[m] # None, claim[m] # r
        PROVE  /\ session'[claim[m]] = session[claim[m]]
               /\ session[claim[m]].at \in {"respond", "commit"} =>
                    /\ session[claim[m]].dev # d
                    /\ lock'[session[claim[m]].dev] = lock[session[claim[m]].dev]
                    /\ shadow'[session[claim[m]].dev] = shadow[session[claim[m]].dev]
    <3>1. claim[m] \in Requests
      BY <2>2 DEF TypeOK
    <3>2. session[claim[m]].at \in {"respond", "commit"} => session[claim[m]].dev # d
      BY <1>3, <2>2, <3>1 DEF ClaimsAreUsed
    <3>3. QED
      BY <1>3, <2>2, <3>1, <3>2 DEF TypeOK
  <2>3. session'[r].at = "respond" /\ session'[r].dev = d /\ session'[r].user = session[r].user
    BY <1>1, <1>3 DEF TypeOK, Handler
  <2>4. ASSUME NEW m \in Macs, claim[m] # None,
               session'[claim[m]].at \in {"respond", "commit"}
        PROVE  /\ lock'[session'[claim[m]].dev] = claim[m]
               /\ shadow'[session'[claim[m]].dev] # None
               /\ shadow'[session'[claim[m]].dev].net = m
               /\ shadow'[session'[claim[m]].dev].owner = session'[claim[m]].user
    <3>1. CASE claim[m] = r
      BY <1>2, <2>1, <2>3, <3>1, NoneIsNoRow
    <3>2. CASE claim[m] # r
      BY <2>2, <2>4, <3>2 DEF ClaimsAreUsed
    <3>3. QED
      BY <3>1, <3>2
  <2>5. claim' = claim
    BY <1>3
  <2>6. QED
    BY <2>4, <2>5 DEF ClaimsAreUsed
<1>13. QED
  BY <1>12, <1>5, <1>6, <1>7, <1>8, <1>9, <1>10, <1>11

LEMMA UpdateRegisteredPreserves ==
  ASSUME Invariant, NEW r \in Requests, UpdateRegistered(r)
  PROVE  Invariant'
<1> DEFINE s == session[r]
           want == Rejoined(s.row, s.mac, s.install, s.token)
<1> USE DEF Invariant
<1>1. s.at = "register" /\ s.row # None /\ FlushUpdate(r, want)
  BY DEF UpdateRegistered
<1>2. /\ s.row \in Row /\ SpeaksForItsPhone(s.row) /\ s.row.phone = s.phone
      /\ s.user = s.row.owner /\ (s.user = None => s.row.net = s.mac)
      /\ s.mac \in Macs /\ s.install \in {None, s.phone}
      /\ s.token \in Tokens \cup {NoToken}
      /\ (s.token \in Tokens => Holder[s.token] = s.phone)
      /\ (networks[s.mac] # None \/ claim[s.mac] = r)
  BY <1>1 DEF TypeOK, Handler, HandlerArguments, VersionsAgree, RightRow, NetworksAreClaimed
<1>3. /\ want \in Row /\ SpeaksForItsPhone(want) /\ want.phone = s.row.phone
      /\ want.net = s.mac /\ (s.row.install # None => want.install # None)
  BY <1>2, RejoinedRow
<1>4. QED
  BY <1>1, <1>2, <1>3, FlushUpdatePreserves

LEMMA RecordHeartbeatPreserves ==
  ASSUME Invariant, NEW r \in Requests, RecordHeartbeat(r)
  PROVE  Invariant'
<1> DEFINE s == session[r]
           want == Beaten(s.row, s.mac)
<1> USE DEF Invariant
<1>1. s.at = "heartbeat" /\ FlushUpdate(r, want)
  BY DEF RecordHeartbeat
<1>2. s.row # None /\ s.row \in Row /\ SpeaksForItsPhone(s.row) /\ s.mac \in Macs
  BY <1>1 DEF TypeOK, Handler, HandlerArguments, VersionsAgree
<1>3. /\ want \in Row /\ SpeaksForItsPhone(want) /\ want.phone = s.row.phone
      /\ want.net = s.row.net /\ (s.row.install # None => want.install # None)
  BY <1>2, BeatenRow
<1>4. QED
  BY <1>1, <1>2, <1>3, FlushUpdatePreserves

LEMMA DeleteDevicePreserves ==
  ASSUME Invariant, NEW r \in Requests, DeleteDevice(r)
  PROVE  Invariant'
<1> DEFINE d == session[r].dev
<1> USE DEF Invariant
<1>1. /\ session[r] \in Handler /\ session[r].at = "remove" /\ d \in Ids
      /\ session[r].row # None /\ lock[d] \in {None, r}
  BY DEF DeleteDevice, TypeOK, HandlerArguments, Handler, Writable
<1>2. /\ \/ UNCHANGED <<lock, shadow>>
         \/ lock' = [lock EXCEPT ![d] = r] /\ shadow' = [shadow EXCEPT ![d] = None]
      /\ session' = [session EXCEPT ![r].at = "respond", ![r].row = None]
      /\ UNCHANGED <<networks, devices, claim, nextId, known>>
  BY DEF DeleteDevice, Flush
<1>3. TypeOK'
  BY <1>1, <1>2 DEF TypeOK, Handler, At
<1>4. HandlerArguments'
  BY <1>1, <1>2 DEF HandlerArguments, TypeOK, Handler
<1>5. LocksAreHeld'
  BY <1>1, <1>2 DEF LocksAreHeld, TypeOK, Handler
<1>6. IdsAreFresh'
  BY <1>1, <1>2 DEF IdsAreFresh, Reserving, TypeOK, Handler
<1>7. VersionsAgree'
  BY <1>1, <1>2 DEF VersionsAgree, TypeOK, Handler
<1>8. RightRow'
  BY <1>1, <1>2 DEF RightRow, TypeOK, Handler
<1>9. NetworksAreClaimed'
  BY <1>1, <1>2, NoneIsNoRequest DEF NetworksAreClaimed, TypeOK, Handler
<1>10. ClaimsAreUsed'
  BY <1>1, <1>2, NoneIsNoRequest DEF ClaimsAreUsed, LocksAreHeld, TypeOK, Handler
<1>11. QED
  BY <1>10, <1>3, <1>4, <1>5, <1>6, <1>7, <1>8, <1>9

LEMMA RespondPreserves ==
  ASSUME Invariant, NEW r \in Requests, Respond(r)
  PROVE  Invariant'
<1> USE DEF Invariant
<1>1. /\ session[r] \in Handler /\ session[r].at = "respond" /\ session[r].dev \in Ids
      /\ session' = [session EXCEPT ![r].at = "commit"]
      /\ known' \subseteq known \cup {session[r].dev}
      /\ UNCHANGED <<networks, devices, claim, lock, shadow, nextId>>
  BY DEF Respond, TypeOK, HandlerArguments, Handler
<1>2. TypeOK'
  BY <1>1 DEF TypeOK, Handler, At
<1>3. HandlerArguments'
  BY <1>1 DEF HandlerArguments, TypeOK, Handler
<1>4. LocksAreHeld'
  BY <1>1 DEF LocksAreHeld, TypeOK, Handler
<1>5. IdsAreFresh'
  BY <1>1 DEF IdsAreFresh, Reserving, TypeOK, Handler
<1>6. VersionsAgree'
  BY <1>1 DEF VersionsAgree, TypeOK, Handler
<1>7. RightRow'
  BY <1>1 DEF RightRow, TypeOK, Handler
<1>8. NetworksAreClaimed'
  BY <1>1 DEF NetworksAreClaimed, TypeOK, Handler
<1>9. ClaimsAreUsed'
  BY <1>1, NoneIsNoRequest DEF ClaimsAreUsed, LocksAreHeld, TypeOK, Handler
<1>10. QED
  BY <1>9, <1>2, <1>3, <1>4, <1>5, <1>6, <1>7, <1>8

\* What a transaction flushed becomes what is committed: a request's one row, or
\* the rows of an alert.
LEMMA InstallPreserves ==
  ASSUME Invariant, NEW r \in Requests, session[r].at \in {"commit", "alert"},
         Install(r), Release(r), session' = [session EXCEPT ![r] = Idle],
         known' \subseteq known, nextId' = nextId
  PROVE  Invariant'
<1> USE DEF Invariant
<1>1. /\ session[r] \in Handler
      /\ devices' = [d \in Ids |-> IF lock[d] = r THEN shadow[d] ELSE devices[d]]
      /\ networks' = [m \in Macs |-> IF claim[m] = r THEN session[r].user ELSE networks[m]]
      /\ lock' = [d \in Ids |-> IF lock[d] = r THEN None ELSE lock[d]]
      /\ shadow' = [d \in Ids |-> IF lock[d] = r THEN None ELSE shadow[d]]
      /\ claim' = [m \in Macs |-> IF claim[m] = r THEN None ELSE claim[m]]
      /\ session' = [session EXCEPT ![r] = Idle]
      /\ known' \subseteq known
      /\ nextId' = nextId
  BY DEF Install, Release, TypeOK
<1>0. /\ r # None /\ session'[r] = Idle
      /\ \A q \in Requests \ {r} : session'[q] = session[q]
      /\ \A d \in Ids : lock[d] = r => session[r].dev = d \/ devices[d] # None
      /\ \A m \in Macs : claim[m] = r => session[r].mac = m /\ session[r].user \in Users
  BY <1>1, NoneIsNoRequest DEF LocksAreHeld, TypeOK
<1>2. TypeOK'
  BY <1>1 DEF TypeOK, Handler, At, Idle
<1>3. HandlerArguments'
  BY <1>1 DEF HandlerArguments, TypeOK, Handler, Idle
<1>4. LocksAreHeld'
  <2>1. ASSUME NEW d \in Ids, lock'[d] # None
        PROVE  \/ session'[lock'[d]].at \in {"respond", "commit"} /\ session'[lock'[d]].dev = d
               \/ session'[lock'[d]].at = "alert" /\ devices'[d] # None /\ shadow'[d] # None
    <3>1. lock'[d] = lock[d] /\ lock[d] # r /\ lock[d] \in Requests
      BY <1>1, <2>1 DEF TypeOK
    <3>2. /\ session'[lock[d]] = session[lock[d]]
          /\ devices'[d] = devices[d] /\ shadow'[d] = shadow[d]
      BY <1>1, <3>1 DEF TypeOK
    <3>3. QED
      BY <2>1, <3>1, <3>2 DEF LocksAreHeld
  <2>2. ASSUME NEW m \in Macs, claim'[m] # None
        PROVE  /\ session'[claim'[m]].at \in {"register", "respond", "commit"}
               /\ session'[claim'[m]].mac = m
               /\ session'[claim'[m]].user \in Users
               /\ networks'[m] = None
    <3>1. claim'[m] = claim[m] /\ claim[m] # r /\ claim[m] \in Requests
      BY <1>1, <2>2 DEF TypeOK
    <3>2. session'[claim[m]] = session[claim[m]] /\ networks'[m] = networks[m]
      BY <1>1, <3>1 DEF TypeOK
    <3>3. QED
      BY <2>2, <3>1, <3>2 DEF LocksAreHeld
  <2>3. \A d \in Ids : shadow'[d] # None => lock'[d] # None
    BY <1>1 DEF LocksAreHeld
  <2>4. QED
    BY <2>1, <2>2, <2>3 DEF LocksAreHeld
<1>5. IdsAreFresh'
  <2>1. ASSUME NEW d \in Ids, devices'[d] # None
        PROVE  d < nextId
    <3>1. CASE lock[d] = r
      <4>1. d # None /\ (session[r].dev = d \/ devices[d] # None)
        BY <3>1, <1>0, MaxDevicesIsNat, NoneIsNobody
      <4>2. QED
        BY <4>1 DEF IdsAreFresh
    <3>2. CASE lock[d] # r
      BY <3>2, <2>1, <1>1 DEF IdsAreFresh
    <3>3. QED
      BY <3>1, <3>2
  <2>2. ASSUME NEW q \in Requests, session'[q].dev # None
        PROVE  session'[q].dev < nextId
    BY <1>1, <2>2 DEF IdsAreFresh, TypeOK, Idle
  <2>3. ASSUME NEW q \in Requests, Reserving(q)'
        PROVE  /\ devices'[session'[q].dev] = None
               /\ \A t \in Requests \ {q} : session'[t].dev # session'[q].dev
    <3>1. q # r /\ Reserving(q) /\ session'[q] = session[q]
      BY <1>1, <2>3 DEF Reserving, TypeOK, Idle
    <3>2. session[q].dev \in Ids
      BY <3>1 DEF Reserving, HandlerArguments, TypeOK, Handler
    <3>3. lock[session[q].dev] # r
      BY <3>1, <3>2, NoneIsNoRequest DEF LocksAreHeld, IdsAreFresh
    <3>4. devices'[session[q].dev] = None
      BY <1>1, <3>1, <3>2, <3>3 DEF IdsAreFresh
    <3>5. \A t \in Requests \ {q} : session'[t].dev # session[q].dev
      BY <1>1, <3>1, <3>2, NoneIsNobody DEF IdsAreFresh, TypeOK, Idle
    <3>6. QED
      BY <3>1, <3>4, <3>5
  <2>4. ASSUME NEW d \in Ids, devices'[d] = None, shadow'[d] # None,
               NEW q \in Requests, session'[q].dev = d
        PROVE  q = lock'[d]
    <3>1. lock[d] # r /\ devices[d] = None /\ shadow[d] # None
      BY <1>1, <2>4
    <3>2. q # r
      BY <1>0, <2>4, NoneIsNobody DEF Idle
    <3>3. QED
      BY <1>0, <1>1, <2>4, <3>1, <3>2 DEF IdsAreFresh
  <2>5. QED
    BY <1>1, <2>1, <2>2, <2>3, <2>4 DEF IdsAreFresh
<1>6. VersionsAgree'
  <2>1. ASSUME NEW d \in Ids, devices'[d] # None
        PROVE  SpeaksForItsPhone(devices'[d])
    BY <1>1, <2>1 DEF VersionsAgree
  <2>2. ASSUME NEW d \in Ids, shadow'[d] # None
        PROVE  /\ SpeaksForItsPhone(shadow'[d])
               /\ devices'[d] # None => SameRow(devices'[d], shadow'[d])
    BY <1>1, <2>2 DEF VersionsAgree
  <2>3. ASSUME NEW q \in Requests, session'[q].row # None
        PROVE  /\ SpeaksForItsPhone(session'[q].row)
               /\ devices'[session'[q].dev] # None =>
                    SameRow(session'[q].row, devices'[session'[q].dev])
    <3> DEFINE d == session[q].dev
    <3>1. q # r /\ session'[q] = session[q] /\ session[q].row # None
      BY <1>0, <2>3 DEF Idle
    <3>2. d \in Ids
      BY <3>1, NoneIsNobody DEF HandlerArguments, TypeOK, Handler
    <3>3. SpeaksForItsPhone(session[q].row)
      BY <3>1 DEF VersionsAgree
    <3>4. CASE lock[d] # r
      BY <1>1, <3>1, <3>2, <3>3, <3>4 DEF VersionsAgree
    <3>5. CASE lock[d] = r /\ shadow[d] # None
      <4>1. devices[d] # None
        BY <3>1, <3>2, <3>5 DEF IdsAreFresh
      <4>2. SameRow(session[q].row, devices[d]) /\ SameRow(devices[d], shadow[d])
        BY <3>1, <3>2, <3>5, <4>1 DEF VersionsAgree
      <4>3. SameRow(session[q].row, shadow[d])
        BY <4>2 DEF SameRow
      <4>4. QED
        BY <1>1, <3>1, <3>2, <3>3, <3>5, <4>3
    <3>6. CASE lock[d] = r /\ shadow[d] = None
      BY <1>1, <3>1, <3>2, <3>3, <3>6
    <3>7. QED
      BY <3>4, <3>5, <3>6
  <2>4. QED
    BY <2>1, <2>2, <2>3 DEF VersionsAgree
<1>7. RightRow'
  BY <1>1 DEF RightRow, TypeOK, Handler, Idle
<1>8. NetworksAreClaimed'
  <2>1. ASSUME NEW d \in Ids, devices'[d] # None
        PROVE  networks'[devices'[d].net] # None
    <3>1. devices'[d].net \in Macs
      BY <1>2, <2>1 DEF TypeOK, Row
    <3>2. networks[devices'[d].net] # None \/ claim[devices'[d].net] = r
      BY <1>0, <1>1, <2>1 DEF NetworksAreClaimed
    <3>3. QED
      BY <1>0, <1>1, <3>1, <3>2, NoneIsNobody
  <2>2. ASSUME NEW d \in Ids, shadow'[d] # None
        PROVE  \/ networks'[shadow'[d].net] # None
               \/ lock'[d] # None /\ claim'[shadow'[d].net] = lock'[d]
    <3>1. lock[d] # r /\ lock'[d] = lock[d] /\ shadow'[d] = shadow[d] /\ shadow[d] # None
      BY <1>1, <2>2
    <3>2. shadow[d].net \in Macs
      BY <3>1 DEF TypeOK, Row
    <3>3. \/ networks[shadow[d].net] # None
          \/ lock[d] # None /\ claim[shadow[d].net] = lock[d]
      BY <3>1 DEF NetworksAreClaimed
    <3>4. QED
      BY <1>0, <1>1, <3>1, <3>2, <3>3, NoneIsNobody
  <2>3. ASSUME NEW q \in Requests, session'[q].at = "register"
        PROVE  networks'[session'[q].mac] # None \/ claim'[session'[q].mac] = q
    <3>1. q # r /\ session'[q] = session[q] /\ session[q].at = "register"
      BY <1>0, <2>3 DEF Idle
    <3>2. session[q].mac \in Macs
      BY <3>1 DEF HandlerArguments
    <3>3. networks[session[q].mac] # None \/ claim[session[q].mac] = q
      BY <3>1 DEF NetworksAreClaimed
    <3>4. QED
      BY <1>0, <1>1, <3>1, <3>2, <3>3, NoneIsNobody
  <2>4. ASSUME NEW q \in Requests, session'[q].row # None
        PROVE  networks'[session'[q].row.net] # None
    <3>1. q # r /\ session'[q] = session[q] /\ session[q].row # None
      BY <1>0, <2>4 DEF Idle
    <3>2. session[q].row.net \in Macs
      BY <3>1 DEF TypeOK, Handler, Row
    <3>3. networks[session[q].row.net] # None
      BY <3>1 DEF NetworksAreClaimed
    <3>4. QED
      BY <1>0, <1>1, <3>1, <3>2, <3>3, NoneIsNobody
  <2>5. QED
    BY <2>1, <2>2, <2>3, <2>4 DEF NetworksAreClaimed
<1>9. ClaimsAreUsed'
  <2>1. ASSUME NEW m \in Macs, claim'[m] # None
        PROVE  claim'[m] = claim[m] /\ claim[m] \in Requests \ {r}
    BY <1>1, <2>1 DEF TypeOK
  <2>2. ASSUME NEW d \in Ids, lock[d] # r
        PROVE  lock'[d] = lock[d] /\ shadow'[d] = shadow[d]
    BY <1>1, <2>2
  <2>3. \A q \in Requests : session[q].at \in {"respond", "commit"} => session[q].dev \in Ids
    BY DEF HandlerArguments, TypeOK, Handler
  <2>4. QED
    BY <1>0, <2>1, <2>2, <2>3 DEF ClaimsAreUsed
<1>10. QED
  BY <1>9, <1>2, <1>3, <1>4, <1>5, <1>6, <1>7, <1>8

LEMMA CommitPreserves ==
  ASSUME Invariant, NEW r \in Requests, Commit(r)
  PROVE  Invariant'
<1>1. known' \subseteq known
  BY DEF Commit
<1>2. QED
  BY <1>1, InstallPreserves DEF Commit

\* A heartbeat and a removal start by reading a committed row.
LEMMA ReadRowPreserves ==
  ASSUME Invariant, NEW r \in Requests, session[r].at = "idle", NEW s \in Handler,
         s.at \in {"heartbeat", "remove"}, s.at = "heartbeat" => s.mac \in Macs,
         s.phone = None, s.dev \in Ids, devices[s.dev] # None, s.row = devices[s.dev],
         session' = [session EXCEPT ![r] = s],
         UNCHANGED <<networks, devices, claim, lock, shadow, nextId, known>>
  PROVE  Invariant'
<1> DEFINE d == s.dev
<1> USE DEF Invariant
<1>1. devices[d] \in Row /\ d # None /\ r # None
  BY NoneIsNobody, NoneIsNoRequest, MaxDevicesIsNat DEF TypeOK
<1>2. /\ session'[r] = s
      /\ \A q \in Requests \ {r} : session'[q] = session[q]
      /\ \A e \in Ids : lock[e] # r
      /\ \A m \in Macs : claim[m] # r
  BY <1>1 DEF LocksAreHeld, TypeOK
<1>3. TypeOK'
  BY <1>1 DEF TypeOK
<1>4. HandlerArguments'
  BY <1>1, <1>2 DEF HandlerArguments
<1>5. LocksAreHeld'
  BY <1>1, <1>2 DEF LocksAreHeld, TypeOK
<1>6. IdsAreFresh'
  <2>1. d < nextId /\ ~ Reserving(r)'
    BY <1>1, <1>2 DEF IdsAreFresh, Reserving
  <2>2. \A q \in Requests \ {r} : Reserving(q)' <=> Reserving(q)
    BY <1>2 DEF Reserving
  <2>3. QED
    BY <1>1, <1>2, <2>1, <2>2 DEF IdsAreFresh
<1>7. VersionsAgree'
  BY <1>1, <1>2 DEF VersionsAgree, SameRow
<1>8. RightRow'
  BY <1>1, <1>2 DEF RightRow
<1>9. NetworksAreClaimed'
  BY <1>1, <1>2 DEF NetworksAreClaimed
<1>10. ClaimsAreUsed'
  BY <1>1, <1>2 DEF ClaimsAreUsed, TypeOK
<1>11. QED
  BY <1>10, <1>3, <1>4, <1>5, <1>6, <1>7, <1>8, <1>9

LEMMA HeartbeatPreserves ==
  ASSUME Invariant, NEW r \in Requests, NEW d \in Ids, NEW mac \in Macs,
         Heartbeat(r, d, mac)
  PROVE  Invariant'
<1> DEFINE s == [Idle EXCEPT !.at = "heartbeat", !.dev = d, !.mac = mac, !.row = devices[d]]
<1>1. /\ s.at = "heartbeat" /\ s.mac = mac /\ s.dev = d /\ s.row = devices[d]
      /\ s.user = None /\ s.phone = None /\ s.install = None /\ s.token = None
  BY DEF Idle
<1>2. s \in Handler
  BY DEF Idle, Handler, At, Invariant, TypeOK
<1>3. QED
  BY <1>1, <1>2, ReadRowPreserves DEF Heartbeat

LEMMA RequestRemovalPreserves ==
  ASSUME Invariant, NEW r \in Requests, NEW d \in Ids, NEW user \in Users,
         RequestRemoval(r, user, d)
  PROVE  Invariant'
<1> DEFINE s == [Idle EXCEPT !.at = "remove", !.dev = d, !.user = user, !.row = devices[d]]
<1>1. s.at = "remove" /\ s.dev = d /\ s.row = devices[d] /\ s.phone = None
  BY DEF Idle
<1>2. s \in Handler
  BY DEF Idle, Handler, At, Invariant, TypeOK
<1>3. QED
  BY <1>1, <1>2, ReadRowPreserves DEF RequestRemoval

\* Giving up a transaction leaves every other one as it was.
LEMMA RollbackPreserves ==
  ASSUME Invariant, NEW r \in Requests, Rollback(r)
  PROVE  Invariant'
<1> USE DEF Invariant
<1>1. /\ lock' = [d \in Ids |-> IF lock[d] = r THEN None ELSE lock[d]]
      /\ shadow' = [d \in Ids |-> IF lock[d] = r THEN None ELSE shadow[d]]
      /\ claim' = [m \in Macs |-> IF claim[m] = r THEN None ELSE claim[m]]
      /\ session' = [session EXCEPT ![r] = Idle]
      /\ UNCHANGED <<networks, devices, nextId, known>>
  BY DEF Rollback, Release
<1>2. /\ r # None /\ session'[r] = Idle
      /\ \A q \in Requests \ {r} : session'[q] = session[q]
      /\ Idle.at = "idle" /\ Idle.dev = None /\ Idle.row = None /\ Idle \in Handler
  BY <1>1, NoneIsNoRequest DEF TypeOK, Idle, Handler, At
<1>3. TypeOK'
  BY <1>1, <1>2 DEF TypeOK
<1>4. HandlerArguments'
  BY <1>2 DEF HandlerArguments
<1>5. LocksAreHeld'
  <2>1. \A d \in Ids : lock'[d] # None =>
          lock'[d] = lock[d] /\ lock[d] \in Requests \ {r}
    BY <1>1 DEF TypeOK
  <2>2. \A m \in Macs : claim'[m] # None =>
          claim'[m] = claim[m] /\ claim[m] \in Requests \ {r}
    BY <1>1 DEF TypeOK
  <2>3. QED
    BY <1>1, <1>2, <2>1, <2>2 DEF LocksAreHeld
<1>6. IdsAreFresh'
  <2>1. ~ Reserving(r)' /\ \A q \in Requests \ {r} : Reserving(q)' <=> Reserving(q)
    BY <1>2 DEF Reserving
  <2>2. \A q \in Requests \ {r} : Reserving(q) => session[q].dev # None
    BY DEF Reserving, HandlerArguments
  <2>3. ASSUME NEW d \in Ids, devices[d] = None, shadow'[d] # None,
               NEW q \in Requests, session'[q].dev = d
        PROVE  q = lock'[d]
    <3>1. lock[d] # r /\ shadow[d] # None /\ lock'[d] = lock[d]
      BY <1>1, <2>3
    <3>2. q # r
      BY <1>2, <2>3, NoneIsNobody
    <3>3. QED
      BY <1>2, <2>3, <3>1, <3>2 DEF IdsAreFresh
  <2>4. QED
    BY <1>1, <1>2, <2>1, <2>2, <2>3 DEF IdsAreFresh
<1>7. VersionsAgree'
  BY <1>1, <1>2 DEF VersionsAgree
<1>8. RightRow'
  BY <1>1, <1>2 DEF RightRow
<1>9. NetworksAreClaimed'
  <2>1. ASSUME NEW d \in Ids, shadow'[d] # None
        PROVE  \/ networks[shadow'[d].net] # None
               \/ lock'[d] # None /\ claim'[shadow'[d].net] = lock'[d]
    <3>1. lock[d] # r /\ lock'[d] = lock[d] /\ shadow'[d] = shadow[d] /\ shadow[d] # None
      BY <1>1, <2>1
    <3>2. shadow[d].net \in Macs
      BY <3>1 DEF TypeOK, Row
    <3>3. QED
      BY <1>1, <3>1, <3>2 DEF NetworksAreClaimed
  <2>2. ASSUME NEW q \in Requests, session'[q].at = "register"
        PROVE  networks[session'[q].mac] # None \/ claim'[session'[q].mac] = q
    <3>1. q # r /\ session'[q] = session[q] /\ session[q].at = "register"
      BY <1>2, <2>2
    <3>2. session[q].mac \in Macs
      BY <3>1 DEF HandlerArguments
    <3>3. QED
      BY <1>1, <3>1, <3>2 DEF NetworksAreClaimed
  <2>3. QED
    BY <1>1, <1>2, <2>1, <2>2 DEF NetworksAreClaimed
<1>10. ClaimsAreUsed'
  <2>1. ASSUME NEW m \in Macs, claim'[m] # None
        PROVE  claim'[m] = claim[m] /\ claim[m] \in Requests \ {r}
    BY <1>1, <2>1 DEF TypeOK
  <2>2. ASSUME NEW d \in Ids, lock[d] # r
        PROVE  lock'[d] = lock[d] /\ shadow'[d] = shadow[d]
    BY <1>1, <2>2
  <2>3. \A q \in Requests : session[q].at \in {"respond", "commit"} => session[q].dev \in Ids
    BY DEF HandlerArguments, TypeOK, Handler
  <2>4. QED
    BY <1>2, <2>1, <2>2, <2>3 DEF ClaimsAreUsed
<1>11. QED
  BY <1>10, <1>3, <1>4, <1>5, <1>6, <1>7, <1>8, <1>9

\* A crash gives up every transaction at once.
LEMMA CrashPreserves ==
  ASSUME Invariant, Crash
  PROVE  Invariant'
<1> USE DEF Invariant, Crash
<1>1. \A q \in Requests : session'[q] = Idle
  OBVIOUS
<1>2. Idle.at = "idle" /\ Idle.dev = None /\ Idle.row = None /\ Idle \in Handler
  BY DEF Idle, Handler, At
<1>3. TypeOK'
  BY <1>2 DEF TypeOK
<1>4. HandlerArguments'
  BY <1>1, <1>2 DEF HandlerArguments
<1>5. LocksAreHeld'
  BY DEF LocksAreHeld
<1>6. IdsAreFresh'
  BY <1>1, <1>2 DEF IdsAreFresh, Reserving
<1>7. VersionsAgree' /\ RightRow' /\ NetworksAreClaimed'
  BY <1>1, <1>2 DEF VersionsAgree, RightRow, NetworksAreClaimed
<1>8. ClaimsAreUsed'
  BY DEF ClaimsAreUsed
<1>9. QED
  BY <1>8, <1>3, <1>4, <1>5, <1>6, <1>7

\* A registration that reserves the next id.
LEMMA ReservePreserves ==
  ASSUME Invariant, NEW r \in Requests, session[r].at = "idle", NEW s \in Handler,
         RegistrationArguments(s), s.row = None, s.dev = nextId, nextId \in Ids,
         \/ s.at = "register" /\ networks[s.mac] # None
         \/ s.at = "claim" /\ s.user # None,
         session' = [session EXCEPT ![r] = s], nextId' = nextId + 1,
         UNCHANGED <<networks, devices, claim, lock, shadow, known>>
  PROVE  Invariant'
<1> USE DEF Invariant
<1>1. /\ session'[r] = s
      /\ \A q \in Requests \ {r} : session'[q] = session[q]
      /\ \A e \in Ids : lock[e] # r
      /\ \A m \in Macs : claim[m] # r
      /\ nextId \in Nat /\ nextId # None
  BY NoneIsNobody, NoneIsNoRequest DEF LocksAreHeld, TypeOK
<1>2. TypeOK'
  BY <1>1 DEF TypeOK
<1>3. HandlerArguments'
  BY <1>1, NoneIsNobody DEF HandlerArguments, RegistrationArguments
<1>4. LocksAreHeld'
  BY <1>1 DEF LocksAreHeld, TypeOK
<1>5. IdsAreFresh'
  <2>1. \A d \in Ids : devices[d] # None => d < nextId + 1
    BY <1>1 DEF IdsAreFresh
  <2>2. \A q \in Requests : session'[q].dev # None => session'[q].dev < nextId + 1
    <3>1. ASSUME NEW q \in Requests \ {r}, session[q].dev # None
          PROVE  session[q].dev < nextId + 1
      <4>1. session[q].dev \in Nat
        BY <3>1, MaxDevicesIsNat DEF TypeOK, Handler
      <4>2. QED
        BY <1>1, <3>1, <4>1 DEF IdsAreFresh
    <3>2. QED
      BY <1>1, <3>1
  <2>3. devices[nextId] = None /\ \A q \in Requests \ {r} : session[q].dev # nextId
    BY <1>1 DEF IdsAreFresh
  <2>4. \A q \in Requests \ {r} : Reserving(q)' <=> Reserving(q)
    BY <1>1 DEF Reserving
  <2>5. ASSUME NEW q \in Requests, Reserving(q)'
        PROVE  /\ devices[session'[q].dev] = None
               /\ \A t \in Requests \ {q} : session'[t].dev # session'[q].dev
    BY <1>1, <2>3, <2>4, <2>5 DEF IdsAreFresh
  <2>6. ASSUME NEW d \in Ids, devices[d] = None, shadow[d] # None,
               NEW q \in Requests, session'[q].dev = d
        PROVE  q = lock[d]
    <3>1. lock[d] \in Requests \ {r} /\ session[lock[d]].dev = d
      BY <1>1, <2>6 DEF LocksAreHeld, TypeOK
    <3>2. d # nextId
      BY <2>3, <3>1
    <3>3. QED
      BY <1>1, <2>6, <3>2 DEF IdsAreFresh
  <2>7. QED
    BY <2>1, <2>2, <2>5, <2>6 DEF IdsAreFresh
<1>6. VersionsAgree' /\ RightRow'
  BY <1>1 DEF VersionsAgree, RightRow
<1>7. NetworksAreClaimed'
  BY <1>1 DEF NetworksAreClaimed
<1>8. ClaimsAreUsed'
  BY <1>1 DEF ClaimsAreUsed, TypeOK
<1>9. QED
  BY <1>8, <1>2, <1>3, <1>4, <1>5, <1>6, <1>7

\* A registration that found a row of its own.
LEMMA FoundPreserves ==
  ASSUME Invariant, NEW r \in Requests, session[r].at = "idle", NEW s \in Handler,
         RegistrationArguments(s), s.at = "register", networks[s.mac] # None,
         s.dev \in Ids, devices[s.dev] # None, s.row = devices[s.dev],
         s.row.owner = s.user, s.row.phone = s.phone, s.user = None => s.row.net = s.mac,
         session' = [session EXCEPT ![r] = s],
         UNCHANGED <<networks, devices, claim, lock, shadow, nextId, known>>
  PROVE  Invariant'
<1> USE DEF Invariant
<1>1. /\ session'[r] = s
      /\ \A q \in Requests \ {r} : session'[q] = session[q]
      /\ \A e \in Ids : lock[e] # r
      /\ \A m \in Macs : claim[m] # r
      /\ s.dev # None
  <2>1. s.dev # None
    BY NoneIsNobody, MaxDevicesIsNat
  <2>2. QED
    BY <2>1, NoneIsNoRequest DEF LocksAreHeld, TypeOK
<1>2. TypeOK'
  BY <1>1 DEF TypeOK
<1>3. HandlerArguments'
  BY <1>1 DEF HandlerArguments, RegistrationArguments
<1>4. LocksAreHeld'
  BY <1>1 DEF LocksAreHeld, TypeOK
<1>5. IdsAreFresh'
  <2>1. s.dev < nextId /\ ~ Reserving(r)'
    BY <1>1 DEF IdsAreFresh, Reserving
  <2>2. \A q \in Requests \ {r} : Reserving(q)' <=> Reserving(q)
    BY <1>1 DEF Reserving
  <2>3. QED
    BY <1>1, <2>1, <2>2 DEF IdsAreFresh
<1>6. VersionsAgree'
  BY <1>1 DEF VersionsAgree, SameRow
<1>7. RightRow'
  BY <1>1 DEF RightRow
<1>8. NetworksAreClaimed'
  BY <1>1 DEF NetworksAreClaimed
<1>9. ClaimsAreUsed'
  BY <1>1 DEF ClaimsAreUsed, TypeOK
<1>10. QED
  BY <1>9, <1>2, <1>3, <1>4, <1>5, <1>6, <1>7, <1>8

LEMMA RegisterOnClaimedPreserves ==
  ASSUME Invariant, NEW r \in Requests, NEW user \in Users \cup {None}, NEW mac \in Macs,
         NEW phone \in Phones, NEW install \in {phone, None},
         NEW token \in {t \in Tokens : Holder[t] = phone} \cup {NoToken},
         RegisterOnClaimed(r, user, mac, phone, install, token)
  PROVE  Invariant'
<1> DEFINE found == FindReregistration(devices, user, mac, install, token)
           s == [at |-> "register", user |-> user, mac |-> mac, phone |-> phone,
                 install |-> install, token |-> token,
                 dev |-> IF found = None THEN nextId ELSE found,
                 row |-> IF found = None THEN None ELSE devices[found]]
<1>1. /\ session[r].at = "idle" /\ networks[mac] # None
      /\ found = None => nextId \in Ids
      /\ session' = [session EXCEPT ![r] = s]
      /\ nextId' = IF found = None THEN nextId + 1 ELSE nextId
      /\ UNCHANGED <<networks, devices, claim, lock, shadow, known>>
  BY DEF RegisterOnClaimed, Target
<1>2. RowsSpeak(devices)
  BY DEF Invariant, TypeOK, VersionsAgree, RowsSpeak
<1>3. CASE found = None
  <2>1. s \in Handler /\ RegistrationArguments(s)
    BY <1>1, <1>3, NoTokenIsNoToken DEF Handler, At, RegistrationArguments
  <2>2. QED
    BY <1>1, <1>3, <2>1, ReservePreserves
<1>4. CASE found # None
  <2>1. /\ found \in Ids /\ devices[found] # None
        /\ devices[found].owner = user /\ (user = None => devices[found].net = mac)
        /\ devices[found].phone = phone
    BY <1>2, <1>4, FoundRow
  <2>2. s \in Handler /\ RegistrationArguments(s)
    BY <1>1, <1>2, <1>4, <2>1, NoTokenIsNoToken
       DEF RowsSpeak, Handler, At, RegistrationArguments
  <2>3. QED
    BY <1>1, <1>4, <2>1, <2>2, FoundPreserves
<1>5. QED
  BY <1>3, <1>4

LEMMA RegisterOnUnclaimedPreserves ==
  ASSUME Invariant, NEW r \in Requests, NEW user \in Users \cup {None}, NEW mac \in Macs,
         NEW phone \in Phones, NEW install \in {phone, None},
         NEW token \in {t \in Tokens : Holder[t] = phone} \cup {NoToken},
         RegisterOnUnclaimed(r, user, mac, phone, install, token)
  PROVE  Invariant'
<1> DEFINE s == [at |-> "claim", user |-> user, mac |-> mac, phone |-> phone,
                 install |-> install, token |-> token, dev |-> nextId, row |-> None]
<1>1. nextId \in Ids /\ user # None
  BY DEF RegisterOnUnclaimed
<1>2. s \in Handler /\ RegistrationArguments(s)
  BY <1>1, NoTokenIsNoToken DEF Handler, At, RegistrationArguments
<1>3. QED
  BY <1>1, <1>2, ReservePreserves DEF RegisterOnUnclaimed

LEMMA ClaimNetworkPreserves ==
  ASSUME Invariant, NEW r \in Requests, ClaimNetwork(r)
  PROVE  Invariant'
<1> DEFINE s == session[r]
           found == FindReregistration(devices, s.user, s.mac, s.install, s.token)
           new == [s EXCEPT !.at = "register",
                            !.dev = IF found = None THEN @ ELSE found,
                            !.row = IF found = None THEN None ELSE devices[found]]
<1> USE DEF Invariant
<1>1. /\ s \in Handler /\ s.at = "claim" /\ claim[s.mac] = None /\ networks[s.mac] = None
      /\ claim' = [claim EXCEPT ![s.mac] = r]
      /\ session' = [session EXCEPT ![r] = new]
      /\ UNCHANGED <<networks, devices, lock, shadow, nextId, known>>
  BY DEF ClaimNetwork, TypeOK
<1>2. /\ s.user \in Users /\ s.row = None /\ s.mac \in Macs /\ s.phone \in Phones
      /\ s.install \in {None, s.phone} /\ s.dev \in Ids /\ s.dev # None /\ r # None
      /\ s.token \in {t \in Tokens : Holder[t] = s.phone} \cup {NoToken}
  BY <1>1, NoneIsNoRequest DEF HandlerArguments, Handler
<1>3. found # None => /\ found \in Ids /\ devices[found] # None
                      /\ devices[found].owner = s.user
                      /\ devices[found].phone = s.phone
  <2>1. RowsSpeak(devices)
    BY DEF TypeOK, VersionsAgree, RowsSpeak
  <2>2. QED
    BY SMTT(40), <1>2, <2>1, FoundRow
<1>4. /\ new \in Handler /\ new.at = "register" /\ new.user = s.user /\ new.mac = s.mac
      /\ new.phone = s.phone /\ new.install = s.install /\ new.token = s.token
      /\ new.dev \in Ids /\ new.dev # None
      /\ \/ new.dev = s.dev /\ new.row = None
         \/ new.dev = found /\ new.row = devices[found] /\ found # None
  BY <1>1, <1>2, <1>3, MaxDevicesIsNat, NoneIsNobody DEF Handler, At, TypeOK
<1>5. /\ session'[r] = new
      /\ \A q \in Requests \ {r} : session'[q] = session[q]
      /\ \A e \in Ids : lock[e] # r
  BY <1>1, <1>2 DEF LocksAreHeld, TypeOK
<1>6. new.row # None => new.row = devices[new.dev] /\ devices[new.dev] # None
  BY <1>3, <1>4
<1> HIDE DEF s, new, found
<1>7. TypeOK'
  BY <1>1, <1>2, <1>4 DEF TypeOK
<1>8. HandlerArguments'
  BY <1>2, <1>4, <1>5, NoTokenIsNoToken DEF HandlerArguments
<1>9. LocksAreHeld'
  <2>1. \A d \in Ids : lock[d] # None => lock[d] \in Requests \ {r}
    BY <1>5 DEF TypeOK
  <2>2. ASSUME NEW m \in Macs, claim'[m] # None
        PROVE  /\ session'[claim'[m]].at \in {"register", "respond", "commit"}
               /\ session'[claim'[m]].mac = m
               /\ session'[claim'[m]].user \in Users
               /\ networks[m] = None
    <3>1. CASE m = s.mac
      BY <1>1, <1>2, <1>4, <1>5, <3>1 DEF TypeOK
    <3>2. CASE m # s.mac
      <4>1. claim'[m] = claim[m] /\ claim[m] \in Requests
        BY <1>1, <2>2, <3>2 DEF TypeOK
      <4>2. claim[m] # r
        BY <1>1, <4>1, <2>2 DEF LocksAreHeld, s
      <4>3. QED
        BY <2>2, <1>5, <4>1, <4>2 DEF LocksAreHeld
    <3>3. QED
      BY <3>1, <3>2
  <2>3. QED
    BY <1>1, <1>5, <2>1, <2>2 DEF LocksAreHeld
<1>10. IdsAreFresh'
  <2>1. \A q \in Requests \ {r} : Reserving(q)' <=> Reserving(q)
    BY <1>5 DEF Reserving
  <2>2. Reserving(r)
    BY <1>1, <1>2 DEF Reserving, s
  <2>3. devices[s.dev] = None /\ \A q \in Requests \ {r} : session[q].dev # s.dev
    BY <2>2 DEF IdsAreFresh, s
  <2>4. new.dev = s.dev \/ devices[new.dev] # None
    BY <1>3, <1>4
  <2>5. new.dev < nextId
    BY <1>2, <1>3, <1>4 DEF IdsAreFresh, s
  <2>6. Reserving(r)' => new.dev = s.dev
    BY <1>3, <1>4, <1>5, NoneIsNoRow DEF Reserving, TypeOK
  <2>7. ASSUME NEW d \in Ids, devices[d] = None, shadow[d] # None,
               NEW q \in Requests, session'[q].dev = d
        PROVE  q = lock[d]
    <3>1. session[q].dev = d
      BY <1>5, <2>4, <2>7 DEF s
    <3>2. QED
      BY <2>7, <3>1 DEF IdsAreFresh
  <2>8. ASSUME NEW q \in Requests, Reserving(q)'
        PROVE  /\ devices[session'[q].dev] = None
               /\ \A t \in Requests \ {q} : session'[t].dev # session'[q].dev
    <3>1. CASE q = r
      BY <1>5, <2>3, <2>6, <2>8, <3>1
    <3>2. CASE q # r
      BY <1>5, <2>1, <2>2, <2>4, <2>8, <3>2 DEF IdsAreFresh, s
    <3>3. QED
      BY <3>1, <3>2
  <2>9. QED
    BY <1>1, <1>4, <1>5, <2>5, <2>7, <2>8 DEF IdsAreFresh
<1>11. VersionsAgree'
  BY <1>1, <1>4, <1>5, <1>6, <1>2, NoneIsNobody DEF VersionsAgree, SameRow
<1>12. RightRow'
  BY <1>2, <1>3, <1>4, <1>5, NoneIsNobody DEF RightRow
<1>13. NetworksAreClaimed'
  <2>1. \A m \in Macs : claim[m] # None => claim'[m] = claim[m]
    BY <1>1 DEF TypeOK
  <2>2. ASSUME NEW d \in Ids, shadow[d] # None
        PROVE  \/ networks[shadow[d].net] # None
               \/ lock[d] # None /\ claim'[shadow[d].net] = lock[d]
    <3>1. shadow[d].net \in Macs
      BY <2>2 DEF TypeOK, Row
    <3>2. QED
      BY <2>1, <2>2, <3>1 DEF NetworksAreClaimed
  <2>3. ASSUME NEW q \in Requests, session'[q].at = "register"
        PROVE  networks[session'[q].mac] # None \/ claim'[session'[q].mac] = q
    <3>1. CASE q = r
      BY <1>1, <1>2, <1>4, <1>5, <3>1 DEF TypeOK
    <3>2. CASE q # r
      <4>1. session[q].at = "register" /\ session[q].mac \in Macs
        BY <1>5, <2>3, <3>2 DEF HandlerArguments
      <4>2. q # None
        BY NoneIsNoRequest
      <4>3. QED
        BY <1>5, <2>1, <3>2, <4>1, <4>2 DEF NetworksAreClaimed
    <3>3. QED
      BY <3>1, <3>2
  <2>4. ASSUME NEW q \in Requests, session'[q].row # None
        PROVE  networks[session'[q].row.net] # None
    BY <1>4, <1>5, <1>6, <2>4 DEF NetworksAreClaimed
  <2>5. QED
    BY <1>1, <2>2, <2>3, <2>4 DEF NetworksAreClaimed
<1>14. ClaimsAreUsed'
  BY <1>1, <1>2, <1>4, <1>5 DEF ClaimsAreUsed, TypeOK
<1>15. QED
  BY <1>14, <1>7, <1>8, <1>9, <1>10, <1>11, <1>12, <1>13

LEMMA InvariantNext == Invariant /\ [RegistryNext]_registryVars => Invariant'
<1> SUFFICES ASSUME Invariant, [RegistryNext]_registryVars PROVE Invariant'
  OBVIOUS
<1>1. CASE UNCHANGED registryVars
  BY <1>1 DEF registryVars, Invariant, TypeOK, HandlerArguments, LocksAreHeld, IdsAreFresh,
              Reserving, VersionsAgree, RightRow, NetworksAreClaimed, ClaimsAreUsed
<1>2. CASE Crash
  BY <1>2, CrashPreserves
<1>3. ASSUME NEW r \in Requests, Registration(r)
      PROVE  Invariant'
  BY <1>3, RegisterOnClaimedPreserves, RegisterOnUnclaimedPreserves DEF Registration
<1>4. ASSUME NEW r \in Requests, NEW d \in Ids, NEW mac \in Macs, Heartbeat(r, d, mac)
      PROVE  Invariant'
  BY <1>4, HeartbeatPreserves
<1>5. ASSUME NEW r \in Requests, NEW d \in Ids, NEW user \in Users,
             RequestRemoval(r, user, d)
      PROVE  Invariant'
  BY <1>5, RequestRemovalPreserves
<1>6. ASSUME NEW r \in Requests, Finish(r)
      PROVE  Invariant'
  <2>1. CASE ClaimNetwork(r)
    BY <2>1, ClaimNetworkPreserves
  <2>2. CASE ClaimConflict(r) \/ UpdateMissed(r)
    BY <2>2, RollbackPreserves DEF ClaimConflict, UpdateMissed
  <2>3. CASE InsertDevice(r)
    BY <2>3, InsertDevicePreserves
  <2>4. CASE UpdateRegistered(r)
    BY <2>4, UpdateRegisteredPreserves
  <2>5. CASE RecordHeartbeat(r)
    BY <2>5, RecordHeartbeatPreserves
  <2>6. CASE DeleteDevice(r)
    BY <2>6, DeleteDevicePreserves
  <2>7. CASE Respond(r)
    BY <2>7, RespondPreserves
  <2>8. CASE Commit(r)
    BY <2>8, CommitPreserves
  <2>9. QED
    BY <1>6, <2>1, <2>2, <2>3, <2>4, <2>5, <2>6, <2>7, <2>8 DEF Finish
<1>7. ASSUME NEW r \in Requests, Refuse(r)
      PROVE  Invariant'
  BY <1>7, <1>1 DEF Refuse
<1>8. QED
  BY <1>1, <1>2, <1>3, <1>4, <1>5, <1>6, <1>7 DEF RegistryNext, Serve


-----------------------------------------------------------------------------
(* What holds in every behaviour. *)

\* The facts of DeviceRegistryInv hold in every reachable state.
THEOREM InvariantHolds == RegistrySpec => []Invariant
<1>1. RegistryInit => Invariant
  BY InvariantInit
<1>2. Invariant /\ [RegistryNext]_registryVars => Invariant'
  BY InvariantNext
<1>3. QED
  BY <1>1, <1>2, PTL DEF RegistrySpec

\* Every variable keeps its type.
THEOREM TypeCorrect == RegistrySpec => []TypeOK
<1>1. Invariant => TypeOK
  BY DEF Invariant
<1>2. QED
  BY <1>1, InvariantHolds, PTL

\* A registration never updates another phone's row.
THEOREM RegistrationsStayApart == RegistrySpec => []OnlyOwnRow
<1>1. Invariant => OnlyOwnRow
  <2> SUFFICES ASSUME Invariant, NEW r \in Requests, Registering(r), session[r].row # None
               PROVE  session[r].row.phone = session[r].phone
    BY DEF OnlyOwnRow
  <2>1. session[r].at \in At /\ session[r].phone # None
    BY DEF Registering, Invariant, TypeOK, Handler
  <2>2. session[r].at = "register"
    BY <2>1 DEF At, Invariant, HandlerArguments
  <2>3. QED
    BY <2>2 DEF Invariant, RightRow
<1>2. QED
  BY <1>1, InvariantHolds, PTL

\* Every committed row's network has an account that administers it.
THEOREM EveryRowHasAnAdmin == RegistrySpec => []NoOrphanRow
<1>1. Invariant => NoOrphanRow
  BY DEF Invariant, NetworksAreClaimed, NoOrphanRow
<1>2. QED
  BY <1>1, InvariantHolds, PTL

\* Only a commit changes what is stored.
LEMMA OnlyCommitStores ==
  [RegistryNext]_registryVars =>
    \/ UNCHANGED <<devices, networks>>
    \/ \E r \in Requests : Commit(r)
<1> SUFFICES ASSUME [RegistryNext]_registryVars,
                    ~ \E r \in Requests : Commit(r)
             PROVE  UNCHANGED <<devices, networks>>
  OBVIOUS
<1>1. CASE UNCHANGED registryVars
  BY <1>1 DEF registryVars
<1>2. CASE Crash
  BY <1>2 DEF Crash
<1>3. ASSUME NEW r \in Requests, Registration(r)
      PROVE  UNCHANGED <<devices, networks>>
  BY SMTT(40), <1>3 DEF Registration, RegisterOnClaimed, RegisterOnUnclaimed
<1>4. ASSUME NEW r \in Requests,
             \/ \E d \in Ids, mac \in Macs : Heartbeat(r, d, mac)
             \/ \E d \in Ids, user \in Users : RequestRemoval(r, user, d)
             \/ Refuse(r)
      PROVE  UNCHANGED <<devices, networks>>
  BY <1>4 DEF Heartbeat, RequestRemoval, Refuse, registryVars
<1>5. ASSUME NEW r \in Requests, Finish(r), ~ Commit(r)
      PROVE  UNCHANGED <<devices, networks>>
  BY <1>5 DEF Finish, ClaimNetwork, ClaimConflict, InsertDevice, UpdateRegistered,
              RecordHeartbeat, UpdateMissed, FlushUpdate, DeleteDevice, Respond, Rollback
<1>6. QED
  BY <1>1, <1>2, <1>3, <1>4, <1>5 DEF RegistryNext, Serve

\* A step that leaves a row in place leaves a version of the same row.
LEMMA RowsKeepIdentity ==
  ASSUME Invariant, [RegistryNext]_registryVars,
         NEW d \in Ids, devices[d] # None, devices'[d] # None
  PROVE  SameRow(devices[d], devices'[d])
<1>1. CASE UNCHANGED devices
  BY <1>1 DEF SameRow
<1>2. ASSUME NEW r \in Requests, Commit(r)
      PROVE  SameRow(devices[d], devices'[d])
  BY <1>2 DEF Commit, Install, Invariant, VersionsAgree, SameRow
<1>3. QED
  BY <1>1, <1>2, OnlyCommitStores

\* No update moves a guest to another network.
THEOREM GuestsStayPut == RegistrySpec => GuestStaysPut
<1>1. Invariant /\ [RegistryNext]_registryVars =>
        [\A d \in Ids : devices[d] # None /\ devices'[d] # None =>
           (devices[d].owner = None => devices'[d].net = devices[d].net)]_registryVars
  BY RowsKeepIdentity DEF SameRow
<1>2. QED
  BY <1>1, InvariantHolds, PTL DEF RegistrySpec, GuestStaysPut

\* No update takes a row's install id away or changes it.
THEOREM InstallsAreKept == RegistrySpec => InstallIsKept
<1>1. Invariant /\ [RegistryNext]_registryVars =>
        [\A d \in Ids : devices[d] # None /\ devices'[d] # None =>
           (devices[d].install # None => devices'[d].install = devices[d].install)
        ]_registryVars
  BY RowsKeepIdentity DEF SameRow
<1>2. QED
  BY <1>1, InvariantHolds, PTL DEF RegistrySpec, InstallIsKept

\* Nobody takes a claimed network over.
THEOREM NetworksKeepTheirOwner == RegistrySpec => NetworkKeepsOwner
<1>1. Invariant /\ [RegistryNext]_registryVars =>
        [\A m \in Macs : networks[m] # None => networks'[m] = networks[m]]_registryVars
  <2> SUFFICES ASSUME Invariant, [RegistryNext]_registryVars, NEW m \in Macs,
                      networks[m] # None
               PROVE  networks'[m] = networks[m]
    OBVIOUS
  <2>1. CASE UNCHANGED networks
    BY <2>1
  <2>2. ASSUME NEW r \in Requests, Commit(r)
        PROVE  networks'[m] = networks[m]
    <3>1. claim[m] # r
      BY NoneIsNoRequest DEF Invariant, LocksAreHeld
    <3>2. QED
      BY <2>2, <3>1 DEF Commit, Install
  <2>3. QED
    BY <2>1, <2>2, OnlyCommitStores
<1>2. QED
  BY <1>1, InvariantHolds, PTL DEF RegistrySpec, NetworkKeepsOwner

-----------------------------------------------------------------------------
(* DeviceRegistry implements NetworkMembership.                            *)

LEMMA SeenRow ==
  ASSUME NEW row \in Row
  PROVE  Seen(row) # None /\ Seen(row).owner = row.owner /\ Seen(row).net = row.net
<1>1. row # None
  BY NoneIsNoRow
<1>2. Seen(row) = [owner |-> row.owner, net |-> row.net]
  BY <1>1 DEF Seen
<1>3. row.owner \in Users \cup {None} /\ row.net \in Macs
  BY DEF Row
<1>4. [owner |-> row.owner, net |-> row.net] \in [owner : Users \cup {None}, net : Macs]
  BY <1>3
<1>5. QED
  BY <1>2, <1>4, NoneIsNoMember

\* A commit changes one device and, with it, at most its own network.
LEMMA CommitMaps ==
  ASSUME Invariant, NEW r \in Requests, Commit(r)
  PROVE  [Membership!Next]_<<networks, [d \in Ids |-> Seen(devices[d])]>>
<1> DEFINE d == session[r].dev
           s == session[r]
           new == shadow[d]
           member == [e \in Ids |-> Seen(devices[e])]
<1>1. /\ s.at = "commit" /\ d \in Ids /\ r # None
      /\ devices' = [e \in Ids |-> IF lock[e] = r THEN shadow[e] ELSE devices[e]]
      /\ networks' = [m \in Macs |-> IF claim[m] = r THEN s.user ELSE networks[m]]
  BY NoneIsNoRequest DEF Commit, Install, Invariant, HandlerArguments, TypeOK, Handler
<1>2. \A e \in Ids : lock[e] = r => e = d
  BY <1>1 DEF Invariant, LocksAreHeld
<1>3. \A m \in Macs : claim[m] = r =>
        /\ lock[d] = r /\ new # None /\ new.net = m /\ new.owner = s.user
        /\ networks[m] = None /\ s.user \in Users
  BY <1>1 DEF Invariant, LocksAreHeld, ClaimsAreUsed
<1>4. CASE lock[d] # r
  BY <1>1, <1>2, <1>3, <1>4 DEF Invariant, TypeOK
<1>5. /\ \A e \in Ids : e # d => devices'[e] = devices[e]
      /\ lock[d] = r => devices'[d] = new
      /\ devices' \in [Ids -> Row \cup {None}] /\ devices \in [Ids -> Row \cup {None}]
      /\ networks \in [Macs -> Users \cup {None}]
      /\ new \in Row \cup {None}
  BY <1>1, <1>2 DEF Invariant, TypeOK
<1>6. lock[d] = r /\ new # None =>
        /\ new.net \in Macs /\ new.owner \in Users \cup {None}
        /\ networks' = Membership!AdminsAfter(new.owner, new.net)
        /\ networks[new.net] # None \/ new.owner # None
  <2> SUFFICES ASSUME lock[d] = r, new # None
               PROVE  /\ new.net \in Macs /\ new.owner \in Users \cup {None}
                      /\ networks' = Membership!AdminsAfter(new.owner, new.net)
                      /\ networks[new.net] # None \/ new.owner # None
    OBVIOUS
  <2>1. new.net \in Macs /\ new.owner \in Users \cup {None}
    BY <1>5 DEF Row
  <2>2. networks[new.net] # None \/ claim[new.net] = r
    BY <1>1 DEF Invariant, NetworksAreClaimed
  <2>3. claim[new.net] = r <=> networks[new.net] = None
    BY <2>1, <2>2, <1>3
  <2>4. claim[new.net] = r => s.user = new.owner /\ s.user \in Users
    BY <2>1, <1>3
  <2>5. \A m \in Macs : m # new.net => claim[m] # r
    BY <1>3
  <2>6. networks' = [networks EXCEPT ![new.net] = IF networks[new.net] = None
                                                 THEN new.owner ELSE networks[new.net]]
    BY <1>1, <1>5, <2>1, <2>3, <2>4, <2>5
  <2>7. QED
    BY <2>1, <2>2, <2>4, <2>6, NoneIsNobody DEF Membership!AdminsAfter
<1>7. CASE lock[d] = r /\ new # None /\ devices[d] = None
  <2>1. member[d] = None /\ member' = [member EXCEPT ![d] = Seen(new)]
    BY ZenonT(60), <1>1, <1>5, <1>7 DEF Seen
  <2>2. Seen(new) = [owner |-> new.owner, net |-> new.net]
    BY <1>7 DEF Seen
  <2>3. Membership!Enrol(d, new.owner, new.net)
    BY <1>6, <1>7, <2>1, <2>2 DEF Membership!Enrol
  <2>4. QED
    BY <1>1, <1>6, <1>7, <2>3 DEF Membership!Next
<1>8. CASE lock[d] = r /\ new # None /\ devices[d] # None
  <2>1. SameRow(devices[d], new)
    BY <1>1, <1>8 DEF Invariant, VersionsAgree
  <2>2. /\ Seen(new) = [owner |-> new.owner, net |-> new.net]
        /\ Seen(devices[d]) = [owner |-> devices[d].owner, net |-> devices[d].net]
    BY <1>8 DEF Seen
  <2>3. member[d] = Seen(devices[d]) /\ member' = [member EXCEPT ![d] = Seen(new)]
    BY <1>1, <1>5, <1>8
  <2>4. CASE new.net = devices[d].net
    <3>1. \A m \in Macs : claim[m] # r
      BY <1>1, <1>3, <1>8, <2>4 DEF Invariant, NetworksAreClaimed
    <3>2. networks' = networks
      BY <1>1, <1>5, <3>1
    <3>3. Seen(new) = Seen(devices[d])
      BY <2>1, <2>2, <2>4 DEF SameRow
    <3>4. member' = member
      BY <2>3, <3>3
    <3>5. QED
      BY <3>2, <3>4
  <2>5. CASE new.net # devices[d].net
    <3>1. new.owner = devices[d].owner /\ new.owner # None
      BY <2>1, <2>5 DEF SameRow
    <3>2. member[d] # None /\ member[d].owner = new.owner
      <4>1. devices[d] \in Row
        BY <1>1, <1>5, <1>8
      <4>2. Seen(devices[d]) # None /\ Seen(devices[d]).owner = devices[d].owner
        BY <4>1, SeenRow
      <4>3. QED
        BY <2>3, <3>1, <4>2
    <3>3. Seen(new) = [member[d] EXCEPT !.net = new.net]
      BY <2>2, <2>3, <3>1
    <3>4. member' = [member EXCEPT ![d].net = new.net]
      BY <2>3, <3>3
    <3>5. Membership!Relocate(d, new.net)
      BY <1>6, <1>8, <3>1, <3>2, <3>4 DEF Membership!Relocate
    <3>6. QED
      BY <1>1, <1>6, <1>8, <3>5 DEF Membership!Next
  <2>6. QED
    BY <2>4, <2>5
<1>9. CASE lock[d] = r /\ new = None
  <2>1. networks' = networks
    BY <1>1, <1>3, <1>5, <1>9
  <2>2. member[d] = Seen(devices[d]) /\ member' = [member EXCEPT ![d] = None]
    BY ZenonT(60), <1>1, <1>5, <1>9 DEF Seen
  <2>3. CASE devices[d] = None
    <3>1. member' = member
      BY <2>2, <2>3 DEF Seen
    <3>2. QED
      BY <2>1, <3>1
  <2>4. CASE devices[d] # None
    <3>1. member[d] # None
      BY <1>1, <1>5, <2>2, <2>4, SeenRow
    <3>2. Membership!Expel(d)
      BY <2>1, <2>2, <3>1 DEF Membership!Expel
    <3>3. QED
      BY <1>1, <3>2 DEF Membership!Next
  <2>5. QED
    BY <2>3, <2>4
<1>10. QED
  BY <1>4, <1>7, <1>8, <1>9

\* What is committed changes only as NetworkMembership allows.
THEOREM RegistryImplementsMembership == RegistrySpec => ImplementsMembership
<1>1. RegistryInit => Membership!Init
  BY DEF RegistryInit, Membership!Init, Seen
<1>2. Invariant /\ [RegistryNext]_registryVars => [Membership!Next]_(Membership!vars)
  <2> SUFFICES ASSUME Invariant, [RegistryNext]_registryVars
               PROVE  [Membership!Next]_(Membership!vars)
    OBVIOUS
  <2>1. CASE UNCHANGED <<devices, networks>>
    BY <2>1 DEF Membership!vars
  <2>2. ASSUME NEW r \in Requests, Commit(r)
        PROVE  [Membership!Next]_(Membership!vars)
    BY <2>2, CommitMaps DEF Membership!vars
  <2>3. QED
    BY <2>1, <2>2, OnlyCommitStores
<1>3. QED
  BY <1>1, <1>2, InvariantHolds, PTL DEF RegistrySpec, ImplementsMembership, Membership!Spec
-----------------------------------------------------------------------------
(* Handlers that do not overlap: DisjointInvariant is inductive.           *)

\* A locked row is its holder's alone, from the flush to the commit.
LEMMA LockedAlone ==
  ASSUME Invariant, Disjoint, OneOfThree, NEW d \in Ids, lock[d] # None
  PROVE  /\ lock[d] \in Requests
         /\ session[lock[d]].at \in {"respond", "commit"}
         /\ session[lock[d]].dev = d
         /\ \A q \in Requests \ {lock[d]} : session[q].dev # d
<1>1. lock[d] \in Requests /\ d # None
  BY NoneIsNobody, MaxDevicesIsNat DEF Invariant, TypeOK
<1>2. session[lock[d]].at \in {"respond", "commit"} /\ session[lock[d]].dev = d
  BY <1>1 DEF Invariant, LocksAreHeld, OneOfThree
<1>3. ASSUME NEW q \in Requests \ {lock[d]}
      PROVE  session[q].dev # d
  <2>1. CASE session[q].at = "idle"
    BY <1>1, <2>1 DEF Invariant, HandlerArguments
  <2>2. CASE session[q].at # "idle"
    BY <1>1, <1>2, <2>2 DEF Disjoint
  <2>3. QED
    BY <2>1, <2>2
<1>4. QED
  BY <1>1, <1>2, <1>3

\* An UPDATE built from the committed row writes what the handler wants.
LEMMA CurrentUpdate ==
  ASSUME NEW read \in Row, NEW want \in Row,
         want.owner = read.owner, want.phone = read.phone
  PROVE  Updated(read, read, want) = want
BY DEF Updated, Row

\* A registration with an install id finds the one row of its account, or of
\* its network's guests, that carries it.
LEMMA FoundIsOnly ==
  ASSUME RowsSpeak(devices), OneRowPerInstall,
         NEW user \in Users \cup {None}, NEW mac \in Macs, NEW install \in Phones,
         install # None, NEW token,
         NEW e \in Ids, e # FindReregistration(devices, user, mac, install, token),
         devices[e] # None, devices[e].owner = user, user = None => devices[e].net = mac
  PROVE  devices[e].install # install
<1> SUFFICES ASSUME devices[e].install = install PROVE FALSE
  OBVIOUS
<1> DEFINE byInstall == {d \in OfOwner(devices, user) :
                           /\ devices[d].install = install
                           /\ user = None => devices[d].net = mac}
           found == FindReregistration(devices, user, mac, install, token)
<1>1. /\ OfOwner(devices, user) \in SUBSET Ids
      /\ \A d \in OfOwner(devices, user) : devices[d] # None /\ devices[d].owner = user
      /\ e \in OfOwner(devices, user)
  BY DEF RowsSpeak, OfOwner
<1>2. e \in byInstall /\ byInstall \in SUBSET Ids
  BY <1>1
<1>3. found = FindByInstall(devices, user, mac, install, token)
  BY DEF FindReregistration
<1>4. found = Newest(byInstall)
  BY <1>2, <1>3 DEF FindByInstall
<1>5. found \in byInstall
  BY <1>2, <1>4, NewestIsOne
<1>6. found \in Ids /\ devices[found] # None /\ devices[found].owner = user
      /\ devices[found].install = install /\ (user = None => devices[found].net = mac)
  BY <1>1, <1>5
<1>7. found # e
  OBVIOUS
<1> HIDE DEF found
<1>8. QED
  BY <1>6, <1>7 DEF OneRowPerInstall

\* A request that starts, goes on or ends and holds no locked row.
LEMMA TurnKeeps ==
  ASSUME DisjointInvariant, Invariant', Disjoint', NEW r \in Requests, NEW s \in Handler,
         session' = [session EXCEPT ![r] = s], UNCHANGED <<devices, networks>>,
         \A d \in Ids : lock'[d] # None =>
           lock'[d] = lock[d] /\ lock[d] # r /\ shadow'[d] = shadow[d],
         s.at \notin {"alert", "commit"},
         s.at = "heartbeat" => s.user = None,
         s.at = "remove" => s.user \in Users /\ networks[devices[s.dev].net] = s.user,
         s.at = "respond" => devices[s.dev] = None /\ s.phone = None,
         s.row # None => devices[s.dev] = s.row,
         s.at # "idle" /\ s.phone # None => s.install \in {None, s.phone},
         s.at = "register" /\ s.phone # None /\ s.install # None =>
           \A e \in Ids \ {s.dev} :
             /\ devices[e] # None /\ devices[e].owner = s.user
             /\ s.user = None => devices[e].net = s.mac
             => devices[e].install # s.install
  PROVE  DisjointInvariant'
<1> USE DEF DisjointInvariant
<1>1. session'[r] = s /\ \A q \in Requests \ {r} : session'[q] = session[q]
  BY DEF Invariant, TypeOK
<1>2. OneOfThree' /\ InstallIsOwn'
  BY <1>1 DEF OneOfThree, InstallIsOwn, Registering
<1>3. ReadsAreCurrent'
  BY <1>1 DEF ReadsAreCurrent
<1>4. FlushedAsAsked'
  <2>1. ASSUME NEW d \in Ids, lock'[d] # None
        PROVE  /\ lock'[d] = lock[d] /\ shadow'[d] = shadow[d] /\ devices'[d] = devices[d]
               /\ session'[lock[d]] = session[lock[d]]
    BY <1>1, <2>1 DEF Invariant, TypeOK
  <2>2. QED
    BY <2>1 DEF FlushedAsAsked, Registering, Beating, Removing
<1>5. AdminsStay'
  BY <1>1 DEF AdminsStay, Removing
<1>6. TargetsAreUnique'
  BY <1>1 DEF TargetsAreUnique, Registering
<1>7. OneRowPerInstall'
  BY DEF OneRowPerInstall
<1>8. QED
  BY <1>2, <1>3, <1>4, <1>5, <1>6, <1>7

\* The flush of an INSERT, an UPDATE or a DELETE.
LEMMA FlushKeeps ==
  ASSUME DisjointInvariant, Invariant', Disjoint', NEW r \in Requests, NEW d \in Ids,
         session[r].dev = d, session[r].at \in {"register", "heartbeat", "remove"},
         session[r].at = "register" <=> Registering(r), NEW new,
         lock' = [lock EXCEPT ![d] = r], shadow' = [shadow EXCEPT ![d] = new],
         \/ session' = [session EXCEPT ![r].at = "respond", ![r].row = None]
         \/ session' = [session EXCEPT ![r].at = "respond"] /\ session[r].row = None,
         UNCHANGED <<devices, networks>>,
         Registering(r) =>
           /\ new # None
           /\ new.owner = session[r].user /\ new.net = session[r].mac
           /\ new.phone = session[r].phone
           /\ new.token = session[r].token /\ new.status = "ONLINE"
           /\ \/ new.install = session[r].install
              \/ session[r].install = None /\ devices[d] # None /\ SameRow(devices[d], new)
                   /\ new.install = devices[d].install,
         Beating(r) =>
           /\ devices[d] # None /\ new # None
           /\ new.owner = devices[d].owner /\ new.net = devices[d].net
           /\ new.install = devices[d].install
           /\ new.status = IF session[r].mac = new.net THEN "ONLINE" ELSE "UNKNOWN",
         Removing(r) => new = None
  PROVE  DisjointInvariant'
<1> USE DEF DisjointInvariant
<1>1. /\ session'[r].at = "respond" /\ session'[r].row = None /\ session'[r].dev = d
      /\ session'[r].user = session[r].user /\ session'[r].mac = session[r].mac
      /\ session'[r].phone = session[r].phone /\ session'[r].install = session[r].install
      /\ session'[r].token = session[r].token
      /\ \A q \in Requests \ {r} : session'[q] = session[q]
  BY DEF Invariant, TypeOK, Handler
<1>2. OneOfThree' /\ InstallIsOwn'
  BY <1>1 DEF OneOfThree, InstallIsOwn, Registering
<1>3. ReadsAreCurrent'
  BY <1>1 DEF ReadsAreCurrent
<1>4. FlushedAsAsked'
  <2>1. ASSUME NEW e \in Ids, e # d, lock'[e] # None
        PROVE  /\ lock'[e] = lock[e] /\ shadow'[e] = shadow[e] /\ devices'[e] = devices[e]
               /\ session'[lock[e]] = session[lock[e]]
    <3>1. lock'[e] = lock[e] /\ shadow'[e] = shadow[e] /\ devices'[e] = devices[e]
      BY <2>1 DEF Invariant, TypeOK
    <3>2. lock[e] \in Requests \ {r}
      BY <2>1, <3>1, LockedAlone
    <3>3. QED
      BY <1>1, <3>1, <3>2
  <2>2. lock'[d] = r /\ shadow'[d] = new /\ devices'[d] = devices[d]
    BY DEF Invariant, TypeOK
  <2>3. /\ Registering(r)' <=> Registering(r)
        /\ Beating(r)' <=> Beating(r)
        /\ Removing(r)' <=> Removing(r)
    BY <1>1 DEF Registering, Beating, Removing
  <2>4. ASSUME NEW e \in Ids, e # d, lock'[e] # None
        PROVE  /\ Registering(lock[e])' <=> Registering(lock[e])
               /\ Beating(lock[e])' <=> Beating(lock[e])
               /\ Removing(lock[e])' <=> Removing(lock[e])
    BY <2>1, <2>4 DEF Registering, Beating, Removing
  <2>5. ASSUME NEW e \in Ids, lock'[e] # None
        PROVE  LET s == session'[lock'[e]]
                   now == shadow'[e]
                   old == devices'[e]
               IN  /\ Registering(lock[e])' =>
                        /\ now # None
                        /\ now.owner = s.user /\ now.net = s.mac /\ now.phone = s.phone
                        /\ now.token = s.token /\ now.status = "ONLINE"
                        /\ \/ now.install = s.install
                           \/ s.install = None /\ old # None /\ SameRow(old, now)
                                               /\ now.install = old.install
                   /\ Beating(lock[e])' =>
                        /\ old # None /\ now # None
                        /\ now.owner = old.owner /\ now.net = old.net
                        /\ now.install = old.install
                        /\ now.status = IF s.mac = now.net THEN "ONLINE" ELSE "UNKNOWN"
                   /\ Removing(lock[e])' => now = None
    <3>1. CASE e = d
      BY <1>1, <2>2, <2>3, <3>1
    <3>2. CASE e # d
      BY <2>1, <2>4, <2>5, <3>2 DEF FlushedAsAsked
    <3>3. QED
      BY <3>1, <3>2
  <2>6. QED
    BY <2>5 DEF FlushedAsAsked
<1>5. AdminsStay'
  <2>1. session[r].at # "register" /\ Removing(r)' => session[r].at = "remove" /\ Removing(r)
    BY <1>1 DEF Removing, OneOfThree
  <2>2. session[r].at = "register" => ~ Removing(r)'
    BY <1>1 DEF Removing, Registering
  <2>3. QED
    BY <1>1, <2>1, <2>2 DEF AdminsStay, Removing
<1>6. TargetsAreUnique'
  BY <1>1 DEF TargetsAreUnique, Registering
<1>7. OneRowPerInstall'
  BY DEF OneRowPerInstall
<1>8. QED
  BY <1>2, <1>3, <1>4, <1>5, <1>6, <1>7
\* What a request of its own has committed is on no other request's row, so it
\* falsifies nothing they have read; and it is the only row of its install.
LEMMA CommitKeeps ==
  ASSUME DisjointInvariant, Invariant', Disjoint', NEW r \in Requests, Commit(r)
  PROVE  DisjointInvariant'
<1> DEFINE d == session[r].dev
           new == shadow[d]
<1> USE DEF DisjointInvariant
<1>1. /\ session[r].at = "commit" /\ d \in Ids /\ r # None
      /\ session'[r] = Idle /\ \A q \in Requests \ {r} : session'[q] = session[q]
      /\ devices' = [e \in Ids |-> IF lock[e] = r THEN shadow[e] ELSE devices[e]]
      /\ networks' = [m \in Macs |-> IF claim[m] = r THEN session[r].user ELSE networks[m]]
      /\ lock' = [e \in Ids |-> IF lock[e] = r THEN None ELSE lock[e]]
      /\ shadow' = [e \in Ids |-> IF lock[e] = r THEN None ELSE shadow[e]]
  BY NoneIsNoRequest
     DEF Commit, Install, Release, Invariant, HandlerArguments, TypeOK, Handler
<1>2. /\ \A e \in Ids : e # d => devices'[e] = devices[e]
      /\ devices'[d] = IF lock[d] = r THEN new ELSE devices[d]
      /\ \A m \in Macs : networks[m] # None => networks'[m] = networks[m]
  <2>1. \A e \in Ids : lock[e] = r => e = d
    BY <1>1, LockedAlone
  <2>2. \A m \in Macs : networks[m] # None => claim[m] # r
    BY <1>1 DEF Invariant, LocksAreHeld
  <2>3. QED
    BY <1>1, <2>1, <2>2
<1>3. \A q \in Requests \ {r} : session[q].at # "idle" =>
        /\ session[q].dev \in Ids \ {d}
        /\ session[q].phone = None \/ session[q].phone # session[r].phone
  <2>1. ASSUME NEW q \in Requests \ {r}, session[q].at # "idle"
        PROVE  session[q].dev \in Ids \ {d}
    BY <1>1, <2>1 DEF Invariant, TypeOK, Handler, HandlerArguments, OneOfThree, Disjoint
  <2>2. QED
    BY <1>1, <2>1 DEF Disjoint
<1>4. Idle.at = "idle" /\ Idle.row = None /\ Idle.phone = None
  BY DEF Idle
<1>5. OneOfThree' /\ InstallIsOwn'
  BY <1>1, <1>4 DEF OneOfThree, InstallIsOwn, Registering
<1>6. ReadsAreCurrent'
  <2>1. ASSUME NEW q \in Requests, session'[q].row # None
        PROVE  devices'[session'[q].dev] = session'[q].row
    <3>1. q # r /\ session'[q] = session[q] /\ session[q].row # None
      BY <1>1, <1>4, <2>1
    <3>2. session[q].at # "idle"
      BY <3>1 DEF Invariant, HandlerArguments
    <3>3. QED
      BY <1>2, <1>3, <3>1, <3>2 DEF ReadsAreCurrent
  <2>2. QED
    BY <2>1 DEF ReadsAreCurrent
<1>7. FlushedAsAsked'
  <2>1. ASSUME NEW e \in Ids, lock'[e] # None
        PROVE  /\ lock'[e] = lock[e] /\ shadow'[e] = shadow[e] /\ devices'[e] = devices[e]
               /\ session'[lock[e]] = session[lock[e]]
    <3>1. lock'[e] = lock[e] /\ shadow'[e] = shadow[e] /\ lock[e] # r
      BY <1>1, <2>1
    <3>2. lock[e] \in Requests
      BY <2>1, <3>1, LockedAlone
    <3>3. QED
      BY <1>1, <3>1, <3>2
  <2>2. QED
    BY <2>1 DEF FlushedAsAsked, Registering, Beating, Removing
<1>8. AdminsStay'
  <2>1. ASSUME NEW q \in Requests, session'[q].at \in {"remove", "respond", "commit"},
               Removing(q)', devices'[session'[q].dev] # None
        PROVE  networks'[devices'[session'[q].dev].net] = session'[q].user
    <3>1. q # r /\ session'[q] = session[q] /\ Removing(q) /\ session[q].at # "idle"
      BY <1>1, <1>4, <2>1 DEF Removing
    <3>2. session[q].dev \in Ids /\ devices'[session[q].dev] = devices[session[q].dev]
      BY <1>2, <1>3, <3>1
    <3>3. /\ networks[devices[session[q].dev].net] = session[q].user
          /\ networks[devices[session[q].dev].net] # None
          /\ devices[session[q].dev].net \in Macs
      BY <2>1, <3>1, <3>2
         DEF AdminsStay, Invariant, NetworksAreClaimed, TypeOK, Row
    <3>4. QED
      BY <1>2, <3>1, <3>2, <3>3
  <2>2. QED
    BY <2>1 DEF AdminsStay
<1>9. CASE lock[d] # r
  <2>1. devices' = devices
    BY <1>1, <1>2, <1>9 DEF Invariant, TypeOK
  <2>2. TargetsAreUnique'
    BY <1>1, <1>4, <2>1 DEF TargetsAreUnique, Registering
  <2>3. OneRowPerInstall'
    BY <2>1 DEF OneRowPerInstall
  <2>4. QED
    BY <1>5, <1>6, <1>7, <1>8, <2>2, <2>3
<1>10. CASE lock[d] = r
  <2>1. /\ devices'[d] = new
        /\ new # None =>
             \/ /\ Registering(r)
                /\ new.owner = session[r].user /\ new.net = session[r].mac
                /\ new.install = session[r].install /\ session[r].install # None
             \/ new.install = None
             \/ /\ devices[d] # None
                /\ new.owner = devices[d].owner /\ new.install = devices[d].install
                /\ devices[d].owner = None => new.net = devices[d].net
    <3>1. devices'[d] = new
      BY <1>2, <1>10
    <3>2. CASE Registering(r)
      BY <1>1, <1>10, <3>1, <3>2 DEF FlushedAsAsked, SameRow
    <3>3. CASE Beating(r)
      BY <1>1, <1>10, <3>1, <3>3 DEF FlushedAsAsked
    <3>4. Removing(r) => new = None
      BY <1>1, <1>10 DEF FlushedAsAsked
    <3>5. QED
      BY <1>1, <3>1, <3>2, <3>3, <3>4 DEF Registering, Beating, Removing
  <2>2. TargetsAreUnique'
    <3>1. ASSUME NEW q \in Requests, session'[q].at \in {"register", "respond", "commit"},
                 Registering(q)', session'[q].install # None,
                 NEW e \in Ids \ {session'[q].dev}, devices'[e] # None,
                 devices'[e].owner = session'[q].user,
                 session'[q].user = None => devices'[e].net = session'[q].mac
          PROVE  devices'[e].install # session'[q].install
      <4>1. q # r /\ session'[q] = session[q] /\ Registering(q) /\ session[q].at # "idle"
        BY <1>1, <1>4, <3>1 DEF Registering
      <4>2. CASE e # d
        BY <1>2, <3>1, <4>1, <4>2 DEF TargetsAreUnique
      <4>3. CASE e = d
        <5>1. new # None /\ devices'[d] = new
          BY <2>1, <3>1, <4>3
        <5>2. /\ session[q].phone # session[r].phone /\ session[q].phone # None
              /\ session[q].install = session[q].phone
          BY <1>3, <3>1, <4>1 DEF Registering, InstallIsOwn
        <5>3. CASE /\ Registering(r)
                   /\ new.install = session[r].install /\ session[r].install # None
          BY <1>1, <4>3, <5>1, <5>2, <5>3 DEF InstallIsOwn
        <5>4. CASE new.install = None
          BY <3>1, <4>3, <5>1, <5>4
        <5>5. CASE /\ devices[d] # None
                   /\ new.owner = devices[d].owner /\ new.install = devices[d].install
                   /\ devices[d].owner = None => new.net = devices[d].net
          BY <1>1, <1>3, <3>1, <4>1, <4>3, <5>1, <5>5 DEF TargetsAreUnique
        <5>6. QED
          BY <2>1, <5>1, <5>3, <5>4, <5>5
      <4>4. QED
        BY <4>2, <4>3
    <3>2. QED
      BY <3>1 DEF TargetsAreUnique
  <2>3. OneRowPerInstall'
    <3>1. ASSUME NEW e \in Ids \ {d}, devices'[d] # None, devices'[e] # None,
                 devices'[d].owner = devices'[e].owner,
                 devices'[d].owner = None => devices'[d].net = devices'[e].net,
                 devices'[d].install # None
          PROVE  devices'[d].install # devices'[e].install
      <4>1. new # None /\ devices'[d] = new /\ devices'[e] = devices[e]
        BY <1>2, <2>1, <3>1
      <4>2. CASE /\ Registering(r)
                 /\ new.owner = session[r].user /\ new.net = session[r].mac
                 /\ new.install = session[r].install /\ session[r].install # None
        BY <1>1, <3>1, <4>1, <4>2 DEF TargetsAreUnique
      <4>3. CASE /\ devices[d] # None
                 /\ new.owner = devices[d].owner /\ new.install = devices[d].install
                 /\ devices[d].owner = None => new.net = devices[d].net
        BY <1>1, <3>1, <4>1, <4>3 DEF OneRowPerInstall
      <4>4. QED
        BY <2>1, <3>1, <4>1, <4>2, <4>3
    <3>2. ASSUME NEW e \in Ids \ {d}, NEW f \in Ids \ {d}, e # f,
                 devices'[e] # None, devices'[f] # None,
                 devices'[e].owner = devices'[f].owner,
                 devices'[e].owner = None => devices'[e].net = devices'[f].net
          PROVE  devices'[e].install = None \/ devices'[e].install # devices'[f].install
      BY <1>2, <3>2 DEF OneRowPerInstall
    <3>3. QED
      BY <3>1, <3>2 DEF OneRowPerInstall
  <2>4. QED
    BY <1>5, <1>6, <1>7, <1>8, <2>2, <2>3
<1>11. QED
  BY <1>9, <1>10
\* The registration's search, whichever request state it runs in.
LEMMA FoundTargetKeeps ==
  ASSUME DisjointInvariant, Invariant', Disjoint', NEW r \in Requests, NEW s \in Handler,
         session[r].at \in {"idle", "claim"},
         RegistrationArguments(s), s.at = "register",
         LET found == FindReregistration(devices, s.user, s.mac, s.install, s.token)
         IN  IF found = None THEN s.row = None
             ELSE s.dev = found /\ s.row = devices[found],
         session' = [session EXCEPT ![r] = s],
         UNCHANGED <<devices, networks, lock, shadow>>
  PROVE  DisjointInvariant'
<1> DEFINE found == FindReregistration(devices, s.user, s.mac, s.install, s.token)
<1> USE DEF DisjointInvariant
<1>1. \A d \in Ids : lock[d] # None => lock[d] # r
  BY LockedAlone
<1>2. s.row # None => devices[s.dev] = s.row
  OBVIOUS
<1>3. RowsSpeak(devices)
  BY DEF Invariant, TypeOK, VersionsAgree, RowsSpeak
<1>4. ASSUME s.install # None,
             NEW e \in Ids \ {s.dev}, devices[e] # None, devices[e].owner = s.user,
             s.user = None => devices[e].net = s.mac
      PROVE  devices[e].install # s.install
  <2>1. s.install \in Phones /\ s.user \in Users \cup {None} /\ s.mac \in Macs
    BY <1>4 DEF RegistrationArguments
  <2>2. e # found
    BY <1>4, NoneIsNobody, MaxDevicesIsNat
  <2>3. QED
    BY <1>3, <1>4, <2>1, <2>2, FoundIsOnly
<1>5. s.install \in {None, s.phone}
  BY DEF RegistrationArguments
<1> HIDE DEF DisjointInvariant
<1>6. QED
  BY <1>1, <1>2, <1>4, <1>5, TurnKeeps

LEMMA RegistrationKeeps ==
  ASSUME DisjointInvariant, Invariant', Disjoint', NEW r \in Requests, Registration(r)
  PROVE  DisjointInvariant'
<1>1. PICK user \in Users \cup {None}, mac \in Macs, phone \in Phones :
        \E install \in {phone, None},
           token \in {t \in Tokens : Holder[t] = phone} \cup {NoToken} :
          \/ RegisterOnClaimed(r, user, mac, phone, install, token)
          \/ RegisterOnUnclaimed(r, user, mac, phone, install, token)
  BY DEF Registration
<1>2. PICK install \in {phone, None},
           token \in {t \in Tokens : Holder[t] = phone} \cup {NoToken} :
          \/ RegisterOnClaimed(r, user, mac, phone, install, token)
          \/ RegisterOnUnclaimed(r, user, mac, phone, install, token)
  BY <1>1
<1>3. CASE RegisterOnClaimed(r, user, mac, phone, install, token)
  <2> DEFINE found == FindReregistration(devices, user, mac, install, token)
             s == [at |-> "register", user |-> user, mac |-> mac, phone |-> phone,
                   install |-> install, token |-> token,
                   dev |-> IF found = None THEN nextId ELSE found,
                   row |-> IF found = None THEN None ELSE devices[found]]
  <2>1. /\ session[r].at = "idle"
        /\ found = None => nextId \in Ids
        /\ session' = [session EXCEPT ![r] = s]
        /\ UNCHANGED <<devices, networks, lock, shadow>>
    BY <1>3 DEF RegisterOnClaimed, Target
  <2>2. RegistrationArguments(s)
    BY NoTokenIsNoToken DEF RegistrationArguments
  <2>3. s \in Handler
    <3>1. session'[r] = s /\ session' \in [Requests -> Handler]
      BY <2>1 DEF DisjointInvariant, Invariant, TypeOK
    <3>2. QED
      BY <3>1
  <2>4. /\ s.at = "register" /\ s.user = user /\ s.mac = mac
        /\ s.install = install /\ s.token = token
        /\ IF found = None THEN s.row = None ELSE s.dev = found /\ s.row = devices[found]
    OBVIOUS
  <2> HIDE DEF s
  <2>5. QED
    BY <2>1, <2>2, <2>3, <2>4, FoundTargetKeeps
<1>4. CASE RegisterOnUnclaimed(r, user, mac, phone, install, token)
  <2> DEFINE s == [at |-> "claim", user |-> user, mac |-> mac, phone |-> phone,
                   install |-> install, token |-> token, dev |-> nextId, row |-> None]
  <2>1. /\ session[r].at = "idle"
        /\ session' = [session EXCEPT ![r] = s]
        /\ UNCHANGED <<devices, networks, lock, shadow>>
    BY <1>4 DEF RegisterOnUnclaimed
  <2>2. session'[r] = s /\ s \in Handler
    <3>1. session'[r] = s /\ session' \in [Requests -> Handler]
      BY <2>1 DEF DisjointInvariant, Invariant, TypeOK
    <3>2. QED
      BY <3>1
  <2>3. \A d \in Ids : lock[d] # None => lock[d] # r
    BY <2>1, LockedAlone DEF DisjointInvariant
  <2>4. s.at = "claim" /\ s.row = None /\ s.install \in {None, s.phone}
    OBVIOUS
  <2> HIDE DEF s
  <2>5. QED
    BY <2>1, <2>2, <2>3, <2>4, TurnKeeps
<1>5. QED
  BY <1>2, <1>3, <1>4

LEMMA ClaimNetworkKeeps ==
  ASSUME DisjointInvariant, Invariant', Disjoint', NEW r \in Requests, ClaimNetwork(r)
  PROVE  DisjointInvariant'
<1> DEFINE s == session[r]
           found == FindReregistration(devices, s.user, s.mac, s.install, s.token)
           new == [s EXCEPT !.at = "register",
                            !.dev = IF found = None THEN @ ELSE found,
                            !.row = IF found = None THEN None ELSE devices[found]]
<1>1. /\ s \in Handler /\ s.at = "claim"
      /\ session' = [session EXCEPT ![r] = new]
      /\ UNCHANGED <<devices, networks, lock, shadow>>
  BY DEF ClaimNetwork, DisjointInvariant, Invariant, TypeOK
<1>2. /\ new.at = "register" /\ new.user = s.user /\ new.mac = s.mac
      /\ new.phone = s.phone /\ new.install = s.install /\ new.token = s.token
      /\ IF found = None THEN new.row = None ELSE new.dev = found /\ new.row = devices[found]
  BY <1>1 DEF Handler
<1>3. RegistrationArguments(new)
  BY <1>1, <1>2
     DEF RegistrationArguments, DisjointInvariant, Invariant, HandlerArguments, Handler
<1>4. new \in Handler
  <2>1. session'[r] = new /\ session' \in [Requests -> Handler]
    BY <1>1 DEF DisjointInvariant, Invariant, TypeOK
  <2>2. QED
    BY <2>1
<1> HIDE DEF new
<1>5. QED
  BY <1>1, <1>2, <1>3, <1>4, FoundTargetKeeps

LEMMA HeartbeatKeeps ==
  ASSUME DisjointInvariant, Invariant', Disjoint', NEW r \in Requests, NEW d \in Ids,
         NEW mac \in Macs, Heartbeat(r, d, mac)
  PROVE  DisjointInvariant'
<1> DEFINE s == [Idle EXCEPT !.at = "heartbeat", !.dev = d, !.mac = mac, !.row = devices[d]]
<1>1. /\ session[r].at = "idle" /\ session' = [session EXCEPT ![r] = s]
      /\ UNCHANGED <<devices, networks, lock, shadow>>
  BY DEF Heartbeat
<1>2. /\ s.at = "heartbeat" /\ s.dev = d /\ s.row = devices[d]
      /\ s.user = None /\ s.phone = None
  BY DEF Idle
<1>3. s \in Handler
  <2>1. session'[r] = s /\ session' \in [Requests -> Handler]
    BY <1>1 DEF DisjointInvariant, Invariant, TypeOK
  <2>2. QED
    BY <2>1
<1>4. \A e \in Ids : lock[e] # None => lock[e] # r
  BY <1>1, LockedAlone DEF DisjointInvariant
<1> HIDE DEF s
<1>5. QED
  BY <1>1, <1>2, <1>3, <1>4, TurnKeeps

LEMMA RequestRemovalKeeps ==
  ASSUME DisjointInvariant, Invariant', Disjoint', NEW r \in Requests, NEW d \in Ids,
         NEW user \in Users, RequestRemoval(r, user, d)
  PROVE  DisjointInvariant'
<1> DEFINE s == [Idle EXCEPT !.at = "remove", !.dev = d, !.user = user, !.row = devices[d]]
<1>1. /\ session[r].at = "idle" /\ session' = [session EXCEPT ![r] = s]
      /\ networks[devices[d].net] = user
      /\ UNCHANGED <<devices, networks, lock, shadow>>
  BY DEF RequestRemoval
<1>2. /\ s.at = "remove" /\ s.dev = d /\ s.row = devices[d]
      /\ s.user = user /\ s.phone = None
  BY DEF Idle
<1>3. s \in Handler
  <2>1. session'[r] = s /\ session' \in [Requests -> Handler]
    BY <1>1 DEF DisjointInvariant, Invariant, TypeOK
  <2>2. QED
    BY <2>1
<1>4. \A e \in Ids : lock[e] # None => lock[e] # r
  BY <1>1, LockedAlone DEF DisjointInvariant
<1> HIDE DEF s
<1>5. QED
  BY <1>1, <1>2, <1>3, <1>4, TurnKeeps

LEMMA RollbackKeeps ==
  ASSUME DisjointInvariant, Invariant', Disjoint', NEW r \in Requests, Rollback(r)
  PROVE  DisjointInvariant'
<1>1. /\ session' = [session EXCEPT ![r] = Idle] /\ UNCHANGED <<devices, networks>>
      /\ \A d \in Ids : lock'[d] # None =>
           lock'[d] = lock[d] /\ lock[d] # r /\ shadow'[d] = shadow[d]
  BY DEF Rollback, Release
<1>2. Idle \in Handler /\ Idle.at = "idle" /\ Idle.row = None
  BY DEF Idle, Handler, At
<1>3. QED
  BY <1>1, <1>2, TurnKeeps

\* Everybody is idle after a crash.
LEMMA CrashKeeps ==
  ASSUME DisjointInvariant, Invariant', Disjoint', Crash
  PROVE  DisjointInvariant'
<1> USE DEF DisjointInvariant
<1>1. /\ \A q \in Requests : session'[q] = Idle
      /\ \A d \in Ids : lock'[d] = None
      /\ UNCHANGED <<devices, networks>>
  BY DEF Crash
<1>2. Idle.at = "idle" /\ Idle.row = None
  BY DEF Idle
<1>3. OneOfThree' /\ InstallIsOwn' /\ ReadsAreCurrent'
  BY <1>1, <1>2 DEF OneOfThree, InstallIsOwn, ReadsAreCurrent
<1>4. FlushedAsAsked' /\ AdminsStay' /\ TargetsAreUnique' /\ OneRowPerInstall'
  BY <1>1, <1>2 DEF FlushedAsAsked, AdminsStay, TargetsAreUnique, OneRowPerInstall
<1>5. QED
  BY <1>3, <1>4

LEMMA RespondKeeps ==
  ASSUME DisjointInvariant, Invariant', Disjoint', NEW r \in Requests, Respond(r)
  PROVE  DisjointInvariant'
<1> USE DEF DisjointInvariant
<1>1. /\ session' = [session EXCEPT ![r].at = "commit"]
      /\ session[r].at = "respond"
      /\ UNCHANGED <<devices, networks, lock, shadow>>
  BY DEF Respond
<1>2. /\ session'[r].at = "commit" /\ session'[r].row = session[r].row
      /\ session'[r].dev = session[r].dev /\ session'[r].user = session[r].user
      /\ session'[r].mac = session[r].mac /\ session'[r].phone = session[r].phone
      /\ session'[r].install = session[r].install /\ session'[r].token = session[r].token
      /\ \A q \in Requests \ {r} : session'[q] = session[q]
  BY <1>1 DEF Invariant, TypeOK, Handler
<1>3. OneOfThree' /\ InstallIsOwn' /\ ReadsAreCurrent'
  BY <1>1, <1>2 DEF OneOfThree, InstallIsOwn, ReadsAreCurrent, Registering
<1>4. AdminsStay' /\ TargetsAreUnique' /\ OneRowPerInstall'
  BY <1>1, <1>2 DEF AdminsStay, TargetsAreUnique, OneRowPerInstall, Registering, Removing
<1>5. FlushedAsAsked'
  <2>1. ASSUME NEW d \in Ids, lock[d] # None
        PROVE  /\ lock[d] \in Requests
               /\ Registering(lock[d])' <=> Registering(lock[d])
               /\ Beating(lock[d])' <=> Beating(lock[d])
               /\ Removing(lock[d])' <=> Removing(lock[d])
    <3>1. lock[d] \in Requests /\ lock'[d] = lock[d]
      BY <1>1, <2>1, LockedAlone
    <3>2. /\ session'[lock[d]].phone = session[lock[d]].phone
          /\ session'[lock[d]].user = session[lock[d]].user
          /\ session'[lock[d]].at = "idle" <=> session[lock[d]].at = "idle"
      BY <1>1, <1>2, <3>1
    <3>3. QED
      BY <3>1, <3>2 DEF Registering, Beating, Removing
  <2>2. ASSUME NEW d \in Ids, lock[d] # None
        PROVE  /\ session'[lock[d]].user = session[lock[d]].user
               /\ session'[lock[d]].mac = session[lock[d]].mac
               /\ session'[lock[d]].phone = session[lock[d]].phone
               /\ session'[lock[d]].install = session[lock[d]].install
               /\ session'[lock[d]].token = session[lock[d]].token
    BY <1>2, <2>1, <2>2
  <2>3. QED
    BY <1>1, <2>1, <2>2 DEF FlushedAsAsked
<1>6. QED
  BY <1>3, <1>4, <1>5
LEMMA InsertDeviceKeeps ==
  ASSUME DisjointInvariant, Invariant', Disjoint', NEW r \in Requests, InsertDevice(r)
  PROVE  DisjointInvariant'
<1> DEFINE s == session[r]
           new == NewRow(s.user, s.mac, s.install, s.token, s.phone)
<1>1. /\ s.at = "register" /\ s.row = None /\ s.dev \in Ids /\ Registering(r)
      /\ lock' = [lock EXCEPT ![s.dev] = r] /\ shadow' = [shadow EXCEPT ![s.dev] = new]
      /\ session' = [session EXCEPT ![r].at = "respond"]
      /\ UNCHANGED <<devices, networks>>
  BY NoneIsNobody DEF InsertDevice, Flush, Registering, DisjointInvariant, Invariant,
                      HandlerArguments, TypeOK, Handler
<1>2. /\ new # None /\ new.owner = s.user /\ new.net = s.mac /\ new.phone = s.phone
      /\ new.token = s.token /\ new.status = "ONLINE" /\ new.install = s.install
  <2>1. RegistrationArguments(s)
    BY <1>1 DEF RegistrationArguments, DisjointInvariant, Invariant, HandlerArguments,
                TypeOK, Handler
  <2>2. new \in Row
    BY <2>1, InsertedRow
  <2>3. QED
    BY <2>2, NoneIsNoRow DEF NewRow
<1>3. ~ Beating(r) /\ ~ Removing(r)
  BY <1>1 DEF Registering, Beating, Removing
<1> HIDE DEF new
<1>4. QED
  BY <1>1, <1>2, <1>3, FlushKeeps

\* What an UPDATE of a registration or a heartbeat has to work with.
LEMMA UpdateMeetsItsRead ==
  ASSUME DisjointInvariant, NEW r \in Requests, NEW want, FlushUpdate(r, want),
         session[r].at \in {"register", "heartbeat"}, session[r].row # None
  PROVE  LET d == session[r].dev
         IN  /\ d \in Ids /\ devices[d] = session[r].row /\ devices[d] \in Row
             /\ lock' = [lock EXCEPT ![d] = r]
             /\ shadow' = [shadow EXCEPT ![d] = Updated(devices[d], devices[d], want)]
             /\ session' = [session EXCEPT ![r].at = "respond", ![r].row = None]
             /\ UNCHANGED <<devices, networks>>
<1>1. session[r].dev \in Ids
  BY DEF DisjointInvariant, Invariant, HandlerArguments, TypeOK, Handler
<1>2. devices[session[r].dev] = session[r].row
  BY DEF DisjointInvariant, ReadsAreCurrent
<1>3. session[r].row \in Row
  BY DEF DisjointInvariant, Invariant, TypeOK, Handler
<1>4. QED
  BY <1>1, <1>2, <1>3 DEF FlushUpdate, Flush

LEMMA UpdateRegisteredKeeps ==
  ASSUME DisjointInvariant, Invariant', Disjoint', NEW r \in Requests, UpdateRegistered(r)
  PROVE  DisjointInvariant'
<1> DEFINE s == session[r]
           want == Rejoined(s.row, s.mac, s.install, s.token)
<1>1. s.at = "register" /\ s.row # None /\ FlushUpdate(r, want) /\ Registering(r)
  BY NoneIsNobody DEF UpdateRegistered, Registering, DisjointInvariant, Invariant,
                      HandlerArguments
<1>2. /\ s.dev \in Ids /\ devices[s.dev] = s.row /\ s.row \in Row
      /\ lock' = [lock EXCEPT ![s.dev] = r]
      /\ shadow' = [shadow EXCEPT ![s.dev] = Updated(s.row, s.row, want)]
      /\ session' = [session EXCEPT ![r].at = "respond", ![r].row = None]
      /\ UNCHANGED <<devices, networks>>
  BY <1>1, UpdateMeetsItsRead
<1>3. /\ SpeaksForItsPhone(s.row) /\ s.row.phone = s.phone /\ s.row.owner = s.user
      /\ s.user = None => s.row.net = s.mac
      /\ s.mac \in Macs /\ s.install \in {None, s.phone}
      /\ s.token \in Tokens \cup {NoToken}
      /\ s.token \in Tokens => Holder[s.token] = s.phone
  BY <1>1 DEF DisjointInvariant, Invariant, VersionsAgree, RightRow, HandlerArguments
<1>4. want \in Row /\ SpeaksForItsPhone(want)
  BY <1>2, <1>3, RejoinedRow
<1>5. /\ want.owner = s.user /\ want.net = s.mac /\ want.phone = s.phone
      /\ want.token = s.token /\ want.status = "ONLINE"
      /\ want.install = IF s.install = None THEN s.row.install ELSE s.install
  BY <1>2, <1>3 DEF Rejoined, Row
<1> HIDE DEF want
<1>6. Updated(s.row, s.row, want) = want
  BY <1>2, <1>3, <1>4, <1>5, CurrentUpdate
<1>7. SameRow(s.row, want)
  BY <1>3, <1>5 DEF SameRow, SpeaksForItsPhone
<1>8. want # None
  BY <1>4, NoneIsNoRow
<1>9. ~ Beating(r) /\ ~ Removing(r)
  BY <1>1 DEF Registering, Beating, Removing
<1>10. QED
  BY <1>1, <1>2, <1>5, <1>6, <1>7, <1>8, <1>9, FlushKeeps

LEMMA RecordHeartbeatKeeps ==
  ASSUME DisjointInvariant, Invariant', Disjoint', NEW r \in Requests, RecordHeartbeat(r)
  PROVE  DisjointInvariant'
<1> DEFINE s == session[r]
           want == Beaten(s.row, s.mac)
<1>1. /\ s.at = "heartbeat" /\ s.row # None /\ FlushUpdate(r, want)
      /\ s.phone = None /\ s.user = None /\ s.mac \in Macs
  BY DEF RecordHeartbeat, DisjointInvariant, Invariant, HandlerArguments, OneOfThree
<1>2. /\ s.dev \in Ids /\ devices[s.dev] = s.row /\ s.row \in Row
      /\ lock' = [lock EXCEPT ![s.dev] = r]
      /\ shadow' = [shadow EXCEPT ![s.dev] = Updated(s.row, s.row, want)]
      /\ session' = [session EXCEPT ![r].at = "respond", ![r].row = None]
      /\ UNCHANGED <<devices, networks>>
  BY <1>1, UpdateMeetsItsRead
<1>3. want \in Row
  BY <1>1, <1>2, BeatenRow DEF DisjointInvariant, Invariant, VersionsAgree
<1>4. /\ want.owner = s.row.owner /\ want.net = s.row.net /\ want.install = s.row.install
      /\ want.phone = s.row.phone
      /\ want.status = IF s.mac = want.net THEN "ONLINE" ELSE "UNKNOWN"
  BY <1>2 DEF Beaten, Row
<1> HIDE DEF want
<1>5. Updated(s.row, s.row, want) = want
  BY <1>2, <1>3, <1>4, CurrentUpdate
<1>6. want # None
  BY <1>3, NoneIsNoRow
<1>7. ~ Registering(r) /\ ~ Removing(r)
  BY <1>1 DEF Registering, Removing
<1>8. QED
  BY <1>1, <1>2, <1>4, <1>5, <1>6, <1>7, FlushKeeps

LEMMA DeleteDeviceKeeps ==
  ASSUME DisjointInvariant, Invariant', Disjoint', NEW r \in Requests, DeleteDevice(r)
  PROVE  DisjointInvariant'
<1> DEFINE d == session[r].dev
<1>1. /\ session[r].at = "remove" /\ d \in Ids
      /\ session[r].phone = None /\ session[r].user \in Users
      /\ session' = [session EXCEPT ![r].at = "respond", ![r].row = None]
      /\ UNCHANGED <<devices, networks>>
  BY DEF DeleteDevice, DisjointInvariant, Invariant, HandlerArguments, OneOfThree,
         TypeOK, Handler
<1>2. CASE devices[d] # None
  <2>1. lock' = [lock EXCEPT ![d] = r] /\ shadow' = [shadow EXCEPT ![d] = None]
    BY <1>2 DEF DeleteDevice, Flush
  <2>2. ~ Registering(r) /\ ~ Beating(r)
    BY <1>1, NoneIsNobody DEF Registering, Beating
  <2>3. QED
    BY <1>1, <2>1, <2>2, FlushKeeps
<1>3. CASE devices[d] = None
  <2> DEFINE s == [session[r] EXCEPT !.at = "respond", !.row = None]
  <2>1. UNCHANGED <<lock, shadow>>
    BY <1>3 DEF DeleteDevice
  <2>2. session' = [session EXCEPT ![r] = s]
    BY <1>1
  <2>3. s.at = "respond" /\ s.dev = d /\ s.phone = None /\ s.row = None
    BY <1>1 DEF DisjointInvariant, Invariant, TypeOK, Handler
  <2>4. s \in Handler
    <3>1. session'[r] = s /\ session' \in [Requests -> Handler]
      BY <2>2 DEF DisjointInvariant, Invariant, TypeOK
    <3>2. QED
      BY <3>1
  <2>5. \A e \in Ids : lock[e] # None => lock[e] # r
    BY <1>1, LockedAlone DEF DisjointInvariant
  <2>6. devices[s.dev] = None /\ UNCHANGED <<devices, networks>>
    BY <1>1, <1>3, <2>3
  <2> HIDE DEF s
  <2>7. QED
    BY <2>1, <2>2, <2>3, <2>4, <2>5, <2>6, TurnKeeps
<1>4. QED
  BY <1>2, <1>3

\* Every step of a schedule that keeps requests apart keeps what it relies on.
LEMMA DisjointInvariantNext ==
  DisjointInvariant /\ [RegistryNext /\ Disjoint']_registryVars => DisjointInvariant'
<1> SUFFICES ASSUME DisjointInvariant, [RegistryNext /\ Disjoint']_registryVars
             PROVE  DisjointInvariant'
  OBVIOUS
<1>1. CASE UNCHANGED registryVars
  <2>1. Invariant'
    BY <1>1, InvariantNext DEF DisjointInvariant
  <2>2. UNCHANGED <<networks, devices, lock, shadow, session>>
    BY <1>1 DEF registryVars
  <2>3. /\ Disjoint' /\ OneOfThree' /\ InstallIsOwn' /\ ReadsAreCurrent'
        /\ AdminsStay' /\ TargetsAreUnique' /\ OneRowPerInstall'
    BY <2>2 DEF DisjointInvariant, Disjoint, OneOfThree, InstallIsOwn, ReadsAreCurrent,
                AdminsStay, TargetsAreUnique, OneRowPerInstall, Registering, Removing
  <2>4. FlushedAsAsked'
    BY <2>2 DEF DisjointInvariant, FlushedAsAsked, Registering, Beating, Removing
  <2>5. QED
    BY <2>1, <2>3, <2>4 DEF DisjointInvariant
<1>2. CASE RegistryNext /\ Disjoint'
  <2>1. Invariant' /\ Disjoint'
    BY <1>2, InvariantNext DEF DisjointInvariant
  <2>2. ASSUME NEW r \in Requests, Finish(r)
        PROVE  DisjointInvariant'
    BY <2>1, <2>2, ClaimNetworkKeeps, RollbackKeeps, InsertDeviceKeeps,
       UpdateRegisteredKeeps, RecordHeartbeatKeeps, DeleteDeviceKeeps, RespondKeeps,
       CommitKeeps
       DEF Finish, ClaimConflict, UpdateMissed
  <2>3. ASSUME NEW r \in Requests, Refuse(r)
        PROVE  DisjointInvariant'
    BY <1>1, <2>3 DEF Refuse
  <2>4. QED
    BY <1>2, <2>1, <2>2, <2>3, CrashKeeps, RegistrationKeeps, HeartbeatKeeps,
       RequestRemovalKeeps
       DEF RegistryNext, Serve
<1>3. QED
  BY <1>1, <1>2

\* The facts requests that do not overlap rely on hold in every state of theirs.
THEOREM DisjointInvariantHolds == DisjointSpec => []DisjointInvariant
<1>1. RegistryInit => DisjointInvariant
  BY InvariantInit
     DEF RegistryInit, Idle, DisjointInvariant, Disjoint, OneOfThree, InstallIsOwn,
         ReadsAreCurrent, FlushedAsAsked, AdminsStay, TargetsAreUnique, OneRowPerInstall,
         Registering, Removing
<1>2. DisjointInvariant /\ [RegistryNext /\ Disjoint']_registryVars => DisjointInvariant'
  BY DisjointInvariantNext
<1>3. QED
  BY <1>1, <1>2, PTL DEF DisjointSpec

\* While requests do not overlap on a row or a phone, no account and no
\* network's guests come to hold two rows of one install.
THEOREM InstallsStaySingle == DisjointSpec => []OneRowPerInstall
<1>1. DisjointInvariant => OneRowPerInstall
  BY DEF DisjointInvariant
<1>2. QED
  BY <1>1, DisjointInvariantHolds, PTL

\* What a commit makes of the row it stored.
LEMMA StoredRow ==
  ASSUME DisjointInvariant, NEW r \in Requests, Stored(r)
  PROVE  /\ session[r].dev \in Ids /\ lock[session[r].dev] = r /\ r # None
         /\ devices'[session[r].dev] = shadow[session[r].dev]
<1>1. /\ session[r].at = "commit" /\ lock[session[r].dev] = r
      /\ devices' = [d \in Ids |-> IF lock[d] = r THEN shadow[d] ELSE devices[d]]
  BY DEF Stored, Commit, Install
<1>2. session[r].dev \in Ids
  BY <1>1 DEF DisjointInvariant, Invariant, HandlerArguments, TypeOK, Handler
<1>3. QED
  BY <1>1, <1>2, NoneIsNoRequest

\* A committed heartbeat leaves the status its network calls for, unless
\* requests overlap.
THEOREM HeartbeatsSetStatus == DisjointSpec => HeartbeatSetsStatus
<1>1. DisjointInvariant /\ [RegistryNext /\ Disjoint']_registryVars =>
        [\A r \in Requests : Beating(r) /\ Stored(r) =>
           LET row == devices'[session[r].dev]
           IN  row.status = IF session[r].mac = row.net THEN "ONLINE" ELSE "UNKNOWN"
        ]_registryVars
  <2> SUFFICES ASSUME DisjointInvariant, NEW r \in Requests, Beating(r), Stored(r)
               PROVE  devices'[session[r].dev].status =
                        IF session[r].mac = devices'[session[r].dev].net
                        THEN "ONLINE" ELSE "UNKNOWN"
    OBVIOUS
  <2>1. QED
    BY StoredRow DEF DisjointInvariant, FlushedAsAsked
<1>2. QED
  BY <1>1, DisjointInvariantHolds, PTL DEF DisjointSpec, HeartbeatSetsStatus

\* A committed registration leaves the row on its network, reachable, with its
\* push token, unless requests overlap.
THEOREM RegistrationsTakeEffect == DisjointSpec => RegistrationTakesEffect
<1>1. DisjointInvariant /\ [RegistryNext /\ Disjoint']_registryVars =>
        [\A r \in Requests : Registering(r) /\ Stored(r) =>
           LET row == devices'[session[r].dev]
           IN  /\ row.net = session[r].mac
               /\ row.status = "ONLINE"
               /\ row.token = session[r].token]_registryVars
  <2> SUFFICES ASSUME DisjointInvariant, NEW r \in Requests, Registering(r), Stored(r)
               PROVE  /\ devices'[session[r].dev].net = session[r].mac
                      /\ devices'[session[r].dev].status = "ONLINE"
                      /\ devices'[session[r].dev].token = session[r].token
    OBVIOUS
  <2>1. QED
    BY StoredRow DEF DisjointInvariant, FlushedAsAsked
<1>2. QED
  BY <1>1, DisjointInvariantHolds, PTL DEF DisjointSpec, RegistrationTakesEffect

\* What a heartbeat or a registration reports is what the row says once it is
\* committed, unless requests overlap.
THEOREM RowsSayIt == DisjointSpec => RowsSayWhatWasReported
  BY HeartbeatsSetStatus, RegistrationsTakeEffect DEF RowsSayWhatWasReported

\* Nobody but the administrator of a row's network removes it, unless requests
\* overlap.
THEOREM AdminsRemove == DisjointSpec => RemovedByItsAdmin
<1>1. DisjointInvariant /\ [RegistryNext /\ Disjoint']_registryVars =>
        [\A d \in Ids : devices[d] # None /\ devices'[d] = None =>
           \E r \in Requests :
             lock[d] = r /\ session[r].user = networks[devices[d].net]]_registryVars
  <2> SUFFICES ASSUME DisjointInvariant, [RegistryNext]_registryVars,
                      NEW d \in Ids, devices[d] # None, devices'[d] = None
               PROVE  \E r \in Requests :
                        lock[d] = r /\ session[r].user = networks[devices[d].net]
    OBVIOUS
  <2>1. PICK r \in Requests : Commit(r)
    BY OnlyCommitStores
  <2>2. lock[d] = r /\ shadow[d] = None /\ session[r].at = "commit" /\ r # None
    BY <2>1, NoneIsNoRequest DEF Commit, Install
  <2>3. session[r].dev = d
    BY <2>2, LockedAlone DEF DisjointInvariant
  <2>4. ~ Registering(r) /\ ~ Beating(r)
    BY <2>2 DEF DisjointInvariant, FlushedAsAsked
  <2>5. Removing(r)
    BY <2>2, <2>4 DEF Registering, Beating, Removing
  <2>6. QED
    BY <2>2, <2>3, <2>5 DEF DisjointInvariant, AdminsStay
<1>2. QED
  BY <1>1, DisjointInvariantHolds, PTL DEF DisjointSpec, RemovedByItsAdmin
=============================================================================
