------------------------- MODULE AlertServiceProofs -------------------------
(***************************************************************************)
(* Machine-checked proofs about AlertService, for every number of          *)
(* accounts, networks, phones, rows, alerts, attempts and concurrent       *)
(* requests.  The device endpoints' steps are DeviceRegistryProofs'.       *)
(***************************************************************************)
EXTENDS AlertServiceInv, DeviceRegistryProofs

USE DEF Ids

-----------------------------------------------------------------------------
(* What the steps of the device endpoints leave alone.                     *)

\* A step of a request that is no alert, as the alerts beside it see it: it
\* touches no row and no network another transaction holds or has committed,
\* reserves only ids that were never used, and takes no token away.
RegistryStep(r) ==
  /\ session[r].at # "alert" /\ session'[r].at # "alert"
  /\ \A q \in Requests \ {r} : session'[q] = session[q]
  /\ \A m \in Macs : networks[m] # None => networks'[m] = networks[m]
  /\ nextId <= nextId'
  /\ Reserving(r)' => \/ session'[r].dev >= nextId
                      \/ Reserving(r) /\ session'[r].dev = session[r].dev
  /\ \A d \in Ids :
       \/ UNCHANGED <<lock[d], shadow[d], devices[d]>>
       \/ /\ lock[d] \in {None, r} /\ lock'[d] \in {None, r}
          /\ devices'[d] # devices[d] => shadow'[d] = None
          /\ shadow'[d] # None => lock'[d] = r /\ devices'[d] = devices[d]
          /\ shadow'[d] # None /\ devices[d] = None => Reserving(r) /\ session[r].dev = d
          /\ shadow'[d] # None /\ devices[d] # None =>
               (shadow'[d].token = None => devices[d].token = None)

LEMMA InsertIsRegistryStep ==
  ASSUME Invariant, NEW r \in Requests, InsertDevice(r)
  PROVE  RegistryStep(r)
<1> DEFINE s == session[r]
           row == NewRow(s.user, s.mac, s.install, s.token, s.phone)
<1>1. /\ s \in Handler /\ s.at = "register" /\ s.row = None /\ s.dev \in Ids
      /\ lock' = [lock EXCEPT ![s.dev] = r]
      /\ shadow' = [shadow EXCEPT ![s.dev] = row]
      /\ session' = [session EXCEPT ![r].at = "respond"]
      /\ UNCHANGED <<networks, devices, claim, nextId, known>>
  BY DEF InsertDevice, Flush, Invariant, TypeOK, HandlerArguments, Handler
<1>2. Reserving(r) /\ devices[s.dev] = None /\ ~ Reserving(r)'
  BY <1>1 DEF Reserving, Invariant, IdsAreFresh, TypeOK, Handler
<1>3. lock[s.dev] \in {None, r}
  BY <1>1, <1>2 DEF Invariant, LocksAreHeld, IdsAreFresh, TypeOK
<1>4. nextId <= nextId' /\ session'[r].at # "alert" /\ session[r].at # "alert"
  BY <1>1 DEF Invariant, TypeOK
<1>5. \A q \in Requests \ {r} : session'[q] = session[q]
  BY <1>1 DEF Invariant, TypeOK
<1>6. QED
  BY <1>1, <1>2, <1>3, <1>4, <1>5 DEF RegistryStep, Invariant, TypeOK

LEMMA FlushIsRegistryStep ==
  ASSUME Invariant, NEW r \in Requests, session[r].at \in {"register", "heartbeat"},
         session[r].row # None, NEW want,
         want.token # None \/ want.token = session[r].row.token,
         FlushUpdate(r, want)
  PROVE  RegistryStep(r)
<1> DEFINE s == session[r]
           new == Updated(devices[s.dev], s.row, want)
<1>1. /\ s \in Handler /\ s.dev \in Ids
      /\ lock[s.dev] \in {None, r} /\ devices[s.dev] # None
      /\ lock' = [lock EXCEPT ![s.dev] = r]
      /\ shadow' = [shadow EXCEPT ![s.dev] = new]
      /\ session' = [session EXCEPT ![r].at = "respond", ![r].row = None]
      /\ UNCHANGED <<networks, devices, claim, nextId, known>>
  BY DEF FlushUpdate, Flush, Writable, Invariant, TypeOK, HandlerArguments, Handler
<1>2. new.token = IF want.token = s.row.token THEN devices[s.dev].token ELSE want.token
  BY <1>1 DEF Updated, Invariant, TypeOK, Row
<1>3. session'[r].at = "respond" /\ ~ Reserving(r)' /\ nextId <= nextId'
  BY <1>1 DEF Invariant, TypeOK, Handler, Reserving
<1>4. \A q \in Requests \ {r} : session'[q] = session[q]
  BY <1>1 DEF Invariant, TypeOK
<1>5. new.token = None => devices[s.dev].token = None
  BY <1>2
<1> HIDE DEF new
<1>6. QED
  BY <1>1, <1>3, <1>4, <1>5 DEF RegistryStep, Invariant, TypeOK

LEMMA DeleteIsRegistryStep ==
  ASSUME Invariant, NEW r \in Requests, DeleteDevice(r)
  PROVE  RegistryStep(r)
<1> DEFINE s == session[r]
<1>1. /\ s \in Handler /\ s.dev \in Ids /\ s.at = "remove" /\ lock[s.dev] \in {None, r}
      /\ \/ UNCHANGED <<lock, shadow>>
         \/ lock' = [lock EXCEPT ![s.dev] = r] /\ shadow' = [shadow EXCEPT ![s.dev] = None]
      /\ session' = [session EXCEPT ![r].at = "respond", ![r].row = None]
      /\ UNCHANGED <<networks, devices, claim, nextId, known>>
  BY DEF DeleteDevice, Flush, Writable, Invariant, TypeOK, HandlerArguments, Handler
<1>2. session'[r].at = "respond" /\ ~ Reserving(r)' /\ nextId <= nextId'
  BY <1>1 DEF Invariant, TypeOK, Handler, Reserving
<1>3. \A q \in Requests \ {r} : session'[q] = session[q]
  BY <1>1 DEF Invariant, TypeOK
<1>4. QED
  BY <1>1, <1>2, <1>3 DEF RegistryStep, Invariant, TypeOK

\* Commit and rollback give up the locks of a request, the former after
\* installing what it flushed.
LEMMA ReleaseIsRegistryStep ==
  ASSUME Invariant, NEW r \in Requests, session[r].at # "alert", Release(r),
         session' = [session EXCEPT ![r] = Idle], nextId' = nextId,
         Install(r) \/ UNCHANGED <<networks, devices>>
  PROVE  RegistryStep(r)
<1>1. /\ \A d \in Ids : lock[d] = r => lock'[d] = None /\ shadow'[d] = None
      /\ \A d \in Ids : lock[d] # r => UNCHANGED <<lock[d], shadow[d], devices[d]>>
  BY DEF Release, Install, Invariant, TypeOK
<1>2. \A m \in Macs : networks[m] # None => networks'[m] = networks[m]
  BY NoneIsNoRequest DEF Install, Invariant, LocksAreHeld, TypeOK
<1>3. session'[r].at = "idle" /\ ~ Reserving(r)' /\ nextId <= nextId'
  BY DEF Invariant, TypeOK, Idle, Reserving
<1>4. \A q \in Requests \ {r} : session'[q] = session[q]
  BY DEF Invariant, TypeOK
<1>5. QED
  BY <1>1, <1>2, <1>3, <1>4 DEF RegistryStep

\* A request begins, or a registration claims its network, with no row written.
LEMMA ReadIsRegistryStep ==
  ASSUME Invariant, NEW r \in Requests, session[r].at # "alert", NEW s,
         session' = [session EXCEPT ![r] = s], s.at # "alert",
         nextId' \in {nextId, nextId + 1},
         UNCHANGED <<networks, devices, lock, shadow>>,
         s.at \in {"claim", "register"} /\ s.row = None =>
           \/ s.dev = nextId
           \/ Reserving(r) /\ s.dev = session[r].dev
  PROVE  RegistryStep(r)
<1>1. session'[r] = s /\ \A q \in Requests \ {r} : session'[q] = session[q]
  BY DEF Invariant, TypeOK
<1>2. nextId \in Nat
  BY DEF Invariant, TypeOK
<1>3. Reserving(r)' => \/ session'[r].dev >= nextId
                       \/ Reserving(r) /\ session'[r].dev = session[r].dev
  BY <1>1, <1>2 DEF Reserving
<1>4. nextId <= nextId'
  BY <1>2
<1>5. QED
  BY <1>1, <1>3, <1>4 DEF RegistryStep

LEMMA ServeIsRegistryStep ==
  ASSUME Invariant, Serve
  PROVE  \E r \in Requests : RegistryStep(r)
<1> USE DEF Invariant
<1>1. ASSUME NEW r \in Requests, Registration(r)
      PROVE  RegistryStep(r)
  <2>0. PICK user \in Users \cup {None}, mac \in Macs, phone \in Phones :
          \E install \in {phone, None},
             token \in {t \in Tokens : Holder[t] = phone} \cup {NoToken} :
            \/ RegisterOnClaimed(r, user, mac, phone, install, token)
            \/ RegisterOnUnclaimed(r, user, mac, phone, install, token)
    BY <1>1 DEF Registration
  <2>1. PICK install \in {phone, None},
             token \in {t \in Tokens : Holder[t] = phone} \cup {NoToken} :
          \/ RegisterOnClaimed(r, user, mac, phone, install, token)
          \/ RegisterOnUnclaimed(r, user, mac, phone, install, token)
    BY <2>0
  <2> DEFINE found == FindReregistration(devices, user, mac, install, token)
             s == [at |-> "register", user |-> user, mac |-> mac, phone |-> phone,
                   install |-> install, token |-> token,
                   dev |-> IF found = None THEN nextId ELSE found,
                   row |-> IF found = None THEN None ELSE devices[found]]
  <2>2. RowsSpeak(devices)
    BY DEF TypeOK, VersionsAgree, RowsSpeak
  <2>3. CASE RegisterOnClaimed(r, user, mac, phone, install, token)
    <3>1. found # None => devices[found] # None
      BY <2>2, FoundRow
    <3>2. /\ session[r].at = "idle" /\ session' = [session EXCEPT ![r] = s]
          /\ nextId' \in {nextId, nextId + 1}
          /\ UNCHANGED <<networks, devices, lock, shadow>>
      BY <2>3 DEF RegisterOnClaimed, Target
    <3>3. s.at = "register" /\ (s.row = None => s.dev = nextId)
      BY <3>1
    <3>4. QED
      BY <3>2, <3>3, ReadIsRegistryStep
  <2>4. CASE RegisterOnUnclaimed(r, user, mac, phone, install, token)
    <3> DEFINE new == [at |-> "claim", user |-> user, mac |-> mac, phone |-> phone,
                       install |-> install, token |-> token, dev |-> nextId, row |-> None]
    <3>1. /\ session[r].at = "idle" /\ session' = [session EXCEPT ![r] = new]
          /\ nextId' = nextId + 1 /\ UNCHANGED <<networks, devices, lock, shadow>>
      BY <2>4 DEF RegisterOnUnclaimed
    <3>2. new.at = "claim" /\ new.dev = nextId
      OBVIOUS
    <3> HIDE DEF new
    <3>3. QED
      BY <3>1, <3>2, ReadIsRegistryStep
  <2>5. QED
    BY <2>1, <2>3, <2>4
<1>2. ASSUME NEW r \in Requests, NEW d \in Ids, NEW mac \in Macs, Heartbeat(r, d, mac)
      PROVE  RegistryStep(r)
  <2> DEFINE s == [Idle EXCEPT !.at = "heartbeat", !.dev = d, !.mac = mac, !.row = devices[d]]
  <2>1. s.at = "heartbeat"
    BY DEF Idle
  <2>2. QED
    BY <1>2, <2>1, ReadIsRegistryStep DEF Heartbeat
<1>3. ASSUME NEW r \in Requests, NEW d \in Ids, NEW user \in Users,
             RequestRemoval(r, user, d)
      PROVE  RegistryStep(r)
  <2> DEFINE s == [Idle EXCEPT !.at = "remove", !.dev = d, !.user = user, !.row = devices[d]]
  <2>1. s.at = "remove"
    BY DEF Idle
  <2>2. QED
    BY <1>3, <2>1, ReadIsRegistryStep DEF RequestRemoval
<1>4. ASSUME NEW r \in Requests, Refuse(r)
      PROVE  RegistryStep(r)
  BY <1>4 DEF Refuse, registryVars, RegistryStep, Reserving, TypeOK
<1>5. ASSUME NEW r \in Requests, Finish(r)
      PROVE  RegistryStep(r)
  <2>1. CASE ClaimNetwork(r)
    <3> DEFINE t == session[r]
               found == FindReregistration(devices, t.user, t.mac, t.install, t.token)
               s == [t EXCEPT !.at = "register",
                              !.dev = IF found = None THEN @ ELSE found,
                              !.row = IF found = None THEN None ELSE devices[found]]
    <3>1. /\ t \in Handler /\ t.at = "claim" /\ t.row = None
          /\ session' = [session EXCEPT ![r] = s] /\ nextId' = nextId
          /\ UNCHANGED <<networks, devices, lock, shadow>>
      BY <2>1 DEF ClaimNetwork, TypeOK, HandlerArguments
    <3>2. /\ s.at = "register" /\ (found = None => s.dev = t.dev)
          /\ (found # None => s.row = devices[found])
      BY <3>1 DEF Handler
    <3>3. found # None => devices[found] # None
      <4>1. RowsSpeak(devices)
        BY DEF TypeOK, VersionsAgree, RowsSpeak
      <4>2. /\ t.user \in Users \cup {None} /\ t.mac \in Macs /\ t.phone \in Phones
            /\ t.install \in {t.phone, None}
            /\ t.token \in {x \in Tokens : Holder[x] = t.phone} \cup {NoToken}
        BY <3>1 DEF HandlerArguments, Handler
      <4>3. QED
        BY <4>1, <4>2, FoundRow
    <3>4. Reserving(r)
      BY <3>1 DEF Reserving
    <3> HIDE DEF s, found
    <3>5. QED
      BY <3>1, <3>2, <3>3, <3>4, ReadIsRegistryStep
  <2>2. CASE ClaimConflict(r) \/ UpdateMissed(r)
    BY <2>2, ReleaseIsRegistryStep DEF ClaimConflict, UpdateMissed, Rollback
  <2>3. CASE InsertDevice(r)
    BY <2>3, InsertIsRegistryStep
  <2>4. CASE UpdateRegistered(r)
    <3> DEFINE s == session[r]
               want == Rejoined(s.row, s.mac, s.install, s.token)
    <3>1. s.at = "register" /\ s.row # None /\ FlushUpdate(r, want)
      BY <2>4 DEF UpdateRegistered
    <3>2. s.row \in Row /\ s.token # None
      BY <3>1, NoneIsNobody DEF TypeOK, Handler, HandlerArguments
    <3>3. want.token = s.token
      BY <3>2 DEF Rejoined, Row
    <3>4. QED
      BY <3>1, <3>2, <3>3, FlushIsRegistryStep
  <2>5. CASE RecordHeartbeat(r)
    <3> DEFINE s == session[r]
               want == Beaten(s.row, s.mac)
    <3>1. s.at = "heartbeat" /\ FlushUpdate(r, want) /\ s.row # None
      BY <2>5 DEF RecordHeartbeat, HandlerArguments
    <3>2. want.token = s.row.token
      BY <3>1 DEF Beaten, TypeOK, Handler, Row
    <3>3. QED
      BY <3>1, <3>2, FlushIsRegistryStep
  <2>6. CASE DeleteDevice(r)
    BY <2>6, DeleteIsRegistryStep
  <2>7. CASE Respond(r)
    <3>1. session' = [session EXCEPT ![r].at = "commit"] /\ session[r].at = "respond"
          /\ UNCHANGED <<networks, devices, lock, shadow, nextId>>
      BY <2>7 DEF Respond
    <3>2. session' = [session EXCEPT ![r] = [session[r] EXCEPT !.at = "commit"]]
      BY <3>1
    <3>3. [session[r] EXCEPT !.at = "commit"].at = "commit"
      BY DEF TypeOK, Handler
    <3>4. QED
      BY <3>1, <3>2, <3>3, ReadIsRegistryStep
  <2>8. CASE Commit(r)
    BY <2>8, ReleaseIsRegistryStep DEF Commit
  <2>9. QED
    BY <1>5, <2>1, <2>2, <2>3, <2>4, <2>5, <2>6, <2>7, <2>8 DEF Finish
<1>6. QED
  BY <1>1, <1>2, <1>3, <1>4, <1>5 DEF Serve

\* What alerts know outlives every step of the requests beside them.
LEMMA ServePreserves ==
  ASSUME AlertInvariant, NEW r \in Requests, RegistryStep(r), Invariant',
         UNCHANGED alertVars
  PROVE  AlertInvariant'
<1> USE DEF AlertInvariant, RegistryStep, alertVars, pushVars
<1>1. AlertTypes' /\ OutcomesAreFinal' /\ AlertIdsAreFresh' /\ AuditIsTruthful'
  BY DEF AlertTypes, OutcomesAreFinal, Targets, AlertIdsAreFresh, AuditIsTruthful
<1>2. \A q \in Requests : alert[q] # None => session'[q] = session[q] /\ q # r /\ q # None
  BY NoneIsNoRequest DEF AlertsHaveHandlers
<1>3. AlertsHaveHandlers'
  <2>1. \A q \in Requests : session'[q].at = "alert" <=> session[q].at = "alert"
    OBVIOUS
  <2>2. ASSUME NEW q \in Requests, alert[q] # None
        PROVE  networks'[alert[q].net] = session'[q].user /\ session'[q].user \in Users
    <3>1. networks[alert[q].net] = session[q].user /\ session[q].user \in Users
      BY <2>2 DEF AlertsHaveHandlers
    <3>2. alert[q].net \in Macs /\ session[q].user # None
      BY <2>2, <3>1, NoneIsNobody DEF AlertTypes, Alert
    <3>3. QED
      BY <1>2, <2>2, <3>1, <3>2
  <2>3. QED
    BY <2>1, <2>2 DEF AlertsHaveHandlers
<1>4. LocksAreCleared'
  <2>1. \A q \in Requests, d \in Ids : alert[q] # None => (lock'[d] = q => lock[d] = q)
    BY <1>2
  <2>2. \A q \in Requests : Disowns(q)' = Disowns(q)
    BY DEF Disowns, Targets
  <2>3. QED
    BY <1>2, <2>1, <2>2 DEF LocksAreCleared
<1>5. TargetsWereRows'
  <2> SUFFICES ASSUME NEW q \in Requests, alert[q] # None, NEW d \in Targets(q)
               PROVE  /\ d < nextId'
                      /\ \A s \in Requests : Reserving(s)' => session'[s].dev # d
                      /\ devices'[d] = None => shadow'[d] = None
    BY DEF TargetsWereRows, Targets
  <2>1. /\ d \in Ids /\ d < nextId /\ (devices[d] = None => shadow[d] = None)
        /\ \A s \in Requests : Reserving(s) => session[s].dev # d
    BY DEF TargetsWereRows, Targets
  <2>2. nextId \in Nat /\ nextId' \in Nat
    BY DEF Invariant, TypeOK
  <2>3. d < nextId'
    BY <2>1, <2>2, MaxDevicesIsNat
  <2>4. ASSUME NEW s \in Requests, Reserving(s)'
        PROVE  session'[s].dev # d
    <3>1. CASE s = r
      <4>1. session'[r].dev = d => ~ (session'[r].dev >= nextId)
        BY <2>1, <2>2, MaxDevicesIsNat
      <4>2. QED
        BY <2>1, <2>4, <3>1, <4>1
    <3>2. CASE s # r
      BY <2>1, <2>4, <3>2 DEF Reserving
    <3>3. QED
      BY <3>1, <3>2
  <2>5. devices'[d] = None => shadow'[d] = None
    BY <2>1
  <2>6. QED
    BY <2>3, <2>4, <2>5
<1>6. TokensAreKept'
  <2> SUFFICES ASSUME NEW d \in Ids, shadow'[d] # None, devices'[d] # None
               PROVE  IF session'[lock'[d]].at = "alert"
                        THEN shadow'[d].net = devices'[d].net
                        ELSE shadow'[d].token = None => devices'[d].token = None
    BY DEF TokensAreKept
  <2>1. CASE UNCHANGED <<lock[d], shadow[d], devices[d]>>
    <3>1. lock[d] \in Requests
      BY <2>1 DEF Invariant, LocksAreHeld, TypeOK
    <3>2. session'[lock[d]].at = "alert" <=> session[lock[d]].at = "alert"
      BY <3>1
    <3>3. QED
      BY <2>1, <3>2 DEF TokensAreKept
  <2>2. CASE ~ UNCHANGED <<lock[d], shadow[d], devices[d]>>
    BY <2>2
  <2>3. QED
    BY <2>1, <2>2
<1>7. PushesAreForTargets'
  BY DEF PushesAreForTargets, Targets
<1>8. QED
  BY <1>1, <1>3, <1>4, <1>5, <1>6, <1>7

-----------------------------------------------------------------------------
(* An alert begins, and moves on to the next token to clear.               *)

\* The database is unchanged; an alert's handler holds at most the id of a row
\* that no registration has reserved.
LEMMA AlertHandlerPreserves ==
  ASSUME Invariant, NEW r \in Requests, session[r].at \in {"idle", "alert"},
         NEW s \in Handler, s.at = "alert", s.row = None, s.phone = None,
         s.dev # None => /\ s.dev < nextId
                         /\ \A q \in Requests : Reserving(q) => session[q].dev # s.dev
                         /\ devices[s.dev] = None => shadow[s.dev] = None,
         session' = [session EXCEPT ![r] = s],
         UNCHANGED <<networks, devices, claim, lock, shadow, nextId, known>>
  PROVE  Invariant'
<1> USE DEF Invariant
<1>1. /\ session'[r] = s
      /\ \A q \in Requests \ {r} : session'[q] = session[q]
      /\ \A m \in Macs : claim[m] # r
  BY NoneIsNoRequest DEF TypeOK, LocksAreHeld
<1>2. TypeOK'
  BY DEF TypeOK
<1>3. HandlerArguments'
  BY <1>1 DEF HandlerArguments
<1>4. LocksAreHeld'
  <2>1. \A d \in Ids : lock[d] = r => devices[d] # None /\ shadow[d] # None
    BY NoneIsNoRequest DEF LocksAreHeld
  <2>2. \A d \in Ids : lock[d] # None => lock[d] \in Requests
    BY DEF TypeOK
  <2>3. \A m \in Macs : claim[m] # None => claim[m] \in Requests
    BY DEF TypeOK
  <2>4. QED
    BY <1>1, <2>1, <2>2, <2>3 DEF LocksAreHeld
<1>5. IdsAreFresh'
  <2>1. ~ Reserving(r)'
    BY <1>1 DEF Reserving
  <2>2. \A q \in Requests \ {r} : Reserving(q)' <=> Reserving(q)
    BY <1>1 DEF Reserving
  <2>3. ASSUME NEW q \in Requests, Reserving(q)'
        PROVE  /\ devices[session'[q].dev] = None
               /\ \A t \in Requests \ {q} : session'[t].dev # session'[q].dev
    <3>1. q # r /\ Reserving(q) /\ session'[q] = session[q]
      BY <1>1, <2>1, <2>2, <2>3
    <3>2. session[q].dev # None
      BY <3>1 DEF Reserving, HandlerArguments
    <3>3. QED
      BY <1>1, <3>1, <3>2 DEF IdsAreFresh
  <2>4. \A d \in Ids : d # None
    BY NoneIsNobody, MaxDevicesIsNat
  <2>5. QED
    BY <1>1, <2>3, <2>4 DEF IdsAreFresh
<1>6. VersionsAgree' /\ RightRow'
  BY <1>1 DEF VersionsAgree, RightRow
<1>7. NetworksAreClaimed'
  BY <1>1 DEF NetworksAreClaimed
<1>8. ClaimsAreUsed'
  BY <1>1 DEF ClaimsAreUsed, TypeOK
<1>9. QED
  BY <1>2, <1>3, <1>4, <1>5, <1>6, <1>7, <1>8

LEMMA AlertFields ==
  ASSUME AlertTypes, NEW r \in Requests, alert[r] # None
  PROVE  /\ alert[r] \in Alert
         /\ alert[r].id \in AlertIds /\ alert[r].net \in Macs
         /\ alert[r].at \in {"push", "clear", "commit"}
         /\ alert[r].read \in [Ids -> Row \cup {None}]
         /\ alert[r].tries \in [Ids -> (0..MaxTries - 1) \cup {None}]
         /\ alert[r].outcome \in [Ids -> PushOutcome \cup {None}]
         /\ alert[r].cleared \in SUBSET Ids
<1>1. alert[r] \in Alert
  BY DEF AlertTypes
<1>2. QED
  BY <1>1 DEF Alert

\* An alert begins, authorized, for rows that exist.
LEMMA BeginPreserves ==
  ASSUME AlertInvariant, NEW r \in Requests, session[r].at = "idle",
         NEW user \in Users, NEW mac \in Macs, networks[mac] = user,
         NEW targets \in SUBSET Ids, \A d \in targets : devices[d] # None,
         Begin(r, user, mac, targets)
  PROVE  AlertInvariant'
<1> DEFINE s == [Idle EXCEPT !.at = "alert", !.user = user]
           a == [id |-> nextAlert, at |-> "push", net |-> mac,
                 read |-> [d \in Ids |-> IF d \in targets THEN devices[d] ELSE None],
                 tries |-> [d \in Ids |-> None],
                 outcome |-> [d \in Ids |-> None],
                 cleared |-> {}]
<1> USE DEF AlertInvariant
<1>1. /\ nextAlert \in AlertIds
      /\ session' = [session EXCEPT ![r] = s] /\ alert' = [alert EXCEPT ![r] = a]
      /\ nextAlert' = nextAlert + 1
      /\ UNCHANGED <<networks, devices, claim, lock, shadow, nextId, known, alertLog,
                     taken, accepted, stray>>
  BY DEF Begin, pushVars
<1>2. /\ s \in Handler /\ s.at = "alert" /\ s.user = user
      /\ s.dev = None /\ s.row = None /\ s.phone = None
  BY DEF Idle, Handler, At
<1>3. /\ a.id = nextAlert /\ a.at = "push" /\ a.net = mac /\ a.cleared = {}
      /\ \A d \in Ids : a.tries[d] = None /\ a.outcome[d] = None
      /\ \A d \in Ids : a.read[d] # None <=> d \in targets
  OBVIOUS
<1>4. a \in Alert /\ a # None
  BY <1>1, NoneIsNoAlert DEF Alert, Invariant, TypeOK
<1> HIDE DEF s, a
<1>5. /\ alert[r] = None
      /\ \A q \in Requests \ {r} : session'[q] = session[q] /\ alert'[q] = alert[q]
      /\ session'[r] = s /\ alert'[r] = a
      /\ \A d \in Ids : lock[d] # r
  BY <1>1, NoneIsNoRequest DEF Invariant, TypeOK, AlertTypes, AlertsHaveHandlers, LocksAreHeld
<1>6. Invariant'
  BY <1>1, <1>2, AlertHandlerPreserves
<1>7. AlertTypes'
  BY <1>1, <1>4 DEF AlertTypes
<1>8. AlertsHaveHandlers'
  BY <1>1, <1>2, <1>3, <1>4, <1>5 DEF AlertsHaveHandlers
<1>9. /\ \A q \in Requests \ {r} : Targets(q)' = Targets(q) /\ Disowns(q)' = Disowns(q)
      /\ Targets(r)' = targets
  <2>1. \A q \in Requests \ {r} : Targets(q)' = Targets(q)
    BY <1>5 DEF Targets
  <2>2. \A q \in Requests \ {r} : Disowns(q)' = Disowns(q)
    BY <1>5, <2>1 DEF Disowns
  <2>3. Targets(r)' = {d \in Ids : a.read[d] # None}
    BY <1>5 DEF Targets
  <2>4. {d \in Ids : a.read[d] # None} = targets
    BY <1>3
  <2>5. QED
    BY <2>1, <2>2, <2>3, <2>4
<1>10. OutcomesAreFinal'
  BY <1>3, <1>5, <1>9 DEF OutcomesAreFinal
<1>11. LocksAreCleared'
  BY <1>1, <1>2, <1>3, <1>5, <1>9 DEF LocksAreCleared
<1>12. TargetsWereRows'
  <2>1. \A q \in Requests : Reserving(q)' => Reserving(q) /\ session'[q].dev = session[q].dev
    BY <1>2, <1>5 DEF Reserving
  <2>2. ASSUME NEW d \in targets
        PROVE  d < nextId /\ \A q \in Requests : Reserving(q) => session[q].dev # d
    BY DEF Invariant, IdsAreFresh
  <2>3. QED
    BY <1>1, <1>5, <1>9, <2>1, <2>2 DEF TargetsWereRows
<1>13. TokensAreKept'
  <2>1. \A d \in Ids : lock[d] # None => session'[lock[d]] = session[lock[d]]
    BY <1>5 DEF Invariant, TypeOK
  <2>2. \A d \in Ids : shadow[d] # None => lock[d] # None
    BY DEF Invariant, LocksAreHeld
  <2>3. QED
    BY <1>1, <2>1, <2>2 DEF TokensAreKept
<1>14. AlertIdsAreFresh'
  <2>1. nextAlert \in Nat
    BY DEF AlertTypes
  <2>2. accepted[nextAlert] = {} /\ alertLog[nextAlert] = None
    BY <1>1, <2>1 DEF AlertIdsAreFresh
  <2>3. ASSUME NEW q \in Requests \ {r}, alert[q] # None
        PROVE  /\ alert[q].id < nextAlert' /\ alert[q].id # nextAlert
               /\ alertLog[alert[q].id] = None
               /\ accepted[alert[q].id] = {d \in Ids : alert[q].outcome[d] = "DELIVERED"}
               /\ \A t \in Requests \ {q} : alert[t] # None => alert[t].id # alert[q].id
    <3>1. alert[q].id \in Nat
      BY <2>3, AlertFields, AlertBounds DEF AlertIds
    <3>2. QED
      BY <1>1, <2>1, <2>3, <3>1 DEF AlertIdsAreFresh
  <2>4. nextAlert < nextAlert' /\ accepted[nextAlert] = {d \in Ids : a.outcome[d] = "DELIVERED"}
    BY <1>1, <1>3, <2>1, <2>2, NoneIsNoAlert DEF PushOutcome
  <2>5. \A i \in AlertIds : i >= nextAlert' => i >= nextAlert
    BY <1>1, <2>1, AlertBounds DEF AlertIds
  <2>6. QED
    BY <1>1, <1>3, <1>5, <2>2, <2>3, <2>4, <2>5 DEF AlertIdsAreFresh
<1>15. AuditIsTruthful'
  BY SMTT(40), <1>1 DEF AuditIsTruthful
<1>16. PushesAreForTargets'
  <2>1. nextAlert \in Nat /\ \A i \in AlertIds : i \in Nat
    BY AlertBounds DEF AlertTypes, AlertIds
  <2>2. /\ taken[nextAlert] = {} /\ stray[nextAlert] = {} /\ accepted[nextAlert] = {}
        /\ \A i \in AlertIds : i >= nextAlert' => taken[i] = {} /\ stray[i] = {}
    BY <1>1, <2>1 DEF PushesAreForTargets, AlertIdsAreFresh
  <2>3. QED
    BY <1>1, <1>3, <1>5, <1>9, <2>2 DEF PushesAreForTargets
<1>17. QED
  BY <1>6, <1>7, <1>8, <1>10, <1>11, <1>12, <1>13, <1>14, <1>15, <1>16

LEMMA StutterPreserves ==
  ASSUME AlertInvariant, UNCHANGED vars
  PROVE  AlertInvariant'
<1> USE DEF vars, registryVars, alertVars, pushVars, AlertInvariant
<1>1. Invariant'
  BY DEF Invariant, TypeOK, HandlerArguments, LocksAreHeld, IdsAreFresh, Reserving,
     VersionsAgree, RightRow, NetworksAreClaimed, ClaimsAreUsed
<1>2. \A r \in Requests : Targets(r)' = Targets(r) /\ Disowns(r)' = Disowns(r)
  BY DEF Targets, Disowns
<1>3. AlertTypes' /\ AlertsHaveHandlers' /\ OutcomesAreFinal' /\ LocksAreCleared'
  BY <1>2 DEF AlertTypes, AlertsHaveHandlers, OutcomesAreFinal, LocksAreCleared
<1>4. TargetsWereRows' /\ TokensAreKept' /\ AlertIdsAreFresh'
  BY <1>2 DEF TargetsWereRows, Reserving, TokensAreKept, AlertIdsAreFresh
<1>5. PushesAreForTargets' /\ AuditIsTruthful'
  BY <1>2 DEF PushesAreForTargets, AuditIsTruthful
<1>6. QED
  BY <1>1, <1>3, <1>4, <1>5

LEMMA SendPreserves ==
  ASSUME AlertInvariant, NEW r \in Requests, SendAlert(r)
  PROVE  AlertInvariant'
<1>1. ASSUME NEW user \in Users, NEW ids \in SUBSET Ids, SendNamed(r, user, ids)
      PROVE  AlertInvariant'
  BY <1>1, BeginPreserves DEF SendNamed, ResolveNamed, VerifyAdmin
<1>2. ASSUME NEW user \in Users, SendToNetwork(r, user)
      PROVE  AlertInvariant'
  <2>1. PICK mac \in Macs : /\ session[r].at = "idle" /\ networks[mac] = user
                            /\ Begin(r, user, mac, NetworkTargets(mac))
    BY <1>2 DEF SendToNetwork, VerifyAdmin
  <2>2. NetworkTargets(mac) \in SUBSET Ids /\ \A d \in NetworkTargets(mac) : devices[d] # None
    BY DEF NetworkTargets
  <2>3. QED
    BY <2>1, <2>2, BeginPreserves
<1>3. CASE UNCHANGED vars
  BY <1>3, StutterPreserves
<1>4. QED
  BY <1>1, <1>2, <1>3 DEF SendAlert, RefuseAlert

-----------------------------------------------------------------------------
(* Pushes.                                                                 *)

\* A step of alert r leads to pushes to its targets only, if to any.
PushesGoOn(r) ==
    /\ taken' \in [AlertIds -> SUBSET Ids]
    /\ \A j \in AlertIds : j # alert[r].id => taken'[j] = taken[j]
    /\ accepted'[alert[r].id] \subseteq taken'[alert[r].id]
    /\ taken'[alert[r].id] \subseteq Targets(r)
    /\ UNCHANGED stray

LEMMA NoPushGoesOn ==
  ASSUME AlertInvariant, NEW r \in Requests, alert[r] # None, UNCHANGED pushVars
  PROVE  PushesGoOn(r)
  BY DEF pushVars, PushesGoOn, AlertInvariant, AlertTypes, PushesAreForTargets

\* The database and the handler are unchanged: an alert takes up a push, learns
\* what came of it, or goes on to its next stage.
LEMMA AlertMovesPreserves ==
  ASSUME AlertInvariant, NEW r \in Requests, alert[r] # None, NEW b \in Alert,
         b.id = alert[r].id, b.net = alert[r].net, b.read = alert[r].read,
         b.cleared = alert[r].cleared,
         \A d \in Ids : alert[r].outcome[d] # None => b.outcome[d] = alert[r].outcome[d],
         \A d \in Ids : b.tries[d] # None => d \in Targets(r) /\ b.outcome[d] = None,
         \A d \in Ids : b.outcome[d] # None => d \in Targets(r),
         b.at # "push" => \A d \in Targets(r) : b.outcome[d] # None,
         session[r].dev # None => b.at = "clear",
         b.at = "push" => alert[r].at = "push",
         alert' = [alert EXCEPT ![r] = b],
         accepted' = [accepted EXCEPT ![b.id] = {d \in Ids : b.outcome[d] = "DELIVERED"}],
         PushesGoOn(r),
         UNCHANGED <<registryVars, alertLog, nextAlert>>
  PROVE  AlertInvariant'
<1> USE DEF AlertInvariant
<1>1. /\ alert'[r] = b /\ b # None /\ \A q \in Requests \ {r} : alert'[q] = alert[q]
      /\ b.id \in AlertIds
      /\ UNCHANGED <<networks, devices, claim, lock, shadow, session, nextId, known>>
  BY SMTT(40), NoneIsNoAlert, AlertFields DEF AlertTypes, registryVars
<1>2. Invariant'
  BY <1>1 DEF Invariant, TypeOK, HandlerArguments, LocksAreHeld, IdsAreFresh, Reserving,
              VersionsAgree, RightRow, NetworksAreClaimed, ClaimsAreUsed
<1>3. AlertTypes'
  <2>1. {d \in Ids : b.outcome[d] = "DELIVERED"} \in SUBSET Ids
    OBVIOUS
  <2>2. QED
    BY <1>1, <2>1 DEF AlertTypes, PushesGoOn
<1>4. AlertsHaveHandlers'
  BY <1>1 DEF AlertsHaveHandlers
<1>5. \A q \in Requests : Targets(q)' = Targets(q)
  BY <1>1 DEF Targets
<1>6. /\ \A q \in Requests \ {r} : Disowns(q)' = Disowns(q)
      /\ \A d \in Disowns(r) : d \in Disowns(r)'
  <2>1. \A q \in Requests \ {r} : Disowns(q)' = Disowns(q)
    BY <1>1, <1>5 DEF Disowns
  <2>2. \A d \in Disowns(r) : d \in Disowns(r)'
    BY <1>1, <1>5, NoneIsNoAlert DEF Disowns, PushOutcome, Targets
  <2>3. QED
    BY <2>1, <2>2
<1>7. OutcomesAreFinal'
  BY <1>1, <1>5 DEF OutcomesAreFinal
<1>8. LocksAreCleared'
  BY <1>1, <1>6 DEF LocksAreCleared
<1>9. TargetsWereRows'
  BY <1>1, <1>5 DEF TargetsWereRows, Reserving
<1>10. TokensAreKept'
  BY <1>1 DEF TokensAreKept
<1>11. AlertIdsAreFresh'
  <2>1. ASSUME NEW q \in Requests \ {r}, alert[q] # None
        PROVE  alert[q].id # b.id /\ alert[q].id \in AlertIds
    BY <2>1, AlertFields DEF AlertIdsAreFresh
  <2>2. accepted'[b.id] = {d \in Ids : b.outcome[d] = "DELIVERED"}
    BY <1>1 DEF AlertTypes
  <2>3. \A i \in AlertIds : i # b.id => accepted'[i] = accepted[i]
    BY DEF AlertTypes
  <2>4. \A i \in AlertIds : i >= nextAlert => i # b.id
    BY AlertBounds DEF AlertIdsAreFresh, AlertIds, AlertTypes
  <2>5. \A i \in AlertIds : i >= nextAlert => alertLog[i] = None /\ accepted[i] = {}
    BY DEF AlertIdsAreFresh
  <2>6. \A i \in AlertIds : i >= nextAlert' => alertLog'[i] = None /\ accepted'[i] = {}
    BY <2>3, <2>4, <2>5
  <2>7. ASSUME NEW q \in Requests, alert'[q] # None
        PROVE  /\ alert'[q].id < nextAlert'
               /\ alertLog'[alert'[q].id] = None
               /\ accepted'[alert'[q].id] = {d \in Ids : alert'[q].outcome[d] = "DELIVERED"}
               /\ \A s \in Requests \ {q} : alert'[s] # None => alert'[s].id # alert'[q].id
    <3>1. CASE q = r
      BY <1>1, <2>1, <2>2, <3>1 DEF AlertIdsAreFresh
    <3>2. CASE q # r
      BY <1>1, <2>1, <2>3, <2>7, <3>2 DEF AlertIdsAreFresh
    <3>3. QED
      BY <3>1, <3>2
  <2>8. QED
    BY <2>6, <2>7 DEF AlertIdsAreFresh
<1>12. AuditIsTruthful'
  <2>1. \A i \in AlertIds : alertLog[i] # None =>
          accepted'[i] = accepted[i] /\ taken'[i] = taken[i]
    BY DEF AlertIdsAreFresh, AlertTypes, PushesGoOn
  <2>2. QED
    BY <2>1 DEF AuditIsTruthful
<1>13. PushesAreForTargets'
  <2>1. ASSUME NEW q \in Requests \ {r}, alert[q] # None
        PROVE  alert[q].id # b.id /\ alert[q].id \in AlertIds
    BY <2>1, AlertFields DEF AlertIdsAreFresh
  <2>2. \A i \in AlertIds : i # b.id => accepted'[i] = accepted[i]
    BY DEF AlertTypes
  <2>3. \A i \in AlertIds : i >= nextAlert => i # b.id
    BY AlertBounds DEF AlertIdsAreFresh, AlertIds, AlertTypes
  <2>4. ASSUME NEW q \in Requests, alert'[q] # None
        PROVE  /\ accepted'[alert'[q].id] \subseteq taken'[alert'[q].id]
               /\ taken'[alert'[q].id] \subseteq Targets(q)'
               /\ stray'[alert'[q].id] = {}
    <3>1. CASE q = r
      BY <1>1, <1>5, <3>1 DEF PushesGoOn, PushesAreForTargets
    <3>2. CASE q # r
      BY <1>1, <1>5, <2>1, <2>2, <2>4, <3>2 DEF PushesGoOn, PushesAreForTargets
    <3>3. QED
      BY <3>1, <3>2
  <2>5. QED
    BY <2>3, <2>4 DEF PushesGoOn, PushesAreForTargets
<1>14. QED
  BY <1>2, <1>3, <1>4, <1>7, <1>8, <1>9, <1>10, <1>11, <1>12, <1>13

\* Nothing was delivered by this step.
LEMMA NothingDelivered ==
  ASSUME AlertInvariant, NEW r \in Requests, alert[r] # None, NEW b,
         b.id = alert[r].id,
         \A d \in Ids : b.outcome[d] = "DELIVERED" <=> alert[r].outcome[d] = "DELIVERED"
  PROVE  accepted = [accepted EXCEPT ![b.id] = {d \in Ids : b.outcome[d] = "DELIVERED"}]
<1>1. accepted[b.id] = {d \in Ids : b.outcome[d] = "DELIVERED"}
  BY DEF AlertInvariant, AlertIdsAreFresh
<1>2. QED
  BY <1>1 DEF AlertInvariant, AlertTypes

LEMMA StartPushPreserves ==
  ASSUME AlertInvariant, NEW r \in Requests, NEW d \in Ids, StartPush(r, d)
  PROVE  AlertInvariant'
<1> DEFINE b == [alert[r] EXCEPT !.tries[d] = 0]
<1> USE DEF AlertInvariant
<1>1. /\ alert[r] # None /\ alert[r].at = "push" /\ d \in Targets(r)
      /\ alert[r].outcome[d] = None
      /\ alert' = [alert EXCEPT ![r] = b]
      /\ PushesGoOn(r)
      /\ UNCHANGED <<registryVars, alertLog, nextAlert, accepted>>
  BY NoPushGoesOn DEF StartPush, pushVars, AlertTypes
<1>2. /\ b \in Alert
      /\ b.id = alert[r].id /\ b.net = alert[r].net /\ b.read = alert[r].read
      /\ b.at = alert[r].at /\ b.outcome = alert[r].outcome /\ b.cleared = alert[r].cleared
      /\ \A e \in Ids : b.tries[e] = IF e = d THEN 0 ELSE alert[r].tries[e]
  <2>1. 0 \in 0..MaxTries - 1
    BY AlertBounds
  <2>2. alert[r] \in Alert /\ alert[r].tries \in [Ids -> (0..MaxTries - 1) \cup {None}]
    BY <1>1, AlertFields
  <2>3. QED
    BY <2>1, <2>2 DEF Alert
<1> HIDE DEF b
<1>3. accepted' = [accepted EXCEPT ![b.id] = {e \in Ids : b.outcome[e] = "DELIVERED"}]
  BY <1>1, <1>2, NothingDelivered
<1>4. /\ \A e \in Ids : b.tries[e] # None => e \in Targets(r) /\ b.outcome[e] = None
      /\ \A e \in Ids : b.outcome[e] # None => e \in Targets(r)
      /\ session[r].dev = None
  BY <1>1, <1>2 DEF OutcomesAreFinal, LocksAreCleared
<1>5. QED
  BY <1>1, <1>2, <1>3, <1>4, AlertMovesPreserves

\* A push that is in flight has one more attempt, or an outcome.
LEMMA PushPreserves ==
  ASSUME AlertInvariant, NEW r \in Requests, NEW d \in Ids, Push(r, d)
  PROVE  AlertInvariant'
<1> DEFINE concluded(outcome) == [alert[r] EXCEPT !.outcome[d] = outcome, !.tries[d] = None]
           again == [alert[r] EXCEPT !.tries[d] = @ + 1]
<1> USE DEF AlertInvariant
<1>1. /\ alert[r] # None /\ alert[r] \in Alert /\ alert[r].tries[d] # None
      /\ UNCHANGED <<registryVars, alertLog, nextAlert>>
  BY AlertFields DEF Push, InFlight
<1>2. /\ d \in Targets(r) /\ alert[r].outcome[d] = None /\ alert[r].at = "push"
      /\ session[r].dev = None
  BY <1>1, AlertFields DEF OutcomesAreFinal, LocksAreCleared
<1>3. ASSUME NEW outcome \in PushOutcome, Conclude(r, d, outcome),
             IF outcome = "DELIVERED"
               THEN accepted' = [accepted EXCEPT ![alert[r].id] = @ \cup {d}]
               ELSE UNCHANGED accepted,
             PushesGoOn(r)
      PROVE  AlertInvariant'
  <2> DEFINE b == concluded(outcome)
  <2>1. /\ b \in Alert
        /\ b.id = alert[r].id /\ b.net = alert[r].net /\ b.read = alert[r].read
        /\ b.at = alert[r].at /\ b.cleared = alert[r].cleared
        /\ \A e \in Ids : b.tries[e] = IF e = d THEN None ELSE alert[r].tries[e]
        /\ \A e \in Ids : b.outcome[e] = IF e = d THEN outcome ELSE alert[r].outcome[e]
    BY <1>1, AlertFields DEF Alert
  <2>2. alert' = [alert EXCEPT ![r] = b]
    BY <1>3 DEF Conclude, AlertTypes
  <2> HIDE DEF b, concluded
  <2>3. accepted' = [accepted EXCEPT ![b.id] = {e \in Ids : b.outcome[e] = "DELIVERED"}]
    <3>1. CASE outcome = "DELIVERED"
      <4>1. accepted[b.id] = {e \in Ids : alert[r].outcome[e] = "DELIVERED"}
        BY <1>1, <2>1 DEF AlertIdsAreFresh
      <4>2. accepted[b.id] \cup {d} = {e \in Ids : b.outcome[e] = "DELIVERED"}
        BY <2>1, <3>1, <4>1
      <4>3. QED
        BY <1>1, <1>3, <2>1, <3>1, <4>2, AlertFields DEF AlertTypes
    <3>2. CASE outcome # "DELIVERED"
      <4>1. alert[r].outcome[d] # "DELIVERED"
        BY <1>2, NoneIsNoAlert DEF PushOutcome
      <4>2. QED
        BY <1>1, <1>3, <2>1, <3>2, <4>1, NothingDelivered
    <3>3. QED
      BY <3>1, <3>2
  <2>4. /\ \A e \in Ids : b.tries[e] # None => e \in Targets(r) /\ b.outcome[e] = None
        /\ \A e \in Ids : b.outcome[e] # None => e \in Targets(r)
        /\ \A e \in Ids : alert[r].outcome[e] # None => b.outcome[e] = alert[r].outcome[e]
    BY <1>1, <1>2, <2>1 DEF OutcomesAreFinal
  <2>5. QED
    BY <1>1, <1>2, <1>3, <2>1, <2>2, <2>3, <2>4, AlertMovesPreserves
<1>4. ASSUME alert[r].tries[d] + 1 < MaxTries, alert' = [alert EXCEPT ![r].tries[d] = @ + 1],
             UNCHANGED accepted, PushesGoOn(r)
      PROVE  AlertInvariant'
  <2>1. alert[r].tries[d] \in 0..MaxTries - 1
    BY <1>1, AlertFields
  <2>2. again.tries[d] \in 0..MaxTries - 1
    BY <1>1, <1>4, <2>1, AlertFields, AlertBounds DEF Alert
  <2>3. /\ again \in Alert
        /\ again.id = alert[r].id /\ again.net = alert[r].net /\ again.read = alert[r].read
        /\ again.at = alert[r].at /\ again.cleared = alert[r].cleared
        /\ again.outcome = alert[r].outcome
        /\ \A e \in Ids \ {d} : again.tries[e] = alert[r].tries[e]
    BY <1>1, <2>1, <2>2, AlertFields DEF Alert
  <2>4. alert' = [alert EXCEPT ![r] = again]
    BY <1>4 DEF AlertTypes
  <2> HIDE DEF again
  <2>5. accepted' = [accepted EXCEPT ![again.id] = {e \in Ids : again.outcome[e] = "DELIVERED"}]
    BY <1>1, <1>4, <2>3, NothingDelivered
  <2>6. /\ \A e \in Ids : again.tries[e] # None => e \in Targets(r) /\ again.outcome[e] = None
        /\ \A e \in Ids : again.outcome[e] # None => e \in Targets(r)
    BY <1>1, <1>2, <2>3 DEF OutcomesAreFinal
  <2>7. QED
    BY <1>1, <1>2, <1>4, <2>3, <2>4, <2>5, <2>6, AlertMovesPreserves
<1>5. ASSUME TakeFor(alert[r].id, d), UNCHANGED stray,
             UNCHANGED accepted \/ accepted' = [accepted EXCEPT ![alert[r].id] = @ \cup {d}]
      PROVE  PushesGoOn(r)
  <2>1. /\ taken \in [AlertIds -> SUBSET Ids] /\ accepted \in [AlertIds -> SUBSET Ids]
        /\ alert[r].id \in AlertIds
        /\ accepted[alert[r].id] \subseteq taken[alert[r].id]
        /\ taken[alert[r].id] \subseteq Targets(r)
    BY <1>1, AlertFields DEF AlertTypes, PushesAreForTargets
  <2>2. QED
    BY <1>2, <1>5, <2>1 DEF TakeFor, PushesGoOn
<1>6. CASE OwnerUnread(r, d) \/ Suppress(r, d) \/ NoTokenToPush(r, d)
  <2>1. PushesGoOn(r) /\ UNCHANGED accepted
    BY <1>1, <1>6, NoPushGoesOn DEF OwnerUnread, Suppress, NoTokenToPush, pushVars
  <2>2. QED
    BY <1>3, <1>6, <2>1 DEF OwnerUnread, Suppress, NoTokenToPush, PushOutcome
<1>7. CASE CallProvider(r, d)
  <2>1. CASE Delivered(r, d)
    BY <1>3, <1>5, <2>1 DEF Delivered, PushOutcome
  <2>2. CASE Conclude(r, d, "TOKEN_INVALID") /\ UNCHANGED pushVars
    <3>1. PushesGoOn(r) /\ UNCHANGED accepted
      BY <1>1, <2>2, NoPushGoesOn DEF pushVars
    <3>2. QED
      BY <1>3, <2>2, <3>1 DEF PushOutcome
  <2>3. CASE /\ IF alert[r].tries[d] + 1 < MaxTries
                  THEN alert' = [alert EXCEPT ![r].tries[d] = @ + 1]
                  ELSE Conclude(r, d, "TRANSIENT_FAILURE")
             /\ UNCHANGED taken \/ TakeFor(alert[r].id, d)
             /\ UNCHANGED <<accepted, stray>>
    <3>1. PushesGoOn(r) /\ UNCHANGED accepted
      BY <1>1, <1>5, <2>3, NoPushGoesOn DEF pushVars
    <3>2. QED
      BY <1>3, <1>4, <2>3, <3>1 DEF PushOutcome
  <2>4. QED
    BY <1>7, <2>1, <2>2, <2>3 DEF CallProvider
<1>8. QED
  BY <1>6, <1>7 DEF Push

\* Every target has its outcome: on to the tokens; every token is dealt with:
\* on to the audit row.
LEMMA NextStagePreserves ==
  ASSUME AlertInvariant, NEW r \in Requests, Gathered(r) \/ Log(r)
  PROVE  AlertInvariant'
<1> DEFINE stage == IF alert[r].at = "push" THEN "clear" ELSE "commit"
           b == [alert[r] EXCEPT !.at = stage]
<1> USE DEF AlertInvariant
<1>1. /\ alert[r] # None /\ alert[r].at \in {"push", "clear"}
      /\ alert' = [alert EXCEPT ![r] = b]
      /\ PushesGoOn(r)
      /\ UNCHANGED <<registryVars, alertLog, nextAlert, accepted>>
  BY NoPushGoesOn DEF Gathered, Log, pushVars, AlertTypes
<1>2. /\ session[r].dev = None
      /\ \A d \in Targets(r) : alert[r].outcome[d] # None
  BY <1>1 DEF Gathered, Log, OutcomesAreFinal, LocksAreCleared
<1>3. /\ b \in Alert
      /\ b.id = alert[r].id /\ b.net = alert[r].net /\ b.read = alert[r].read
      /\ b.at # "push" /\ b.outcome = alert[r].outcome /\ b.tries = alert[r].tries
      /\ b.cleared = alert[r].cleared
  BY <1>1, AlertFields DEF Alert
<1> HIDE DEF b
<1>4. accepted' = [accepted EXCEPT ![b.id] = {e \in Ids : b.outcome[e] = "DELIVERED"}]
  BY <1>1, <1>3, NothingDelivered
<1>5. /\ \A e \in Ids : b.tries[e] # None => e \in Targets(r) /\ b.outcome[e] = None
      /\ \A e \in Ids : b.outcome[e] # None => e \in Targets(r)
      /\ \A e \in Ids : alert[r].outcome[e] # None => b.outcome[e] = alert[r].outcome[e]
      /\ \A e \in Targets(r) : b.outcome[e] # None
  BY <1>1, <1>2, <1>3 DEF OutcomesAreFinal
<1>6. QED
  BY <1>1, <1>2, <1>3, <1>4, <1>5, AlertMovesPreserves

-----------------------------------------------------------------------------
(* Clearing tokens.                                                        *)

\* The loop comes to a target whose token the provider disowned.
LEMMA NextToClearPreserves ==
  ASSUME AlertInvariant, NEW r \in Requests, NEW d \in Ids, NextToClear(r, d)
  PROVE  AlertInvariant'
<1> DEFINE s == [session[r] EXCEPT !.dev = d]
<1> USE DEF AlertInvariant
<1>1. /\ alert[r] # None /\ alert[r].at = "clear" /\ session[r].at = "alert"
      /\ d \in Disowns(r) \ alert[r].cleared /\ d \in Targets(r)
      /\ session' = [session EXCEPT ![r] = s]
      /\ UNCHANGED <<networks, devices, claim, lock, shadow, nextId, known, alertVars>>
  BY DEF NextToClear, Disowns, AlertsHaveHandlers, Invariant, TypeOK
<1>2. /\ s \in Handler /\ s.at = "alert" /\ s.row = None /\ s.phone = None
      /\ s.dev = d /\ s.user = session[r].user
  BY SMTT(40), <1>1 DEF Invariant, TypeOK, HandlerArguments, Handler
<1> HIDE DEF s
<1>3. Invariant'
  BY <1>1, <1>2, AlertHandlerPreserves DEF TargetsWereRows
<1>4. /\ session'[r] = s /\ \A q \in Requests \ {r} : session'[q] = session[q]
      /\ UNCHANGED <<alert, alertLog, nextAlert, taken, accepted, stray>>
  BY <1>1 DEF Invariant, TypeOK, alertVars, pushVars
<1>5. \A q \in Requests : Targets(q)' = Targets(q)
  BY <1>4 DEF Targets
<1>6. \A q \in Requests : Disowns(q)' = Disowns(q)
  BY <1>4, <1>5 DEF Disowns
<1>7. AlertTypes' /\ AlertIdsAreFresh' /\ AuditIsTruthful'
  BY <1>4 DEF AlertTypes, AlertIdsAreFresh, AuditIsTruthful
<1>8. OutcomesAreFinal'
  BY <1>4, <1>5 DEF OutcomesAreFinal
<1>9. AlertsHaveHandlers'
  BY <1>1, <1>2, <1>4 DEF AlertsHaveHandlers
<1>10. LocksAreCleared'
  BY <1>1, <1>2, <1>4, <1>6 DEF LocksAreCleared
<1>11. TargetsWereRows'
  <2>1. \A q \in Requests : Reserving(q)' => Reserving(q) /\ session'[q].dev = session[q].dev
    BY <1>2, <1>4 DEF Reserving
  <2>2. QED
    BY <1>1, <1>4, <1>5, <2>1 DEF TargetsWereRows
<1>12. TokensAreKept'
  <2>1. \A q \in Requests : session'[q].at = session[q].at
    BY <1>1, <1>2, <1>4
  <2>2. \A e \in Ids : shadow[e] # None => lock[e] \in Requests
    BY DEF Invariant, LocksAreHeld, TypeOK
  <2>3. QED
    BY <1>1, <2>1, <2>2 DEF TokensAreKept
<1>13. PushesAreForTargets'
  BY <1>4, <1>5 DEF PushesAreForTargets
<1>14. QED
  BY <1>3, <1>7, <1>8, <1>9, <1>10, <1>11, <1>12, <1>13

\* The row as it is written: without its token, and otherwise where it was.
LEMMA ClearedRow ==
  ASSUME NEW stored \in Row, NEW read \in Row, read.token \in Tokens,
         SpeaksForItsPhone(stored)
  PROVE  LET new == Updated(stored, read, Disowned(read))
         IN  /\ new \in Row /\ new # None
             /\ SpeaksForItsPhone(new)
             /\ SameRow(stored, new)
             /\ new.net = stored.net
             /\ new.token = None
<1> DEFINE want == Disowned(read)
           new == Updated(stored, read, want)
<1>1. /\ want.net = read.net /\ want.install = read.install
      /\ want.token = None /\ want.status = "OFFLINE" /\ want.token # read.token
  BY NoneIsNobody DEF Disowned, Row
<1> HIDE DEF want
<1>2. /\ new.owner = stored.owner /\ new.phone = stored.phone /\ new.net = stored.net
      /\ new.install = stored.install /\ new.token = None
      /\ new.status \in {stored.status, "OFFLINE"}
  BY <1>1 DEF Updated, Row
<1>3. new \in Row
  BY <1>1 DEF Updated, Row, Status
<1>4. QED
  BY <1>2, <1>3, NoneIsNobody, NoneIsNoRow DEF want, SpeaksForItsPhone, SameRow

\* The row of a target is locked and written, beside whatever else runs.
LEMMA ClearTokenPreserves ==
  ASSUME AlertInvariant, NEW r \in Requests, ClearToken(r)
  PROVE  AlertInvariant'
<1> DEFINE d == session[r].dev
           read == alert[r].read[d]
           new == Updated(devices[d], read, Disowned(read))
           a == [alert[r] EXCEPT !.cleared = @ \cup {d}]
<1> USE DEF AlertInvariant
<1>1. /\ alert[r] # None /\ alert[r].at = "clear" /\ session[r].at = "alert"
      /\ lock[d] \in {None, r} /\ devices[d] # None
      /\ lock' = [lock EXCEPT ![d] = r] /\ shadow' = [shadow EXCEPT ![d] = new]
      /\ session' = [session EXCEPT ![r].dev = None]
      /\ alert' = [alert EXCEPT ![r] = a]
      /\ UNCHANGED <<networks, devices, claim, nextId, known, alertLog, nextAlert,
                     taken, accepted, stray>>
      /\ d # None
  BY DEF ClearToken, pushVars, Clearing, Writable, Flush, AlertsHaveHandlers, AlertTypes
<1>2. /\ d \in Ids /\ d \in Disowns(r) \ alert[r].cleared /\ d \in Targets(r)
      /\ lock[d] = None /\ shadow[d] = None
      /\ session[r] \in Handler /\ devices[d] \in Row
  BY <1>1 DEF LocksAreCleared, Disowns, Invariant, TypeOK, LocksAreHeld, Handler
<1>3. read \in Row /\ read.token \in Tokens
  BY <1>1, <1>2, AlertFields DEF Disowns, Targets
<1>4. /\ new \in Row /\ new # None /\ SpeaksForItsPhone(new) /\ SameRow(devices[d], new)
      /\ new.net = devices[d].net
  BY <1>1, <1>2, <1>3, ClearedRow DEF Invariant, VersionsAgree
<1>5. /\ a \in Alert /\ a # None /\ a.id = alert[r].id /\ a.at = "clear" /\ a.net = alert[r].net
      /\ a.read = alert[r].read /\ a.tries = alert[r].tries /\ a.outcome = alert[r].outcome
      /\ a.cleared = alert[r].cleared \cup {d}
  BY <1>1, <1>2, AlertFields, NoneIsNoAlert DEF Alert
<1> HIDE DEF new, a, read
<1>6. /\ session'[r].at = "alert" /\ session'[r].dev = None /\ session'[r].row = None
      /\ session'[r].user = session[r].user /\ session'[r].phone = None
      /\ session'[r] \in Handler
      /\ \A q \in Requests \ {r} : session'[q] = session[q] /\ alert'[q] = alert[q]
      /\ alert'[r] = a
      /\ lock'[d] = r /\ shadow'[d] = new
      /\ \A e \in Ids \ {d} : lock'[e] = lock[e] /\ shadow'[e] = shadow[e]
      /\ \A m \in Macs : claim[m] # r
  <2>1. session[r].row = None /\ session[r].phone = None
    BY <1>1 DEF Invariant, HandlerArguments
  <2>2. /\ session'[r] = [session[r] EXCEPT !.dev = None]
        /\ \A q \in Requests \ {r} : session'[q] = session[q]
    BY <1>1 DEF Invariant, TypeOK
  <2>3. \A m \in Macs : claim[m] # r
    BY <1>1, NoneIsNoRequest DEF Invariant, LocksAreHeld
  <2>4. alert'[r] = a /\ \A q \in Requests \ {r} : alert'[q] = alert[q]
    BY <1>1 DEF AlertTypes
  <2>5. /\ lock'[d] = r /\ shadow'[d] = new
        /\ \A e \in Ids \ {d} : lock'[e] = lock[e] /\ shadow'[e] = shadow[e]
    BY <1>1, <1>2 DEF Invariant, TypeOK
  <2>6. [session[r] EXCEPT !.dev = None] \in Handler
    BY <1>2 DEF Handler
  <2>7. /\ session'[r].at = "alert" /\ session'[r].dev = None /\ session'[r].row = None
        /\ session'[r].user = session[r].user /\ session'[r].phone = None
    BY <1>1, <1>2, <2>1, <2>2 DEF Handler
  <2>8. QED
    BY <2>2, <2>3, <2>4, <2>5, <2>6, <2>7
<1>7. \A q \in Requests \ {r} : Reserving(q)' <=> Reserving(q)
  BY <1>6 DEF Reserving
<1>8. ~ Reserving(r)' /\ ~ Reserving(r)
  BY <1>1, <1>6 DEF Reserving
<1>9. Invariant'
  <2> USE DEF Invariant
  <2>1. TypeOK'
    BY <1>1, <1>2, <1>4, <1>6 DEF TypeOK
  <2>2. HandlerArguments'
    BY <1>6 DEF HandlerArguments
  <2>3. LocksAreHeld'
    <3>1. ASSUME NEW e \in Ids, lock'[e] # None
          PROVE  \/ session'[lock'[e]].at \in {"respond", "commit"} /\ session'[lock'[e]].dev = e
                 \/ session'[lock'[e]].at = "alert" /\ devices'[e] # None /\ shadow'[e] # None
      <4>1. CASE e = d
        BY <1>1, <1>4, <1>6, <4>1
      <4>2. CASE e # d
        <5>1. lock'[e] = lock[e] /\ lock[e] \in Requests /\ shadow'[e] = shadow[e]
          BY <1>6, <3>1, <4>2 DEF TypeOK
        <5>2. CASE lock[e] = r
          BY <1>1, <1>6, <5>1, <5>2, NoneIsNoRequest DEF LocksAreHeld
        <5>3. CASE lock[e] # r
          BY <1>1, <1>6, <3>1, <5>1, <5>3 DEF LocksAreHeld
        <5>4. QED
          BY <5>2, <5>3
      <4>3. QED
        BY <4>1, <4>2
    <3>2. \A e \in Ids : shadow'[e] # None => lock'[e] # None
      BY <1>6, NoneIsNoRequest DEF LocksAreHeld
    <3>3. \A m \in Macs : claim[m] # None => claim[m] \in Requests \ {r}
      BY <1>6 DEF TypeOK
    <3>4. QED
      BY <1>1, <1>6, <3>1, <3>2, <3>3 DEF LocksAreHeld
  <2>4. IdsAreFresh'
    <3>1. \A q \in Requests : session'[q].dev # None => session'[q].dev < nextId
      BY <1>6 DEF IdsAreFresh
    <3>2. ASSUME NEW q \in Requests, Reserving(q)'
          PROVE  /\ devices[session'[q].dev] = None
                 /\ \A t \in Requests \ {q} : session'[t].dev # session'[q].dev
      <4>1. q # r /\ Reserving(q) /\ session'[q] = session[q] /\ session[q].dev # None
        BY <1>6, <1>7, <1>8, <3>2 DEF Reserving, HandlerArguments
      <4>2. QED
        BY <1>6, <4>1 DEF IdsAreFresh
    <3>3. ASSUME NEW e \in Ids, devices[e] = None, shadow'[e] # None,
                 NEW q \in Requests, session'[q].dev = e
          PROVE  q = lock'[e]
      <4>1. e # d /\ e # None
        BY <1>1, <3>3, NoneIsNobody, MaxDevicesIsNat
      <4>2. QED
        BY <1>6, <3>3, <4>1 DEF IdsAreFresh
    <3>4. QED
      BY <1>1, <3>1, <3>2, <3>3 DEF IdsAreFresh
  <2>5. VersionsAgree'
    BY <1>1, <1>4, <1>6 DEF VersionsAgree
  <2>6. RightRow'
    BY <1>6 DEF RightRow
  <2>7. NetworksAreClaimed'
    <3>1. networks[new.net] # None
      BY <1>1, <1>2, <1>4 DEF NetworksAreClaimed
    <3>2. \A e \in Ids : shadow'[e] # None =>
             \/ networks[shadow'[e].net] # None
             \/ lock'[e] # None /\ claim[shadow'[e].net] = lock'[e]
      BY <1>6, <3>1 DEF NetworksAreClaimed
    <3>3. QED
      BY <1>1, <1>6, <3>2 DEF NetworksAreClaimed
  <2>8. ClaimsAreUsed'
    <3> SUFFICES ASSUME NEW m \in Macs, claim[m] # None,
                        session'[claim[m]].at \in {"respond", "commit"}
                 PROVE  /\ lock'[session'[claim[m]].dev] = claim[m]
                        /\ shadow'[session'[claim[m]].dev] # None
                        /\ shadow'[session'[claim[m]].dev].net = m
                        /\ shadow'[session'[claim[m]].dev].owner = session'[claim[m]].user
      BY <1>1 DEF ClaimsAreUsed
    <3>1. claim[m] \in Requests \ {r} /\ session'[claim[m]] = session[claim[m]]
      BY <1>6 DEF TypeOK
    <3>2. session[claim[m]].dev \in Ids
      BY <3>1 DEF TypeOK, HandlerArguments, Handler
    <3>3. session[claim[m]].dev # d
      BY <1>2, <3>1 DEF ClaimsAreUsed
    <3>4. QED
      BY <1>6, <3>1, <3>2, <3>3 DEF ClaimsAreUsed
  <2>9. QED
    BY <2>1, <2>2, <2>3, <2>4, <2>5, <2>6, <2>7, <2>8
<1>10. \A q \in Requests : Targets(q)' = Targets(q)
  BY <1>5, <1>6 DEF Targets
<1>11. \A q \in Requests : Disowns(q)' = Disowns(q)
  BY <1>5, <1>6, <1>10 DEF Disowns
<1>12. AlertTypes'
  BY <1>1, <1>5 DEF AlertTypes
<1>13. AlertsHaveHandlers'
  BY <1>1, <1>5, <1>6 DEF AlertsHaveHandlers
<1>14. OutcomesAreFinal'
  BY <1>1, <1>5, <1>6, <1>10 DEF OutcomesAreFinal
<1>15. LocksAreCleared'
  BY <1>1, <1>2, <1>5, <1>6, <1>11 DEF LocksAreCleared
<1>16. TargetsWereRows'
  <2>1. \A q \in Requests : alert'[q] # None => alert[q] # None
    BY <1>1, <1>6
  <2>2. \A q \in Requests : Reserving(q)' => Reserving(q) /\ session'[q].dev = session[q].dev
    BY <1>6, <1>7, <1>8
  <2>3. \A e \in Ids : (devices[e] = None => shadow[e] = None) =>
                       (devices'[e] = None => shadow'[e] = None)
    BY <1>1, <1>6
  <2>4. \A q \in Requests : Targets(q) \subseteq Ids
    BY DEF Targets
  <2>5. QED
    BY <1>1, <1>10, <2>1, <2>2, <2>3, <2>4 DEF TargetsWereRows
<1>17. TokensAreKept'
  <2>1. \A q \in Requests : session'[q].at = session[q].at
    BY <1>1, <1>6
  <2>2. \A e \in Ids : shadow[e] # None => lock[e] \in Requests
    BY DEF Invariant, LocksAreHeld, TypeOK
  <2>3. QED
    BY <1>1, <1>4, <1>6, <2>1, <2>2 DEF TokensAreKept
<1>18. AlertIdsAreFresh'
  BY <1>1, <1>5, <1>6 DEF AlertIdsAreFresh
<1>19. AuditIsTruthful'
  BY <1>1 DEF AuditIsTruthful
<1>20. PushesAreForTargets'
  <2>1. \A q \in Requests : alert'[q] # None =>
          alert[q] # None /\ alert'[q].id = alert[q].id
    BY <1>1, <1>5, <1>6
  <2>2. UNCHANGED <<taken, accepted, stray, alertLog, nextAlert>>
    BY <1>1
  <2> HIDE <1>1, <1>5, <1>6
  <2>3. QED
    BY <1>10, <2>1, <2>2 DEF PushesAreForTargets
<1>21. QED
  BY <1>9, <1>12, <1>13, <1>14, <1>15, <1>16, <1>17, <1>18, <1>19, <1>20

-----------------------------------------------------------------------------
(* An alert ends.                                                          *)

\* Its handler and its locks are gone, and its audit row is written or not.
LEMMA AlertEndPreserves ==
  ASSUME AlertInvariant, NEW r \in Requests, alert[r] # None,
         Release(r), session' = [session EXCEPT ![r] = Idle],
         alert' = [alert EXCEPT ![r] = None],
         alertLog' = alertLog \/ alertLog' = [alertLog EXCEPT ![alert[r].id] = Audited(r)],
         \A d \in Ids : devices'[d] = devices[d] \/ (lock[d] = r /\ devices'[d] = shadow[d]),
         stray' \in [AlertIds -> SUBSET Ids],
         \A j \in AlertIds \ {alert[r].id} : stray'[j] = stray[j],
         alertLog' = alertLog \/ UNCHANGED stray,
         UNCHANGED <<networks, nextId, nextAlert, taken, accepted>>,
         Invariant'
  PROVE  AlertInvariant'
<1> DEFINE i == alert[r].id
<1> USE DEF AlertInvariant
<1>1. /\ \A d \in Ids : lock[d] = r => lock'[d] = None /\ shadow'[d] = None
      /\ \A d \in Ids : lock[d] # r => /\ lock'[d] = lock[d] /\ shadow'[d] = shadow[d]
                                       /\ devices'[d] = devices[d]
      /\ \A d \in Ids : devices'[d] = None <=> devices[d] = None
  <2>1. \A d \in Ids : lock[d] = r => devices[d] # None /\ shadow[d] # None
    BY NoneIsNoRequest DEF AlertsHaveHandlers, Invariant, LocksAreHeld
  <2>2. QED
    BY <2>1 DEF Release
<1>2. /\ session'[r] = Idle /\ Idle.at = "idle" /\ ~ Reserving(r)'
      /\ \A q \in Requests \ {r} : session'[q] = session[q] /\ alert'[q] = alert[q]
      /\ alert'[r] = None /\ r # None
  BY NoneIsNoRequest DEF Invariant, TypeOK, AlertTypes, Idle, Reserving
<1>3. /\ i \in AlertIds /\ alertLog[i] = None /\ i < nextAlert
      /\ accepted[i] = {d \in Ids : alert[r].outcome[d] = "DELIVERED"}
      /\ accepted[i] \subseteq taken[i] /\ taken[i] \subseteq Targets(r) /\ stray[i] = {}
      /\ \A q \in Requests \ {r} : alert[q] # None => alert[q].id \in AlertIds \ {i}
  BY AlertFields DEF AlertIdsAreFresh, PushesAreForTargets
<1>4. /\ Audited(r) \in AuditRow /\ Audited(r) # None
      /\ Audited(r).status = "SENT" <=> accepted[i] # {}
      /\ accepted[i] \subseteq taken[i] /\ taken[i] \subseteq Audited(r).targets
  <2>1. accepted[i] \subseteq Targets(r)
    BY <1>3, NoneIsNoAlert DEF OutcomesAreFinal, PushOutcome
  <2>2. Audited(r).status = "SENT" <=> \E d \in Targets(r) : alert[r].outcome[d] = "DELIVERED"
    BY DEF Audited
  <2>3. Audited(r).targets = Targets(r)
    BY DEF Audited
  <2>4. Audited(r) \in AuditRow
    BY AlertFields DEF Audited, AuditRow, AlertsHaveHandlers, Targets
  <2>5. Audited(r).status = "SENT" <=> accepted[i] # {}
    BY <1>3, <2>1, <2>2 DEF Targets
  <2>6. QED
    BY <1>3, <2>1, <2>3, <2>4, <2>5, NoneIsNoAlert
<1>5. /\ alertLog' \in [AlertIds -> AuditRow \cup {None}]
      /\ \A j \in AlertIds \ {i} : alertLog'[j] = alertLog[j]
      /\ alertLog'[i] \in {None, Audited(r)}
  BY <1>3, <1>4 DEF AlertTypes
<1>6. /\ \A q \in Requests \ {r} : Targets(q)' = Targets(q)
      /\ \A q \in Requests \ {r} : Disowns(q)' = Disowns(q)
  <2>1. \A q \in Requests \ {r} : Targets(q)' = Targets(q)
    BY <1>2 DEF Targets
  <2>2. QED
    BY <1>2, <2>1 DEF Disowns
<1>7. AlertTypes'
  BY <1>5 DEF AlertTypes
<1>8. AlertsHaveHandlers'
  BY <1>2 DEF AlertsHaveHandlers
<1>9. OutcomesAreFinal'
  BY <1>2, <1>6 DEF OutcomesAreFinal
<1>10. LocksAreCleared'
  <2>1. \A q \in Requests, d \in Ids : lock'[d] = q => lock[d] = q
    BY <1>1, NoneIsNoRequest
  <2>2. QED
    BY <1>2, <1>6, <2>1 DEF LocksAreCleared
<1>11. TargetsWereRows'
  <2>1. \A q \in Requests : Reserving(q)' => Reserving(q) /\ session'[q].dev = session[q].dev
    BY <1>2 DEF Reserving
  <2>2. \A d \in Ids : (devices[d] = None => shadow[d] = None) =>
                       (devices'[d] = None => shadow'[d] = None)
    BY <1>1
  <2>3. \A q \in Requests : Targets(q) \subseteq Ids
    BY DEF Targets
  <2>4. QED
    BY <1>2, <1>6, <2>1, <2>2, <2>3 DEF TargetsWereRows
<1>12. TokensAreKept'
  <2>1. \A d \in Ids : shadow'[d] # None => lock[d] # r /\ lock[d] \in Requests
    BY <1>1 DEF Invariant, LocksAreHeld, TypeOK
  <2>2. QED
    BY <1>1, <1>2, <2>1 DEF TokensAreKept
<1>13. AlertIdsAreFresh'
  BY <1>2, <1>3, <1>5, AlertBounds DEF AlertIdsAreFresh, AlertTypes, AlertIds
<1>14. AuditIsTruthful'
  <2> SUFFICES ASSUME NEW j \in AlertIds, alertLog'[j] # None
               PROVE  /\ alertLog'[j].status = "SENT" <=> accepted[j] # {}
                      /\ accepted[j] \subseteq taken[j] /\ taken[j] \subseteq alertLog'[j].targets
    BY DEF AuditIsTruthful
  <2>1. CASE j = i
    BY <1>4, <1>5, <2>1
  <2>2. CASE j # i
    BY <1>5, <2>2 DEF AuditIsTruthful
  <2>3. QED
    BY <2>1, <2>2
<1>15. PushesAreForTargets'
  <2>1. \A j \in AlertIds : alertLog'[j] # None => stray'[j] = {}
    BY <1>3, <1>5 DEF PushesAreForTargets
  <2>2. \A j \in AlertIds : j >= nextAlert => j # i
    BY <1>3, AlertBounds DEF AlertTypes, AlertIds
  <2>3. ASSUME NEW q \in Requests, alert'[q] # None
        PROVE  /\ accepted'[alert'[q].id] \subseteq taken'[alert'[q].id]
               /\ taken'[alert'[q].id] \subseteq Targets(q)'
               /\ stray'[alert'[q].id] = {}
    <3>1. q # r /\ alert[q] # None /\ alert'[q] = alert[q]
      BY <1>2, <2>3
    <3>2. alert[q].id \in AlertIds \ {i}
      BY <1>3, <3>1
    <3>3. QED
      BY <1>6, <3>1, <3>2 DEF PushesAreForTargets
  <2>4. \A j \in AlertIds : j >= nextAlert' => taken'[j] = {} /\ stray'[j] = {}
    BY <2>2 DEF PushesAreForTargets
  <2>5. QED
    BY <2>1, <2>3, <2>4 DEF PushesAreForTargets
<1>16. QED
  BY <1>7, <1>8, <1>9, <1>10, <1>11, <1>12, <1>13, <1>14, <1>15

\* A thread that raised, a removed target, or a deadlock: everything the alert did
\* is undone, but for the pushes that are under way.
LEMMA AbandonPreserves ==
  ASSUME AlertInvariant, NEW r \in Requests, alert[r] # None, AbandonAlert(r)
  PROVE  AlertInvariant'
<1>1. Invariant'
  BY RollbackPreserves DEF AbandonAlert, AlertInvariant
<1>2. /\ Release(r) /\ session' = [session EXCEPT ![r] = Idle]
      /\ alert' = [alert EXCEPT ![r] = None]
      /\ UNCHANGED <<networks, devices, nextId, alertLog, nextAlert, taken, accepted>>
  BY DEF AbandonAlert, Rollback
<1>3. /\ stray' \in [AlertIds -> SUBSET Ids]
      /\ \A j \in AlertIds \ {alert[r].id} : stray'[j] = stray[j]
  BY DEF AbandonAlert, InFlight, AlertInvariant, AlertTypes
<1>4. QED
  BY <1>1, <1>2, <1>3, AlertEndPreserves

\* A push whose alert was lost ends.
LEMMA EndStrayPreserves ==
  ASSUME AlertInvariant, NEW i \in AlertIds, NEW d \in Ids, EndStray(i, d)
  PROVE  AlertInvariant'
<1> USE DEF AlertInvariant
<1>1. /\ d \in stray[i] /\ UNCHANGED <<alert, alertLog, nextAlert, accepted>>
      /\ UNCHANGED <<networks, devices, claim, lock, shadow, session, nextId, known>>
      /\ taken' \in [AlertIds -> SUBSET Ids] /\ stray' \in [AlertIds -> SUBSET Ids]
      /\ \A j \in AlertIds : j # i => taken'[j] = taken[j]
      /\ \A j \in AlertIds : stray'[j] \subseteq stray[j]
  BY DEF EndStray, TakeFor, registryVars, AlertTypes
<1>2. /\ \A r \in Requests : alert[r] # None => alert[r].id # i /\ alert[r].id \in AlertIds
      /\ alertLog[i] = None /\ ~ (i >= nextAlert)
  BY <1>1, AlertFields DEF PushesAreForTargets
<1>3. Invariant'
  BY <1>1 DEF Invariant, TypeOK, HandlerArguments, LocksAreHeld, IdsAreFresh, Reserving,
              VersionsAgree, RightRow, NetworksAreClaimed, ClaimsAreUsed
<1>4. \A r \in Requests : Targets(r)' = Targets(r) /\ Disowns(r)' = Disowns(r)
  BY <1>1 DEF Targets, Disowns
<1>5. AlertTypes' /\ AlertsHaveHandlers' /\ OutcomesAreFinal' /\ LocksAreCleared'
  BY <1>1, <1>4 DEF AlertTypes, AlertsHaveHandlers, OutcomesAreFinal, LocksAreCleared
<1>6. TargetsWereRows' /\ TokensAreKept' /\ AlertIdsAreFresh'
  BY <1>1, <1>4 DEF TargetsWereRows, Reserving, TokensAreKept, AlertIdsAreFresh
<1>7. PushesAreForTargets' /\ AuditIsTruthful'
  BY <1>1, <1>2, <1>4 DEF PushesAreForTargets, AuditIsTruthful
<1>8. QED
  BY <1>3, <1>5, <1>6, <1>7

\* The cleared rows and the audit row become visible together.
LEMMA CommitAlertPreserves ==
  ASSUME AlertInvariant, NEW r \in Requests, CommitAlert(r)
  PROVE  AlertInvariant'
<1>1. alert[r] # None /\ session[r].at = "alert"
  BY DEF CommitAlert, AlertInvariant, AlertsHaveHandlers
<1>2. Invariant'
  BY <1>1, InstallPreserves DEF CommitAlert, AlertInvariant
<1>3. networks' = networks
  <2>1. \A m \in Macs : claim[m] # r
    BY <1>1, NoneIsNoRequest DEF AlertInvariant, Invariant, LocksAreHeld
  <2>2. QED
    BY <2>1 DEF CommitAlert, Install, AlertInvariant, Invariant, TypeOK
<1>4. \A d \in Ids : devices'[d] = devices[d] \/ (lock[d] = r /\ devices'[d] = shadow[d])
  BY DEF CommitAlert, Install
<1>5. /\ Release(r) /\ session' = [session EXCEPT ![r] = Idle]
      /\ alert' = [alert EXCEPT ![r] = None]
      /\ alertLog' = [alertLog EXCEPT ![alert[r].id] = Audited(r)]
      /\ UNCHANGED <<nextId, nextAlert, taken, accepted, stray>>
  BY DEF CommitAlert, pushVars
<1>6. stray' \in [AlertIds -> SUBSET Ids]
  BY <1>5 DEF AlertInvariant, AlertTypes
<1>7. QED
  BY <1>1, <1>2, <1>3, <1>4, <1>5, <1>6, AlertEndPreserves

\* No alert outlives the process; what is on record does.
LEMMA CrashAlertsPreserves ==
  ASSUME AlertInvariant, CrashAlerts
  PROVE  AlertInvariant'
<1> USE DEF AlertInvariant
<1>1. /\ Invariant' /\ alert' = [r \in Requests |-> None]
      /\ \A r \in Requests : session'[r] = Idle
      /\ \A d \in Ids : shadow'[d] = None
      /\ stray' = [i \in AlertIds |-> {}]
      /\ UNCHANGED <<alertLog, nextAlert, taken, accepted>>
  BY CrashPreserves DEF CrashAlerts, Crash
<1>2. AlertTypes' /\ AlertsHaveHandlers' /\ OutcomesAreFinal' /\ LocksAreCleared'
  BY <1>1 DEF AlertTypes, AlertsHaveHandlers, OutcomesAreFinal, LocksAreCleared, Idle
<1>3. TargetsWereRows' /\ TokensAreKept' /\ AlertIdsAreFresh' /\ AuditIsTruthful'
  BY <1>1 DEF TargetsWereRows, TokensAreKept, AlertIdsAreFresh, AuditIsTruthful
<1>4. PushesAreForTargets'
  BY <1>1 DEF PushesAreForTargets
<1>5. QED
  BY <1>1, <1>2, <1>3, <1>4

-----------------------------------------------------------------------------
(* The invariant holds initially and every action preserves it.            *)

LEMMA AlertInvariantInit == AlertInit => AlertInvariant
<1> SUFFICES ASSUME AlertInit PROVE AlertInvariant
  OBVIOUS
<1>1. Invariant
  BY InvariantInit DEF AlertInit
<1>2. /\ \A r \in Requests : alert[r] = None /\ session[r].at = "idle"
      /\ \A d \in Ids : shadow[d] = None
      /\ \A i \in AlertIds : alertLog[i] = None /\ accepted[i] = {}
      /\ \A i \in AlertIds : taken[i] = {} /\ stray[i] = {}
  BY DEF AlertInit, RegistryInit, Idle
<1>3. AlertTypes
  BY DEF AlertInit, AlertTypes
<1>4. AlertsHaveHandlers /\ OutcomesAreFinal /\ LocksAreCleared
  BY <1>2 DEF AlertsHaveHandlers, OutcomesAreFinal, LocksAreCleared
<1>5. TargetsWereRows /\ TokensAreKept /\ AlertIdsAreFresh /\ AuditIsTruthful
  BY <1>2 DEF TargetsWereRows, TokensAreKept, AlertIdsAreFresh, AuditIsTruthful
<1>6. PushesAreForTargets
  BY <1>2 DEF PushesAreForTargets
<1>7. QED
  BY <1>1, <1>3, <1>4, <1>5, <1>6 DEF AlertInvariant

\* Seen from the device endpoints, every other request is one of theirs.
LEMMA ServeAllPreserves ==
  ASSUME AlertInvariant, ServeAll
  PROVE  AlertInvariant'
<1>1. CASE Serve /\ UNCHANGED alertVars
  <2>1. Invariant'
    BY <1>1, InvariantNext DEF AlertInvariant, RegistryNext
  <2>2. PICK r \in Requests : RegistryStep(r)
    BY <1>1, ServeIsRegistryStep DEF AlertInvariant
  <2>3. QED
    BY <1>1, <2>1, <2>2, ServePreserves
<1>2. ASSUME NEW r \in Requests, SendAlert(r)
      PROVE  AlertInvariant'
  BY <1>2, SendPreserves
<1>3. ASSUME NEW r \in Requests, Deliver(r)
      PROVE  AlertInvariant'
  <2>1. ASSUME NEW d \in Ids, StartPush(r, d) \/ Push(r, d) \/ NextToClear(r, d)
        PROVE  AlertInvariant'
    BY <2>1, StartPushPreserves, PushPreserves, NextToClearPreserves
  <2>2. CASE Gathered(r) \/ Log(r)
    BY <2>2, NextStagePreserves
  <2>3. CASE ClearToken(r)
    BY <2>3, ClearTokenPreserves
  <2>4. CASE ClearMissed(r)
    BY <2>4, AbandonPreserves DEF ClearMissed, Clearing
  <2>5. CASE DeadlockVictim(r)
    <3>1. alert[r] # None
      BY <2>5 DEF DeadlockVictim, WaitsFor, Clearing
    <3>2. QED
      BY <2>5, <3>1, AbandonPreserves DEF DeadlockVictim
  <2>6. CASE CommitAlert(r)
    BY <2>6, CommitAlertPreserves
  <2>7. CASE GatherRaises(r)
    BY <2>7, AbandonPreserves DEF GatherRaises
  <2>8. QED
    BY <1>3, <2>1, <2>2, <2>3, <2>4, <2>5, <2>6, <2>7 DEF Deliver
<1>4. ASSUME NEW i \in AlertIds, NEW d \in Ids, EndStray(i, d)
      PROVE  AlertInvariant'
  BY <1>4, EndStrayPreserves
<1>5. QED
  BY <1>1, <1>2, <1>3, <1>4 DEF ServeAll

LEMMA AlertInvariantNext == AlertInvariant /\ [AlertNext]_vars => AlertInvariant'
<1> SUFFICES ASSUME AlertInvariant, [AlertNext]_vars PROVE AlertInvariant'
  OBVIOUS
<1>1. CASE UNCHANGED vars
  BY <1>1, StutterPreserves
<1>2. CASE ServeAll
  BY <1>2, ServeAllPreserves
<1>3. CASE CrashAlerts
  BY <1>3, CrashAlertsPreserves
<1>4. QED
  BY <1>1, <1>2, <1>3 DEF AlertNext

\* The invariant on which every theorem below rests.
THEOREM AlertInvariantHolds == AlertSpec => []AlertInvariant
<1>1. AlertInit => AlertInvariant
  BY AlertInvariantInit
<1>2. AlertInvariant /\ [AlertNext]_vars => AlertInvariant'
  BY AlertInvariantNext
<1>3. QED
  BY <1>1, <1>2, PTL DEF AlertSpec

-----------------------------------------------------------------------------
(* What alerts and device endpoints guarantee beside each other.           *)

\* Every variable of the database, the handlers and the alerts keeps its type.
THEOREM AlertTypesCorrect == AlertSpec => []AlertTypeOK
<1>1. AlertInvariant => AlertTypeOK
  BY DEF AlertInvariant, Invariant, AlertTypes, AlertTypeOK
<1>2. QED
  BY <1>1, AlertInvariantHolds, PTL

\* An audit row says SENT exactly when a provider answered that it took a push for
\* its alert, which it then had, and names every device a push of it reached.
THEOREM AuditsAreTruthful == AlertSpec => []AuditIsTruthful
<1>1. AlertInvariant => AuditIsTruthful
  BY DEF AlertInvariant
<1>2. QED
  BY <1>1, AlertInvariantHolds, PTL

\* The sender of a running alert administers its network, and it locks only rows
\* of its targets.
THEOREM SendersStayAdmin == AlertSpec => []SenderStaysAdmin
<1>1. AlertInvariant => SenderStaysAdmin
  BY DEF AlertInvariant, AlertsHaveHandlers, LocksAreCleared, Disowns, SenderStaysAdmin
<1>2. QED
  BY <1>1, AlertInvariantHolds, PTL

\* Alerts that clear tokens beside them leave the device endpoints what they
\* promise: a registration updates only its own phone's row, and every row's
\* network has an administrator.
THEOREM RegistryBesideAlerts == AlertSpec => [](OnlyOwnRow /\ NoOrphanRow)
<1>1. AlertInvariant => OnlyOwnRow
  <2> SUFFICES ASSUME AlertInvariant, NEW r \in Requests, Registering(r),
                      session[r].row # None
               PROVE  session[r].row.phone = session[r].phone
    BY DEF OnlyOwnRow
  <2>1. session[r].at \in At /\ session[r].phone # None
    BY DEF Registering, AlertInvariant, Invariant, TypeOK, Handler
  <2>2. session[r].at = "register"
    BY <2>1 DEF At, AlertInvariant, Invariant, HandlerArguments
  <2>3. QED
    BY <2>2 DEF AlertInvariant, Invariant, RightRow
<1>2. AlertInvariant => NoOrphanRow
  BY DEF AlertInvariant, Invariant, NetworksAreClaimed, NoOrphanRow
<1>3. QED
  BY <1>1, <1>2, AlertInvariantHolds, PTL

\* Only a commit changes what is stored: a request's, or an alert's.
LEMMA OnlyCommitsStore ==
  ASSUME [AlertNext]_vars
  PROVE  \/ UNCHANGED <<devices, networks>>
         \/ \E r \in Requests : Commit(r) /\ UNCHANGED alertVars
         \/ \E r \in Requests : CommitAlert(r)
<1>1. CASE UNCHANGED vars
  BY <1>1 DEF vars, registryVars
<1>2. CASE CrashAlerts
  BY <1>2 DEF CrashAlerts, Crash
<1>3. CASE Serve /\ UNCHANGED alertVars
  BY <1>3, OnlyCommitStores DEF RegistryNext
<1>4. ASSUME NEW r \in Requests, SendAlert(r)
      PROVE  UNCHANGED <<devices, networks>>
  BY <1>4 DEF SendAlert, SendNamed, SendToNetwork, Begin, RefuseAlert, vars, registryVars
<1>5. ASSUME NEW r \in Requests, Deliver(r), ~ CommitAlert(r)
      PROVE  UNCHANGED <<devices, networks>>
  BY <1>5 DEF Deliver, StartPush, Push, NextToClear, Gathered, GatherRaises, ClearToken,
              ClearMissed, DeadlockVictim, AbandonAlert, Rollback, Log, registryVars
<1>6. ASSUME NEW i \in AlertIds, NEW d \in Ids, EndStray(i, d)
      PROVE  UNCHANGED <<devices, networks>>
  BY <1>6 DEF EndStray, registryVars
<1>7. QED
  BY <1>1, <1>2, <1>3, <1>4, <1>5, <1>6 DEF AlertNext, ServeAll

\* What an alert's commit makes of a row it has not locked, and of one it has.
LEMMA CommitAlertRow ==
  ASSUME AlertInvariant, NEW r \in Requests, CommitAlert(r), NEW d \in Ids
  PROVE  \/ devices'[d] = devices[d]
         \/ /\ lock[d] = r /\ devices'[d] = shadow[d]
            /\ d \in Disowns(r) /\ devices[d] # None /\ shadow[d] # None
            /\ SameRow(devices[d], shadow[d]) /\ shadow[d].net = devices[d].net
<1>1. alert[r] # None /\ session[r].at = "alert"
  BY DEF CommitAlert, AlertInvariant, AlertsHaveHandlers
<1>2. CASE lock[d] # r
  BY <1>2 DEF CommitAlert, Install
<1>3. CASE lock[d] = r
  <2>1. devices'[d] = shadow[d] /\ d \in Disowns(r)
    BY <1>1, <1>3 DEF CommitAlert, Install, AlertInvariant, LocksAreCleared
  <2>2. devices[d] # None /\ shadow[d] # None
    BY <1>1, <1>3, NoneIsNoRequest DEF AlertInvariant, Invariant, LocksAreHeld
  <2>3. SameRow(devices[d], shadow[d]) /\ shadow[d].net = devices[d].net
    BY <1>1, <1>3, <2>2 DEF AlertInvariant, Invariant, VersionsAgree, TokensAreKept
  <2>4. QED
    BY <1>3, <2>1, <2>2, <2>3
<1>4. QED
  BY <1>2, <1>3

LEMMA RowsKeepIdentityBesideAlerts ==
  ASSUME AlertInvariant, [AlertNext]_vars,
         NEW d \in Ids, devices[d] # None, devices'[d] # None
  PROVE  SameRow(devices[d], devices'[d])
<1>1. CASE UNCHANGED devices
  BY <1>1 DEF SameRow
<1>2. ASSUME NEW r \in Requests, Commit(r)
      PROVE  SameRow(devices[d], devices'[d])
  BY <1>2 DEF Commit, Install, AlertInvariant, Invariant, VersionsAgree, SameRow
<1>3. ASSUME NEW r \in Requests, CommitAlert(r)
      PROVE  SameRow(devices[d], devices'[d])
  BY <1>3, CommitAlertRow DEF SameRow
<1>4. QED
  BY <1>1, <1>2, <1>3, OnlyCommitsStore

\* Nor does an alert move a guest, or take an install id from a row.
THEOREM RowsKeepPlaceBesideAlerts == AlertSpec => GuestStaysPut /\ InstallIsKept
<1>1. AlertInvariant /\ [AlertNext]_vars =>
        [\A d \in Ids : devices[d] # None /\ devices'[d] # None =>
           (devices[d].owner = None => devices'[d].net = devices[d].net)]_registryVars
  BY RowsKeepIdentityBesideAlerts DEF SameRow
<1>2. AlertInvariant /\ [AlertNext]_vars =>
        [\A d \in Ids : devices[d] # None /\ devices'[d] # None =>
           (devices[d].install # None => devices'[d].install = devices[d].install)
        ]_registryVars
  BY RowsKeepIdentityBesideAlerts DEF SameRow
<1>3. QED
  BY <1>1, <1>2, AlertInvariantHolds, PTL DEF AlertSpec, GuestStaysPut, InstallIsKept

\* A committed token disappears only in the step that puts an alert naming the
\* device on record.
THEOREM TokensAreClearedOnRecord == AlertSpec => ClearedOnRecord
<1>1. ASSUME AlertInvariant, [AlertNext]_vars, NEW d \in Ids,
             devices[d] # None, devices'[d] # None,
             devices[d].token \in Tokens, devices'[d].token = None
      PROVE  \E i \in AlertIds : /\ alertLog[i] = None /\ alertLog'[i] # None
                                 /\ d \in alertLog'[i].targets
  <2>1. devices'[d] # devices[d]
    BY <1>1, NoneIsNobody
  <2>2. ASSUME NEW r \in Requests, Commit(r)
        PROVE  FALSE
    <3>1. lock[d] = r /\ devices'[d] = shadow[d] /\ session[r].at = "commit"
      BY <2>1, <2>2 DEF Commit, Install
    <3>2. shadow[d].token = None => devices[d].token = None
      BY <1>1, <3>1 DEF AlertInvariant, TokensAreKept
    <3>3. QED
      BY <1>1, <3>1, <3>2, NoneIsNobody
  <2>3. ASSUME NEW r \in Requests, CommitAlert(r)
        PROVE  \E i \in AlertIds : /\ alertLog[i] = None /\ alertLog'[i] # None
                                   /\ d \in alertLog'[i].targets
    <3> DEFINE i == alert[r].id
    <3>1. /\ alert[r] # None /\ i \in AlertIds /\ alertLog[i] = None
          /\ alertLog'[i] = Audited(r)
      BY <1>1, <2>3, AlertFields DEF CommitAlert, AlertInvariant, AlertIdsAreFresh, AlertTypes
    <3>2. d \in Targets(r)
      BY <1>1, <2>1, <2>3, CommitAlertRow DEF Disowns
    <3>3. Audited(r) \in AuditRow /\ Audited(r).targets = Targets(r)
      BY <1>1, <3>1, AlertFields
         DEF Audited, AuditRow, Targets, AlertInvariant, AlertsHaveHandlers
    <3>4. QED
      BY <3>1, <3>2, <3>3, NoneIsNoAlert
  <2>4. QED
    BY <1>1, <2>1, <2>2, <2>3, OnlyCommitsStore
<1>2. AlertInvariant /\ [AlertNext]_vars =>
        [\A d \in Ids :
         /\ devices[d] # None /\ devices'[d] # None
         /\ devices[d].token \in Tokens /\ devices'[d].token = None
         => \E i \in AlertIds : /\ alertLog[i] = None /\ alertLog'[i] # None
                                /\ d \in alertLog'[i].targets]_vars
  BY <1>1
<1>3. QED
  BY <1>2, AlertInvariantHolds, PTL DEF AlertSpec, ClearedOnRecord

\* An alert's commit changes only rows whose token the provider disowned.
THEOREM OnlyDeadTokensCleared == AlertSpec => OnlyDeadTokensAreCleared
<1>1. AlertInvariant /\ [AlertNext]_vars =>
        [\A r \in Requests, d \in Ids : alert[r] # None /\ CommitAlert(r) =>
           (devices'[d] # devices[d] => alert[r].outcome[d] = "TOKEN_INVALID")]_vars
  BY CommitAlertRow DEF Disowns
<1>2. QED
  BY <1>1, AlertInvariantHolds, PTL DEF AlertSpec, OnlyDeadTokensAreCleared

-----------------------------------------------------------------------------
(* AlertService implements AlertLedger.                                    *)

\* At most one request runs an alert, so that is the one its entry is about.
LEMMA EntriesAre ==
  ASSUME AlertInvariant, NEW i \in AlertIds
  PROVE  /\ \A r \in Requests : alert[r] # None /\ alert[r].id = i => Entries[i] = Entry(r)
         /\ (\A r \in Requests : alert[r] = None \/ alert[r].id # i) => Entries[i] = None
<1>1. ASSUME NEW r \in Requests, alert[r] # None, alert[r].id = i
      PROVE  Entries[i] = Entry(r)
  <2>1. Running(i) = {r}
    BY <1>1 DEF Running, AlertInvariant, AlertIdsAreFresh
  <2>2. (CHOOSE s \in Running(i) : TRUE) = r
    BY <2>1
  <2>3. QED
    BY <2>1, <2>2 DEF Entries
<1>2. (\A r \in Requests : alert[r] = None \/ alert[r].id # i) => Running(i) = {}
  BY DEF Running
<1>3. QED
  BY <1>1, <1>2 DEF Entries

\* The same in the state a step leads to.
LEMMA EntriesBecome ==
  ASSUME AlertInvariant', NEW i \in AlertIds
  PROVE  /\ \A r \in Requests : alert'[r] # None /\ alert'[r].id = i => Entries'[i] = Entry(r)'
         /\ (\A r \in Requests : alert'[r] = None \/ alert'[r].id # i) => Entries'[i] = None
<1>1. ASSUME NEW r \in Requests, alert'[r] # None, alert'[r].id = i
      PROVE  Entries'[i] = Entry(r)'
  <2>1. Running(i)' = {r}
    BY <1>1 DEF Running, AlertInvariant, AlertIdsAreFresh
  <2>2. (CHOOSE s \in Running(i)' : TRUE) = r
    BY <2>1
  <2>3. QED
    BY <1>1, <2>1, <2>2 DEF Entries, Entry, Targets
<1>2. (\A r \in Requests : alert'[r] = None \/ alert'[r].id # i) => Running(i)' = {}
  BY DEF Running
<1>3. QED
  BY <1>1, <1>2 DEF Entries

LEMMA EntryIsARecord ==
  ASSUME AlertInvariant, NEW r \in Requests, alert[r] # None
  PROVE  /\ Entry(r) # None
         /\ Entry(r).sender = session[r].user /\ Entry(r).net = alert[r].net
         /\ Entry(r).targets = Targets(r)
<1>1. Entry(r) \in [sender : Users, net : Macs, targets : SUBSET Ids]
  BY AlertFields DEF Entry, Targets, AlertInvariant, AlertsHaveHandlers
<1>2. QED
  BY <1>1, NoneIsNoEntry DEF Entry

\* A step that starts and ends no alert leaves every entry as it was.
LEMMA EntriesStay ==
  ASSUME AlertInvariant, AlertInvariant',
         \A r \in Requests : alert'[r] # None <=> alert[r] # None,
         \A r \in Requests : alert[r] # None =>
           /\ alert'[r].id = alert[r].id /\ alert'[r].net = alert[r].net
           /\ alert'[r].read = alert[r].read /\ session'[r].user = session[r].user
  PROVE  Entries' = Entries
<1>1. \A r \in Requests : alert[r] # None => Entry(r)' = Entry(r)
  BY DEF Entry, Targets
<1>2. ASSUME NEW i \in AlertIds
      PROVE  Entries'[i] = Entries[i]
  <2>1. CASE \A r \in Requests : alert[r] = None \/ alert[r].id # i
    BY <1>2, <2>1, EntriesAre, EntriesBecome
  <2>2. CASE \E r \in Requests : alert[r] # None /\ alert[r].id = i
    <3>1. PICK r \in Requests : alert[r] # None /\ alert[r].id = i
      BY <2>2
    <3>2. Entries[i] = Entry(r) /\ Entries'[i] = Entry(r)'
      BY <1>2, <3>1, EntriesAre, EntriesBecome
    <3>3. QED
      BY <1>1, <3>1, <3>2
  <2>3. QED
    BY <2>1, <2>2
<1>3. QED
  BY <1>2 DEF Entries

\* The alert r runs is over: its entry goes, and no other.
LEMMA EntryGoes ==
  ASSUME AlertInvariant, AlertInvariant', NEW r \in Requests, alert[r] # None,
         alert' = [alert EXCEPT ![r] = None], session' = [session EXCEPT ![r] = Idle]
  PROVE  Entries' = [Entries EXCEPT ![alert[r].id] = None]
<1> DEFINE i == alert[r].id
<1>1. /\ alert'[r] = None
      /\ \A q \in Requests \ {r} : alert'[q] = alert[q] /\ session'[q] = session[q]
  BY DEF AlertInvariant, AlertTypes, Invariant, TypeOK
<1>2. \A q \in Requests \ {r} : alert[q] # None => alert[q].id # i /\ Entry(q)' = Entry(q)
  BY <1>1 DEF Entry, Targets, AlertInvariant, AlertIdsAreFresh
<1>3. i \in AlertIds
  BY AlertFields DEF AlertInvariant
<1>4. Entries'[i] = None
  BY <1>1, <1>2, <1>3, EntriesBecome
<1>5. ASSUME NEW j \in AlertIds, j # i
      PROVE  Entries'[j] = Entries[j]
  <2>1. CASE \A q \in Requests : alert[q] = None \/ alert[q].id # j
    BY <1>1, <2>1, EntriesAre, EntriesBecome
  <2>2. CASE \E q \in Requests : alert[q] # None /\ alert[q].id = j
    <3>1. PICK q \in Requests : alert[q] # None /\ alert[q].id = j
      BY <2>2
    <3>2. q # r /\ alert'[q] = alert[q]
      BY <1>1, <1>5, <3>1
    <3>3. Entries[j] = Entry(q) /\ Entries'[j] = Entry(q)'
      BY <1>5, <3>1, <3>2, EntriesAre, EntriesBecome
    <3>4. QED
      BY <1>2, <3>1, <3>2, <3>3
  <2>3. QED
    BY <2>1, <2>2
<1>6. QED
  BY ZenonT(60), <1>3, <1>4, <1>5 DEF Entries

\* An alert begins: an entry comes, and no other changes.
LEMMA EntryComes ==
  ASSUME AlertInvariant, AlertInvariant', NEW r \in Requests, alert[r] = None,
         alert'[r] # None, alert'[r].id = nextAlert, nextAlert \in AlertIds,
         \A q \in Requests \ {r} : alert'[q] = alert[q] /\ session'[q] = session[q]
  PROVE  Entries' = [Entries EXCEPT ![nextAlert] = Entry(r)']
<1>1. Entries'[nextAlert] = Entry(r)'
  BY EntriesBecome
<1>2. ASSUME NEW j \in AlertIds, j # nextAlert
      PROVE  Entries'[j] = Entries[j]
  <2>1. CASE \A q \in Requests : alert[q] = None \/ alert[q].id # j
    BY <1>2, <2>1, EntriesAre, EntriesBecome
  <2>2. CASE \E q \in Requests : alert[q] # None /\ alert[q].id = j
    <3>1. PICK q \in Requests : alert[q] # None /\ alert[q].id = j
      BY <2>2
    <3>2. q # r /\ alert'[q] = alert[q] /\ session'[q] = session[q]
      BY <3>1
    <3>3. Entries[j] = Entry(q) /\ Entries'[j] = Entry(q)'
      BY <1>2, <3>1, <3>2, EntriesAre, EntriesBecome
    <3>4. Entry(q)' = Entry(q)
      BY <3>2 DEF Entry, Targets
    <3>5. QED
      BY <3>3, <3>4
  <2>3. QED
    BY <2>1, <2>2
<1>3. Entries' = [Entries EXCEPT ![nextAlert] = Entry(r)']
  <2>1. DOMAIN Entries = AlertIds /\ DOMAIN Entries' = AlertIds
        /\ Entries = [j \in AlertIds |-> Entries[j]]
        /\ Entries' = [j \in AlertIds |-> Entries'[j]]
    BY DEF Entries
  <2>2. [Entries EXCEPT ![nextAlert] = Entry(r)'] =
          [j \in AlertIds |-> IF j = nextAlert THEN Entry(r)' ELSE Entries[j]]
    BY <2>1
  <2>3. QED
    BY <1>1, <1>2, <2>1, <2>2
<1>4. QED
  BY <1>3

\* The rows that are committed, as NetworkMembership sees them.
LEMMA SameMembers ==
  ASSUME AlertInvariant, UNCHANGED devices \/ \E r \in Requests : CommitAlert(r)
  PROVE  [d \in Ids |-> Seen(devices'[d])] = [d \in Ids |-> Seen(devices[d])]
<1>1. CASE UNCHANGED devices
  BY <1>1
<1>2. ASSUME NEW r \in Requests, CommitAlert(r), NEW d \in Ids
      PROVE  Seen(devices'[d]) = Seen(devices[d])
  BY <1>2, CommitAlertRow DEF Seen, SameRow
<1>3. QED
  BY <1>1, <1>2

\* A request beside the alerts enrols, relocates or expels a device, or does
\* nothing NetworkMembership can see.
LEMMA ServeMaps ==
  ASSUME AlertInvariant, AlertInvariant', Serve, UNCHANGED alertVars
  PROVE  [Ledger!LedgerNext]_<<Ledger!vars, Ledger!ledger>>
<1> DEFINE member == [d \in Ids |-> Seen(devices[d])]
<1>1. Entries' = Entries /\ UNCHANGED <<alertLog, nextAlert, taken, accepted, stray>>
  <2>1. PICK r \in Requests : RegistryStep(r)
    BY ServeIsRegistryStep DEF AlertInvariant
  <2>2. \A q \in Requests : alert[q] # None => session'[q] = session[q]
    BY <2>1 DEF RegistryStep, AlertInvariant, AlertsHaveHandlers
  <2>3. QED
    BY <2>2, EntriesStay DEF alertVars, pushVars
<1>2. UNCHANGED Ledger!ledger
  BY <1>1 DEF Ledger!ledger
<1>3. [Membership!Next]_<<networks, member>>
  <2>1. CASE UNCHANGED <<devices, networks>>
    BY <2>1
  <2>2. ASSUME NEW r \in Requests, Commit(r)
        PROVE  [Membership!Next]_<<networks, member>>
    BY <2>2, CommitMaps DEF AlertInvariant
  <2>3. QED
    BY <2>1, <2>2, OnlyCommitStores DEF RegistryNext
<1>4. CASE Membership!Next
  <2>1. Ledger!Next
    BY <1>4 DEF Membership!Next, Membership!Enrol, Membership!Relocate, Membership!Expel,
                Membership!AdminsAfter, Ledger!Next, Ledger!Enrol, Ledger!Relocate,
                Ledger!Expel, Ledger!AdminsAfter
  <2>2. QED
    BY <1>2, <2>1 DEF Ledger!LedgerNext
<1>5. CASE UNCHANGED <<networks, member>>
  BY <1>2, <1>5 DEF Ledger!vars
<1>6. QED
  BY <1>3, <1>4, <1>5

\* An alert is accepted for devices of a network its sender administers.
LEMMA BeginMaps ==
  ASSUME AlertInvariant, AlertInvariant', NEW r \in Requests, session[r].at = "idle",
         NEW user \in Users, NEW mac \in Macs, networks[mac] = user,
         NEW targets \in SUBSET Ids, targets # {},
         \A d \in targets : devices[d] # None /\ devices[d].net = mac,
         Begin(r, user, mac, targets)
  PROVE  Ledger!Authorize(nextAlert, user, mac, targets) /\ nextAlert \in AlertIds
<1> DEFINE s == [Idle EXCEPT !.at = "alert", !.user = user]
           a == [id |-> nextAlert, at |-> "push", net |-> mac,
                 read |-> [d \in Ids |-> IF d \in targets THEN devices[d] ELSE None],
                 tries |-> [d \in Ids |-> None],
                 outcome |-> [d \in Ids |-> None],
                 cleared |-> {}]
<1>1. /\ nextAlert \in AlertIds /\ nextAlert' = nextAlert + 1 /\ nextAlert \in Nat
      /\ session' = [session EXCEPT ![r] = s] /\ alert' = [alert EXCEPT ![r] = a]
      /\ UNCHANGED <<networks, devices, alertLog, taken, accepted, stray>>
  BY DEF Begin, pushVars, AlertInvariant, AlertTypes
<1>2. a \in Alert
  BY <1>1 DEF Alert, AlertInvariant, Invariant, TypeOK
<1>3. alert[r] = None
  BY DEF AlertInvariant, AlertsHaveHandlers
<1>4. /\ a.id = nextAlert /\ a.net = mac /\ s.user = user
      /\ \A d \in Ids : a.read[d] # None <=> d \in targets
  BY DEF Idle
<1> HIDE DEF a, s
<1>5. Entry(r)' = [sender |-> user, net |-> mac, targets |-> targets]
  <2>1. alert'[r] = a /\ session'[r] = s
    BY <1>1 DEF AlertInvariant, AlertTypes, Invariant, TypeOK
  <2>2. Targets(r)' = targets
    BY <1>4, <2>1 DEF Targets
  <2>3. QED
    BY <1>4, <2>1, <2>2 DEF Entry
<1>6. Entries' = [Entries EXCEPT ![nextAlert] = Entry(r)']
  <2>1. /\ alert'[r] # None /\ alert'[r].id = nextAlert
        /\ \A q \in Requests \ {r} : alert'[q] = alert[q] /\ session'[q] = session[q]
    BY <1>1, <1>2, <1>4, NoneIsNoAlert DEF AlertInvariant, AlertTypes, Invariant, TypeOK
  <2>2. QED
    BY <1>1, <1>3, <2>1, EntryComes
<1>7. \A d \in targets : Seen(devices[d]) # None /\ Seen(devices[d]).net = mac
  BY SeenRow DEF AlertInvariant, Invariant, TypeOK
<1>8. {i \in AlertIds : i < nextAlert'} = {i \in AlertIds : i < nextAlert} \cup {nextAlert}
  BY <1>1, AlertBounds DEF AlertIds
<1>9. nextAlert \notin {i \in AlertIds : i < nextAlert}
  BY <1>1
<1>10. QED
  BY <1>1, <1>5, <1>6, <1>7, <1>8, <1>9 DEF Ledger!Authorize, Ledger!vars

\* Pushes, tokens and stages are no business of the ledger's, but what providers
\* took is.
LEMMA EntriesStayDelivering ==
  ASSUME AlertInvariant, AlertInvariant', NEW r \in Requests,
         \/ \E d \in Ids : StartPush(r, d) \/ Push(r, d) \/ NextToClear(r, d)
         \/ Gathered(r) \/ ClearToken(r) \/ Log(r)
  PROVE  Entries' = Entries /\ UNCHANGED <<networks, devices, alertLog, nextAlert>>
<1>1. /\ alert[r] # None /\ alert[r] \in Alert /\ session[r].at = "alert"
      /\ session[r] \in Handler
  BY AlertFields DEF StartPush, Push, NextToClear, Gathered, ClearToken, Clearing, Log,
     AlertInvariant, AlertsHaveHandlers, Invariant, TypeOK
<1>2. UNCHANGED <<networks, devices, alertLog, nextAlert>>
  BY DEF StartPush, Push, NextToClear, Gathered, ClearToken, Log, registryVars, alertVars
<1>3. \A q \in Requests : session'[q].user = session[q].user /\ session'[q].at = session[q].at
  <2>1. CASE UNCHANGED session
    BY <2>1
  <2>2. CASE \E e : session' = [session EXCEPT ![r].dev = e]
    BY <1>1, <2>2 DEF AlertInvariant, Invariant, TypeOK, Handler
  <2>3. QED
    BY <2>1, <2>2 DEF StartPush, Push, NextToClear, Gathered, ClearToken, Log, registryVars
<1>4. /\ alert'[r].id = alert[r].id /\ alert'[r].net = alert[r].net
      /\ alert'[r].read = alert[r].read
      /\ \A q \in Requests \ {r} : alert'[q] = alert[q]
  <2>a. alert \in [Requests -> Alert \cup {None}]
    BY DEF AlertInvariant, AlertTypes
  <2> USE <1>1, <2>a DEF Alert
  <2>1. ASSUME NEW d \in Ids, StartPush(r, d)
        PROVE  /\ alert'[r].id = alert[r].id /\ alert'[r].net = alert[r].net
               /\ alert'[r].read = alert[r].read
               /\ \A q \in Requests \ {r} : alert'[q] = alert[q]
    BY <2>1 DEF StartPush
  <2>2. ASSUME NEW d \in Ids, Push(r, d)
        PROVE  /\ alert'[r].id = alert[r].id /\ alert'[r].net = alert[r].net
               /\ alert'[r].read = alert[r].read
               /\ \A q \in Requests \ {r} : alert'[q] = alert[q]
    <3>1. ASSUME NEW outcome, Conclude(r, d, outcome)
          PROVE  /\ alert'[r].id = alert[r].id /\ alert'[r].net = alert[r].net
                 /\ alert'[r].read = alert[r].read
                 /\ \A q \in Requests \ {r} : alert'[q] = alert[q]
      BY <3>1 DEF Conclude
    <3>2. CASE alert' = [alert EXCEPT ![r].tries[d] = @ + 1]
      BY <3>2
    <3>3. QED
      BY <2>2, <3>1, <3>2
         DEF Push, OwnerUnread, Suppress, NoTokenToPush, CallProvider, Delivered
  <2>3. CASE \E d \in Ids : NextToClear(r, d)
    BY <2>3 DEF NextToClear, alertVars
  <2>4. CASE Gathered(r) \/ Log(r)
    BY <2>4 DEF Gathered, Log
  <2>5. CASE ClearToken(r)
    BY <2>5 DEF ClearToken
  <2>6. QED
    BY <2>1, <2>2, <2>3, <2>4, <2>5
<1>5. \A q \in Requests : alert'[q] # None <=> alert[q] # None
  BY <1>3 DEF AlertInvariant, AlertsHaveHandlers
<1>6. \A q \in Requests : alert[q] # None =>
        /\ alert'[q].id = alert[q].id /\ alert'[q].net = alert[q].net
        /\ alert'[q].read = alert[q].read /\ session'[q].user = session[q].user
  BY <1>3, <1>4
<1>7. QED
  BY <1>2, <1>5, <1>6, EntriesStay

LEMMA DeliveryMaps ==
  ASSUME AlertInvariant, AlertInvariant', NEW r \in Requests,
         \/ \E d \in Ids : StartPush(r, d) \/ Push(r, d) \/ NextToClear(r, d)
         \/ Gathered(r) \/ ClearToken(r) \/ Log(r)
  PROVE  [Ledger!LedgerNext]_<<Ledger!vars, Ledger!ledger>>
<1>1. Entries' = Entries /\ UNCHANGED <<networks, devices, alertLog, nextAlert>>
  BY EntriesStayDelivering
<1>2. UNCHANGED Ledger!vars
  BY <1>1 DEF Ledger!vars
<1>3. CASE UNCHANGED pushVars
  BY <1>1, <1>2, <1>3 DEF Ledger!ledger, pushVars
<1>4. ASSUME NEW d \in Ids, Push(r, d), TakeFor(alert[r].id, d), UNCHANGED stray,
             UNCHANGED accepted \/ accepted' = [accepted EXCEPT ![alert[r].id] = @ \cup {d}]
      PROVE  Ledger!LedgerNext
  <2>1. /\ alert[r] # None /\ alert[r].id \in AlertIds /\ d \in Targets(r)
    BY <1>4, AlertFields DEF Push, InFlight, AlertInvariant, OutcomesAreFinal
  <2>2. Entries[alert[r].id] # None /\ d \in Entries[alert[r].id].targets
    BY <2>1, EntriesAre, EntryIsARecord
  <2>3. Ledger!Take(alert[r].id, d)
    BY <1>1, <1>2, <1>4, <2>2 DEF Ledger!Take, Ledger!Reach, TakeFor
  <2>4. QED
    BY <2>1, <2>3 DEF Ledger!LedgerNext
<1>5. ASSUME NEW d \in Ids, Push(r, d)
      PROVE  [Ledger!LedgerNext]_<<Ledger!vars, Ledger!ledger>>
  <2>1. CASE UNCHANGED pushVars
    BY <1>3, <2>1
  <2>2. CASE Delivered(r, d)
    BY <1>4, <1>5, <2>2 DEF Delivered
  <2>3. CASE (UNCHANGED taken \/ TakeFor(alert[r].id, d)) /\ UNCHANGED <<accepted, stray>>
    BY <1>3, <1>4, <1>5, <2>3 DEF pushVars
  <2>4. QED
    BY <1>5, <2>1, <2>2, <2>3 DEF Push, OwnerUnread, Suppress, NoTokenToPush, CallProvider
<1>6. CASE \E d \in Ids : StartPush(r, d) \/ NextToClear(r, d)
  BY <1>3, <1>6 DEF StartPush, NextToClear, alertVars
<1>7. CASE Gathered(r) \/ ClearToken(r) \/ Log(r)
  BY <1>3, <1>7 DEF Gathered, ClearToken, Log
<1>8. QED
  BY <1>5, <1>6, <1>7

\* A push that outlived its alert's handler is one of a lost alert's.
LEMMA EndStrayMaps ==
  ASSUME AlertInvariant, NEW i \in AlertIds, NEW d \in Ids, EndStray(i, d)
  PROVE  Ledger!LedgerNext
<1>1. /\ UNCHANGED <<networks, devices, session, alert, alertLog, nextAlert, accepted>>
      /\ d \in stray[i] /\ stray' = [stray EXCEPT ![i] = @ \ {d}]
      /\ UNCHANGED taken \/ taken' = [taken EXCEPT ![i] = @ \cup {d}]
  BY DEF EndStray, TakeFor, registryVars
<1>2. Entries' = Entries
  BY <1>1 DEF Entries, Running, Entry, Targets
<1>3. Ledger!Straggle(i, d)
  BY <1>1, <1>2 DEF Ledger!Straggle, Ledger!Reach, Ledger!vars
<1>4. QED
  BY <1>3 DEF Ledger!LedgerNext

\* An alert that fails is lost.
LEMMA AbandonMaps ==
  ASSUME AlertInvariant, AlertInvariant', NEW r \in Requests, alert[r] # None,
         AbandonAlert(r)
  PROVE  Ledger!LedgerNext
<1> DEFINE i == alert[r].id
<1>1. /\ session' = [session EXCEPT ![r] = Idle] /\ alert' = [alert EXCEPT ![r] = None]
      /\ UNCHANGED <<networks, devices, alertLog, nextAlert, taken, accepted>>
  BY DEF AbandonAlert, Rollback
<1>2. i \in AlertIds
  BY AlertFields DEF AlertInvariant
<1>3. Entries' = [Entries EXCEPT ![i] = None]
  BY <1>1, EntryGoes
<1>4. Entries' = [j \in AlertIds |-> IF j \in {i} THEN None ELSE Entries[j]]
  BY <1>3 DEF Entries
<1>5. /\ stray' \in [AlertIds -> SUBSET Ids]
      /\ \A j \in AlertIds : j # i => stray'[j] = stray[j]
      /\ stray'[i] \subseteq Targets(r)
  BY <1>2 DEF AbandonAlert, InFlight, AlertInvariant, AlertTypes, OutcomesAreFinal
<1>6. Entries[i] # None /\ Entries[i].targets = Targets(r)
  BY <1>2, EntriesAre, EntryIsARecord
<1>7. Ledger!Lose({i})
  BY <1>1, <1>4, <1>5, <1>6 DEF Ledger!Lose, Ledger!vars
<1>8. QED
  BY <1>2, <1>7 DEF Ledger!LedgerNext

\* With the process every running alert is lost.
LEMMA CrashMaps ==
  ASSUME AlertInvariant, AlertInvariant', CrashAlerts
  PROVE  Ledger!LedgerNext
<1>1. /\ \A r \in Requests : alert'[r] = None
      /\ stray' = [i \in AlertIds |-> {}]
      /\ UNCHANGED <<networks, devices, alertLog, nextAlert, taken, accepted>>
  BY DEF CrashAlerts, Crash
<1>2. \A i \in AlertIds : Entries'[i] = None
  BY <1>1, EntriesBecome
<1>3. Entries' = [i \in AlertIds |-> IF i \in AlertIds THEN None ELSE Entries[i]]
  BY <1>2 DEF Entries
<1>4. Ledger!Lose(AlertIds)
  BY <1>1, <1>3 DEF Ledger!Lose, Ledger!vars
<1>5. QED
  BY <1>4 DEF Ledger!LedgerNext

\* An alert's commit is its record, and moves no device.
LEMMA CommitAlertMaps ==
  ASSUME AlertInvariant, AlertInvariant', NEW r \in Requests, CommitAlert(r)
  PROVE  Ledger!LedgerNext
<1> DEFINE i == alert[r].id
<1>1. /\ alert[r] # None
      /\ session' = [session EXCEPT ![r] = Idle] /\ alert' = [alert EXCEPT ![r] = None]
      /\ alertLog' = [alertLog EXCEPT ![i] = Audited(r)]
      /\ UNCHANGED <<nextAlert, taken, accepted, stray>>
  BY DEF CommitAlert, pushVars
<1>2. i \in AlertIds /\ accepted[i] = {d \in Ids : alert[r].outcome[d] = "DELIVERED"}
  BY <1>1, AlertFields DEF AlertInvariant, AlertIdsAreFresh
<1>3. Entries[i] = Entry(r) /\ Entries[i] # None
  BY <1>1, <1>2, EntriesAre, EntryIsARecord
<1>4. Entries' = [Entries EXCEPT ![i] = None]
  BY <1>1, EntryGoes
<1>5. Audited(r) = [sender |-> Entries[i].sender, net |-> Entries[i].net,
                    targets |-> Entries[i].targets,
                    status |-> IF accepted[i] # {} THEN "SENT" ELSE "FAILED"]
  <2>1. accepted[i] # {} <=> \E d \in Targets(r) : alert[r].outcome[d] = "DELIVERED"
    BY <1>1, <1>2, NoneIsNoAlert
       DEF AlertInvariant, OutcomesAreFinal, Targets, PushOutcome
  <2>2. QED
    BY <1>1, <1>3, <2>1, EntryIsARecord DEF Audited
<1>6. UNCHANGED Ledger!vars
  <2>1. networks' = networks
    <3>1. session[r].at = "alert"
      BY <1>1 DEF AlertInvariant, AlertsHaveHandlers
    <3>2. \A m \in Macs : claim[m] # r
      BY <3>1, NoneIsNoRequest DEF AlertInvariant, Invariant, LocksAreHeld
    <3>3. QED
      BY <3>2 DEF CommitAlert, Install, AlertInvariant, Invariant, TypeOK
  <2>2. [d \in Ids |-> Seen(devices'[d])] = [d \in Ids |-> Seen(devices[d])]
    BY SameMembers
  <2>3. QED
    BY <2>1, <2>2 DEF Ledger!vars
<1>7. Ledger!Record(i)
  BY <1>1, <1>3, <1>4, <1>5, <1>6 DEF Ledger!Record
<1>8. QED
  BY <1>2, <1>7 DEF Ledger!LedgerNext

LEMMA SendMaps ==
  ASSUME AlertInvariant, AlertInvariant', NEW r \in Requests, SendAlert(r)
  PROVE  [Ledger!LedgerNext]_<<Ledger!vars, Ledger!ledger>>
<1>1. ASSUME NEW user \in Users, NEW ids \in SUBSET Ids, SendNamed(r, user, ids)
      PROVE  Ledger!LedgerNext
  <2>1. PICK mac \in Macs : /\ networks[mac] = user /\ Begin(r, user, mac, ids)
                            /\ \A d \in ids : devices[d] # None /\ devices[d].net = mac
    BY <1>1 DEF SendNamed, ResolveNamed, VerifyAdmin
  <2>2. Ledger!Authorize(nextAlert, user, mac, ids) /\ nextAlert \in AlertIds
    BY <1>1, <2>1, BeginMaps DEF SendNamed
  <2>3. QED
    BY <2>2 DEF Ledger!LedgerNext
<1>2. ASSUME NEW user \in Users, SendToNetwork(r, user)
      PROVE  Ledger!LedgerNext
  <2>1. PICK mac \in Macs : /\ networks[mac] = user /\ NetworkTargets(mac) # {}
                            /\ Begin(r, user, mac, NetworkTargets(mac))
    BY <1>2 DEF SendToNetwork, VerifyAdmin
  <2>2. PICK targets \in SUBSET Ids : targets = NetworkTargets(mac)
    BY DEF NetworkTargets
  <2>3. \A d \in targets : devices[d] # None /\ devices[d].net = mac
    BY <2>2 DEF NetworkTargets
  <2>4. session[r].at = "idle" /\ Begin(r, user, mac, targets) /\ targets # {}
    BY <1>2, <2>1, <2>2 DEF SendToNetwork
  <2>5. Ledger!Authorize(nextAlert, user, mac, targets) /\ nextAlert \in AlertIds
    BY <2>1, <2>3, <2>4, BeginMaps
  <2>6. QED
    BY <2>5 DEF Ledger!LedgerNext
<1>3. CASE UNCHANGED vars
  BY <1>3 DEF vars, registryVars, alertVars, pushVars, Ledger!vars, Ledger!ledger, Entries, Running,
     Entry, Targets
<1>4. QED
  BY <1>1, <1>2, <1>3 DEF SendAlert, RefuseAlert

\* However alerts and the requests beside them interleave, fail or are cut off,
\* what they do is what AlertLedger allows.
THEOREM AlertsImplementLedger == AlertSpec => ImplementsLedger
<1>1. AlertInit => Ledger!LedgerInit
  <2> SUFFICES ASSUME AlertInit PROVE Ledger!LedgerInit
    OBVIOUS
  <2>1. Entries = [i \in AlertIds |-> None]
    BY DEF AlertInit, Entries, Running
  <2>2. [d \in Ids |-> Seen(devices[d])] = [d \in Ids |-> None]
    BY DEF AlertInit, RegistryInit, Seen
  <2>3. {i \in AlertIds : i < nextAlert} = {}
    BY AlertBounds DEF AlertInit, AlertIds
  <2>4. networks \in [Macs -> Users \cup {None}]
    BY DEF AlertInit, RegistryInit
  <2>5. QED
    BY <2>1, <2>2, <2>3, <2>4 DEF AlertInit, Ledger!LedgerInit, Ledger!Member
<1>2. AlertInvariant /\ AlertInvariant' /\ [AlertNext]_vars =>
        [Ledger!LedgerNext]_<<Ledger!vars, Ledger!ledger>>
  <2> SUFFICES ASSUME AlertInvariant, AlertInvariant', [AlertNext]_vars
               PROVE  [Ledger!LedgerNext]_<<Ledger!vars, Ledger!ledger>>
    OBVIOUS
  <2>1. CASE UNCHANGED vars
    BY <2>1 DEF vars, registryVars, alertVars, pushVars, Ledger!vars, Ledger!ledger, Entries, Running,
       Entry, Targets
  <2>2. CASE Serve /\ UNCHANGED alertVars
    BY <2>2, ServeMaps
  <2>3. ASSUME NEW r \in Requests, SendAlert(r)
        PROVE  [Ledger!LedgerNext]_<<Ledger!vars, Ledger!ledger>>
    BY <2>3, SendMaps
  <2>4. ASSUME NEW r \in Requests, Deliver(r)
        PROVE  [Ledger!LedgerNext]_<<Ledger!vars, Ledger!ledger>>
    <3>1. CASE \/ \E d \in Ids : StartPush(r, d) \/ Push(r, d) \/ NextToClear(r, d)
               \/ Gathered(r) \/ ClearToken(r) \/ Log(r)
      BY <3>1, DeliveryMaps
    <3>2. CASE GatherRaises(r) \/ ClearMissed(r) \/ DeadlockVictim(r)
      <4>1. alert[r] # None /\ AbandonAlert(r)
        BY <3>2 DEF GatherRaises, ClearMissed, DeadlockVictim, WaitsFor, Clearing
      <4>2. QED
        BY <4>1, AbandonMaps
    <3>3. CASE CommitAlert(r)
      BY <3>3, CommitAlertMaps
    <3>4. QED
      BY <2>4, <3>1, <3>2, <3>3 DEF Deliver
  <2>5. CASE CrashAlerts
    BY <2>5, CrashMaps
  <2>6. ASSUME NEW i \in AlertIds, NEW d \in Ids, EndStray(i, d)
        PROVE  [Ledger!LedgerNext]_<<Ledger!vars, Ledger!ledger>>
    BY <2>6, EndStrayMaps
  <2>7. QED
    BY <2>1, <2>2, <2>3, <2>4, <2>5, <2>6 DEF AlertNext, ServeAll
<1>3. QED
  BY <1>1, <1>2, AlertInvariantHolds, PTL DEF AlertSpec, ImplementsLedger, Ledger!LedgerSpec
=============================================================================
