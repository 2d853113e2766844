---------------------------- MODULE AlertService ----------------------------
(***************************************************************************)
(* POST /alerts/send, over the device endpoints it runs beside.            *)
(*                                                                         *)
(* An alert reads its targets once, pushes to them from worker threads for *)
(* as long as the retries take, clears the tokens the provider disowned    *)
(* one by one, and writes its audit row.  It is one transaction: the row   *)
(* locks of the cleared devices are held until the audit row is committed. *)
(* The rows it read stay in the session for as long as the handler holds   *)
(* them, so a token is cleared from a row as it was read before the pushes.*)
(*                                                                         *)
(* An alert's handler has session[r].at = "alert" from start to end;       *)
(* alert[r] is the rest of its state.                                      *)
(***************************************************************************)
EXTENDS DeviceRegistry

CONSTANTS
    MaxAlerts,   \* bound: alerts ever accepted
    MaxTries,    \* PUSH_MAX_RETRIES
    PushLimit    \* PUSH_MAX_CONCURRENT_SENDS

ASSUME AlertBounds ==
    MaxAlerts \in Nat /\ MaxTries \in Nat \ {0} /\ PushLimit \in Nat \ {0}

VARIABLES
    alert,       \* [Requests -> Alert], None while the request is no alert
    alertLog,    \* [AlertIds -> AuditRow], None until committed
    nextAlert,   \* the next alert id
    taken,       \* [AlertIds -> devices for which a provider took a push]
    accepted,    \* [AlertIds -> those of them for which it also said so]
    stray        \* [AlertIds -> pushes that outlived their alert's handler]

pushVars == <<taken, accepted, stray>>
alertVars == <<alert, alertLog, nextAlert, pushVars>>
vars == <<registryVars, alertVars>>

AlertIds == 1..MaxAlerts

\* "RAISED": the worker thread ended in an exception.
PushOutcome == {"DELIVERED", "TOKEN_INVALID", "TRANSIENT_FAILURE", "SUPPRESSED", "RAISED"}

(***************************************************************************)
(* `read` holds the targets' rows as they were read; `tries` the attempts  *)
(* of a push that is in flight, `outcome` what it came to; `cleared` the   *)
(* targets whose token has been dealt with.                                *)
(***************************************************************************)
Alert == [id : AlertIds, at : {"push", "clear", "commit"}, net : Macs,
          read : [Ids -> Row \cup {None}],
          tries : [Ids -> (0..MaxTries - 1) \cup {None}],
          outcome : [Ids -> PushOutcome \cup {None}],
          cleared : SUBSET Ids]

AuditRow == [sender : Users, net : Macs, targets : SUBSET Ids, status : {"SENT", "FAILED"}]

ASSUME NoneIsNoAlert == None \notin Alert /\ None \notin AuditRow /\ None \notin PushOutcome

Targets(r) == {d \in Ids : alert[r].read[d] # None}
InFlight(r) == {d \in Ids : alert[r].tries[d] # None}

AlertTypeOK ==
    /\ TypeOK
    /\ alert \in [Requests -> Alert \cup {None}]
    /\ alertLog \in [AlertIds -> AuditRow \cup {None}]
    /\ nextAlert \in Nat
    /\ {taken, accepted, stray} \subseteq [AlertIds -> SUBSET Ids]

AlertInit ==
    /\ RegistryInit
    /\ alert = [r \in Requests |-> None]
    /\ alertLog = [i \in AlertIds |-> None]
    /\ nextAlert = 1
    /\ taken = [i \in AlertIds |-> {}]
    /\ accepted = taken /\ stray = taken

-----------------------------------------------------------------------------
(* resolve_targets: authorize the alert and read its targets.              *)

VerifyAdmin(user, mac) == networks[mac] = user

\* Mistake: whoever registered on a network may alert on it.
ResolveUnverified(user, ids) ==
    {mac \in Macs : \A d \in ids : /\ devices[d] # None
                                   /\ devices[d].net = mac
                                   /\ IsAlertable(devices[d])}

\* Named devices: all there, on one network, which the sender administers,
\* and none of them known to be elsewhere.
ResolveNamed(user, ids) ==
    {mac \in Macs : /\ \A d \in ids : /\ devices[d] # None
                                     /\ devices[d].net = mac
                                     /\ IsAlertable(devices[d])
                    /\ VerifyAdmin(user, mac)}

\* No device named: whoever is alertable on a network the sender claimed.
NetworkTargets(mac) ==
    {d \in Ids : devices[d] # None /\ devices[d].net = mac /\ IsAlertable(devices[d])}

\* The alert is accepted: nothing is pushed before this, everything after.
Begin(r, user, mac, targets) ==
    /\ nextAlert \in AlertIds
    /\ session' = [session EXCEPT ![r] = [Idle EXCEPT !.at = "alert", !.user = user]]
    /\ alert' = [alert EXCEPT ![r] =
          [id |-> nextAlert, at |-> "push", net |-> mac,
           read |-> [d \in Ids |-> IF d \in targets THEN devices[d] ELSE None],
           tries |-> [d \in Ids |-> None],
           outcome |-> [d \in Ids |-> None],
           cleared |-> {}]]
    /\ nextAlert' = nextAlert + 1
    /\ UNCHANGED <<networks, devices, claim, lock, shadow, nextId, known, alertLog, pushVars>>

SendNamed(r, user, ids) ==
    /\ session[r].at = "idle"
    /\ ids # {}
    /\ \E mac \in ResolveNamed(user, ids) : Begin(r, user, mac, ids)

SendToNetwork(r, user) ==
    /\ session[r].at = "idle"
    /\ \E mac \in Macs :
         /\ VerifyAdmin(user, mac)
         /\ NetworkTargets(mac) # {}
         /\ Begin(r, user, mac, NetworkTargets(mac))

\* 400 or 403: an unknown device, two networks, another account's network, a
\* device that is elsewhere, or nobody to alert.
RefuseAlert(r) ==
    /\ session[r].at = "idle"
    /\ \E user \in Users :
         \/ \E ids \in SUBSET Ids : ids # {} /\ ResolveNamed(user, ids) = {}
         \/ \A mac \in Macs : VerifyAdmin(user, mac) => NetworkTargets(mac) = {}
    /\ UNCHANGED vars

-----------------------------------------------------------------------------
(* gather_with_limit over send_alert_to.                                   *)

\* A worker thread takes up the push to d.
StartPush(r, d) ==
    /\ alert[r] # None
    /\ alert[r].at = "push"
    /\ d \in Targets(r) \ InFlight(r)
    /\ alert[r].outcome[d] = None
    /\ Cardinality(InFlight(r)) < PushLimit
    /\ alert' = [alert EXCEPT ![r].tries[d] = 0]
    /\ UNCHANGED <<registryVars, alertLog, nextAlert, pushVars>>

Conclude(r, d, outcome) ==
    alert' = [alert EXCEPT ![r].outcome[d] = outcome, ![r].tries[d] = None]

\* send_alert_to first reads device.user, from the database unless the row is a
\* guest's, over a session the other threads share: that can raise, and so end
\* the thread.
OwnerUnread(r, d) ==
    /\ alert[r].tries[d] = 0
    /\ alert[r].read[d].owner # None
    /\ Conclude(r, d, "RAISED")
    /\ UNCHANGED pushVars

\* The owner of the device, not a guest, has notifications switched off.
Suppress(r, d) ==
    /\ alert[r].tries[d] = 0
    /\ alert[r].read[d].owner # None
    /\ Conclude(r, d, "SUPPRESSED")
    /\ UNCHANGED pushVars

NoTokenToPush(r, d) ==
    /\ alert[r].read[d].token \in {None, NoToken}
    /\ Conclude(r, d, "TOKEN_INVALID")
    /\ UNCHANGED pushVars

TakeFor(i, d) == taken' = [taken EXCEPT ![i] = @ \cup {d}]

Delivered(r, d) ==
    /\ Conclude(r, d, "DELIVERED")
    /\ TakeFor(alert[r].id, d)
    /\ accepted' = [accepted EXCEPT ![alert[r].id] = @ \cup {d}]
    /\ UNCHANGED stray

\* Mistake: one attempt too many.
CallProviderOnceMore(r, d) ==
    /\ alert[r].read[d].token \in Tokens
    /\ \/ Delivered(r, d)
       \/ /\ IF alert[r].tries[d] < MaxTries
             THEN alert' = [alert EXCEPT ![r].tries[d] = @ + 1]
             ELSE Conclude(r, d, "TRANSIENT_FAILURE")
          /\ UNCHANGED pushVars

\* The provider takes the push, disowns the token, or fails for now: only that is
\* tried again, MaxTries times in all.  An answer that is lost or late is such a
\* failure, also when the push it would have confirmed was taken.
CallProvider(r, d) ==
    /\ alert[r].read[d].token \in Tokens
    /\ \/ Delivered(r, d)
       \/ Conclude(r, d, "TOKEN_INVALID") /\ UNCHANGED pushVars
       \/ /\ IF alert[r].tries[d] + 1 < MaxTries
             THEN alert' = [alert EXCEPT ![r].tries[d] = @ + 1]
             ELSE Conclude(r, d, "TRANSIENT_FAILURE")
          /\ UNCHANGED taken \/ TakeFor(alert[r].id, d)
          /\ UNCHANGED <<accepted, stray>>

Push(r, d) ==
    /\ alert[r] # None
    /\ d \in InFlight(r)
    /\ OwnerUnread(r, d) \/ Suppress(r, d) \/ NoTokenToPush(r, d) \/ CallProvider(r, d)
    /\ UNCHANGED <<registryVars, alertLog, nextAlert>>

Raised(r) == \E d \in Targets(r) : alert[r].outcome[d] = "RAISED"

Gathered(r) ==
    /\ alert[r] # None
    /\ alert[r].at = "push"
    /\ \A d \in Targets(r) : alert[r].outcome[d] # None
    /\ ~Raised(r)
    /\ alert' = [alert EXCEPT ![r].at = "clear"]
    /\ UNCHANGED <<registryVars, alertLog, nextAlert, pushVars>>

\* Mistakes: the exception is swallowed and what was flushed is committed; the
\* alert is logged as failed, whatever was pushed; the loop starts over on a fresh
\* transaction, however often it fails.
CommitAbandoned(r) ==
    /\ Install(r)
    /\ Release(r)
    /\ session' = [session EXCEPT ![r] = Idle]
    /\ alert' = [alert EXCEPT ![r] = None]
    /\ UNCHANGED <<nextId, known, alertLog, nextAlert, pushVars>>

AbandonLogged(r) ==
    /\ Rollback(r)
    /\ alertLog' = [alertLog EXCEPT ![alert[r].id] =
          [sender |-> session[r].user, net |-> alert[r].net, targets |-> Targets(r),
           status |-> "FAILED"]]
    /\ alert' = [alert EXCEPT ![r] = None]
    /\ UNCHANGED <<nextAlert, pushVars>>

RestartClearing(r) ==
    /\ Release(r)
    /\ session' = [session EXCEPT ![r].dev = None]
    /\ alert' = [alert EXCEPT ![r].cleared = {}]
    /\ UNCHANGED <<networks, devices, nextId, known, alertLog, nextAlert, pushVars>>

\* An exception left the handler; the audit row was never written.  Provider
\* calls under way in worker threads are not called off.
AbandonAlert(r) ==
    /\ Rollback(r)
    /\ alert' = [alert EXCEPT ![r] = None]
    /\ stray' = [stray EXCEPT ![alert[r].id] =
          {d \in InFlight(r) : alert[r].read[d].token \in Tokens}]
    /\ UNCHANGED <<alertLog, nextAlert, taken, accepted>>

\* The first exception of a thread leaves gather, and with it the handler.
GatherRaises(r) ==
    /\ alert[r] # None
    /\ alert[r].at = "push"
    /\ Raised(r)
    /\ AbandonAlert(r)

\* A push without a handler ends with its call: the rows of the closed session
\* can no longer be read for another attempt.
EndStray(i, d) ==
    /\ d \in stray[i]
    /\ stray' = [stray EXCEPT ![i] = @ \ {d}]
    /\ UNCHANGED taken \/ TakeFor(i, d)
    /\ UNCHANGED <<registryVars, alert, alertLog, nextAlert, accepted>>

-----------------------------------------------------------------------------
(* handle_notification_failure, for one target after the other.            *)

\* Mistake: a push that was not sent counts as a dead token.
DisownsSuppressed(r) ==
    {d \in Targets(r) : /\ alert[r].outcome[d] \in {"TOKEN_INVALID", "SUPPRESSED"}
                        /\ alert[r].read[d].token \in Tokens}

Disowns(r) == {d \in Targets(r) : /\ alert[r].outcome[d] = "TOKEN_INVALID"
                                  /\ alert[r].read[d].token \in Tokens}

\* The next target the loop comes to; the SELECT left their order open.
NextToClear(r, d) ==
    /\ alert[r] # None
    /\ alert[r].at = "clear"
    /\ session[r].dev = None
    /\ d \in Disowns(r) \ alert[r].cleared
    /\ session' = [session EXCEPT ![r].dev = d]
    /\ UNCHANGED <<networks, devices, claim, lock, shadow, nextId, known, alertVars>>

Clearing(r) == alert[r] # None /\ alert[r].at = "clear" /\ session[r].dev # None

ClearToken(r) ==
    LET d == session[r].dev
        read == alert[r].read[d]
    IN  /\ Clearing(r)
        /\ Writable(r, d)
        /\ devices[d] # None
        /\ Flush(r, d, Updated(devices[d], read, Disowned(read)))
        /\ session' = [session EXCEPT ![r].dev = None]
        /\ alert' = [alert EXCEPT ![r].cleared = @ \cup {d}]
        /\ UNCHANGED <<networks, devices, claim, nextId, known, alertLog, nextAlert, pushVars>>

\* The device was removed meanwhile: the UPDATE meets no row, StaleDataError.
ClearMissed(r) ==
    /\ Clearing(r)
    /\ Writable(r, session[r].dev)
    /\ devices[session[r].dev] = None
    /\ AbandonAlert(r)

\* PostgreSQL breaks a cycle of waiting transactions by aborting one of them.
WaitsFor(r, s) == Clearing(r) /\ s # r /\ lock[session[r].dev] = s

DeadlockVictim(r) ==
    /\ \E cycle \in SUBSET Requests :
         /\ r \in cycle
         /\ \A s \in cycle : \E t \in cycle : WaitsFor(s, t)
         /\ \A t \in cycle : \E s \in cycle : WaitsFor(s, t)
    /\ AbandonAlert(r)

-----------------------------------------------------------------------------
(* log_alert, the answer, and get_db's commit.                             *)

Log(r) ==
    /\ alert[r] # None
    /\ alert[r].at = "clear"
    /\ session[r].dev = None
    /\ Disowns(r) \subseteq alert[r].cleared
    /\ alert' = [alert EXCEPT ![r].at = "commit"]
    /\ UNCHANGED <<registryVars, alertLog, nextAlert, pushVars>>

\* Mistake: every outcome is truthy.
AuditedAnyOutcome(r) ==
    [sender |-> session[r].user, net |-> alert[r].net, targets |-> Targets(r),
     status |-> IF \E d \in Targets(r) : alert[r].outcome[d] # None
                THEN "SENT" ELSE "FAILED"]

\* SENT if anything was delivered; anything else, none of it or all of it
\* suppressed, is FAILED.
Audited(r) ==
    [sender |-> session[r].user, net |-> alert[r].net, targets |-> Targets(r),
     status |-> IF \E d \in Targets(r) : alert[r].outcome[d] = "DELIVERED"
                THEN "SENT" ELSE "FAILED"]

CommitAlert(r) ==
    /\ alert[r] # None
    /\ alert[r].at = "commit"
    /\ Install(r)
    /\ Release(r)
    /\ session' = [session EXCEPT ![r] = Idle]
    /\ alertLog' = [alertLog EXCEPT ![alert[r].id] = Audited(r)]
    /\ alert' = [alert EXCEPT ![r] = None]
    /\ UNCHANGED <<nextId, known, nextAlert, pushVars>>

-----------------------------------------------------------------------------
CrashAlerts ==
    /\ Crash
    /\ alert' = [r \in Requests |-> None]
    /\ stray' = [i \in AlertIds |-> {}]
    /\ UNCHANGED <<alertLog, nextAlert, taken, accepted>>

SendAlert(r) ==
    \/ \E user \in Users, ids \in SUBSET Ids : SendNamed(r, user, ids)
    \/ \E user \in Users : SendToNetwork(r, user)
    \/ RefuseAlert(r)

Deliver(r) ==
    \/ \E d \in Ids : StartPush(r, d) \/ Push(r, d) \/ NextToClear(r, d)
    \/ Gathered(r) \/ GatherRaises(r)
    \/ ClearToken(r) \/ ClearMissed(r) \/ DeadlockVictim(r)
    \/ Log(r) \/ CommitAlert(r)

ServeAll ==
    \/ Serve /\ UNCHANGED alertVars
    \/ \E r \in Requests : SendAlert(r) \/ Deliver(r)
    \/ \E i \in AlertIds, d \in Ids : EndStray(i, d)

AlertNext == ServeAll \/ CrashAlerts

AlertSpec == AlertInit /\ [][AlertNext]_vars

\* As for the device endpoints: threads run, locks are handed on in order, and
\* a deadlock is found and broken.
AlertsRun == \A r \in Requests : SF_vars((Finish(r) /\ UNCHANGED alertVars) \/ Deliver(r))

\* A process that stays up.
AlertUpSpec == AlertInit /\ [][ServeAll]_vars /\ AlertsRun

-----------------------------------------------------------------------------
(* Properties.                                                             *)

\* An audit row tells the truth about its alert as far as the server heard it:
\* SENT exactly when a provider answered that it took a push, and then it had.
\* Nobody beyond the targets it names was pushed to.  FAILED does not say that
\* nobody was reached: an answer may have been lost.
AuditIsTruthful ==
    \A i \in AlertIds : alertLog[i] # None =>
      /\ alertLog[i].status = "SENT" <=> accepted[i] # {}
      /\ accepted[i] \subseteq taken[i] /\ taken[i] \subseteq alertLog[i].targets

\* The account an alert was authorized for administers its network for as long
\* as the alert runs, and every row it writes belongs to its targets.
SenderStaysAdmin ==
    \A r \in Requests : alert[r] # None =>
      /\ networks[alert[r].net] = session[r].user
      /\ \A d \in Ids : lock[d] = r => d \in Targets(r)

\* A committed push token goes away only together with the audit row of an
\* alert that names the device: never by a half-finished one.
ClearedOnRecord ==
    [][\A d \in Ids :
         /\ devices[d] # None /\ devices'[d] # None
         /\ devices[d].token \in Tokens /\ devices'[d].token = None
         => \E i \in AlertIds : /\ alertLog[i] = None /\ alertLog'[i] # None
                                /\ d \in alertLog'[i].targets]_vars

\* A device whose owner switched notifications off, or whose provider failed
\* for now, keeps its token and its status.
OnlyDeadTokensAreCleared ==
    [][\A r \in Requests, d \in Ids : alert[r] # None /\ CommitAlert(r) =>
         (devices'[d] # devices[d] => alert[r].outcome[d] = "TOKEN_INVALID")]_vars

\* Every alert ends, also when two of them wait for each other's rows.
AlertsEnd == \A r \in Requests : session[r].at = "alert" ~> session[r].at = "idle"
=============================================================================
