--------------------------- MODULE AlertServiceInv ---------------------------
(***************************************************************************)
(* Why AlertService's invariants hold: on top of what DeviceRegistry's     *)
(* requests preserve together, what an alert knows about its targets, its  *)
(* locks and its audit row.                                                *)
(***************************************************************************)
EXTENDS AlertService, DeviceRegistryInv

AlertTypes ==
    /\ alert \in [Requests -> Alert \cup {None}]
    /\ alertLog \in [AlertIds -> AuditRow \cup {None}]
    /\ nextAlert \in Nat
    /\ taken \in [AlertIds -> SUBSET Ids]
    /\ accepted \in [AlertIds -> SUBSET Ids]
    /\ stray \in [AlertIds -> SUBSET Ids]

\* An alert's handler and its record come and go together.
AlertsHaveHandlers ==
    \A r \in Requests :
      /\ alert[r] # None <=> session[r].at = "alert"
      /\ alert[r] # None => session[r].user \in Users
                            /\ networks[alert[r].net] = session[r].user

\* Only targets are pushed to, each until it has an outcome, and all of them
\* have one before the first token is cleared.
OutcomesAreFinal ==
    \A r \in Requests : alert[r] # None =>
      /\ \A d \in Ids : alert[r].tries[d] # None =>
           d \in Targets(r) /\ alert[r].outcome[d] = None
      /\ \A d \in Ids : alert[r].outcome[d] # None => d \in Targets(r)
      /\ alert[r].at # "push" => \A d \in Targets(r) : alert[r].outcome[d] # None

\* An alert locks the rows it clears, one after the other, and no others; the
\* one it waits for is not locked yet.
LocksAreCleared ==
    \A r \in Requests : alert[r] # None =>
      /\ session[r].dev # None =>
           alert[r].at = "clear" /\ session[r].dev \in Disowns(r) \ alert[r].cleared
      /\ \A d \in Ids : lock[d] = r => d \in Disowns(r) /\ d \in alert[r].cleared
      /\ alert[r].at = "push" => \A d \in Ids : lock[d] # r

\* A target was a row when the alert began, so it is no id a registration has
\* reserved, nor the uncommitted first version of one.
TargetsWereRows ==
    \A r \in Requests : alert[r] # None =>
      \A d \in Targets(r) :
        /\ d < nextId
        /\ \A s \in Requests : Reserving(s) => session[s].dev # d
        /\ devices[d] = None => shadow[d] = None

\* Clearing a token moves no row, and no other update takes a token away.
TokensAreKept ==
    \A d \in Ids : shadow[d] # None /\ devices[d] # None =>
      IF session[lock[d]].at = "alert"
        THEN shadow[d].net = devices[d].net
        ELSE shadow[d].token = None => devices[d].token = None

\* Every alert has an id of its own; it is on record once it is over, and what
\* providers took for it is what its pushes delivered.
AlertIdsAreFresh ==
    /\ \A r \in Requests : alert[r] # None =>
         /\ alert[r].id < nextAlert
         /\ alertLog[alert[r].id] = None
         /\ accepted[alert[r].id] = {d \in Ids : alert[r].outcome[d] = "DELIVERED"}
         /\ \A s \in Requests \ {r} : alert[s] # None => alert[s].id # alert[r].id
    /\ \A i \in AlertIds : i >= nextAlert => alertLog[i] = None /\ accepted[i] = {}

\* What a provider said it took it took, for targets only.  Pushes without a
\* handler are those of an alert that was lost.
PushesAreForTargets ==
    /\ \A r \in Requests : alert[r] # None =>
         /\ accepted[alert[r].id] \subseteq taken[alert[r].id]
         /\ taken[alert[r].id] \subseteq Targets(r)
         /\ stray[alert[r].id] = {}
    /\ \A i \in AlertIds : i >= nextAlert => taken[i] = {} /\ stray[i] = {}
    /\ \A i \in AlertIds : alertLog[i] # None => stray[i] = {}

AlertInvariant ==
    /\ Invariant
    /\ AlertTypes
    /\ AlertsHaveHandlers
    /\ OutcomesAreFinal
    /\ LocksAreCleared
    /\ TargetsWereRows
    /\ TokensAreKept
    /\ AlertIdsAreFresh
    /\ PushesAreForTargets
    /\ AuditIsTruthful

-----------------------------------------------------------------------------
(* What AlertService implements.                                           *)

\* A running alert, as the one who sends it would name it.
Entry(r) == [sender |-> session[r].user, net |-> alert[r].net, targets |-> Targets(r)]

ASSUME NoneIsNoEntry == None \notin [sender : Users, net : Macs, targets : SUBSET Ids]

Running(i) == {r \in Requests : alert[r] # None /\ alert[r].id = i}

Entries ==
    [i \in AlertIds |-> IF Running(i) = {} THEN None
                       ELSE Entry(CHOOSE r \in Running(i) : TRUE)]

Ledger == INSTANCE AlertLedger WITH
    Devices <- Ids,
    Alerts  <- AlertIds,
    admin   <- networks,
    member  <- [d \in Ids |-> Seen(devices[d])],
    begun   <- {i \in AlertIds : i < nextAlert},
    running <- Entries,
    taken   <- taken,
    heard   <- accepted,
    loose   <- stray,
    record  <- alertLog

\* However alerts run beside registrations, heartbeats and removals, are retried,
\* fail or are cut off: an alert is authorized when it begins, pushes only to
\* devices that were on its network, and goes on record once, after the last of its
\* pushes, or not at all; and clearing tokens moves and removes no device.
ImplementsLedger == Ledger!LedgerSpec
=============================================================================
