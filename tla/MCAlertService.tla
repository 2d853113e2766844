--------------------------- MODULE MCAlertService ---------------------------
(***************************************************************************)
(* Small instances of AlertService for TLC.  They start from a household   *)
(* that has registered: account a administers `home` with phone p, and q   *)
(* is a guest there.  Every later call is AlertService's.                  *)
(***************************************************************************)
EXTENDS AlertServiceInv, TLC

CONSTANTS a, b, home, mesh, p, q, r1, r2

\* Every phone has the token it registered with.
HomeTokens == {"tp", "tq"}
HomeHolder == [t \in HomeTokens |-> IF t = "tp" THEN p ELSE q]

Symmetry == Permutations({r1, r2})

Household ==
    [d \in Ids |->
       IF d = 1 THEN NewRow(a, home, p, "tp", p)
       ELSE IF d = 2 /\ q \in Phones THEN NewRow(None, home, q, "tq", q)
       ELSE None]

HouseholdInit ==
    /\ networks = [m \in Macs |-> IF m = home THEN a ELSE None]
    /\ devices = Household
    /\ claim = [m \in Macs |-> None]
    /\ lock = [d \in Ids |-> None]
    /\ shadow = [d \in Ids |-> None]
    /\ session = [r \in Requests |-> Idle]
    /\ nextId = Cardinality(Phones) + 1
    /\ known = {d \in Ids : Household[d] # None}
    /\ alert = [r \in Requests |-> None]
    /\ alertLog = [i \in AlertIds |-> None]
    /\ nextAlert = 1
    /\ taken = [i \in AlertIds |-> {}]
    /\ accepted = taken /\ stray = taken

HouseholdSpec == HouseholdInit /\ [][AlertNext]_vars

\* No handler ever sees whether a push it takes for failed was taken: here none was.
PushHeard(r, d) == Push(r, d) /\ taken' = accepted'

\* The admin taps twice while the phones keep beating.
TwoAlerts ==
    \E r \in Requests :
      \/ SendAlert(r)
      \/ \E d \in Ids : StartPush(r, d) \/ PushHeard(r, d) \/ NextToClear(r, d)
      \/ Gathered(r) \/ GatherRaises(r) \/ ClearToken(r) \/ DeadlockVictim(r)
      \/ Log(r) \/ CommitAlert(r)
      \/ /\ (\E d \in Ids, mac \in Macs : Heartbeat(r, d, mac)) \/ Finish(r)
         /\ UNCHANGED alertVars

TwoAlertsSpec == HouseholdInit /\ [][TwoAlerts]_vars /\ AlertsRun
=============================================================================
