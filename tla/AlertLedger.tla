----------------------------- MODULE AlertLedger -----------------------------
(***************************************************************************)
(* What alerts promise, with no session, push or retry in sight, over the  *)
(* memberships the device endpoints promise.  An alert is begun by the     *)
(* account that administers a network, for devices on it.  While it runs,  *)
(* a provider may take its pushes, to those devices and no other, and may  *)
(* or may not be heard to say so.  It ends once: on record, with what was  *)
(* heard of it, and then no push goes out for it any more; or lost, and    *)
(* then what was on its way may still arrive.  It is never begun again.    *)
(***************************************************************************)
EXTENDS NetworkMembership

CONSTANT Alerts      \* alert ids

VARIABLES
    begun,           \* the alerts that have been begun
    running,         \* [Alerts -> who alerts whom where], None unless it runs
    taken,           \* [Alerts -> the devices a provider took a push for]
    heard,           \* [Alerts -> those of them for which it said so]
    loose,           \* [Alerts -> the devices a lost alert may still reach]
    record           \* [Alerts -> the audit row], None where there is none

ledger == <<begun, running, taken, heard, loose, record>>

\* Devices may be registered before the first alert, on administered networks.
LedgerInit ==
    /\ admin \in [Macs -> Users \cup {None}]
    /\ member \in [Devices -> Member \cup {None}]
    /\ \A d \in Devices : member[d] # None => admin[member[d].net] # None
    /\ begun = {}
    /\ running = [i \in Alerts |-> None]
    /\ taken = [i \in Alerts |-> {}] /\ heard = taken /\ loose = taken
    /\ record = [i \in Alerts |-> None]

Authorize(i, user, m, targets) ==
    /\ i \notin begun
    /\ admin[m] = user
    /\ targets # {}
    /\ \A d \in targets : member[d] # None /\ member[d].net = m
    /\ begun' = begun \cup {i}
    /\ running' = [running EXCEPT ![i] = [sender |-> user, net |-> m, targets |-> targets]]
    /\ UNCHANGED <<vars, taken, heard, loose, record>>

Reach(i, d) == taken' = [taken EXCEPT ![i] = @ \cup {d}]

Take(i, d) ==
    /\ running[i] # None
    /\ d \in running[i].targets
    /\ Reach(i, d)
    /\ UNCHANGED heard \/ heard' = [heard EXCEPT ![i] = @ \cup {d}]
    /\ UNCHANGED <<vars, begun, running, loose, record>>

Straggle(i, d) ==
    /\ d \in loose[i]
    /\ loose' = [loose EXCEPT ![i] = @ \ {d}]
    /\ UNCHANGED taken \/ Reach(i, d)
    /\ UNCHANGED <<vars, begun, running, heard, record>>

\* SENT if anything was heard to be taken.
Record(i) ==
    /\ running[i] # None
    /\ record' = [record EXCEPT ![i] =
          [sender |-> running[i].sender, net |-> running[i].net,
           targets |-> running[i].targets,
           status |-> IF heard[i] # {} THEN "SENT" ELSE "FAILED"]]
    /\ running' = [running EXCEPT ![i] = None]
    /\ UNCHANGED <<vars, begun, taken, heard, loose>>

\* One alert fails, or all of them with the process and what it was sending.
Lose(lost) ==
    /\ running' = [i \in Alerts |-> IF i \in lost THEN None ELSE running[i]]
    /\ loose' \in [Alerts -> SUBSET Devices]
    /\ \A i \in Alerts :
         loose'[i] \subseteq IF i \in lost /\ running[i] # None THEN running[i].targets
                            ELSE loose[i]
    /\ UNCHANGED <<vars, begun, taken, heard, record>>

LedgerNext ==
    \/ Next /\ UNCHANGED ledger
    \/ \E i \in Alerts, user \in Users, m \in Macs, targets \in SUBSET Devices :
         Authorize(i, user, m, targets)
    \/ \E i \in Alerts, d \in Devices : Take(i, d) \/ Straggle(i, d)
    \/ \E i \in Alerts : Record(i)
    \/ \E lost \in SUBSET Alerts : Lose(lost)

LedgerSpec == LedgerInit /\ [][LedgerNext]_<<vars, ledger>>
=============================================================================
