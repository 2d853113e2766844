----------------------------- MODULE DeviceRows -----------------------------
(***************************************************************************)
(* The rows of the `devices` table and the pure rules the backend applies  *)
(* to them: which row a registration updates, what a re-registration, a    *)
(* heartbeat and a rejected push write, and what an UPDATE puts in the     *)
(* database when it is built from a row that was read earlier.             *)
(*                                                                         *)
(* A WiFi network is identified by its router's MAC, which is unique in    *)
(* `wifi_networks`, so a row's wifi_id is the MAC itself.  A device id is  *)
(* the rank of the row's created_at: ids are handed out in the order in    *)
(* which the creating transactions start, which is what now() records.     *)
(* Names, types, OS versions and battery levels are left out.              *)
(***************************************************************************)
EXTENDS Integers, FiniteSets

CONSTANTS
    Users,        \* accounts
    Macs,         \* normalised router MACs
    Phones,       \* physical phones; also the install_id each of them sends
    Tokens,       \* push tokens
    Holder,       \* [Tokens -> Phones], the phone a token was issued to
    NoToken,      \* the empty push token of a phone that declined notifications
    MaxDevices,   \* bound: device rows ever created
    None          \* SQL NULL, Python None, "no such row"

ASSUME HolderIsPhone == Holder \in [Tokens -> Phones]
ASSUME MaxDevicesIsNat == MaxDevices \in Nat
ASSUME NoneIsNobody ==
    None \notin Users \cup Macs \cup Phones \cup Tokens \cup {NoToken} \cup Nat
ASSUME NoTokenIsNoToken == NoToken \notin Tokens

Ids == 1..MaxDevices
Status == {"ONLINE", "OFFLINE", "UNKNOWN"}

(***************************************************************************)
(* One row.  `owner` is user_id (None for a guest), `net` the network the  *)
(* row belongs to.  `phone` is the one field the table does not have: the  *)
(* phone whose registration created the row, kept to state that no other   *)
(* phone's registration ever lands on it.                                  *)
(***************************************************************************)
Row == [owner : Users \cup {None}, net : Macs, install : Phones \cup {None},
        token : Tokens \cup {NoToken, None}, status : Status, phone : Phones]

ASSUME NoneIsNoRow == None \notin Row

IsAlertable(row) == row.status # "UNKNOWN"

-----------------------------------------------------------------------------
(* Which existing row is this registration about?                          *)

Newest(ids) ==
    IF ids = {} THEN None ELSE CHOOSE d \in ids : \A e \in ids : e <= d

\* The rows of `table` that belong to `user`, or to nobody for a guest.
OfOwner(table, user) ==
    {d \in DOMAIN table : table[d] # None /\ table[d].owner = user}

\* Mistake: an account's phone is searched for on one network only.
FindOnNetwork(table, user, mac, install, token) ==
    Newest({d \in OfOwner(table, user) : table[d].install = install /\ table[d].net = mac})

FindByInstall(table, user, mac, install, token) ==
    LET found == {d \in OfOwner(table, user) :
                    /\ table[d].install = install
                    /\ user = None => table[d].net = mac}
        adoptable == {d \in OfOwner(table, user) :
                        /\ table[d].net = mac
                        /\ table[d].token = token
                        /\ table[d].install = None}
    IN  IF found # {} \/ token = NoToken THEN Newest(found) ELSE Newest(adoptable)

FindByToken(table, user, mac, token) ==
    Newest({d \in OfOwner(table, user) :
              table[d].net = mac /\ table[d].token = token})

\* Mistake: an empty token is matched like any other.
FindByEmptyToken(table, user, mac, install, token) ==
    IF install # None THEN FindByInstall(table, user, mac, install, token)
                      ELSE FindByToken(table, user, mac, token)

FindReregistration(table, user, mac, install, token) ==
    CASE install # None -> FindByInstall(table, user, mac, install, token)
      [] install = None /\ token # NoToken -> FindByToken(table, user, mac, token)
      [] OTHER -> None

-----------------------------------------------------------------------------
(* What each operation wants the row to say.                               *)

NewRow(user, mac, install, token, phone) ==
    [owner |-> user, net |-> mac, install |-> install, token |-> token,
     status |-> "ONLINE", phone |-> phone]

\* Mistakes: an older client wipes the install id; a returning device keeps
\* the status it had.
RejoinedWiping(row, mac, install, token) ==
    [row EXCEPT !.token = token, !.install = install, !.net = mac, !.status = "ONLINE"]

RejoinedQuietly(row, mac, install, token) ==
    [row EXCEPT !.token = token, !.net = mac,
                !.install = IF install = None THEN @ ELSE install]

\* _apply_device_info, then _rejoin.
Rejoined(row, mac, install, token) ==
    [row EXCEPT !.token = token,
                !.install = IF install = None THEN @ ELSE install,
                !.net = mac,
                !.status = "ONLINE"]

\* A heartbeat that reports `mac`.
Beaten(row, mac) ==
    [row EXCEPT !.status = IF mac = row.net THEN "ONLINE" ELSE "UNKNOWN"]

\* The provider disowned the row's push token.
Disowned(row) == [row EXCEPT !.token = None, !.status = "OFFLINE"]

(***************************************************************************)
(* The UPDATE the session emits names only the columns whose value differs *)
(* from the one that was read: `read` is the row as the session loaded it, *)
(* `want` as the handler left it, `stored` the row the statement meets.    *)
(***************************************************************************)
Updated(stored, read, want) ==
    [stored EXCEPT !.net = IF want.net = read.net THEN @ ELSE want.net,
                   !.install = IF want.install = read.install THEN @ ELSE want.install,
                   !.token = IF want.token = read.token THEN @ ELSE want.token,
                   !.status = IF want.status = read.status THEN @ ELSE want.status]
=============================================================================
