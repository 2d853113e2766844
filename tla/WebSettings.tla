---------------------------- MODULE WebSettings ------------------------------
(***************************************************************************)
(* What the dashboard lets its user change besides devices: the account's  *)
(* notification switches (in Settings and in the send-alert dialog), the   *)
(* password, and the list of things a phone saw on the WiFi.  Switches     *)
(* show what the server answered, never what was pressed; a row that is    *)
(* ignored goes at once and the list is read again if the server refuses.  *)
(* An answer finds the page that asked, or nothing.                        *)
(***************************************************************************)
EXTENDS Naturals, Sequences, SequencesExt, FiniteSets

CONSTANTS
    Keys,           \* the switches
    Observed,       \* discovered ids
    Nothing, Asks,
    MaxElsewhere,   \* bound: other clients' changes, phone scans
    MaxPresses      \* bound: presses that send or turn the page

ASSUME WebSettingsBounds == {MaxElsewhere, MaxPresses} \subseteq Nat

VARIABLES
    stored,     \* server: the switches
    password,   \* server: the password
    found,      \* server: the observations
    used,       \* ids given so far
    view,       \* the page shown, "out" at the sign-in page
    switches,   \* usePreferences, Nothing while unknown
    form,       \* the password section
    errors,     \* useApiErrors of the page shown
    panel,      \* useDiscovered
    ask,        \* [Asks -> call \cup {Nothing}]
    order,      \* switch calls the server answered, in that order, not landed
    calm,       \* history: no answer about the switches was overtaken or lost
    elsewhere, presses

webSettingsVars == <<stored, password, found, used, view, switches, form, errors,
                     panel, ask, order, calm, elsewhere, presses>>

Views == {"dashboard", "dialog", "notifications", "password"}
Passwords == {"old", "new", "short"}

\* The codes a call can fail with; the last two say the session is over.
Codes == {"VAL", "AUTH_001", "DEVICE_005", "NETWORK", "AUTH_002", "AUTH_003"}
SessionEnded == {"AUTH_002", "AUTH_003"}

EmptyForm == [current |-> Nothing, next |-> Nothing, same |-> TRUE,
              busy |-> FALSE, done |-> FALSE, mismatch |-> FALSE]
UnreadPanel == [rows |-> {}, loading |-> TRUE, loaded |-> FALSE, failed |-> FALSE]

Asked == [kind : {"read", "save", "password", "list", "relist", "ignore"},
        what : [key : Keys, value : BOOLEAN]
                 \cup [current : Passwords \ {"short"}, next : Passwords]
                 \cup Observed \cup {Nothing},
        answer : Codes \cup {"ok", Nothing},
        got : [Keys -> BOOLEAN] \cup (SUBSET Observed) \cup {Nothing},
        data : BOOLEAN, here : BOOLEAN]

\* Nothing stands for "not there": it is no call and no answer.
ASSUME WebSettingsNames == Nothing \notin Asked /\ Nothing \notin Codes \cup {"ok"}

\* `data`: the hook its answer goes to is mounted; `here`: what shows its error.
NewAsk(kind, what) ==
    [kind |-> kind, what |-> what, answer |-> Nothing, got |-> Nothing,
     data |-> TRUE, here |-> TRUE]

Mounted(p) ==
    {k \in {"read", "list"} : p = "dashboard" \/ (p = "notifications" /\ k = "read")}

Abandoned == [a \in Asks |-> IF ask[a] = Nothing THEN Nothing
                              ELSE [ask[a] EXCEPT !.data = FALSE, !.here = FALSE]]

WebSettingsInit ==
    /\ stored \in [Keys -> BOOLEAN] /\ password = "old"
    /\ used \in SUBSET Observed /\ found = used
    /\ view = "out"
    /\ switches = Nothing /\ form = EmptyForm /\ errors = {} /\ panel = UnreadPanel
    /\ ask = [a \in Asks |-> Nothing] /\ order = <<>> /\ calm = TRUE
    /\ elsewhere = 0 /\ presses = 0

WebSettingsTypeOK ==
    /\ stored \in [Keys -> BOOLEAN] /\ password \in Passwords \ {"short"}
    /\ found \subseteq used /\ used \subseteq Observed /\ panel.rows \subseteq used
    /\ view \in Views \cup {"out"} /\ errors \subseteq {"field", "banner"}
    /\ switches \in [Keys -> BOOLEAN] \cup {Nothing}
    /\ \A a \in Asks : ask[a] # Nothing => ask[a].answer \in Codes \cup {"ok", Nothing}
    /\ form.busy => \E a \in Asks : ask[a] # Nothing /\ ask[a].kind = "password" /\ ask[a].here

Press == presses < MaxPresses /\ presses' = presses + 1

-----------------------------------------------------------------------------
(* Pages.                                                                  *)

\* Signing in lands on the dashboard.  A page opened reads what it shows; the one
\* left drops everything it had.  (The browser's Back under a dialog is left out.)
Open(p) ==
    /\ p \in Views \ {"dialog"} /\ p # view /\ view # "dialog"
    /\ IF view = "out" THEN p = "dashboard" /\ UNCHANGED presses ELSE Press
    /\ \E calls \in [Mounted(p) -> Asks] :
         /\ \A k, l \in Mounted(p) : k # l => calls[k] # calls[l]
         /\ \A k \in Mounted(p) : ask[calls[k]] = Nothing
         /\ ask' = [a \in Asks |->
                      IF \E k \in Mounted(p) : calls[k] = a
                        THEN NewAsk(CHOOSE k \in Mounted(p) : calls[k] = a, Nothing)
                        ELSE Abandoned[a]]
    /\ view' = p /\ switches' = Nothing /\ form' = EmptyForm /\ errors' = {}
    /\ panel' = UnreadPanel /\ calm' = TRUE /\ order' = <<>>
    /\ UNCHANGED <<stored, password, found, used, elsewhere>>

\* The dialog shows the dashboard's switches and has errors of its own.
OpenDialog ==
    /\ view = "dashboard" /\ view' = "dialog" /\ errors' = {}
    /\ UNCHANGED <<stored, password, found, used, switches, form, panel, ask, order,
                   calm, elsewhere, presses>>

CloseDialog ==
    /\ view = "dialog" /\ view' = "dashboard" /\ errors' = {}
    /\ ask' = [a \in Asks |-> IF ask[a] # Nothing /\ ask[a].kind = "save"
                                THEN [ask[a] EXCEPT !.here = FALSE] ELSE ask[a]]
    /\ UNCHANGED <<stored, password, found, used, switches, form, panel, order, calm,
                   elsewhere, presses>>

\* After five seconds banners close and field errors stay.
BannerExpires ==
    /\ "banner" \in errors /\ errors' = errors \ {"banner"}
    /\ UNCHANGED <<stored, password, found, used, view, switches, form, panel, ask,
                   order, calm, elsewhere, presses>>

\* The banner's cross clears what stands under the fields as well.
DismissErrors ==
    /\ "banner" \in errors /\ errors' = {}
    /\ UNCHANGED <<stored, password, found, used, view, switches, form, panel, ask,
                   order, calm, elsewhere, presses>>

-----------------------------------------------------------------------------
(* What is pressed.                                                        *)

\* Off and disabled while unknown; two may be on their way at once.
Flip(a, key, value) ==
    /\ view \in {"notifications", "dialog"} /\ switches # Nothing
    /\ value # switches[key] /\ Press /\ ask[a] = Nothing
    /\ ask' = [ask EXCEPT ![a] = NewAsk("save", [key |-> key, value |-> value])]
    /\ errors' = IF view = "notifications" THEN {} ELSE errors
    /\ UNCHANGED <<stored, password, found, used, view, switches, form, panel, order,
                   calm, elsewhere>>

Type(current, next, same) ==
    /\ view = "password" /\ form.current = Nothing
    /\ form' = [form EXCEPT !.current = current, !.next = next, !.same = same]
    /\ UNCHANGED <<stored, password, found, used, view, switches, errors, panel, ask,
                   order, calm, elsewhere, presses>>

Retype == /\ view = "password" /\ form.current # Nothing
          /\ form' = [form EXCEPT !.current = Nothing, !.next = Nothing, !.same = TRUE]
          /\ UNCHANGED <<stored, password, found, used, view, switches, errors, panel,
                         ask, order, calm, elsewhere, presses>>

\* Mistake: busy is set before the two are compared.
BusyMismatch == [form EXCEPT !.done = FALSE, !.mismatch = TRUE, !.busy = TRUE]

\* The form once the two new passwords were seen to differ.
Mismatch == [form EXCEPT !.done = FALSE, !.mismatch = TRUE]

\* Every field is required; a mismatch is told without asking the server.
SubmitPassword(a) ==
    /\ view = "password" /\ ~form.busy /\ form.current # Nothing /\ Press
    /\ errors' = {}
    /\ IF form.same
         THEN /\ ask[a] = Nothing
              /\ ask' = [ask EXCEPT ![a] =
                           NewAsk("password", [current |-> form.current, next |-> form.next])]
              /\ form' = [form EXCEPT !.done = FALSE, !.mismatch = FALSE, !.busy = TRUE]
         ELSE form' = Mismatch /\ UNCHANGED ask
    /\ UNCHANGED <<stored, password, found, used, view, switches, panel, order, calm, elsewhere>>

\* The row goes on the click.
Ignore(a, o) ==
    /\ view = "dashboard" /\ o \in panel.rows /\ Press /\ ask[a] = Nothing
    /\ panel' = [panel EXCEPT !.rows = @ \ {o}]
    /\ ask' = [ask EXCEPT ![a] = NewAsk("ignore", o)]
    /\ UNCHANGED <<stored, password, found, used, view, switches, form, errors, order,
                   calm, elsewhere>>

-----------------------------------------------------------------------------
(* The server, and everyone else.                                          *)

Respond(a, code, got) == ask' = [ask EXCEPT ![a].answer = code, ![a].got = got]

\* The key sent is written and the whole row comes back.
ServeSwitches(a) ==
    /\ ask[a].kind \in {"read", "save"}
    /\ stored' = IF ask[a].kind = "read" THEN stored
                 ELSE [stored EXCEPT ![ask[a].what.key] = ask[a].what.value]
    /\ Respond(a, "ok", stored')
    /\ order' = IF ask[a].data THEN Append(order, a) ELSE order
    /\ calm' = (calm /\ (ask[a].data \/ ask[a].kind = "read"))
    /\ UNCHANGED <<password, found>>

ServePassword(a) ==
    /\ ask[a].kind = "password"
    /\ LET sent == ask[a].what IN
         IF sent.next = "short" THEN Respond(a, "VAL", Nothing) /\ UNCHANGED password
         ELSE IF sent.current # password
           THEN Respond(a, "AUTH_001", Nothing) /\ UNCHANGED password
           ELSE Respond(a, "ok", Nothing) /\ password' = sent.next
    /\ UNCHANGED <<stored, found, order, calm>>

\* A row that is gone already is refused.
ServeDiscovered(a) ==
    /\ \/ ask[a].kind \in {"list", "relist"} /\ Respond(a, "ok", found) /\ UNCHANGED found
       \/ /\ ask[a].kind = "ignore"
          /\ Respond(a, IF ask[a].what \in found THEN "ok" ELSE "DEVICE_005", Nothing)
          /\ found' = found \ {ask[a].what}
    /\ UNCHANGED <<stored, password, order, calm>>

ServeAsk(a) ==
    /\ ask[a] # Nothing /\ ask[a].answer = Nothing
    /\ ServeSwitches(a) \/ ServePassword(a) \/ ServeDiscovered(a)
    /\ UNCHANGED <<used, view, switches, form, errors, panel, elsewhere, presses>>

\* Refused for its token, or failed on the way, there or back.
Fail(a, code) ==
    /\ ask[a] # Nothing /\ elsewhere < MaxElsewhere /\ elsewhere' = elsewhere + 1
    /\ code \in SessionEnded => ask[a].answer = Nothing
    /\ ask[a].answer \in {Nothing, "ok"}
    /\ Respond(a, code, Nothing)
    /\ order' = RemoveFirst(order, a)
    /\ calm' = (calm /\ ~(ask[a].kind = "save" /\ ask[a].answer = "ok"))
    /\ UNCHANGED <<stored, password, found, used, view, switches, form, errors, panel, presses>>

Elsewhere ==
    /\ elsewhere < MaxElsewhere /\ elsewhere' = elsewhere + 1
    /\ \/ /\ \E k \in Keys : stored' = [stored EXCEPT ![k] = ~@]
          /\ calm' = FALSE /\ UNCHANGED <<found, used>>
       \/ /\ \E o \in Observed \ used : found' = found \cup {o} /\ used' = used \cup {o}
          /\ UNCHANGED <<stored, calm>>
       \/ /\ \E o \in found : found' = found \ {o}
          /\ UNCHANGED <<stored, used, calm>>
    /\ UNCHANGED <<password, view, switches, form, errors, panel, ask, order, presses>>

-----------------------------------------------------------------------------
(* Answers landing.                                                        *)

\* capture: the errors an answer leaves shown.  Behind the gate every AUTH_ code
\* is dropped.
Captured(code) ==
    {e \in {"field", "banner"} :
        code \notin {"AUTH_001"} \cup SessionEnded /\ (e = "field") = (code = "VAL")}

Arrived(a, code) == ask[a] # Nothing /\ ask[a].answer = code /\ code # Nothing

Landed(a) == ask' = [ask EXCEPT ![a] = Nothing]

\* A token refused signs the tab out, whichever call carried it.
LandSessionOver(a) ==
    /\ \E code \in SessionEnded : Arrived(a, code)
    /\ ask' = [Abandoned EXCEPT ![a] = Nothing]
    /\ view' = "out" /\ errors' = {} /\ switches' = Nothing
    /\ form' = EmptyForm /\ panel' = UnreadPanel /\ order' = <<>>
    /\ UNCHANGED calm

\* The whole answer is shown, whatever was pressed since.
LandSwitches(a) ==
    /\ Arrived(a, "ok") /\ ask[a].kind \in {"read", "save"} /\ Landed(a)
    /\ switches' = IF ask[a].data THEN ask[a].got ELSE switches
    /\ calm' = (calm /\ (ask[a].data => Head(order) = a))
    /\ order' = RemoveFirst(order, a)
    /\ UNCHANGED <<view, form, errors, panel>>

\* A failed read leaves the switches unknown, and says nothing.
LandRefusedSwitch(a, code) ==
    /\ Arrived(a, code) /\ code \notin SessionEnded \cup {"ok"}
    /\ ask[a].kind \in {"read", "save"} /\ Landed(a)
    /\ errors' = IF ask[a].kind = "save" /\ ask[a].here THEN Captured(code) ELSE errors
    /\ UNCHANGED <<view, switches, form, panel, order, calm>>

LandPassword(a, code) ==
    /\ Arrived(a, code) /\ code \notin SessionEnded
    /\ ask[a].kind = "password" /\ Landed(a)
    /\ IF ~ask[a].here THEN UNCHANGED <<form, errors>>
       ELSE IF code = "ok" THEN form' = [EmptyForm EXCEPT !.done = TRUE] /\ UNCHANGED errors
       ELSE form' = [form EXCEPT !.busy = FALSE] /\ errors' = Captured(code)
    /\ UNCHANGED <<view, switches, panel, order, calm>>

LandFound(a, code) ==
    /\ Arrived(a, code) /\ code \notin SessionEnded
    /\ ask[a].kind \in {"list", "relist"} /\ Landed(a)
    /\ panel' = IF ~ask[a].data THEN panel
                ELSE IF ask[a].kind = "list"
                  THEN [rows |-> IF code = "ok" THEN ask[a].got ELSE panel.rows,
                        loading |-> FALSE, loaded |-> TRUE, failed |-> code # "ok"]
                ELSE IF code = "ok" THEN [panel EXCEPT !.rows = ask[a].got] ELSE panel
    /\ UNCHANGED <<view, switches, form, errors, order, calm>>

\* Refused: say so and read the list again, other rows' clicks included.
LandIgnore(a, code) ==
    /\ Arrived(a, code) /\ code \notin SessionEnded /\ ask[a].kind = "ignore"
    /\ IF code = "ok" THEN Landed(a) /\ UNCHANGED panel
       ELSE /\ ask' = [ask EXCEPT ![a] =
                         [NewAsk("relist", Nothing) EXCEPT !.data = ask[a].data, !.here = ask[a].here]]
            /\ panel' = IF ask[a].data THEN [panel EXCEPT !.failed = TRUE] ELSE panel
    /\ UNCHANGED <<view, switches, form, errors, order, calm>>

LandAsk(a) ==
    /\ \/ LandSessionOver(a) \/ LandSwitches(a)
       \/ \E code \in Codes \cup {"ok"} :
            \/ LandRefusedSwitch(a, code) \/ LandPassword(a, code)
            \/ LandFound(a, code) \/ LandIgnore(a, code)
    /\ UNCHANGED <<stored, password, found, used, elsewhere, presses>>

WebSettingsNext ==
    \/ OpenDialog \/ CloseDialog \/ BannerExpires \/ DismissErrors \/ Retype \/ Elsewhere
    \/ \E p \in Views : Open(p)
    \/ \E current \in Passwords \ {"short"}, next \in Passwords, same \in BOOLEAN : Type(current, next, same)
    \/ \E a \in Asks :
         \/ SubmitPassword(a) \/ ServeAsk(a) \/ LandAsk(a)
         \/ \E key \in Keys, value \in BOOLEAN : Flip(a, key, value)
         \/ \E o \in Observed : Ignore(a, o)
         \/ \E code \in {"NETWORK"} \cup SessionEnded : Fail(a, code)

WebSettingsSpec == WebSettingsInit /\ [][WebSettingsNext]_webSettingsVars

-----------------------------------------------------------------------------
(* Properties.                                                             *)

\* Once nothing about them is on its way, the switches show what the server
\* stores, unless another client changed it or an answer was lost or overtaken:
\* a refused change leaves no switch flipped, a change of one leaves the other.
SwitchesShowStored ==
    (switches # Nothing /\ calm /\ \A a \in Asks :
        ask[a] # Nothing => ask[a].kind \notin {"read", "save"} \/ ~ask[a].data)
      => switches = stored

\* A change that is refused while the session goes on leaves an error shown
\* (useApiErrors: behind the gate a code in AUTH_ "means the session ended").
RefusalsAreShown ==
    [][\A a \in Asks :
         (/\ ask[a] # Nothing /\ ask[a].kind \in {"save", "password"} /\ ask[a].here
          /\ ask[a].answer \in Codes \ SessionEnded
          /\ ask'[a] = Nothing /\ view' # "out")
           => errors' # {}]_webSettingsVars
=============================================================================
