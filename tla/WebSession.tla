----------------------------- MODULE WebSession ------------------------------
(***************************************************************************)
(* The dashboard's session: what browser tabs show, what storage holds for *)
(* them, and the sign-in card.  Tabs of one browser share localStorage;    *)
(* where the browser keeps none each tab has a map of its own.  A tab      *)
(* reads storage when it opens and when it sends a request, and writes it  *)
(* when an answer lands, so an answer acts on what storage holds by then.  *)
(* A session is named by the sign-in that issued it, 1, 2, ...             *)
(***************************************************************************)
EXTENDS Naturals, FiniteSets

CONSTANTS
    Tabs, Nobody, Calls,
    MaxLogins,      \* bound: sessions the server issues
    MaxMishaps      \* bound: expiries, losses and closed tabs, together

ASSUME WebBounds == {MaxLogins, MaxMishaps} \subseteq Nat

ASSUME NobodyIsNoSession == Nobody \notin Nat

ASSUME NamesApart == {"shared", Nobody} \cap Tabs = {}

VARIABLES
    persistent, \* whether the browser keeps localStorage
    jar,        \* [Jars -> [token, session]]
    tab,        \* [Tabs -> tab]
    card,       \* [Tabs -> the sign-in card's fields]
    webCall,    \* [Calls -> request \cup {Nobody}]
    issued,     \* server: sessions issued so far
    revoked, expired,
    mishaps

sessionVars ==
    <<persistent, jar, tab, card, webCall, issued, revoked, expired, mishaps>>

Sessions == 1..MaxLogins
Jars == Tabs \cup {"shared"}
JarOf(t) == IF persistent THEN "shared" ELSE t
Empty == [token |-> Nobody, session |-> Nobody]

Modes == {"login", "register", "forgot"}

\* `alone` is history: no other tab was open while this one was.
Closed ==
    [open |-> FALSE, restoring |-> FALSE, route |-> "login", session |-> Nobody, alone |-> FALSE]

\* `same`: the two passwords typed agree.  `ticked` is history: the box was last
\* ticked by hand, on the form as it is shown now.
FreshCard ==
    [mode |-> "login", same |-> FALSE, agreed |-> FALSE, ticked |-> FALSE,
     mismatch |-> FALSE, busy |-> FALSE, sent |-> FALSE, errors |-> FALSE]

\* `mine`: the card that sent it is still on the page.  `consent` is history:
\* what the card showed when it was sent.
NewRequest(t, kind) ==
    [tab |-> t, kind |-> kind, cred |-> jar[JarOf(t)].token, mine |-> TRUE,
     consent |-> card[t].ticked /\ card[t].same, answer |-> "none", issue |-> Nobody]

CallType ==
    [tab : Tabs \cup {Nobody}, kind : Modes \cup {"fetch", "logout"},
     cred : Sessions \cup {Nobody}, mine : BOOLEAN, consent : BOOLEAN,
     answer : {"none", "ok", "refused", "rejected"}, issue : Sessions \cup {Nobody}]

JarType == [token : Sessions \cup {Nobody}, session : Sessions \cup {Nobody}]

TabType == [open : BOOLEAN, restoring : BOOLEAN, route : {"login", "privacy"},
            session : Sessions \cup {Nobody}, alone : BOOLEAN]

CardType == [mode : Modes, same : BOOLEAN, agreed : BOOLEAN, ticked : BOOLEAN,
             mismatch : BOOLEAN, busy : BOOLEAN, sent : BOOLEAN, errors : BOOLEAN]

WebSessionTypeOK ==
    /\ persistent \in BOOLEAN
    /\ jar \in [Jars -> JarType] /\ tab \in [Tabs -> TabType] /\ card \in [Tabs -> CardType]
    /\ webCall \in [Calls -> CallType \cup {Nobody}]
    /\ issued \in 0..MaxLogins /\ revoked \cup expired \subseteq 1..issued

SessionInit ==
    /\ persistent \in BOOLEAN
    /\ jar = [j \in Jars |-> Empty]
    /\ tab = [t \in Tabs |-> Closed] /\ card = [t \in Tabs |-> FreshCard]
    /\ webCall = [c \in Calls |-> Nobody]
    /\ issued = 0 /\ revoked = {} /\ expired = {} /\ mishaps = 0

-----------------------------------------------------------------------------
(* The tab.                                                                *)

serverSession == <<issued, revoked, expired>>

Mishap == mishaps < MaxMishaps /\ mishaps' = mishaps + 1

SignedIn(t) == tab[t].open /\ ~tab[t].restoring /\ tab[t].session # Nobody

\* The gate: nothing until storage was read; signed out, the card or the policy.
CardShown(t) ==
    tab[t].open /\ ~tab[t].restoring /\ tab[t].session = Nobody /\ tab[t].route = "login"

OpenTab(t, route) ==
    /\ ~tab[t].open
    /\ tab' = [u \in Tabs |->
                 IF u # t THEN [tab[u] EXCEPT !.alone = FALSE]
                 ELSE [open |-> TRUE, restoring |-> TRUE, route |-> route, session |-> Nobody,
                       alone |-> \A v \in Tabs : ~tab[v].open]]
    /\ UNCHANGED <<persistent, jar, card, webCall, serverSession, mishaps>>

\* restoreSession: a session past its date is forgotten without being shown.
Restore(t) ==
    LET stored == jar[JarOf(t)].session
        usable == stored \notin expired
    IN  /\ tab[t].restoring
        /\ tab' = [tab EXCEPT ![t].restoring = FALSE,
                              ![t].session = IF usable THEN stored ELSE Nobody]
        /\ jar' = IF usable THEN jar ELSE [jar EXCEPT ![JarOf(t)] = Empty]
        /\ UNCHANGED <<persistent, card, webCall, serverSession, mishaps>>

\* Requests whose card, or whose tab, is gone.
Orphaned(t) ==
    [c \in Calls |-> IF webCall[c] # Nobody /\ webCall[c].tab = t
                       THEN [webCall[c] EXCEPT !.mine = FALSE] ELSE webCall[c]]

\* A reload is a close and an open: memory goes, localStorage stays.  Nobody
\* lands the answers of a closed tab, but the server still serves.
CloseTab(t) ==
    /\ tab[t].open /\ Mishap
    /\ tab' = [tab EXCEPT ![t] = Closed]
    /\ card' = [card EXCEPT ![t] = FreshCard]
    /\ jar' = [jar EXCEPT ![t] = Empty]
    /\ webCall' = [c \in Calls |->
                     IF webCall[c] = Nobody \/ webCall[c].tab # t THEN webCall[c]
                     ELSE IF webCall[c].answer # "none" THEN Nobody
                     ELSE [webCall[c] EXCEPT !.tab = Nobody]]
    /\ UNCHANGED <<persistent, serverSession>>

\* Leaving for the policy and coming back is a new card; what the old one sent
\* goes on.
OpenPolicy(t) ==
    /\ CardShown(t)
    /\ tab' = [tab EXCEPT ![t].route = "privacy"]
    /\ card' = [card EXCEPT ![t] = FreshCard]
    /\ webCall' = Orphaned(t)
    /\ UNCHANGED <<persistent, jar, serverSession, mishaps>>

LeavePolicy(t) ==
    /\ tab[t].open /\ ~tab[t].restoring /\ tab[t].session = Nobody
    /\ tab[t].route = "privacy"
    /\ tab' = [tab EXCEPT ![t].route = "login"]
    /\ UNCHANGED <<persistent, jar, card, webCall, serverSession, mishaps>>

-----------------------------------------------------------------------------
(* The sign-in card.                                                       *)

Edit(t, record) ==
    /\ card' = [card EXCEPT ![t] = record]
    /\ UNCHANGED <<persistent, jar, tab, webCall, serverSession, mishaps>>

\* Mistake: the box stays ticked behind a switch.
SwitchKeepingConsent(t, mode) ==
    /\ CardShown(t) /\ mode # card[t].mode /\ "login" \in {mode, card[t].mode}
    /\ Edit(t, [card[t] EXCEPT !.mode = mode, !.sent = FALSE, !.mismatch = FALSE,
                               !.same = FALSE, !.ticked = FALSE, !.errors = FALSE])

\* The card can be switched while it is busy, and stays busy.
SwitchTo(t, mode) ==
    /\ CardShown(t) /\ mode # card[t].mode /\ "login" \in {mode, card[t].mode}
    /\ Edit(t, [card[t] EXCEPT !.mode = mode, !.sent = FALSE, !.mismatch = FALSE,
                               !.same = FALSE, !.agreed = FALSE, !.ticked = FALSE,
                               !.errors = FALSE])

FieldsShown(t) == CardShown(t) /\ ~card[t].sent

Agree(t) ==
    /\ FieldsShown(t) /\ card[t].mode = "register"
    /\ Edit(t, [card[t] EXCEPT !.agreed = ~@, !.ticked = ~card[t].agreed])

TypePasswords(t) ==
    /\ FieldsShown(t) /\ card[t].mode = "register"
    /\ Edit(t, [card[t] EXCEPT !.same = ~@])

SubmitEnabled(t) ==
    FieldsShown(t) /\ ~card[t].busy /\ (card[t].mode = "register" => card[t].agreed)

Send(c, t, kind) == webCall[c] = Nobody /\ webCall' = [webCall EXCEPT ![c] = NewRequest(t, kind)]

Mismatched(t) == card[t].mode = "register" /\ ~card[t].same

RefuseMismatch(t) ==
    /\ SubmitEnabled(t) /\ Mismatched(t)
    /\ Edit(t, [card[t] EXCEPT !.errors = FALSE, !.mismatch = TRUE])

Submit(c, t) ==
    /\ SubmitEnabled(t) /\ ~Mismatched(t)
    /\ Send(c, t, card[t].mode)
    /\ card' = [card EXCEPT ![t].errors = FALSE, ![t].mismatch = FALSE, ![t].busy = TRUE]
    /\ UNCHANGED <<persistent, jar, tab, serverSession, mishaps>>

\* The banner closes itself; what is said under a field stays until a switch or
\* the next submission.
BannerCloses(t) ==
    /\ CardShown(t) /\ card[t].errors
    /\ Edit(t, [card[t] EXCEPT !.errors = FALSE])

-----------------------------------------------------------------------------
(* Requests and answers.                                                   *)

\* A page of the dashboard asks something; the log-out button may be pressed
\* at any time.
Ask(c, t, kind) ==
    /\ SignedIn(t)
    /\ Send(c, t, kind)
    /\ UNCHANGED <<persistent, jar, tab, card, serverSession, mishaps>>

Live(cred) == cred \in 1..issued /\ cred \notin revoked \cup expired

Pending(c) == webCall[c] # Nobody /\ webCall[c].answer = "none"

\* The answer to a closed tab is dropped.
Answered(c, answer, issue) ==
    webCall' = [webCall EXCEPT ![c] =
        IF @.tab = Nobody THEN Nobody ELSE [@ EXCEPT !.answer = answer, !.issue = issue]]

Serve(c) ==
    /\ Pending(c)
    /\ LET kind == webCall[c].kind
           cred == webCall[c].cred
       IN  \/ /\ kind \in {"login", "register"} /\ issued < MaxLogins
              /\ issued' = issued + 1 /\ Answered(c, "ok", issued + 1)
              /\ UNCHANGED revoked
           \/ /\ kind = "forgot" \/ (kind = "fetch" /\ Live(cred))
              /\ Answered(c, "ok", Nobody) /\ UNCHANGED <<issued, revoked>>
           \/ /\ kind # "logout" /\ (kind = "fetch" => Live(cred))
              /\ Answered(c, "refused", Nobody) /\ UNCHANGED <<issued, revoked>>
           \/ /\ kind = "logout"
              /\ revoked' = IF Live(cred) THEN revoked \cup {cred} ELSE revoked
              /\ Answered(c, "ok", Nobody) /\ UNCHANGED issued
           \/ /\ kind = "fetch" /\ ~Live(cred)
              /\ Answered(c, "rejected", Nobody) /\ UNCHANGED <<issued, revoked>>
    /\ UNCHANGED <<persistent, jar, tab, card, expired, mishaps>>

\* The request or its answer is lost, or is no envelope: toApiErrors makes up an
\* error of its own, which ends no session.
Lose(c) ==
    /\ webCall[c] # Nobody /\ Mishap
    /\ Answered(c, "refused", Nobody)
    /\ UNCHANGED <<persistent, jar, tab, card, serverSession>>

Landing(c) == webCall[c] # Nobody /\ webCall[c].answer # "none"

\* storeSession and setSession, in one turn; the card goes.
LandSignIn(c) ==
    LET t == webCall[c].tab
    IN  /\ Landing(c) /\ webCall[c].issue # Nobody
        /\ jar' = [jar EXCEPT ![JarOf(t)] =
                     [token |-> webCall[c].issue, session |-> webCall[c].issue]]
        /\ tab' = [tab EXCEPT ![t].session = webCall[c].issue]
        /\ card' = [card EXCEPT ![t] = FreshCard]
        /\ webCall' = [Orphaned(t) EXCEPT ![c] = Nobody]
        /\ UNCHANGED <<persistent, serverSession, mishaps>>

\* A card that asked for a link says so on whatever form it shows by now.
LandOnCard(c) ==
    LET t == webCall[c].tab
        refused == webCall[c].answer = "refused"
    IN  /\ Landing(c) /\ webCall[c].issue = Nobody /\ webCall[c].kind \in Modes
        /\ card' = IF webCall[c].mine
                     THEN [card EXCEPT ![t].busy = FALSE, ![t].sent = @ \/ ~refused,
                                       ![t].errors = @ \/ refused]
                     ELSE card
        /\ webCall' = [webCall EXCEPT ![c] = Nobody]
        /\ UNCHANGED <<persistent, jar, tab, serverSession, mishaps>>

\* Mistake: the interceptor forgets the token and leaves the session stored.
OutHalf(t) ==
    /\ jar' = [jar EXCEPT ![JarOf(t)].token = Nobody]
    /\ tab' = [tab EXCEPT ![t].session = Nobody]

\* Both keys are removed and the tab signed out, whoever is stored by now.
Out(t) ==
    /\ jar' = [jar EXCEPT ![JarOf(t)] = Empty]
    /\ tab' = [tab EXCEPT ![t].session = Nobody]

\* A rejected token ends the session, and a sign-out does, however it went.
LandOut(c) ==
    /\ Landing(c)
    /\ webCall[c].answer = "rejected" \/ webCall[c].kind = "logout"
    /\ Out(webCall[c].tab)
    /\ webCall' = [webCall EXCEPT ![c] = Nobody]
    /\ UNCHANGED <<persistent, card, serverSession, mishaps>>

\* A refusal short of that (AUTH_004 included) or an answer leaves it alone.
LandFetch(c) ==
    /\ Landing(c) /\ webCall[c].kind = "fetch" /\ webCall[c].answer # "rejected"
    /\ webCall' = [webCall EXCEPT ![c] = Nobody]
    /\ UNCHANGED <<persistent, jar, tab, card, serverSession, mishaps>>

Expire(n) ==
    /\ n \in 1..issued /\ n \notin expired /\ Mishap
    /\ expired' = expired \cup {n}
    /\ UNCHANGED <<persistent, jar, tab, card, webCall, issued, revoked>>

SessionNext ==
    \/ \E t \in Tabs, route \in {"login", "privacy"} : OpenTab(t, route)
    \/ \E t \in Tabs : Restore(t) \/ CloseTab(t) \/ OpenPolicy(t) \/ LeavePolicy(t)
    \/ \E t \in Tabs, mode \in Modes : SwitchTo(t, mode)
    \/ \E t \in Tabs : Agree(t) \/ TypePasswords(t) \/ RefuseMismatch(t) \/ BannerCloses(t)
    \/ \E c \in Calls, t \in Tabs : Submit(c, t) \/ Ask(c, t, "fetch") \/ Ask(c, t, "logout")
    \/ \E c \in Calls : Serve(c) \/ Lose(c)
    \/ \E c \in Calls : LandSignIn(c) \/ LandOnCard(c) \/ LandOut(c) \/ LandFetch(c)
    \/ \E n \in Sessions : Expire(n)

SessionSpec == SessionInit /\ [][SessionNext]_sessionVars

-----------------------------------------------------------------------------

\* A tab that never had to share its storage with another.
OwnStorage(t) == ~persistent \/ tab[t].alone

\* Storage never holds half a session, or halves of two, whichever tabs wrote
\* it last and whichever answers came late; and a tab with storage to itself
\* shows exactly the session that is stored there.
SignedInIsStored ==
    /\ \A j \in Jars : jar[j].token = jar[j].session
    /\ \A t \in Tabs : OwnStorage(t) /\ tab[t].open /\ ~tab[t].restoring =>
         tab[t].session = jar[JarOf(t)].session

\* An account is only ever asked for with the two passwords alike and with the
\* box ticked on that very form, however it was switched and left before.
RegistersWithConsent ==
    \A c \in Calls : webCall[c] # Nobody /\ webCall[c].kind = "register" => webCall[c].consent
=============================================================================
