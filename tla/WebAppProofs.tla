---------------------------- MODULE WebAppProofs -----------------------------
(***************************************************************************)
(* The dashboard, for any number of tabs, requests, devices, alerts and    *)
(* switches.  What storage holds is what the tabs show, and no account is  *)
(* asked for without consent; the device pages take no row the server has  *)
(* kept and report no alert but their own; and each of the four parts      *)
(* keeps to its types, alone and as the whole of MCWebApp.                 *)
(***************************************************************************)
EXTENDS MCWebApp, FiniteSetTheorems, TLAPS

\* A request that can still land belongs to a tab that is open.
CallsAreOpen ==
    \A c \in Calls : webCall[c] # Nobody =>
        /\ webCall[c].tab \in Tabs => tab[webCall[c].tab].open
        /\ webCall[c].answer # "none" => webCall[c].tab \in Tabs

\* A tab that has been alone since it opened still is.
AloneIsAlone ==
    \A t \in Tabs :
        /\ tab[t].restoring => tab[t].open
        /\ tab[t].alone => \A u \in Tabs : u # t => ~tab[u].open

\* The box shows a tick only where it was ticked by hand.
AgreedIsTicked == \A t \in Tabs : card[t].agreed => card[t].ticked

WebSessionInv ==
    /\ WebSessionTypeOK /\ CallsAreOpen /\ AloneIsAlone /\ AgreedIsTicked
    /\ SignedInIsStored /\ RegistersWithConsent

-----------------------------------------------------------------------------
(* Types.                                                                  *)

\* Editing the card moves nothing else.
LEMMA EditTypes ==
    ASSUME WebSessionTypeOK, NEW t \in Tabs, NEW record \in CardType, Edit(t, record)
    PROVE  WebSessionTypeOK'
  BY DEF WebSessionTypeOK, Edit, serverSession, Sessions, Jars

\* A request stays one, orphaned, left behind or answered.
LEMMA CallUpdates ==
    ASSUME NEW call \in CallType
    PROVE  /\ [call EXCEPT !.mine = FALSE] \in CallType
           /\ [call EXCEPT !.tab = Nobody] \in CallType
           /\ \A answer \in {"ok", "refused", "rejected"}, issue \in Sessions \cup {Nobody} :
                [call EXCEPT !.answer = answer, !.issue = issue] \in CallType
  BY DEF CallType

\* Requests whose card is gone are still requests.
LEMMA OrphanedTypes ==
    ASSUME WebSessionTypeOK, NEW t \in Tabs
    PROVE  Orphaned(t) \in [Calls -> CallType \cup {Nobody}]
  <1>1. ASSUME NEW c \in Calls
        PROVE  Orphaned(t)[c] \in CallType \cup {Nobody}
    <2>1. webCall[c] \in CallType \cup {Nobody}
      BY DEF WebSessionTypeOK
    <2>2. QED
      BY <2>1, CallUpdates DEF Orphaned
  <1>2. QED
    BY <1>1 DEF Orphaned

\* So are those that were answered.
LEMMA AnsweredTypes ==
    ASSUME WebSessionTypeOK, NEW c \in Calls, webCall[c] # Nobody,
           NEW answer \in {"ok", "refused", "rejected"}, NEW issue \in Sessions \cup {Nobody},
           Answered(c, answer, issue)
    PROVE  webCall' \in [Calls -> CallType \cup {Nobody}]
  <1>1. webCall[c] \in CallType
    BY DEF WebSessionTypeOK
  <1>2. [webCall[c] EXCEPT !.answer = answer, !.issue = issue] \in CallType
    BY <1>1, CallUpdates
  <1>3. QED
    BY <1>2 DEF WebSessionTypeOK, Answered

\* A new request carries what the jar and the card hold.
LEMMA SendTypes ==
    ASSUME WebSessionTypeOK, NEW c \in Calls, NEW t \in Tabs,
           NEW kind \in Modes \cup {"fetch", "logout"}, Send(c, t, kind)
    PROVE  webCall' \in [Calls -> CallType \cup {Nobody}]
  <1>1. JarOf(t) \in Jars
    BY DEF JarOf, Jars
  <1>2. jar[JarOf(t)].token \in Sessions \cup {Nobody}
    BY <1>1 DEF WebSessionTypeOK, JarType
  <1>3. card[t].ticked \in BOOLEAN /\ card[t].same \in BOOLEAN
    BY DEF WebSessionTypeOK, CardType
  <1>4. NewRequest(t, kind) \in CallType
    BY <1>2, <1>3 DEF NewRequest, CallType
  <1>5. QED
    BY <1>4 DEF Send, WebSessionTypeOK

\* A tab stays one through the changes the actions make.
LEMMA TabUpdates ==
    ASSUME NEW r \in TabType
    PROVE  /\ [r EXCEPT !.alone = FALSE] \in TabType
           /\ \A route \in {"login", "privacy"} : [r EXCEPT !.route = route] \in TabType
           /\ \A n \in Sessions \cup {Nobody} :
                /\ [r EXCEPT !.session = n] \in TabType
                /\ [r EXCEPT !.restoring = FALSE, !.session = n] \in TabType
  BY DEF TabType

\* So does a card.
LEMMA CardUpdates ==
    ASSUME NEW r \in CardType
    PROVE  /\ \A mode \in Modes :
                [r EXCEPT !.mode = mode, !.sent = FALSE, !.mismatch = FALSE, !.same = FALSE,
                          !.agreed = FALSE, !.ticked = FALSE, !.errors = FALSE] \in CardType
           /\ [r EXCEPT !.agreed = ~r.agreed, !.ticked = ~r.agreed] \in CardType
           /\ [r EXCEPT !.same = ~r.same] \in CardType
           /\ [r EXCEPT !.errors = FALSE, !.mismatch = TRUE] \in CardType
           /\ [r EXCEPT !.errors = FALSE] \in CardType
           /\ [r EXCEPT !.errors = FALSE, !.mismatch = FALSE, !.busy = TRUE] \in CardType
           /\ \A sent, wrong \in BOOLEAN :
                [r EXCEPT !.busy = FALSE, !.sent = sent, !.errors = wrong] \in CardType
  BY DEF CardType

\* The records that are made anew.
LEMMA FreshTypes == Closed \in TabType /\ FreshCard \in CardType /\ Empty \in JarType
  BY DEF Closed, FreshCard, Empty, TabType, CardType, JarType, Modes

\* Every step keeps the types.
LEMMA TypeStep ==
    ASSUME WebSessionTypeOK, [SessionNext]_sessionVars,
           \A c \in Calls : Landing(c) => webCall[c].tab \in Tabs
    PROVE  WebSessionTypeOK'
  <1> USE DEF Jars, JarOf, serverSession
  <1>1. ASSUME NEW t \in Tabs, NEW route \in {"login", "privacy"}, OpenTab(t, route)
        PROVE  WebSessionTypeOK'
    <2>1. \A u \in Tabs : [tab[u] EXCEPT !.alone = FALSE] \in TabType
      BY TabUpdates DEF WebSessionTypeOK
    <2>2. [open |-> TRUE, restoring |-> TRUE, route |-> route, session |-> Nobody,
           alone |-> \A v \in Tabs : ~tab[v].open] \in TabType
      BY DEF TabType
    <2>3. tab' \in [Tabs -> TabType]
      BY <1>1, <2>1, <2>2 DEF OpenTab
    <2>4. QED
      BY <1>1, <2>3 DEF OpenTab, WebSessionTypeOK
  <1>2. ASSUME NEW t \in Tabs, Restore(t)
        PROVE  WebSessionTypeOK'
    <2>1. jar[JarOf(t)] \in JarType
      BY DEF WebSessionTypeOK
    <2>2. jar[JarOf(t)].session \in Sessions \cup {Nobody}
      BY <2>1 DEF JarType
    <2>3. \A s \in Sessions \cup {Nobody} :
            [tab[t] EXCEPT !.restoring = FALSE, !.session = s] \in TabType
      BY TabUpdates DEF WebSessionTypeOK
    <2>4. tab' \in [Tabs -> TabType]
      BY <1>2, <2>2, <2>3 DEF Restore, WebSessionTypeOK
    <2>5. jar' \in [Jars -> JarType]
      BY <1>2, FreshTypes DEF Restore, WebSessionTypeOK
    <2>6. QED
      BY <1>2, <2>4, <2>5 DEF Restore, WebSessionTypeOK
  <1>3. ASSUME NEW t \in Tabs, CloseTab(t)
        PROVE  WebSessionTypeOK'
    <2>1. ASSUME NEW c \in Calls
          PROVE  webCall'[c] \in CallType \cup {Nobody}
      <3>1. webCall[c] \in CallType \cup {Nobody}
        BY DEF WebSessionTypeOK
      <3>2. QED
        BY <1>3, <3>1, CallUpdates DEF CloseTab
    <2>2. webCall' \in [Calls -> CallType \cup {Nobody}]
      BY <1>3, <2>1 DEF CloseTab
    <2>3. QED
      BY <1>3, <2>2, FreshTypes DEF CloseTab, WebSessionTypeOK
  <1>4. ASSUME NEW t \in Tabs, OpenPolicy(t)
        PROVE  WebSessionTypeOK'
    <2>1. [tab[t] EXCEPT !.route = "privacy"] \in TabType
      BY TabUpdates DEF WebSessionTypeOK
    <2>2. QED
      BY <1>4, <2>1, OrphanedTypes, FreshTypes DEF OpenPolicy, WebSessionTypeOK
  <1>5. ASSUME NEW t \in Tabs, LeavePolicy(t)
        PROVE  WebSessionTypeOK'
    <2>1. [tab[t] EXCEPT !.route = "login"] \in TabType
      BY TabUpdates DEF WebSessionTypeOK
    <2>2. QED
      BY <1>5, <2>1 DEF LeavePolicy, WebSessionTypeOK
  <1>6. ASSUME NEW t \in Tabs, NEW mode \in Modes, SwitchTo(t, mode)
        PROVE  WebSessionTypeOK'
    <2>1. [card[t] EXCEPT !.mode = mode, !.sent = FALSE, !.mismatch = FALSE, !.same = FALSE,
                          !.agreed = FALSE, !.ticked = FALSE, !.errors = FALSE] \in CardType
      BY CardUpdates DEF WebSessionTypeOK
    <2>2. QED
      BY SMTT(40), <1>6, <2>1, EditTypes DEF SwitchTo
  <1>7. ASSUME NEW t \in Tabs, Agree(t) \/ TypePasswords(t) \/ RefuseMismatch(t) \/ BannerCloses(t)
        PROVE  WebSessionTypeOK'
    <2>1. /\ [card[t] EXCEPT !.agreed = ~card[t].agreed, !.ticked = ~card[t].agreed] \in CardType
          /\ [card[t] EXCEPT !.same = ~card[t].same] \in CardType
          /\ [card[t] EXCEPT !.errors = FALSE, !.mismatch = TRUE] \in CardType
          /\ [card[t] EXCEPT !.errors = FALSE] \in CardType
      BY CardUpdates DEF WebSessionTypeOK
    <2>2. QED
      BY SMTT(40), <1>7, <2>1, EditTypes DEF Agree, TypePasswords, RefuseMismatch, BannerCloses
  <1>8. ASSUME NEW c \in Calls, NEW t \in Tabs, Submit(c, t)
        PROVE  WebSessionTypeOK'
    <2>1. card[t].mode \in Modes
      BY DEF WebSessionTypeOK, CardType
    <2>2. webCall' \in [Calls -> CallType \cup {Nobody}]
      BY SMTT(40), <1>8, <2>1, SendTypes DEF Submit
    <2>3. [card[t] EXCEPT !.errors = FALSE, !.mismatch = FALSE, !.busy = TRUE] \in CardType
      BY CardUpdates DEF WebSessionTypeOK
    <2>4. card' \in [Tabs -> CardType]
      BY <1>8, <2>3 DEF Submit, WebSessionTypeOK
    <2>5. QED
      BY <1>8, <2>2, <2>4 DEF Submit, WebSessionTypeOK
  <1>9. ASSUME NEW c \in Calls, NEW t \in Tabs, NEW kind \in {"fetch", "logout"}, Ask(c, t, kind)
        PROVE  WebSessionTypeOK'
    BY <1>9, SendTypes DEF Ask, WebSessionTypeOK
  <1>10. ASSUME NEW c \in Calls, Serve(c)
         PROVE  WebSessionTypeOK'
    <2>1. issued' \in 0..MaxLogins /\ issued <= issued'
      BY <1>10, WebBounds DEF Serve, WebSessionTypeOK
    <2>2. webCall' \in [Calls -> CallType \cup {Nobody}]
      <3>1. issued < MaxLogins => issued + 1 \in Sessions
        BY WebBounds DEF WebSessionTypeOK, Sessions
      <3>2. QED
        BY <1>10, <3>1, AnsweredTypes DEF Serve, Pending
    <2>3. revoked' \cup expired' \subseteq 1..issued'
      BY <1>10, <2>1 DEF Serve, WebSessionTypeOK, Live
    <2>4. QED
      BY <1>10, <2>1, <2>2, <2>3 DEF Serve, WebSessionTypeOK
  <1>11. ASSUME NEW c \in Calls, Lose(c)
         PROVE  WebSessionTypeOK'
    BY <1>11, AnsweredTypes DEF Lose, WebSessionTypeOK
  <1>12. ASSUME NEW c \in Calls, LandSignIn(c)
         PROVE  WebSessionTypeOK'
    <2> DEFINE t == webCall[c].tab
    <2>1. t \in Tabs
      BY <1>12 DEF LandSignIn
    <2>2. webCall[c].issue \in Sessions
      BY <1>12 DEF LandSignIn, Landing, WebSessionTypeOK, CallType
    <2>3. [token |-> webCall[c].issue, session |-> webCall[c].issue] \in JarType
      BY <2>2 DEF JarType
    <2>4. [tab[t] EXCEPT !.session = webCall[c].issue] \in TabType
      BY <2>1, <2>2, TabUpdates DEF WebSessionTypeOK
    <2>5. webCall' \in [Calls -> CallType \cup {Nobody}]
      BY <1>12, <2>1, OrphanedTypes DEF LandSignIn
    <2>6. QED
      BY <1>12, <2>1, <2>3, <2>4, <2>5, FreshTypes DEF LandSignIn, WebSessionTypeOK
  <1>13. ASSUME NEW c \in Calls, LandOnCard(c)
         PROVE  WebSessionTypeOK'
    <2> DEFINE t == webCall[c].tab
    <2>1. t \in Tabs
      BY SMTT(40), <1>13 DEF LandOnCard
    <2>2. \A sent, wrong \in BOOLEAN :
            [card[t] EXCEPT !.busy = FALSE, !.sent = sent, !.errors = wrong] \in CardType
      BY <2>1, CardUpdates DEF WebSessionTypeOK
    <2>3. card[t].sent \in BOOLEAN /\ card[t].errors \in BOOLEAN
      BY SMTT(40), <2>1 DEF WebSessionTypeOK, CardType
    <2>4. card' \in [Tabs -> CardType]
      BY <1>13, <2>1, <2>2, <2>3 DEF LandOnCard, WebSessionTypeOK
    <2>5. QED
      BY <1>13, <2>4 DEF LandOnCard, WebSessionTypeOK
  <1>14. ASSUME NEW c \in Calls, LandOut(c)
         PROVE  WebSessionTypeOK'
    <2> DEFINE t == webCall[c].tab
    <2>1. t \in Tabs
      BY <1>14 DEF LandOut
    <2>2. [tab[t] EXCEPT !.session = Nobody] \in TabType
      BY <2>1, TabUpdates DEF WebSessionTypeOK
    <2>3. QED
      BY <1>14, <2>1, <2>2, FreshTypes DEF LandOut, Out, WebSessionTypeOK
  <1>15. ASSUME NEW c \in Calls, LandFetch(c)
         PROVE  WebSessionTypeOK'
    BY <1>15 DEF LandFetch, WebSessionTypeOK
  <1>16. ASSUME NEW n \in Sessions, Expire(n)
         PROVE  WebSessionTypeOK'
    BY <1>16 DEF Expire, WebSessionTypeOK
  <1>17. CASE UNCHANGED sessionVars
    BY <1>17 DEF sessionVars, WebSessionTypeOK
  <1>18. QED
    BY <1>1, <1>2, <1>3, <1>4, <1>5, <1>6, <1>7, <1>8, <1>9, <1>10, <1>11, <1>12, <1>13,
       <1>14, <1>15, <1>16, <1>17 DEF SessionNext

-----------------------------------------------------------------------------
(* Requests, across a step.                                                *)

\* A request that is there afterwards was there, as far as it matters; or it is
\* an open tab's, and asks for an account only with consent.
Kept(c) ==
    /\ webCall[c] # Nobody
    /\ webCall'[c].tab = webCall[c].tab /\ webCall'[c].answer = webCall[c].answer
    /\ webCall'[c].kind = webCall[c].kind /\ webCall'[c].consent = webCall[c].consent

OfOpenTab(c) ==
    /\ webCall'[c].tab \in Tabs /\ tab[webCall'[c].tab].open
    /\ webCall'[c].kind = "register" => webCall'[c].consent

CallsCarryOver == \A c \in Calls : webCall'[c] # Nobody => Kept(c) \/ OfOpenTab(c)

\* Orphaning changes none of it, and an answer may land meanwhile.
LEMMA OrphanedCarriesOver ==
    ASSUME WebSessionTypeOK, NEW t \in Tabs, NEW landed \in SUBSET Calls,
           webCall' = [c \in Calls |-> IF c \in landed THEN Nobody ELSE Orphaned(t)[c]]
    PROVE  CallsCarryOver
  <1>1. ASSUME NEW c \in Calls, webCall'[c] # Nobody
        PROVE  Kept(c)
    <2>1. webCall[c] \in CallType \cup {Nobody}
      BY DEF WebSessionTypeOK
    <2>2. webCall'[c] = Orphaned(t)[c]
      BY <1>1
    <2>3. CASE webCall[c] = Nobody
      BY <1>1, <2>2, <2>3 DEF Orphaned
    <2>4. CASE webCall[c] \in CallType /\ webCall[c] # Nobody
      BY <2>2, <2>4 DEF Orphaned, Kept, CallType
    <2>5. QED
      BY <2>1, <2>3, <2>4
  <1>2. QED
    BY <1>1 DEF CallsCarryOver

\* An answer finds the tab that asked, or nobody.
LEMMA AnsweredCarriesOver ==
    ASSUME WebSessionTypeOK, CallsAreOpen, RegistersWithConsent, NEW c \in Calls,
           webCall[c] # Nobody, NEW answer, NEW issue, Answered(c, answer, issue)
    PROVE  CallsCarryOver
  <1>1. ASSUME NEW d \in Calls, webCall'[d] # Nobody, d # c
        PROVE  Kept(d)
    BY <1>1 DEF WebSessionTypeOK, Answered, Kept
  <1>2. ASSUME webCall'[c] # Nobody
        PROVE  OfOpenTab(c)
    <2>1. webCall[c] \in CallType
      BY DEF WebSessionTypeOK
    <2>2. webCall'[c] = IF webCall[c].tab = Nobody THEN Nobody
                        ELSE [webCall[c] EXCEPT !.answer = answer, !.issue = issue]
      BY DEF WebSessionTypeOK, Answered
    <2>3. webCall[c].tab \in Tabs
      BY <1>2, <2>1, <2>2 DEF CallType
    <2>4. /\ webCall'[c].tab = webCall[c].tab /\ webCall'[c].kind = webCall[c].kind
          /\ webCall'[c].consent = webCall[c].consent
      BY <1>2, <2>1, <2>2 DEF CallType
    <2>5. QED
      BY <2>3, <2>4 DEF OfOpenTab, CallsAreOpen, RegistersWithConsent
  <1>3. QED
    BY <1>1, <1>2 DEF CallsCarryOver

\* A new request is an open tab's.
LEMMA SendCarriesOver ==
    ASSUME WebSessionTypeOK, NEW c \in Calls, NEW t \in Tabs, NEW kind, Send(c, t, kind),
           tab[t].open, kind = "register" => card[t].ticked /\ card[t].same
    PROVE  CallsCarryOver
  <1>1. ASSUME NEW d \in Calls, webCall'[d] # Nobody, d # c
        PROVE  Kept(d)
    BY <1>1 DEF WebSessionTypeOK, Send, Kept
  <1>2. webCall'[c] = NewRequest(t, kind)
    BY DEF Send, WebSessionTypeOK
  <1>3. OfOpenTab(c)
    <2>1. /\ NewRequest(t, kind).tab = t /\ NewRequest(t, kind).kind = kind
          /\ NewRequest(t, kind).consent = (card[t].ticked /\ card[t].same)
      BY DEF NewRequest
    <2>2. QED
      BY <1>2, <2>1, Zenon DEF OfOpenTab
  <1>4. QED
    BY <1>1, <1>3 DEF CallsCarryOver

\* Where no tab opens or closes, what belongs to open tabs still does.
LEMMA OpenTabsStay ==
    ASSUME WebSessionTypeOK, CallsAreOpen, AloneIsAlone, RegistersWithConsent, CallsCarryOver,
           \A u \in Tabs : /\ tab'[u].open = tab[u].open /\ tab'[u].alone = tab[u].alone
                           /\ tab'[u].restoring => tab[u].restoring
    PROVE  CallsAreOpen' /\ AloneIsAlone' /\ RegistersWithConsent'
  <1>1. CallsAreOpen'
    BY DEF CallsAreOpen, CallsCarryOver, Kept, OfOpenTab
  <1>2. AloneIsAlone'
    BY DEF AloneIsAlone
  <1>3. RegistersWithConsent'
    BY DEF RegistersWithConsent, CallsCarryOver, Kept, OfOpenTab
  <1>4. QED
    BY <1>1, <1>2, <1>3

-----------------------------------------------------------------------------
(* The invariant.                                                          *)

\* At the start no tab is open.
LEMMA SessionInitInv == SessionInit => WebSessionInv
  <1> SUFFICES ASSUME SessionInit PROVE WebSessionInv
    OBVIOUS
  <1>1. WebSessionTypeOK
    BY WebBounds, FreshTypes DEF SessionInit, WebSessionTypeOK
  <1>2. \A t \in Tabs : ~tab[t].open /\ ~tab[t].alone /\ ~tab[t].restoring /\ ~card[t].agreed
    BY DEF SessionInit, Closed, FreshCard
  <1>3. \A j \in Jars : jar[j].token = jar[j].session
    BY DEF SessionInit, Empty
  <1>4. CallsAreOpen /\ RegistersWithConsent
    BY DEF SessionInit, CallsAreOpen, RegistersWithConsent
  <1>5. QED
    BY <1>1, <1>2, <1>3, <1>4 DEF WebSessionInv, AloneIsAlone, AgreedIsTicked, SignedInIsStored

\* What is said of an answer about to land.
LEMMA LandingIsOpen ==
    ASSUME CallsAreOpen, NEW c \in Calls, Landing(c)
    PROVE  webCall[c].tab \in Tabs /\ tab[webCall[c].tab].open
  BY DEF CallsAreOpen, Landing

\* No step lets requests outlive their tab, takes a tab's privacy for granted or
\* asks for an account without consent.
LEMMA CallsStep ==
    ASSUME WebSessionInv, [SessionNext]_sessionVars
    PROVE  CallsAreOpen' /\ AloneIsAlone' /\ RegistersWithConsent'
  <1> USE DEF WebSessionInv
  <1> DEFINE Goal == CallsAreOpen' /\ AloneIsAlone' /\ RegistersWithConsent'
             SameTabs == \A u \in Tabs : /\ tab'[u].open = tab[u].open
                                         /\ tab'[u].alone = tab[u].alone
                                         /\ tab'[u].restoring => tab[u].restoring
  <1>a. ASSUME CallsCarryOver, SameTabs
        PROVE  Goal
    BY <1>a, OpenTabsStay
  <1>b. UNCHANGED webCall => CallsCarryOver
    BY DEF CallsCarryOver, Kept
  <1>c. UNCHANGED tab => SameTabs
    OBVIOUS
  <1>d. ASSUME NEW t \in Tabs, NEW n, tab' = [tab EXCEPT ![t].session = n]
        PROVE  SameTabs
    BY <1>d DEF WebSessionTypeOK, TabType
  <1> HIDE DEF Goal, SameTabs
  <1>1. ASSUME NEW t \in Tabs, NEW route \in {"login", "privacy"}, OpenTab(t, route)
        PROVE  Goal
    <2>1. \A u \in Tabs : tab[u].open => tab'[u].open
      BY <1>1 DEF OpenTab, WebSessionTypeOK, TabType
    <2>2. CallsAreOpen'
      BY <1>1, <2>1 DEF OpenTab, CallsAreOpen
    <2>3. /\ tab'[t].open /\ tab'[t].alone <=> \A v \in Tabs : ~tab[v].open
          /\ \A u \in Tabs : u # t => ~tab'[u].alone /\ tab'[u].open = tab[u].open
                                      /\ tab'[u].restoring = tab[u].restoring
      <3>1. \A u \in Tabs : u # t => tab'[u] = [tab[u] EXCEPT !.alone = FALSE]
        BY <1>1 DEF OpenTab
      <3>2. tab'[t] = [open |-> TRUE, restoring |-> TRUE, route |-> route, session |-> Nobody,
                       alone |-> \A v \in Tabs : ~tab[v].open]
        BY <1>1 DEF OpenTab
      <3>3. tab'[t].open /\ tab'[t].alone = (\A v \in Tabs : ~tab[v].open)
        BY <3>2
      <3>4. ASSUME NEW u \in Tabs, u # t
            PROVE  ~tab'[u].alone /\ tab'[u].open = tab[u].open
                   /\ tab'[u].restoring = tab[u].restoring
        <4>1. tab[u] \in TabType /\ tab'[u] = [tab[u] EXCEPT !.alone = FALSE]
          BY <3>1, <3>4 DEF WebSessionTypeOK
        <4>2. QED
          BY <4>1 DEF TabType
      <3>5. QED
        BY <3>3, <3>4, Zenon
    <2>4. AloneIsAlone'
      BY <1>1, <2>3 DEF OpenTab, AloneIsAlone
    <2>5. RegistersWithConsent'
      BY <1>1 DEF OpenTab, RegistersWithConsent
    <2>6. QED
      BY <2>2, <2>4, <2>5 DEF Goal
  <1>2. ASSUME NEW t \in Tabs, Restore(t)
        PROVE  Goal
    <2>1. SameTabs
      BY <1>2 DEF Restore, SameTabs, WebSessionTypeOK, TabType
    <2>2. QED
      BY <1>2, <1>a, <1>b, <2>1 DEF Restore
  <1>3. ASSUME NEW t \in Tabs, CloseTab(t)
        PROVE  Goal
    <2>1. ~tab'[t].open /\ ~tab'[t].alone /\ ~tab'[t].restoring
      BY <1>3 DEF CloseTab, Closed, WebSessionTypeOK
    <2>2. \A u \in Tabs : u # t => tab'[u] = tab[u]
      BY <1>3 DEF CloseTab, WebSessionTypeOK
    <2>3. ASSUME NEW c \in Calls, webCall'[c] # Nobody
          PROVE  /\ webCall'[c].tab \in Tabs => webCall'[c].tab # t
                 /\ webCall[c] # Nobody
                 /\ \/ webCall'[c] = webCall[c]
                    \/ webCall'[c].tab \notin Tabs /\ webCall'[c].answer = "none"
                 /\ webCall'[c].kind = webCall[c].kind /\ webCall'[c].consent = webCall[c].consent
      <3>1. webCall[c] \in CallType \cup {Nobody}
        BY DEF WebSessionTypeOK
      <3>2. CASE webCall[c] = Nobody \/ webCall[c].tab # t
        BY <1>3, <2>3, <3>2 DEF CloseTab
      <3>3. CASE webCall[c] # Nobody /\ webCall[c].tab = t
        <4>1. webCall'[c] = [webCall[c] EXCEPT !.tab = Nobody] /\ webCall[c].answer = "none"
          BY <1>3, <2>3, <3>3 DEF CloseTab
        <4>2. QED
          BY <3>1, <3>3, <4>1, NamesApart DEF CallType
      <3>4. QED
        BY <3>2, <3>3
    <2>4. CallsAreOpen'
      BY <2>2, <2>3 DEF CallsAreOpen
    <2>5. AloneIsAlone'
      BY <2>1, <2>2 DEF AloneIsAlone
    <2>6. RegistersWithConsent'
      BY <2>3 DEF RegistersWithConsent
    <2>7. QED
      BY <2>4, <2>5, <2>6 DEF Goal
  <1>4. ASSUME NEW t \in Tabs, OpenPolicy(t) \/ LeavePolicy(t)
        PROVE  Goal
    <2>1. SameTabs
      BY SMTT(40), <1>4 DEF OpenPolicy, LeavePolicy, SameTabs, WebSessionTypeOK, TabType
    <2>2. Orphaned(t) = [c \in Calls |-> IF c \in {} THEN Nobody ELSE Orphaned(t)[c]]
      BY DEF Orphaned
    <2>3. ASSUME webCall' = Orphaned(t)
          PROVE  CallsCarryOver
      <3>1. {} \in SUBSET Calls
        OBVIOUS
      <3>2. webCall' = [c \in Calls |-> IF c \in {} THEN Nobody ELSE Orphaned(t)[c]]
        BY <2>2, <2>3
      <3>3. QED
        BY <3>1, <3>2, OrphanedCarriesOver
    <2>4. QED
      BY <1>4, <1>a, <1>b, <2>1, <2>3 DEF OpenPolicy, LeavePolicy
  <1>5. ASSUME NEW t \in Tabs, NEW record, Edit(t, record)
        PROVE  Goal
    BY <1>5, <1>a, <1>b, <1>c DEF Edit
  <1>6. ASSUME NEW c \in Calls, NEW t \in Tabs, Submit(c, t)
        PROVE  Goal
    <2>1. tab[t].open
      BY <1>6 DEF Submit, SubmitEnabled, FieldsShown, CardShown
    <2>2. card[t].mode = "register" => card[t].ticked /\ card[t].same
      BY <1>6 DEF Submit, SubmitEnabled, Mismatched, AgreedIsTicked
    <2>3. CallsCarryOver
      BY <1>6, <2>1, <2>2, SendCarriesOver DEF Submit
    <2>4. QED
      BY <1>6, <1>a, <1>c, <2>3 DEF Submit
  <1>7. ASSUME NEW c \in Calls, NEW t \in Tabs, NEW kind \in {"fetch", "logout"}, Ask(c, t, kind)
        PROVE  Goal
    <2>1. CallsCarryOver
      BY <1>7, SendCarriesOver DEF Ask, SignedIn
    <2>2. QED
      BY <1>7, <1>a, <1>c, <2>1 DEF Ask
  <1>8. ASSUME NEW c \in Calls, Serve(c) \/ Lose(c)
        PROVE  Goal
    <2>1. CallsCarryOver
      BY <1>8, AnsweredCarriesOver DEF Serve, Lose, Pending
    <2>2. QED
      BY <1>8, <1>a, <1>c, <2>1 DEF Serve, Lose
  <1>9. ASSUME NEW c \in Calls, webCall' = [webCall EXCEPT ![c] = Nobody]
        PROVE  CallsCarryOver
    BY <1>9 DEF CallsCarryOver, Kept, WebSessionTypeOK
  <1>10. ASSUME NEW c \in Calls, LandSignIn(c)
         PROVE  Goal
    <2> DEFINE t == webCall[c].tab
    <2>1. t \in Tabs
      BY <1>10, LandingIsOpen DEF LandSignIn
    <2>2. SameTabs
      BY <1>10, <1>d, <2>1 DEF LandSignIn
    <2>3. [Orphaned(t) EXCEPT ![c] = Nobody] =
            [d \in Calls |-> IF d \in {c} THEN Nobody ELSE Orphaned(t)[d]]
      BY DEF Orphaned
    <2>4. CallsCarryOver
      BY <1>10, <2>1, <2>3, OrphanedCarriesOver DEF LandSignIn
    <2>5. QED
      BY <1>a, <2>2, <2>4
  <1>11. ASSUME NEW c \in Calls, LandOut(c)
         PROVE  Goal
    <2>1. SameTabs
      BY <1>11, <1>d, LandingIsOpen DEF LandOut, Out
    <2>2. QED
      BY <1>11, <1>a, <1>9, <2>1 DEF LandOut
  <1>12. ASSUME NEW c \in Calls, LandOnCard(c) \/ LandFetch(c)
         PROVE  Goal
    BY <1>12, <1>a, <1>c, <1>9 DEF LandOnCard, LandFetch
  <1>13. ASSUME NEW n \in Sessions, Expire(n)
         PROVE  Goal
    BY <1>13, <1>a, <1>b, <1>c DEF Expire
  <1>14. ASSUME UNCHANGED sessionVars
         PROVE  Goal
    <2>1. UNCHANGED webCall /\ UNCHANGED tab
      BY <1>14 DEF sessionVars
    <2>2. QED
      BY <2>1, <1>a, <1>b, <1>c
  <1>15. ASSUME NEW t \in Tabs, NEW mode \in Modes, SwitchTo(t, mode)
         PROVE  Goal
    BY <1>5, <1>15 DEF SwitchTo
  <1>16. ASSUME NEW t \in Tabs, Agree(t) \/ TypePasswords(t) \/ RefuseMismatch(t) \/ BannerCloses(t)
         PROVE  Goal
    BY <1>5, <1>16 DEF Agree, TypePasswords, RefuseMismatch, BannerCloses
  <1>17. Goal
    BY <1>1, <1>2, <1>3, <1>4, <1>6, <1>7, <1>8, <1>10, <1>11, <1>12, <1>13, <1>14, <1>15,
       <1>16 DEF SessionNext
  <1>18. QED
    BY <1>17 DEF Goal

\* What is ticked was ticked by hand: the card is switched, edited or made anew.
LEMMA TickedStep ==
    ASSUME WebSessionInv, [SessionNext]_sessionVars
    PROVE  AgreedIsTicked'
  <1> USE DEF WebSessionInv
  <1>1. ~FreshCard.agreed
    BY DEF FreshCard
  <1>2. UNCHANGED card => AgreedIsTicked'
    BY DEF AgreedIsTicked
  <1>3. ASSUME NEW t \in Tabs, NEW record, record.agreed => record.ticked,
               card' = [card EXCEPT ![t] = record]
        PROVE  AgreedIsTicked'
    BY <1>3 DEF AgreedIsTicked, WebSessionTypeOK
  <1>4. ASSUME NEW t \in Tabs, NEW mode \in Modes, SwitchTo(t, mode)
        PROVE  AgreedIsTicked'
    <2> DEFINE record == [card[t] EXCEPT !.mode = mode, !.sent = FALSE, !.mismatch = FALSE,
                             !.same = FALSE, !.agreed = FALSE, !.ticked = FALSE,
                             !.errors = FALSE]
    <2>1. card[t] \in CardType
      BY DEF WebSessionTypeOK
    <2>2. ~record.agreed
      BY <2>1 DEF CardType
    <2>3. QED
      BY <1>3, <1>4, <2>2 DEF SwitchTo, Edit
  <1>5. ASSUME NEW t \in Tabs, Agree(t)
        PROVE  AgreedIsTicked'
    <2> DEFINE record == [card[t] EXCEPT !.agreed = ~card[t].agreed, !.ticked = ~card[t].agreed]
    <2>1. card[t] \in CardType
      BY DEF WebSessionTypeOK
    <2>2. record.agreed => record.ticked
      BY <2>1 DEF CardType
    <2>3. QED
      BY <1>3, <1>5, <2>2 DEF Agree, Edit
  <1>6. ASSUME NEW t \in Tabs, NEW record, record.agreed = card[t].agreed,
               record.ticked = card[t].ticked, card' = [card EXCEPT ![t] = record]
        PROVE  AgreedIsTicked'
    BY <1>3, <1>6 DEF AgreedIsTicked
  <1>7. ASSUME NEW t \in Tabs, TypePasswords(t) \/ RefuseMismatch(t) \/ BannerCloses(t)
        PROVE  AgreedIsTicked'
    <2>1. card[t] \in CardType
      BY DEF WebSessionTypeOK
    <2>2. \A b \in BOOLEAN :
            /\ [card[t] EXCEPT !.same = b].agreed = card[t].agreed
            /\ [card[t] EXCEPT !.same = b].ticked = card[t].ticked
            /\ [card[t] EXCEPT !.errors = FALSE].agreed = card[t].agreed
            /\ [card[t] EXCEPT !.errors = FALSE].ticked = card[t].ticked
            /\ [card[t] EXCEPT !.errors = FALSE, !.mismatch = TRUE].agreed = card[t].agreed
            /\ [card[t] EXCEPT !.errors = FALSE, !.mismatch = TRUE].ticked = card[t].ticked
      BY <2>1 DEF CardType
    <2>3. CASE TypePasswords(t)
      BY <1>6, <2>1, <2>2, <2>3 DEF TypePasswords, Edit, CardType
    <2>4. CASE RefuseMismatch(t)
      BY <1>6, <2>2, <2>4 DEF RefuseMismatch, Edit
    <2>5. CASE BannerCloses(t)
      BY <1>6, <2>2, <2>5 DEF BannerCloses, Edit
    <2>6. QED
      BY <1>7, <2>3, <2>4, <2>5
  <1>8. ASSUME NEW c \in Calls, NEW t \in Tabs, Submit(c, t)
        PROVE  AgreedIsTicked'
    <2> DEFINE record == [card[t] EXCEPT !.errors = FALSE, !.mismatch = FALSE, !.busy = TRUE]
    <2>1. card[t] \in CardType
      BY DEF WebSessionTypeOK
    <2>2. record.agreed = card[t].agreed /\ record.ticked = card[t].ticked
      BY <2>1 DEF CardType
    <2>3. card' = [card EXCEPT ![t] = record]
      BY <1>8, <2>1 DEF Submit, WebSessionTypeOK
    <2>4. QED
      BY <1>6, <2>2, <2>3
  <1>9. ASSUME NEW t \in Tabs, card' = [card EXCEPT ![t] = FreshCard]
        PROVE  AgreedIsTicked'
    BY <1>1, <1>3, <1>9
  <1>10. ASSUME NEW c \in Calls, LandOnCard(c)
         PROVE  AgreedIsTicked'
    <2> DEFINE t == webCall[c].tab
               refused == webCall[c].answer = "refused"
               record == [card[t] EXCEPT !.busy = FALSE, !.sent = card[t].sent \/ ~refused,
                                         !.errors = card[t].errors \/ refused]
    <2>1. t \in Tabs
      BY <1>10, LandingIsOpen DEF LandOnCard
    <2>2. card[t] \in CardType
      BY <2>1 DEF WebSessionTypeOK
    <2>3. record.agreed = card[t].agreed /\ record.ticked = card[t].ticked
      BY <2>2 DEF CardType
    <2>4. card' = [card EXCEPT ![t] = record] \/ card' = card
      BY <1>10, <2>1, <2>2 DEF LandOnCard, WebSessionTypeOK
    <2>5. QED
      BY <1>2, <1>6, <2>1, <2>3, <2>4
  <1>11. ASSUME NEW t \in Tabs, CloseTab(t) \/ OpenPolicy(t)
         PROVE  AgreedIsTicked'
    BY <1>9, <1>11 DEF CloseTab, OpenPolicy
  <1>12. ASSUME NEW c \in Calls, LandSignIn(c)
         PROVE  AgreedIsTicked'
    BY <1>9, <1>12, LandingIsOpen DEF LandSignIn
  <1>13. ASSUME NEW c \in Calls, Serve(c) \/ Lose(c) \/ LandOut(c) \/ LandFetch(c)
         PROVE  AgreedIsTicked'
    BY <1>2, <1>13 DEF Serve, Lose, LandOut, LandFetch
  <1>14. ASSUME NEW t \in Tabs, Restore(t) \/ LeavePolicy(t)
         PROVE  AgreedIsTicked'
    BY <1>2, <1>14 DEF Restore, LeavePolicy
  <1>15. ASSUME NEW c \in Calls, NEW t \in Tabs, NEW kind \in {"fetch", "logout"}, Ask(c, t, kind)
         PROVE  AgreedIsTicked'
    BY <1>2, <1>15 DEF Ask
  <1>16. ASSUME NEW t \in Tabs, NEW route \in {"login", "privacy"}, OpenTab(t, route)
         PROVE  AgreedIsTicked'
    BY <1>2, <1>16 DEF OpenTab
  <1>17. ASSUME NEW n \in Sessions, Expire(n)
         PROVE  AgreedIsTicked'
    BY <1>2, <1>17 DEF Expire
  <1>18. ASSUME UNCHANGED sessionVars
         PROVE  AgreedIsTicked'
    BY <1>2, <1>18 DEF sessionVars
  <1>19. QED
    BY <1>4, <1>5, <1>7, <1>8, <1>10, <1>11, <1>12, <1>13, <1>14, <1>15, <1>16, <1>17, <1>18
       DEF SessionNext

\* An open tab writes storage and shows what it wrote: whoever shares that
\* storage is not alone.
LEMMA WriteStored ==
    ASSUME WebSessionInv, NEW t \in Tabs, tab[t].open,
           NEW r, r.token = r.session,
           jar' = [jar EXCEPT ![JarOf(t)] = r], tab'[t].session = r.session,
           \A u \in Tabs : tab'[u].alone = tab[u].alone,
           \A u \in Tabs : u # t => tab'[u] = tab[u],
           UNCHANGED persistent
    PROVE  SignedInIsStored'
  <1> USE DEF WebSessionInv
  <1>1. \A u \in Tabs : JarOf(u) \in Jars /\ JarOf(u)' = JarOf(u)
    BY DEF JarOf, Jars
  <1>2. jar'[JarOf(t)] = r /\ \A j \in Jars : j # JarOf(t) => jar'[j] = jar[j]
    BY <1>1 DEF WebSessionTypeOK
  <1>3. \A j \in Jars : jar'[j].token = jar'[j].session
    BY <1>2 DEF SignedInIsStored
  <1>4. ASSUME NEW u \in Tabs, OwnStorage(u)', tab'[u].open, ~tab'[u].restoring
        PROVE  tab'[u].session = jar'[JarOf(u)].session
    <2>1. CASE u = t
      BY <1>2, <2>1
    <2>2. CASE u # t
      <3>1. tab'[u] = tab[u] /\ OwnStorage(u)
        BY <1>4, <2>2 DEF OwnStorage
      <3>2. ~persistent
        BY <2>2, <3>1 DEF OwnStorage, AloneIsAlone
      <3>3. JarOf(u) # JarOf(t)
        BY <2>2, <3>2 DEF JarOf
      <3>4. QED
        BY <1>1, <1>2, <1>4, <3>1, <3>3 DEF SignedInIsStored
    <2>3. QED
      BY <2>1, <2>2
  <1>5. QED
    BY <1>1, <1>3, <1>4 DEF SignedInIsStored

\* Storage and what the tabs show change together, or not at all.
LEMMA StoredStep ==
    ASSUME WebSessionInv, [SessionNext]_sessionVars
    PROVE  SignedInIsStored'
  <1> USE DEF WebSessionInv
  <1>a. ASSUME UNCHANGED <<jar, persistent>>,
               \A u \in Tabs : /\ tab'[u].open = tab[u].open /\ tab'[u].alone = tab[u].alone
                               /\ tab'[u].restoring = tab[u].restoring
                               /\ tab'[u].session = tab[u].session
        PROVE  SignedInIsStored'
    BY <1>a DEF SignedInIsStored, OwnStorage, JarOf
  <1>b. UNCHANGED <<jar, persistent, tab>> => SignedInIsStored'
    BY <1>a
  <1>c. ASSUME NEW t \in Tabs, NEW n, tab' = [tab EXCEPT ![t].session = n]
        PROVE  /\ tab'[t].session = n
               /\ \A u \in Tabs : tab'[u].alone = tab[u].alone
               /\ \A u \in Tabs : u # t => tab'[u] = tab[u]
    BY <1>c DEF WebSessionTypeOK, TabType
  <1>1. ASSUME NEW t \in Tabs, NEW route \in {"login", "privacy"}, OpenTab(t, route)
        PROVE  SignedInIsStored'
    <2>1. tab'[t].restoring
      BY <1>1 DEF OpenTab
    <2>2. ASSUME NEW u \in Tabs, u # t
          PROVE  /\ ~tab'[u].alone /\ tab'[u].open = tab[u].open
                 /\ tab'[u].restoring = tab[u].restoring /\ tab'[u].session = tab[u].session
      <3>1. tab[u] \in TabType /\ tab'[u] = [tab[u] EXCEPT !.alone = FALSE]
        BY <1>1, <2>2 DEF OpenTab, WebSessionTypeOK
      <3>2. QED
        BY <3>1 DEF TabType
    <2>3. UNCHANGED jar /\ UNCHANGED persistent
      BY <1>1 DEF OpenTab
    <2>4. QED
      BY <2>1, <2>2, <2>3 DEF SignedInIsStored, OwnStorage, JarOf
  <1>2. ASSUME NEW t \in Tabs, Restore(t)
        PROVE  SignedInIsStored'
    <2> DEFINE usable == jar[JarOf(t)].session \notin expired
               r == IF usable THEN jar[JarOf(t)] ELSE Empty
    <2>1. JarOf(t) \in Jars
      BY DEF JarOf, Jars
    <2>2. r.token = r.session
      BY <2>1 DEF SignedInIsStored, Empty
    <2>3. jar' = [jar EXCEPT ![JarOf(t)] = r]
      BY <1>2, <2>1 DEF Restore, WebSessionTypeOK
    <2>4. tab'[t].session = r.session
      <3>1. tab[t] \in TabType
        BY DEF WebSessionTypeOK
      <3>2. tab'[t] = [tab[t] EXCEPT !.restoring = FALSE,
                                     !.session = IF usable THEN jar[JarOf(t)].session ELSE Nobody]
        BY <1>2 DEF Restore, WebSessionTypeOK
      <3>3. QED
        BY <3>1, <3>2 DEF TabType, Empty
    <2>5. \A u \in Tabs : tab'[u].alone = tab[u].alone
      BY <1>2 DEF Restore, WebSessionTypeOK, TabType
    <2>6. \A u \in Tabs : u # t => tab'[u] = tab[u]
      BY <1>2 DEF Restore, WebSessionTypeOK
    <2>7. tab[t].open /\ UNCHANGED persistent
      BY <1>2 DEF Restore, AloneIsAlone
    <2> HIDE DEF r
    <2>8. QED
      BY <2>2, <2>3, <2>4, <2>5, <2>6, <2>7, WriteStored
  <1>3. ASSUME NEW t \in Tabs, CloseTab(t)
        PROVE  SignedInIsStored'
    <2>1. ~tab'[t].open /\ \A u \in Tabs : u # t => tab'[u] = tab[u]
      BY <1>3 DEF CloseTab, Closed, WebSessionTypeOK
    <2>2. UNCHANGED persistent /\ jar' = [jar EXCEPT ![t] = Empty]
      BY <1>3 DEF CloseTab
    <2>3. \A j \in Jars : jar'[j].token = jar'[j].session
      BY <2>2 DEF SignedInIsStored, WebSessionTypeOK, Empty
    <2>4. ASSUME NEW u \in Tabs, u # t
          PROVE  JarOf(u)' = JarOf(u) /\ jar'[JarOf(u)] = jar[JarOf(u)]
      BY <2>2, <2>4, NamesApart DEF JarOf, Jars, WebSessionTypeOK
    <2>5. QED
      BY <2>1, <2>2, <2>3, <2>4 DEF SignedInIsStored, OwnStorage
  <1>4. ASSUME NEW t \in Tabs, OpenPolicy(t) \/ LeavePolicy(t)
        PROVE  SignedInIsStored'
    <2>1. \A u \in Tabs : /\ tab'[u].open = tab[u].open /\ tab'[u].alone = tab[u].alone
                          /\ tab'[u].restoring = tab[u].restoring
                          /\ tab'[u].session = tab[u].session
      BY <1>4 DEF OpenPolicy, LeavePolicy, WebSessionTypeOK, TabType
    <2>2. QED
      BY <1>4, <1>a, <2>1 DEF OpenPolicy, LeavePolicy
  <1>5. ASSUME NEW t \in Tabs, NEW record, Edit(t, record)
        PROVE  SignedInIsStored'
    BY <1>5, <1>b DEF Edit
  <1>6. ASSUME NEW c \in Calls, NEW t \in Tabs, Submit(c, t)
        PROVE  SignedInIsStored'
    BY <1>6, <1>b DEF Submit
  <1>7. ASSUME NEW c \in Calls, NEW t \in Tabs, NEW kind \in {"fetch", "logout"}, Ask(c, t, kind)
        PROVE  SignedInIsStored'
    BY SMTT(40), <1>7, <1>b DEF Ask
  <1>8. ASSUME NEW c \in Calls, Serve(c) \/ Lose(c) \/ LandOnCard(c) \/ LandFetch(c)
        PROVE  SignedInIsStored'
    BY <1>8, <1>b DEF Serve, Lose, LandOnCard, LandFetch
  <1>9. ASSUME NEW c \in Calls, LandSignIn(c)
        PROVE  SignedInIsStored'
    <2> DEFINE t == webCall[c].tab
               r == [token |-> webCall[c].issue, session |-> webCall[c].issue]
    <2>1. t \in Tabs /\ tab[t].open
      BY <1>9, LandingIsOpen DEF LandSignIn
    <2>2. r.token = r.session /\ r.session = webCall[c].issue
      OBVIOUS
    <2>3. /\ tab'[t].session = r.session
          /\ \A u \in Tabs : tab'[u].alone = tab[u].alone
          /\ \A u \in Tabs : u # t => tab'[u] = tab[u]
      BY ZenonT(60), <1>9, <1>c, <2>1 DEF LandSignIn
    <2>4. jar' = [jar EXCEPT ![JarOf(t)] = r] /\ UNCHANGED persistent
      BY <1>9 DEF LandSignIn
    <2> HIDE DEF t, r
    <2>5. QED
      BY <2>1, <2>2, <2>3, <2>4, WriteStored
  <1>10. ASSUME NEW c \in Calls, LandOut(c)
         PROVE  SignedInIsStored'
    <2> DEFINE t == webCall[c].tab
    <2>1. t \in Tabs /\ tab[t].open
      BY <1>10, LandingIsOpen DEF LandOut
    <2>2. Empty.token = Empty.session /\ Empty.session = Nobody
      BY DEF Empty
    <2>3. /\ tab'[t].session = Empty.session
          /\ \A u \in Tabs : tab'[u].alone = tab[u].alone
          /\ \A u \in Tabs : u # t => tab'[u] = tab[u]
      BY <1>10, <1>c, <2>1, <2>2 DEF LandOut, Out
    <2>4. jar' = [jar EXCEPT ![JarOf(t)] = Empty] /\ UNCHANGED persistent
      BY <1>10 DEF LandOut, Out
    <2> HIDE DEF t
    <2>5. QED
      BY <2>1, <2>2, <2>3, <2>4, WriteStored
  <1>11. ASSUME NEW n \in Sessions, Expire(n)
         PROVE  SignedInIsStored'
    BY <1>11, <1>b DEF Expire
  <1>12. ASSUME UNCHANGED sessionVars
         PROVE  SignedInIsStored'
    BY <1>12, <1>b DEF sessionVars
  <1>13. ASSUME NEW t \in Tabs, NEW mode \in Modes, SwitchTo(t, mode)
         PROVE  SignedInIsStored'
    BY <1>5, <1>13 DEF SwitchTo
  <1>14. ASSUME NEW t \in Tabs, Agree(t) \/ TypePasswords(t) \/ RefuseMismatch(t) \/ BannerCloses(t)
         PROVE  SignedInIsStored'
    BY <1>5, <1>14 DEF Agree, TypePasswords, RefuseMismatch, BannerCloses
  <1>15. QED
    BY <1>1, <1>2, <1>3, <1>4, <1>6, <1>7, <1>8, <1>9, <1>10, <1>11, <1>12, <1>13, <1>14
       DEF SessionNext

\* Every part of the invariant holds in every state of the session, whatever
\* the number of tabs, requests, sessions and mishaps.
THEOREM SessionInvariant == SessionSpec => []WebSessionInv
  <1>1. SessionInit => WebSessionInv
    BY SessionInitInv
  <1>2. WebSessionInv /\ [SessionNext]_sessionVars => WebSessionInv'
    <2> SUFFICES ASSUME WebSessionInv, [SessionNext]_sessionVars PROVE WebSessionInv'
      OBVIOUS
    <2>1. \A c \in Calls : Landing(c) => webCall[c].tab \in Tabs
      BY LandingIsOpen DEF WebSessionInv
    <2>2. WebSessionTypeOK'
      BY <2>1, TypeStep DEF WebSessionInv
    <2>3. QED
      BY <2>2, CallsStep, TickedStep, StoredStep DEF WebSessionInv
  <1>3. QED
    BY <1>1, <1>2, PTL DEF SessionSpec

\* The session's state keeps its types: no session is shown, stored or answered
\* that the server did not issue within the bounds.
THEOREM SessionTypes == SessionSpec => []WebSessionTypeOK
  <1>1. WebSessionInv => WebSessionTypeOK
    BY DEF WebSessionInv
  <1>2. QED
    BY <1>1, SessionInvariant, PTL

\* storeSession and clearSession never leave half a session, and a tab with
\* storage to itself shows what is stored, for any number of tabs and calls.
THEOREM ShowsWhatIsStored == SessionSpec => []SignedInIsStored
  <1>1. WebSessionInv => SignedInIsStored
    BY DEF WebSessionInv
  <1>2. QED
    BY <1>1, SessionInvariant, PTL

\* No sequence of switches, submissions and policy visits asks for an account
\* without the box ticked by hand on that form.
THEOREM AccountsHaveConsent == SessionSpec => []RegistersWithConsent
  <1>1. WebSessionInv => RegistersWithConsent
    BY DEF WebSessionInv
  <1>2. QED
    BY <1>1, SessionInvariant, PTL
-----------------------------------------------------------------------------
(* The device pages.  A list answer finds the rows as they were at first,  *)
(* none; and a dialog that closes takes its alert's answer with it.        *)

DevicesTypes ==
    /\ server \in Rows /\ rows \in Rows
    /\ loaded \in BOOLEAN /\ removing \in BOOLEAN
    /\ wire \in Seq(Devices \X Status)
    /\ page \in Pages
    /\ confirming \in Devices \cup {NoDevice}
    /\ dialog \in Dialog \cup {NoDevice}
    /\ request \in [Requests -> Request \cup {NoDevice}]

IsList(q) == q # NoDevice /\ q.kind = "list"
ListsAreRead ==
    \A r \in Requests : IsList(request[r]) /\ request[r].answer = "ok" => request[r].read \in Rows
IsRemoval(q) == q # NoDevice /\ q.kind \in {"remove", "drop"}
IsOwnAlert(q) == q # NoDevice /\ q.kind = "alert" /\ q.here

\* Nothing is listed before the one list answer has landed.
ListComesFirst ==
    /\ \A q, r \in Requests : IsList(request[q]) /\ IsList(request[r]) => q = r
    /\ \A r \in Requests : IsList(request[r]) => ~loaded
    /\ ~loaded => \A d \in Devices : rows[d] = "absent"

RemovalsAreDone ==
    \A r \in Requests : IsRemoval(request[r]) /\ request[r].answer = "ok" =>
      request[r].targets \subseteq gone

\* An alert that has a dialog to come back to was sent from this one.
AlertsAreOfTheDialog ==
    /\ \A r \in Requests : IsOwnAlert(request[r]) =>
         dialog # NoDevice /\ request[r].targets \in dialog.sent
    /\ dialog # NoDevice /\ dialog.result # NoDevice => dialog.result \in dialog.sent

PagesInvariant ==
    DevicesTypes /\ ListsAreRead /\ ListComesFirst /\ RemovalsAreDone /\ AlertsAreOfTheDialog

LEMMA PagesStart == WebDevicesInit => PagesInvariant
<1> SUFFICES ASSUME WebDevicesInit PROVE PagesInvariant
  OBVIOUS
<1>1. /\ server \in Rows /\ rows = [d \in Devices |-> "absent"] /\ loaded = FALSE
      /\ wire = <<>> /\ page = "dashboard" /\ confirming = NoDevice /\ removing = FALSE
      /\ dialog = NoDevice /\ request = [r \in Requests |-> NoDevice]
  BY DEF WebDevicesInit
<1>2. rows \in Rows
  BY <1>1 DEF Rows
<1>3. wire \in Seq(Devices \X Status)
  BY <1>1
<1>4. DevicesTypes
  BY <1>1, <1>2, <1>3 DEF DevicesTypes, Pages
<1>5. ListsAreRead /\ ListComesFirst /\ RemovalsAreDone /\ AlertsAreOfTheDialog
  BY <1>1 DEF ListsAreRead, ListComesFirst, RemovalsAreDone, AlertsAreOfTheDialog, IsList,
              IsRemoval, IsOwnAlert
<1> QED
  BY <1>4, <1>5 DEF PagesInvariant

\* What a step may do to a request that neither lands nor is sent.
Carried(q, r) ==
    /\ q = NoDevice <=> r = NoDevice
    /\ q # NoDevice =>
         /\ r.kind = q.kind /\ r.targets = q.targets /\ r.answer = q.answer /\ r.read = q.read
         /\ r.here => q.here

\* Nobody is listed by a step that leaves the requests their kinds, targets and answers.
LEMMA DialogStep ==
    ASSUME PagesInvariant, UNCHANGED <<server, rows, loaded, wire, gone>>,
           page' \in Pages, removing' \in BOOLEAN, confirming' \in Devices \cup {NoDevice},
           dialog' \in Dialog \cup {NoDevice},
           request' \in [Requests -> Request \cup {NoDevice}],
           \A r \in Requests : Carried(request[r], request'[r]),
           \A r \in Requests : IsOwnAlert(request'[r]) =>
             dialog # NoDevice /\ dialog' # NoDevice /\ dialog'.sent = dialog.sent,
           dialog' # NoDevice =>
             \/ dialog'.result = NoDevice
             \/ dialog # NoDevice /\ dialog'.result = dialog.result /\ dialog'.sent = dialog.sent
    PROVE  PagesInvariant'
<1>1. DevicesTypes'
  BY DEF PagesInvariant, DevicesTypes
<1>2. ListsAreRead' /\ ListComesFirst'
  BY DEF PagesInvariant, ListsAreRead, ListComesFirst, IsList, Carried
<1>3. RemovalsAreDone'
  BY DEF PagesInvariant, RemovalsAreDone, IsRemoval, Carried
<1>4. AlertsAreOfTheDialog'
  BY DEF PagesInvariant, AlertsAreOfTheDialog, IsOwnAlert, Carried
<1> QED
  BY <1>1, <1>2, <1>3, <1>4 DEF PagesInvariant

\* A request that is sent: a list only as the first one, an alert from its dialog.
LEMMA PlaceStep ==
    ASSUME PagesInvariant, NEW r \in Requests,
           NEW kind \in {"list", "remove", "drop", "alert"}, NEW targets \in SUBSET Devices,
           Place(r, kind, targets),
           UNCHANGED <<server, rows, loaded, wire, page, gone, confirming>>,
           removing' \in BOOLEAN, dialog' \in Dialog \cup {NoDevice},
           kind = "list" => ~loaded /\ \A q \in Requests : ~IsList(request[q]),
           IF kind = "alert"
             THEN /\ dialog # NoDevice /\ dialog' # NoDevice
                  /\ dialog'.sent = dialog.sent \cup {targets} /\ dialog'.result = dialog.result
             ELSE dialog' = dialog
    PROVE  PagesInvariant'
<1> DEFINE new == NewWish(kind, targets)
<1>0. new \in Request
  BY DEF NewWish, Request
<1>1. /\ new \in Request /\ new # NoDevice /\ new.kind = kind /\ new.targets = targets
      /\ new.here /\ new.answer = "none"
  BY <1>0, WebDevicesNames DEF NewWish
<1> HIDE DEF new
<1>2. /\ request' \in [Requests -> Request \cup {NoDevice}] /\ request'[r] = new
      /\ \A q \in Requests : q # r => request'[q] = request[q]
  BY <1>1 DEF Place, PagesInvariant, DevicesTypes, new
<1>3. DevicesTypes'
  BY <1>2 DEF PagesInvariant, DevicesTypes
<1>4. ListsAreRead' /\ ListComesFirst'
  BY <1>1, <1>2 DEF PagesInvariant, ListsAreRead, ListComesFirst, IsList
<1>5. RemovalsAreDone'
  BY <1>1, <1>2 DEF PagesInvariant, RemovalsAreDone, IsRemoval
<1>6. AlertsAreOfTheDialog'
  BY <1>1, <1>2 DEF PagesInvariant, AlertsAreOfTheDialog, IsOwnAlert
<1> QED
  BY <1>3, <1>4, <1>5, <1>6 DEF PagesInvariant

\* A request that lands and is gone, with what it does to rows and dialogs.
LEMMA LandStep ==
    ASSUME PagesInvariant, NEW r \in Requests, Done(r),
           UNCHANGED <<server, wire, page, gone>>, rows' \in Rows, loaded' \in BOOLEAN,
           removing' \in BOOLEAN, confirming' \in Devices \cup {NoDevice},
           dialog' \in Dialog \cup {NoDevice},
           loaded' => loaded \/ IsList(request[r]),
           ~loaded' => ~loaded /\ \A d \in Devices : rows[d] = "absent" => rows'[d] = "absent",
           dialog # NoDevice =>
             /\ dialog' # NoDevice /\ dialog'.sent = dialog.sent
             /\ dialog'.result \in {dialog.result, NoDevice} \cup dialog.sent,
           dialog = NoDevice => dialog' = NoDevice
    PROVE  PagesInvariant'
<1>1. /\ request' \in [Requests -> Request \cup {NoDevice}] /\ request'[r] = NoDevice
      /\ \A q \in Requests : q # r => request'[q] = request[q]
  BY DEF Done, PagesInvariant, DevicesTypes
<1>2. DevicesTypes'
  BY <1>1 DEF PagesInvariant, DevicesTypes
<1>3. ListsAreRead' /\ ListComesFirst'
  BY <1>1 DEF PagesInvariant, ListsAreRead, ListComesFirst, IsList
<1>4. RemovalsAreDone'
  BY <1>1 DEF PagesInvariant, RemovalsAreDone, IsRemoval
<1>5. AlertsAreOfTheDialog'
  BY <1>1 DEF PagesInvariant, AlertsAreOfTheDialog, IsOwnAlert
<1> QED
  BY <1>2, <1>3, <1>4, <1>5 DEF PagesInvariant
\* What is sent from a page that goes, or a dialog that closes, has no home.
LEMMA HomelessCarried ==
    ASSUME PagesInvariant, NEW kinds, request' = Homeless(kinds)
    PROVE  /\ request' \in [Requests -> Request \cup {NoDevice}]
           /\ \A r \in Requests : Carried(request[r], request'[r])
           /\ \A r \in Requests : request'[r] # NoDevice /\ request'[r].kind \in kinds =>
                ~request'[r].here
<1> SUFFICES ASSUME NEW r \in Requests
             PROVE  /\ request'[r] \in Request \cup {NoDevice}
                    /\ Carried(request[r], request'[r])
                    /\ request'[r] # NoDevice /\ request'[r].kind \in kinds => ~request'[r].here
  BY DEF Homeless
<1>1. request[r] \in Request \cup {NoDevice}
  BY DEF PagesInvariant, DevicesTypes
<1>2. CASE request[r] # NoDevice /\ request[r].kind \in kinds
  <2> DEFINE q == request[r]
             left == [q EXCEPT !.here = FALSE]
  <2>1. q \in Request /\ request'[r] = left
    BY <1>1, <1>2 DEF Homeless
  <2> HIDE DEF q
  <2>2. left \in Request
    BY <2>1 DEF Request
  <2>3. /\ left.kind = q.kind /\ left.targets = q.targets /\ left.answer = q.answer
        /\ left.read = q.read /\ ~left.here
    BY <2>1 DEF Request
  <2>4. left # NoDevice /\ q # NoDevice
    BY <2>1, <2>2, WebDevicesNames
  <2> HIDE DEF left
  <2> QED
    BY <2>1, <2>2, <2>3, <2>4 DEF Carried, q
<1>3. CASE ~(request[r] # NoDevice /\ request[r].kind \in kinds)
  BY <1>1, <1>3 DEF Homeless, Carried
<1> QED
  BY <1>2, <1>3

\* A step that touches neither the requests nor the dialog, its selection aside.
LEMMA UnsentStep ==
    ASSUME PagesInvariant, UNCHANGED <<server, rows, loaded, wire, page, gone, request>>,
           removing' \in BOOLEAN, confirming' \in Devices \cup {NoDevice},
           dialog' \in Dialog \cup {NoDevice},
           dialog # NoDevice =>
             dialog' # NoDevice /\ dialog'.sent = dialog.sent /\ dialog'.result = dialog.result,
           dialog = NoDevice /\ dialog' # NoDevice => dialog'.result = NoDevice
    PROVE  PagesInvariant'
<1>1. page' \in Pages /\ request' \in [Requests -> Request \cup {NoDevice}]
  BY DEF PagesInvariant, DevicesTypes
<1>2. \A r \in Requests : Carried(request[r], request'[r])
  BY DEF Carried
<1>3. \A r \in Requests : IsOwnAlert(request'[r]) =>
        dialog # NoDevice /\ dialog' # NoDevice /\ dialog'.sent = dialog.sent
  BY DEF PagesInvariant, AlertsAreOfTheDialog
<1>4. dialog' # NoDevice =>
        \/ dialog'.result = NoDevice
        \/ dialog # NoDevice /\ dialog'.result = dialog.result /\ dialog'.sent = dialog.sent
  OBVIOUS
<1> QED
  BY <1>1, <1>2, <1>3, <1>4, DialogStep

\* The dialogs, before anything is sent from them and once they close.
LEMMA DialogsStep ==
    ASSUME PagesInvariant,
           \/ CloseConfirm \/ CloseAlert \/ ToggleAll
           \/ \E p \in Pages : GoTo(p)
           \/ \E d \in Devices : AskRemoval(d) \/ Toggle(d)
           \/ \E targets \in SUBSET Devices : OpenAlert(targets)
    PROVE  PagesInvariant' /\ UNCHANGED rows
<1>a. /\ removing \in BOOLEAN /\ confirming \in Devices \cup {NoDevice}
      /\ dialog \in Dialog \cup {NoDevice}
  BY DEF PagesInvariant, DevicesTypes
<1>1. CASE CloseConfirm
  BY <1>a, <1>1, UnsentStep DEF CloseConfirm
<1>2. CASE CloseAlert
  <2>1. request' = Homeless({"alert"}) /\ dialog' = NoDevice
    BY <1>2 DEF CloseAlert
  <2>2. /\ request' \in [Requests -> Request \cup {NoDevice}]
        /\ \A r \in Requests : Carried(request[r], request'[r])
        /\ \A r \in Requests : ~IsOwnAlert(request'[r])
    BY <2>1, HomelessCarried DEF IsOwnAlert
  <2>3. page' \in Pages /\ UNCHANGED <<server, rows, loaded, wire, gone>>
    BY <1>2 DEF CloseAlert, PagesInvariant, DevicesTypes
  <2>4. removing' \in BOOLEAN /\ confirming' \in Devices \cup {NoDevice}
    BY <1>2, <1>a DEF CloseAlert
  <2> QED
    BY <2>1, <2>2, <2>3, <2>4, DialogStep
<1>3. ASSUME NEW selected \in SUBSET Devices, dialog # NoDevice,
             dialog' = [dialog EXCEPT !.selected = selected]
      PROVE  /\ dialog' \in Dialog \cup {NoDevice} /\ dialog' # NoDevice
             /\ dialog'.sent = dialog.sent /\ dialog'.result = dialog.result
  <2>1. dialog \in Dialog
    BY <1>a, <1>3
  <2>2. dialog' \in Dialog /\ dialog'.sent = dialog.sent /\ dialog'.result = dialog.result
    BY <1>3, <2>1 DEF Dialog
  <2> QED
    BY <2>2, WebDevicesNames
<1>4. CASE ToggleAll
  <2>1. /\ dialog # NoDevice
        /\ UNCHANGED <<server, rows, loaded, wire, page, gone, request, removing, confirming>>
    BY <1>4 DEF ToggleAll, Choosing
  <2>2. PICK selected \in SUBSET Devices : dialog' = [dialog EXCEPT !.selected = selected]
    BY <1>4 DEF ToggleAll, Reachable, Present
  <2> QED
    BY <1>a, <2>1, <2>2, <1>3, UnsentStep
<1>5. ASSUME NEW p \in Pages, GoTo(p)
      PROVE  PagesInvariant' /\ UNCHANGED rows
  <2>1. /\ request' = Homeless({"remove", "drop", "alert"}) /\ dialog' = NoDevice
        /\ page' = p /\ removing' = FALSE /\ confirming' = NoDevice
        /\ UNCHANGED <<server, rows, loaded, wire, gone>>
    BY <1>5 DEF GoTo
  <2>2. /\ request' \in [Requests -> Request \cup {NoDevice}]
        /\ \A r \in Requests : Carried(request[r], request'[r])
        /\ \A r \in Requests : ~IsOwnAlert(request'[r])
    BY <2>1, HomelessCarried DEF IsOwnAlert
  <2> QED
    BY <2>1, <2>2, DialogStep
<1>6. ASSUME NEW d \in Devices, AskRemoval(d)
      PROVE  PagesInvariant' /\ UNCHANGED rows
  BY <1>a, <1>6, UnsentStep DEF AskRemoval
<1>7. ASSUME NEW d \in Devices, Toggle(d)
      PROVE  PagesInvariant' /\ UNCHANGED rows
  <2>1. /\ dialog # NoDevice
        /\ UNCHANGED <<server, rows, loaded, wire, page, gone, request, removing, confirming>>
    BY <1>7 DEF Toggle, Choosing
  <2>2. PICK selected \in SUBSET Devices : dialog' = [dialog EXCEPT !.selected = selected]
    <3>1. dialog \in Dialog
      BY <1>a, <2>1
    <3>2. dialog.selected \in SUBSET Devices
      BY <3>1 DEF Dialog
    <3> DEFINE chosen == IF d \in dialog.selected THEN dialog.selected \ {d}
                         ELSE dialog.selected \cup {d}
    <3>3. chosen \in SUBSET Devices
      BY <3>2
    <3>4. dialog' = [dialog EXCEPT !.selected = chosen]
      BY <1>7 DEF Toggle
    <3> QED
      BY <3>3, <3>4
  <2> QED
    BY <1>a, <2>1, <2>2, <1>3, UnsentStep
<1>8. ASSUME NEW targets \in SUBSET Devices, OpenAlert(targets)
      PROVE  PagesInvariant' /\ UNCHANGED rows
  <2>1. /\ dialog = NoDevice /\ dialog' = NewDialog(targets)
        /\ UNCHANGED <<server, rows, loaded, wire, page, gone, request, removing, confirming>>
    BY <1>8 DEF OpenAlert, Uncovered
  <2>2. NewDialog(targets) \in Dialog /\ NewDialog(targets).result = NoDevice
    <3>1. {} \in SUBSET SUBSET Devices
      OBVIOUS
    <3>2. NoDevice \in (SUBSET Devices) \cup {NoDevice}
      OBVIOUS
    <3>3. NewDialog(targets) \in Dialog
      BY <3>1, <3>2 DEF NewDialog, Dialog
    <3> QED
      BY <3>3 DEF NewDialog
  <2> QED
    BY <1>a, <2>1, <2>2, UnsentStep
<1> QED
  BY <1>1, <1>2, <1>4, <1>5, <1>6, <1>7, <1>8
\* What is sent: the one list, a removal, an alert from its dialog.
LEMMA SendingStep ==
    ASSUME PagesInvariant, NEW r \in Requests,
           \/ LoadList(r) \/ ConfirmRemove(r) \/ SendAlert(r)
           \/ \E d \in Devices : DropGuest(r, d)
    PROVE  PagesInvariant' /\ UNCHANGED rows
<1>a. /\ removing \in BOOLEAN /\ confirming \in Devices \cup {NoDevice}
      /\ dialog \in Dialog \cup {NoDevice}
  BY DEF PagesInvariant, DevicesTypes
<1>1. CASE LoadList(r)
  <2>1. /\ Place(r, "list", {}) /\ ~loaded /\ \A q \in Requests : ~IsList(request[q])
        /\ UNCHANGED <<server, rows, loaded, wire, page, gone, confirming, removing, dialog>>
    BY <1>1 DEF LoadList, IsList
  <2> QED
    BY <1>a, <2>1, PlaceStep
<1>2. CASE ConfirmRemove(r)
  <2>1. /\ Place(r, "remove", {confirming}) /\ confirming # NoDevice /\ removing' = TRUE
        /\ UNCHANGED <<server, rows, loaded, wire, page, gone, confirming, dialog>>
    BY <1>2 DEF ConfirmRemove
  <2>2. {confirming} \in SUBSET Devices
    BY <1>a, <2>1
  <2> QED
    BY <1>a, <2>1, <2>2, PlaceStep
<1>3. CASE SendAlert(r)
  <2>1. /\ Place(r, "alert", dialog.selected) /\ dialog # NoDevice
        /\ dialog' = [dialog EXCEPT !.sending = TRUE, !.sent = @ \cup {dialog.selected}]
        /\ UNCHANGED <<server, rows, loaded, wire, page, gone, confirming, removing>>
    BY <1>3 DEF SendAlert, Choosing
  <2>2. dialog \in Dialog
    BY <1>a, <2>1
  <2>3. /\ dialog.selected \in SUBSET Devices
        /\ dialog.sent \cup {dialog.selected} \in SUBSET SUBSET Devices
    BY <2>2 DEF Dialog
  <2>4. dialog' \in Dialog
    BY <2>1, <2>2, <2>3 DEF Dialog
  <2>5. dialog'.sent = dialog.sent \cup {dialog.selected} /\ dialog'.result = dialog.result
    BY <2>1, <2>2 DEF Dialog
  <2>6. dialog' # NoDevice
    BY <2>4, WebDevicesNames
  <2> QED
    BY <1>a, <2>1, <2>3, <2>4, <2>5, <2>6, PlaceStep
<1>4. ASSUME NEW d \in Devices, DropGuest(r, d)
      PROVE  PagesInvariant' /\ UNCHANGED rows
  <2>1. /\ Place(r, "drop", {d})
        /\ UNCHANGED <<server, rows, loaded, wire, page, gone, confirming, removing, dialog>>
    BY <1>4 DEF DropGuest
  <2>2. {d} \in SUBSET Devices
    OBVIOUS
  <2> QED
    BY <1>a, <2>1, <2>2, PlaceStep
<1> QED
  BY <1>1, <1>2, <1>3, <1>4

\* What lands: only the list's answer, and a removal the server has made, take a row.
LEMMA LandingStep ==
    ASSUME PagesInvariant, NEW r \in Requests, LandList(r) \/ LandRemoval(r) \/ LandAlert(r)
    PROVE  /\ PagesInvariant'
           /\ \A d \in Present : rows'[d] = "absent" => d \in gone
<1>a. /\ removing \in BOOLEAN /\ confirming \in Devices \cup {NoDevice} /\ rows \in Rows
      /\ loaded \in BOOLEAN /\ dialog \in Dialog \cup {NoDevice}
      /\ request[r] \in Request \cup {NoDevice}
  BY DEF PagesInvariant, DevicesTypes
<1>b. request[r] # NoDevice => request[r].answer \in {"none", "ok", "failed"}
  BY <1>a DEF Request
<1>1. CASE LandList(r)
  <2>1. /\ IsList(request[r]) /\ request[r].answer # "none" /\ Done(r)
        /\ rows' = (IF Refused(r) THEN rows ELSE request[r].read) /\ loaded' = TRUE
        /\ UNCHANGED <<server, wire, page, gone, removing, confirming, dialog>>
    BY <1>1 DEF LandList, Back, IsList
  <2>2. ~Refused(r) => request[r].read \in Rows
    BY <1>b, <2>1 DEF Refused, PagesInvariant, ListsAreRead, IsList
  <2>3. rows' \in Rows
    BY <1>a, <2>1, <2>2
  <2>4. \A d \in Devices : rows[d] = "absent"
    BY <2>1 DEF PagesInvariant, ListComesFirst
  <2>5. PagesInvariant'
    BY <1>a, <2>1, <2>3, LandStep
  <2> QED
    BY <2>4, <2>5 DEF Present
<1>2. CASE LandRemoval(r)
  <2>1. /\ IsRemoval(request[r]) /\ request[r].answer # "none" /\ Done(r)
        /\ rows' = [d \in Devices |->
                      IF ~Refused(r) /\ d \in request[r].targets THEN "absent" ELSE rows[d]]
        /\ removing' \in BOOLEAN /\ confirming' \in {confirming, NoDevice}
        /\ UNCHANGED <<server, loaded, wire, page, gone, dialog>>
    BY <1>2 DEF LandRemoval, Back, IsRemoval
  <2>2. ~Refused(r) => request[r].targets \subseteq gone
    BY <1>b, <2>1 DEF Refused, PagesInvariant, RemovalsAreDone, IsRemoval
  <2>3. rows' \in Rows
    BY <1>a, <2>1 DEF Rows
  <2>4. \A d \in Devices : rows[d] = "absent" => rows'[d] = "absent"
    BY <2>1
  <2>5. PagesInvariant'
    BY <1>a, <2>1, <2>3, <2>4, LandStep
  <2> QED
    BY <2>1, <2>2, <2>5 DEF Present
<1>3. CASE LandAlert(r)
  <2>1. /\ request[r] # NoDevice /\ request[r].kind = "alert" /\ request[r].answer # "none"
        /\ Done(r)
        /\ dialog' = (IF ~request[r].here \/ dialog = NoDevice THEN dialog
                      ELSE [dialog EXCEPT !.sending = FALSE,
                              !.result = IF Refused(r) THEN @ ELSE request[r].targets])
        /\ UNCHANGED <<server, rows, loaded, wire, page, gone, removing, confirming>>
    BY <1>3 DEF LandAlert, Back
  <2>2. dialog = NoDevice => dialog' = NoDevice
    BY <2>1
  <2>3. ASSUME dialog # NoDevice
        PROVE  /\ dialog' \in Dialog /\ dialog'.sent = dialog.sent
               /\ dialog'.result \in {dialog.result, NoDevice} \cup dialog.sent
    <3>1. dialog \in Dialog
      BY <1>a, <2>3
    <3>2. CASE ~request[r].here
      BY <2>1, <3>1, <3>2
    <3>3. CASE request[r].here
      <4>1. request[r].targets \in dialog.sent
        BY <2>1, <3>3 DEF PagesInvariant, AlertsAreOfTheDialog, IsOwnAlert
      <4> DEFINE told == IF Refused(r) THEN dialog.result ELSE request[r].targets
      <4>2. told \in (SUBSET Devices) \cup {NoDevice} /\ told \in {dialog.result} \cup dialog.sent
        BY <3>1, <4>1 DEF Dialog
      <4>3. dialog' = [dialog EXCEPT !.sending = FALSE, !.result = told]
        BY <2>1, <2>3, <3>3
      <4> HIDE DEF told
      <4> QED
        BY <3>1, <4>2, <4>3 DEF Dialog
    <3> QED
      BY <3>2, <3>3
  <2>4. dialog' \in Dialog \cup {NoDevice} /\ (dialog # NoDevice => dialog' # NoDevice)
    BY <2>2, <2>3, WebDevicesNames
  <2>5. PagesInvariant'
    BY <1>a, <2>1, <2>2, <2>3, <2>4, LandStep
  <2> QED
    BY <2>1, <2>5 DEF Present
<1> QED
  BY <1>1, <1>2, <1>3
\* The server and the rest of the network: what it removes is kept, and a frame
\* neither adds a row nor takes one.
LEMMA ServerStep ==
    ASSUME PagesInvariant,
           \/ LandFrame \/ \E r \in Requests : Grant(r)
           \/ \E d \in Devices : RemovedElsewhere(d)
           \/ \E d \in Devices, s \in Status : Beat(d, s)
    PROVE  /\ PagesInvariant'
           /\ \A d \in Present : rows'[d] # "absent"
<1>a. DevicesTypes
  BY DEF PagesInvariant
<1>1. CASE LandFrame
  <2> DEFINE d == Head(wire)[1]
             s == Head(wire)[2]
  <2>1. Head(wire) \in Devices \X Status /\ Tail(wire) \in Seq(Devices \X Status)
    BY <1>a, <1>1 DEF LandFrame, DevicesTypes
  <2>2. d \in Devices /\ s \in Status
    BY <2>1
  <2>3. /\ rows' = [rows EXCEPT ![d] = IF @ = "absent" THEN @ ELSE s] /\ wire' = Tail(wire)
        /\ UNCHANGED <<server, loaded, page, confirming, removing, dialog, request, gone>>
    BY <1>1 DEF LandFrame
  <2> HIDE DEF d, s
  <2>4. rows' \in Rows /\ \A e \in Devices : rows'[e] = "absent" <=> rows[e] = "absent"
    BY <1>a, <2>2, <2>3 DEF Rows, DevicesTypes, Status
  <2>5. DevicesTypes'
    BY <1>a, <2>1, <2>3, <2>4 DEF DevicesTypes
  <2>6. ListsAreRead' /\ ListComesFirst' /\ RemovalsAreDone' /\ AlertsAreOfTheDialog'
    BY <2>3, <2>4 DEF PagesInvariant, ListsAreRead, ListComesFirst, RemovalsAreDone,
                      AlertsAreOfTheDialog
  <2> QED
    BY <2>4, <2>5, <2>6 DEF PagesInvariant, Present
<1>2. ASSUME NEW r \in Requests, Grant(r)
      PROVE  PagesInvariant' /\ UNCHANGED rows
  <2> DEFINE q == request[r]
             removed == IF q.kind \in {"remove", "drop"} THEN q.targets ELSE {}
             got == IF q.kind = "list" THEN server ELSE NoDevice
  <2>1. /\ q \in Request /\ q # NoDevice /\ q.answer = "none"
        /\ UNCHANGED <<rows, loaded, wire, page, confirming, removing, dialog>>
    BY <1>a, <1>2 DEF Grant, Waiting, DevicesTypes
  <2>2. PICK a \in {"ok", "failed"} :
          /\ Reply(r, a)
          /\ \/ /\ server' = [d \in Devices |-> IF d \in removed THEN "absent" ELSE server[d]]
                /\ gone' = gone \cup removed
             \/ a = "failed" /\ UNCHANGED <<server, gone>>
    BY <1>2 DEF Grant
  <2> DEFINE told == [q EXCEPT !.answer = a, !.read = got]
  <2>3. /\ request' = [request EXCEPT ![r] = told]
    BY <2>2 DEF Reply
  <2>4. server' \in Rows
    BY <1>a, <2>2 DEF DevicesTypes, Rows
  <2>5. got \in Rows \cup {NoDevice}
    BY <1>a DEF DevicesTypes
  <2>6. /\ told \in Request /\ told.kind = q.kind /\ told.targets = q.targets
        /\ told.here = q.here /\ told.answer = a /\ told.read = got
    BY <2>1, <2>5 DEF Request
  <2>7. told # NoDevice
    BY <2>6, WebDevicesNames
  <2>8. q.kind = "list" => got \in Rows
    BY <1>a DEF DevicesTypes
  <2>9. q.kind \in {"remove", "drop"} /\ a = "ok" => q.targets \subseteq gone'
    BY <2>2
  <2>10. gone \subseteq gone'
    BY <2>2
  <2> HIDE DEF told, got, removed
  <2>11. /\ request' \in [Requests -> Request \cup {NoDevice}] /\ request'[r] = told
         /\ \A p \in Requests : p # r => request'[p] = request[p]
    BY <1>a, <2>3, <2>6 DEF DevicesTypes
  <2>12. DevicesTypes'
    BY <1>a, <2>1, <2>4, <2>11 DEF DevicesTypes
  <2>13. ListsAreRead' /\ ListComesFirst'
    BY <2>1, <2>6, <2>8, <2>11 DEF PagesInvariant, ListsAreRead, ListComesFirst, IsList
  <2>14. RemovalsAreDone'
    BY <2>1, <2>6, <2>9, <2>10, <2>11 DEF PagesInvariant, RemovalsAreDone, IsRemoval
  <2>15. AlertsAreOfTheDialog'
    BY <2>1, <2>6, <2>11 DEF PagesInvariant, AlertsAreOfTheDialog, IsOwnAlert
  <2> QED
    BY <2>1, <2>12, <2>13, <2>14, <2>15 DEF PagesInvariant
<1>3. ASSUME server' \in Rows, wire' \in Seq(Devices \X Status), gone \subseteq gone',
             UNCHANGED <<rows, loaded, page, confirming, removing, dialog, request>>
      PROVE  PagesInvariant' /\ UNCHANGED rows
  <2>1. DevicesTypes'
    BY <1>a, <1>3 DEF DevicesTypes
  <2>2. RemovalsAreDone'
    BY <1>3 DEF PagesInvariant, RemovalsAreDone
  <2>3. ListsAreRead' /\ ListComesFirst' /\ AlertsAreOfTheDialog'
    BY <1>3 DEF PagesInvariant, ListsAreRead, ListComesFirst, AlertsAreOfTheDialog
  <2> QED
    BY <1>3, <2>1, <2>2, <2>3 DEF PagesInvariant
<1>4. ASSUME NEW d \in Devices, RemovedElsewhere(d)
      PROVE  PagesInvariant' /\ UNCHANGED rows
  <2>1. /\ server' = [server EXCEPT ![d] = "absent"] /\ gone' = gone \cup {d}
        /\ UNCHANGED <<rows, loaded, wire, page, confirming, removing, dialog, request>>
    BY <1>4 DEF RemovedElsewhere
  <2>2. server' \in Rows /\ wire' \in Seq(Devices \X Status)
    BY <1>a, <2>1 DEF DevicesTypes, Rows
  <2> QED
    BY <2>1, <2>2, <1>3
<1>5. ASSUME NEW d \in Devices, NEW s \in Status, Beat(d, s)
      PROVE  PagesInvariant' /\ UNCHANGED rows
  <2>1. /\ server' = [server EXCEPT ![d] = s]
        /\ UNCHANGED <<rows, loaded, page, confirming, removing, dialog, request, gone>>
    BY <1>5 DEF Beat
  <2>2. server' \in Rows
    BY <1>a, <2>1 DEF DevicesTypes, Rows
  <2>3. wire' \in Seq(Devices \X Status)
    <3>1. wire \in Seq(Devices \X Status) /\ <<d, s>> \in Devices \X Status
      BY <1>a DEF DevicesTypes
    <3>2. wire' = Append(wire, <<d, s>>) \/ wire' = wire
      BY <1>5 DEF Beat
    <3>3. Append(wire, <<d, s>>) \in Seq(Devices \X Status)
      BY <3>1
    <3> QED
      BY <3>1, <3>2, <3>3
  <2> QED
    BY <2>1, <2>2, <2>3, <1>3
<1> QED
  BY <1>1, <1>2, <1>4, <1>5 DEF Present

\* One step of the device pages, and what it may take from the list.
LEMMA PagesStep ==
    ASSUME PagesInvariant, WebDevicesNext
    PROVE  /\ PagesInvariant'
           /\ \A d \in Present : rows'[d] = "absent" => d \in gone
<1>1. CASE /\ UNCHANGED rows /\ PagesInvariant'
  BY <1>1 DEF Present
<1> QED
  BY <1>1, DialogsStep, SendingStep, LandingStep, ServerStep DEF WebDevicesNext
LEMMA PagesSteps ==
    PagesInvariant /\ [WebDevicesNext]_webDevicesVars =>
      /\ PagesInvariant'
      /\ \A d \in Present : rows'[d] = "absent" => d \in gone
<1> SUFFICES ASSUME PagesInvariant, UNCHANGED webDevicesVars
             PROVE  /\ PagesInvariant'
                    /\ \A d \in Present : rows'[d] = "absent" => d \in gone
  BY PagesStep
<1>1. UNCHANGED <<server, rows, loaded, wire, page, confirming, removing, dialog, request, gone>>
  BY DEF webDevicesVars
<1>2. PagesInvariant'
  BY <1>1 DEF PagesInvariant, DevicesTypes, ListsAreRead, ListComesFirst, RemovalsAreDone,
              AlertsAreOfTheDialog
<1> QED
  BY <1>1, <1>2 DEF Present

\* Each part of the dashboard behaves as its own module says, whichever of them moves.
THEOREM WebIsItsParts ==
    WebSpec => SessionSpec /\ WebDevicesSpec /\ HistorySpec /\ WebSettingsSpec
<1>1. WebInit => SessionInit /\ WebDevicesInit /\ HistoryInit /\ WebSettingsInit
  BY DEF WebInit
<1>2. [WebNext]_webVars =>
        /\ [SessionNext]_sessionVars /\ [WebDevicesNext]_webDevicesVars
        /\ [HistoryNext]_historyVars /\ [WebSettingsNext]_webSettingsVars
  BY DEF WebNext, webVars
<1> QED
  BY <1>1, <1>2, PTL DEF WebSpec, SessionSpec, WebDevicesSpec, HistorySpec, WebSettingsSpec

\* The device list loses no row the server has kept, and the dialog that sends an
\* alert reports no other than one it sent, with any number of devices, requests,
\* dialogs closed and opened meanwhile, frames and removals by other clients.
THEOREM PagesActOnWhatWasPicked == WebSpec => ActsOnWhatWasPicked
<1>1. PagesInvariant /\ [WebDevicesNext]_webDevicesVars =>
        [/\ \A d \in Present : rows'[d] = "absent" => d \in gone
         /\ dialog' # NoDevice /\ dialog'.result # NoDevice =>
              dialog'.result \in dialog'.sent]_webDevicesVars
  BY PagesSteps DEF PagesInvariant, AlertsAreOfTheDialog
<1>2. PagesInvariant /\ [WebDevicesNext]_webDevicesVars => PagesInvariant'
  BY PagesSteps
<1>3. WebDevicesSpec => ActsOnWhatWasPicked
  BY <1>1, <1>2, PagesStart, PTL DEF WebDevicesSpec, ActsOnWhatWasPicked
<1> QED
  BY <1>3, WebIsItsParts, PTL
-----------------------------------------------------------------------------
(* The history.  An answer holds a page of the log at most, and what is    *)
(* shown is one of them.                                                   *)

PageMeta == [current : Nat \ {0}, pages : Nat]
HistoryRead == [page : Int, answer : {"none", "ok", "failed"}, rows : Seq(Alert),
                meta : PageMeta \cup {Absent}]

ReadTypes ==
    /\ read \in [Reads -> HistoryRead \cup {Absent}]
    /\ \A r \in Reads : read[r] # Absent => Len(read[r].rows) <= limit

HistoryTypes ==
    /\ log \in Seq(Alert) /\ shown \in Seq(Alert) /\ Len(shown) <= limit
    /\ limit \in Nat \ {0}
    /\ moves \in 0..MaxMoves /\ wanted \in (1 - moves)..(1 + moves)
    /\ meta \in PageMeta \cup {Absent}
    /\ today \in 0..MaxMidnights /\ counted \in 0..MaxMidnights
    /\ ReadTypes

LEMMA HistoryNumbers ==
    /\ PageSize \in Nat \ {0} /\ SampleSize \in Nat \ {0}
    /\ MaxMoves \in Nat /\ MaxMidnights \in Nat /\ MaxAlerts \in Nat
  BY HistoryBounds

LEMMA HistoryStart == HistoryInit => HistoryTypes
<1> SUFFICES ASSUME HistoryInit PROVE HistoryTypes
  OBVIOUS
<1> DEFINE first == [page |-> 1, answer |-> "none", rows |-> <<>>, meta |-> Absent]
<1>1. /\ log = <<>> /\ shown = <<>> /\ today = 0 /\ counted = 0 /\ limit \in {PageSize, SampleSize}
      /\ wanted = 1 /\ moves = 0 /\ meta = Absent
  BY DEF HistoryInit
<1>2. limit \in Nat \ {0} /\ 0 \in 0..MaxMoves /\ 0 \in 0..MaxMidnights
  BY <1>1, HistoryNumbers
<1>3. first \in HistoryRead /\ Len(first.rows) = 0
  <2>1. <<>> \in Seq(Alert)
    OBVIOUS
  <2> QED
    BY <2>1 DEF HistoryRead
<1>4. read \in [Reads -> {first, Absent}]
  BY DEF HistoryInit
<1> HIDE DEF first
<1>5. ReadTypes
  BY <1>2, <1>3, <1>4 DEF ReadTypes
<1> QED
  BY <1>1, <1>2, <1>5 DEF HistoryTypes

\* A page holds what is asked for at a time, at most.
LEMMA PageIsShort ==
    ASSUME log \in Seq(Alert), limit \in Nat \ {0}, NEW p \in Nat \ {0}
    PROVE  OnPage(p) \in Seq(Alert) /\ Len(OnPage(p)) <= limit
<1> DEFINE first == (p - 1) * limit + 1
           last == p * limit
           end == IF last < Len(log) THEN last ELSE Len(log)
<1>1. first \in Nat \ {0} /\ last = first + limit - 1 /\ last \in Nat
  <2>1. (p - 1) * limit \in Nat
    OBVIOUS
  <2>2. p * limit = (p - 1) * limit + limit
    OBVIOUS
  <2> QED
    BY <2>1, <2>2
<1> HIDE DEF first, last
<1>2. OnPage(p) = IF first > Len(log) THEN <<>> ELSE SubSeq(log, first, end)
  BY DEF OnPage, first, last
<1>3. CASE first > Len(log)
  BY <1>2, <1>3
<1>4. CASE ~(first > Len(log))
  <2>1. Len(log) \in Nat /\ end \in Nat /\ end <= Len(log) /\ end <= first + limit - 1
    BY <1>1
  <2>2. SubSeq(log, first, end) \in Seq(Alert)
    BY <1>1, <2>1
  <2>3. Len(SubSeq(log, first, end)) <= limit
    BY <1>1, <1>4, <2>1
  <2> QED
    BY <1>2, <1>4, <2>2, <2>3
<1> QED
  BY <1>3, <1>4

LEMMA PagesAreCounted ==
    ASSUME limit \in Nat \ {0}, NEW n \in Nat
    PROVE  PageCount(n) \in Nat
<1>1. n + limit - 1 \in Nat
  OBVIOUS
<1> QED
  BY <1>1 DEF PageCount

\* A step of one read, the rest of the reads as they were.
LEMMA OneRead ==
    ASSUME ReadTypes, UNCHANGED limit, NEW r \in Reads, NEW new \in HistoryRead \cup {Absent},
           read' = [read EXCEPT ![r] = new], new # Absent => Len(new.rows) <= limit
    PROVE  ReadTypes'
<1>1. /\ read' \in [Reads -> HistoryRead \cup {Absent}] /\ read'[r] = new
      /\ \A q \in Reads : q # r => read'[q] = read[q]
  BY DEF ReadTypes
<1> QED
  BY <1>1 DEF ReadTypes

LEMMA HistoryStep == HistoryTypes /\ [HistoryNext]_historyVars => HistoryTypes'
<1> SUFFICES ASSUME HistoryTypes, [HistoryNext]_historyVars PROVE HistoryTypes'
  OBVIOUS
<1>a. /\ log \in Seq(Alert) /\ shown \in Seq(Alert) /\ Len(shown) <= limit
      /\ limit \in Nat \ {0}
      /\ moves \in 0..MaxMoves /\ wanted \in (1 - moves)..(1 + moves)
      /\ meta \in PageMeta \cup {Absent}
      /\ today \in 0..MaxMidnights /\ counted \in 0..MaxMidnights
      /\ ReadTypes
  BY DEF HistoryTypes
<1>1. ASSUME NEW r \in Reads, NEW step \in {1, -1}, Turn(r, step)
      PROVE  HistoryTypes'
  <2> DEFINE new == [page |-> wanted + step, answer |-> "none", rows |-> <<>>, meta |-> Absent]
  <2>1. /\ UNCHANGED <<log, today, limit, shown, meta, counted>>
        /\ moves < MaxMoves /\ moves' = moves + 1 /\ wanted' = wanted + step
        /\ read' = [read EXCEPT ![r] = new]
    BY <1>1 DEF Turn
  <2>2. moves' \in 0..MaxMoves /\ wanted' \in (1 - moves')..(1 + moves')
    BY <1>a, <2>1, HistoryNumbers
  <2>3. wanted + step \in Int /\ <<>> \in Seq(Alert)
    BY <1>a, HistoryNumbers
  <2>4. new \in HistoryRead /\ Len(new.rows) <= limit
    BY <1>a, <2>3 DEF HistoryRead
  <2> HIDE DEF new
  <2>5. ReadTypes'
    BY <1>a, <2>1, <2>4, OneRead
  <2> QED
    BY <1>a, <2>1, <2>2, <2>5 DEF HistoryTypes
<1>2. ASSUME NEW r \in Reads, ServeRead(r)
      PROVE  HistoryTypes'
  <2> DEFINE q == read[r]
  <2>1. /\ q # Absent /\ q.answer = "none"
        /\ UNCHANGED <<log, today, limit, wanted, shown, meta, counted, moves>>
    BY <1>2 DEF ServeRead
  <2>2. q \in HistoryRead /\ Len(q.rows) <= limit /\ q.page \in Int
    BY <1>a, <2>1 DEF ReadTypes, HistoryRead
  <2>3. ReadTypes'
    <3>1. CASE q.page >= 1 /\ read' = [read EXCEPT ![r].answer = "ok", ![r].rows = OnPage(q.page),
                   ![r].meta = [current |-> q.page, pages |-> PageCount(Len(log))]]
      <4> DEFINE new == [q EXCEPT !.answer = "ok", !.rows = OnPage(q.page),
                           !.meta = [current |-> q.page, pages |-> PageCount(Len(log))]]
      <4>1. q.page \in Nat \ {0} /\ Len(log) \in Nat
        BY <1>a, <2>2, <3>1
      <4>2. OnPage(q.page) \in Seq(Alert) /\ Len(OnPage(q.page)) <= limit
        BY <1>a, <4>1, PageIsShort
      <4>3. [current |-> q.page, pages |-> PageCount(Len(log))] \in PageMeta
        BY <1>a, <4>1, PagesAreCounted DEF PageMeta
      <4>4. new \in HistoryRead /\ new.rows = OnPage(q.page)
        BY <2>2, <4>2, <4>3 DEF HistoryRead
      <4>5. read' = [read EXCEPT ![r] = new]
        BY <3>1
      <4> HIDE DEF new
      <4> QED
        BY <1>a, <2>1, <4>2, <4>4, <4>5, OneRead
    <3>2. CASE read' = [read EXCEPT ![r].answer = "failed"]
      <4> DEFINE new == [q EXCEPT !.answer = "failed"]
      <4>1. new \in HistoryRead /\ new.rows = q.rows
        BY <2>2 DEF HistoryRead
      <4>2. read' = [read EXCEPT ![r] = new]
        BY <3>2
      <4> HIDE DEF new
      <4> QED
        BY <1>a, <2>1, <2>2, <4>1, <4>2, OneRead
    <3> QED
      BY <1>2, <3>1, <3>2 DEF ServeRead
  <2> QED
    BY <1>a, <2>1, <2>3 DEF HistoryTypes
<1>3. ASSUME NEW r \in Reads, LandRead(r)
      PROVE  HistoryTypes'
  <2>1. /\ read[r] # Absent /\ read' = [read EXCEPT ![r] = Absent]
        /\ UNCHANGED <<log, today, limit, wanted, moves>>
    BY <1>3 DEF LandRead
  <2>2. ReadTypes'
    BY <1>a, <2>1, OneRead
  <2>3. read[r] \in HistoryRead /\ Len(read[r].rows) <= limit
    BY <1>a, <2>1 DEF ReadTypes
  <2>4. read[r].rows \in Seq(Alert) /\ read[r].meta \in PageMeta \cup {Absent}
    BY <2>3 DEF HistoryRead
  <2>5. /\ shown' \in Seq(Alert) /\ Len(shown') <= limit /\ meta' \in PageMeta \cup {Absent}
        /\ counted' \in 0..MaxMidnights
    BY <1>a, <1>3, <2>3, <2>4 DEF LandRead
  <2> QED
    BY <1>a, <2>1, <2>2, <2>5 DEF HistoryTypes
<1>4. ASSUME NEW alert \in Alert, NewAlert(alert)
      PROVE  HistoryTypes'
  <2>1. /\ log' = <<alert>> \o log
        /\ UNCHANGED <<today, limit, wanted, shown, meta, counted, read, moves>>
    BY <1>4 DEF NewAlert
  <2>2. log' \in Seq(Alert)
    BY <1>a, <2>1
  <2> QED
    BY <1>a, <2>1, <2>2 DEF HistoryTypes, ReadTypes
<1>5. CASE Midnight
  <2>1. /\ today < MaxMidnights /\ today' = today + 1
        /\ UNCHANGED <<log, limit, wanted, shown, meta, counted, read, moves>>
    BY <1>5 DEF Midnight
  <2>2. today' \in 0..MaxMidnights
    BY <1>a, <2>1, HistoryNumbers
  <2> QED
    BY <1>a, <2>1, <2>2 DEF HistoryTypes, ReadTypes
<1>6. CASE UNCHANGED historyVars
  BY <1>a, <1>6 DEF historyVars, HistoryTypes, ReadTypes
<1> QED
  BY <1>1, <1>2, <1>3, <1>4, <1>5, <1>6 DEF HistoryNext
-----------------------------------------------------------------------------
(* The settings.  What a call carries, and what it brings back, go by its  *)
(* kind; the password form waits only while its call runs.                 *)

Typed(q) ==
    /\ q.kind = "save" => q.what \in [key : Keys, value : BOOLEAN]
    /\ q.kind = "password" => q.what \in [current : Passwords \ {"short"}, next : Passwords]
    /\ q.kind = "ignore" => q.what \in Observed
    /\ q.answer = "ok" /\ q.kind \in {"read", "save"} => q.got \in [Keys -> BOOLEAN]

Known(q, ids) == q.answer = "ok" /\ q.kind \in {"list", "relist"} => q.got \subseteq ids

AskTypes ==
    /\ ask \in [Asks -> Asked \cup {Nothing}]
    /\ \A a \in Asks : ask[a] # Nothing => Typed(ask[a]) /\ Known(ask[a], used)

PasswordForm == [current : Passwords \cup {Nothing}, next : Passwords \cup {Nothing},
                 same : BOOLEAN, busy : BOOLEAN, done : BOOLEAN, mismatch : BOOLEAN]

FormTypes ==
    /\ form \in PasswordForm
    /\ form.current # Nothing => form.current \in Passwords \ {"short"} /\ form.next \in Passwords

DiscoveredPanel ==
    [rows : SUBSET Observed, loading : BOOLEAN, loaded : BOOLEAN, failed : BOOLEAN]

PanelTypes ==
    /\ panel \in DiscoveredPanel
    /\ panel.rows \subseteq used

AsksPassword(q) == q # Nothing /\ q.kind = "password" /\ q.here
FormWaits == form.busy => \E a \in Asks : AsksPassword(ask[a])

ServerTypes ==
    /\ stored \in [Keys -> BOOLEAN] /\ password \in Passwords \ {"short"}
    /\ found \subseteq used /\ used \subseteq Observed

SwitchTypes ==
    /\ view \in Views \cup {"out"} /\ errors \subseteq {"field", "banner"}
    /\ switches \in [Keys -> BOOLEAN] \cup {Nothing}

SettingsTypes ==
    ServerTypes /\ SwitchTypes /\ AskTypes /\ FormTypes /\ PanelTypes /\ FormWaits

LEMMA EmptyFormTyped == EmptyForm \in PasswordForm /\ EmptyForm.current = Nothing /\ ~EmptyForm.busy
  BY DEF EmptyForm, PasswordForm

LEMMA UnreadPanelTyped == UnreadPanel \in DiscoveredPanel /\ UnreadPanel.rows = {}
  BY DEF UnreadPanel, DiscoveredPanel

LEMMA SettingsStart == WebSettingsInit => SettingsTypes
<1> SUFFICES ASSUME WebSettingsInit PROVE SettingsTypes
  OBVIOUS
<1>1. /\ stored \in [Keys -> BOOLEAN] /\ password = "old"
      /\ used \in SUBSET Observed /\ found = used
      /\ view = "out" /\ switches = Nothing /\ form = EmptyForm /\ errors = {}
      /\ panel = UnreadPanel /\ ask = [a \in Asks |-> Nothing]
  BY DEF WebSettingsInit
<1>2. ServerTypes /\ SwitchTypes
  BY <1>1 DEF ServerTypes, SwitchTypes, Passwords
<1>3. AskTypes
  BY <1>1 DEF AskTypes
<1>4. FormTypes /\ FormWaits /\ PanelTypes
  BY <1>1, EmptyFormTyped, UnreadPanelTyped DEF FormTypes, FormWaits, PanelTypes
<1> QED
  BY <1>2, <1>3, <1>4 DEF SettingsTypes

\* A call that is made now.
LEMMA NewAskTyped ==
    ASSUME NEW kind \in {"read", "save", "password", "list", "relist", "ignore"}, NEW what,
           what \in [key : Keys, value : BOOLEAN]
                      \cup [current : Passwords \ {"short"}, next : Passwords]
                      \cup Observed \cup {Nothing},
           kind = "save" => what \in [key : Keys, value : BOOLEAN],
           kind = "password" => what \in [current : Passwords \ {"short"}, next : Passwords],
           kind = "ignore" => what \in Observed
    PROVE  /\ NewAsk(kind, what) \in Asked /\ NewAsk(kind, what) # Nothing
           /\ NewAsk(kind, what).kind = kind /\ NewAsk(kind, what).here
           /\ NewAsk(kind, what).answer = Nothing
           /\ Typed(NewAsk(kind, what)) /\ \A ids : Known(NewAsk(kind, what), ids)
<1>1. NewAsk(kind, what) \in Asked
  BY DEF NewAsk, Asked
<1>2. NewAsk(kind, what) # Nothing
  BY <1>1, WebSettingsNames
<1>3. /\ NewAsk(kind, what).kind = kind /\ NewAsk(kind, what).here
      /\ NewAsk(kind, what).answer = Nothing /\ NewAsk(kind, what).what = what
  BY DEF NewAsk
<1> QED
  BY <1>1, <1>2, <1>3, WebSettingsNames DEF Typed, Known
\* A call that comes back, or is refused on its way.
LEMMA RespondTyped ==
    ASSUME AskTypes, NEW a \in Asks, ask[a] # Nothing, NEW code \in Codes \cup {"ok"}, NEW got,
           Respond(a, code, got), got \in [Keys -> BOOLEAN] \cup (SUBSET Observed) \cup {Nothing},
           code = "ok" /\ ask[a].kind \in {"read", "save"} => got \in [Keys -> BOOLEAN],
           code = "ok" /\ ask[a].kind \in {"list", "relist"} => got \subseteq used,
           used \subseteq used'
    PROVE  /\ AskTypes'
           /\ \A b \in Asks : AsksPassword(ask[b]) => AsksPassword(ask'[b])
<1> DEFINE q == ask[a]
           new == [q EXCEPT !.answer = code, !.got = got]
<1>1. q \in Asked /\ Typed(q)
  BY DEF AskTypes
<1>2. ask' = [ask EXCEPT ![a] = new]
  BY DEF Respond
<1>3. /\ new \in Asked /\ new.kind = q.kind /\ new.what = q.what /\ new.answer = code
      /\ new.got = got /\ new.here = q.here
  BY <1>1 DEF Asked
<1>4. new # Nothing
  BY <1>3, WebSettingsNames
<1> HIDE DEF new
<1>5. Typed(new) /\ Known(new, used')
  BY <1>1, <1>3 DEF Typed, Known
<1>6. /\ ask' \in [Asks -> Asked \cup {Nothing}] /\ ask'[a] = new
      /\ \A b \in Asks : b # a => ask'[b] = ask[b]
  BY <1>2, <1>3 DEF AskTypes
<1>7. \A b \in Asks : b # a /\ ask'[b] # Nothing => Typed(ask'[b]) /\ Known(ask'[b], used')
  BY <1>6 DEF AskTypes, Known
<1> QED
  BY <1>3, <1>4, <1>5, <1>6, <1>7 DEF AskTypes, AsksPassword

\* A call that is made in a free place, or that lands.
LEMMA AskSetTyped ==
    ASSUME AskTypes, UNCHANGED used, NEW a \in Asks, NEW new \in Asked \cup {Nothing},
           ask' = [ask EXCEPT ![a] = new], new # Nothing => Typed(new) /\ Known(new, used)
    PROVE  /\ AskTypes'
           /\ ask'[a] = new
           /\ \A b \in Asks : b # a => ask'[b] = ask[b]
<1>1. /\ ask' \in [Asks -> Asked \cup {Nothing}] /\ ask'[a] = new
      /\ \A b \in Asks : b # a => ask'[b] = ask[b]
  BY DEF AskTypes
<1>2. \A b \in Asks : b # a /\ ask'[b] # Nothing => Typed(ask'[b]) /\ Known(ask'[b], used')
  BY <1>1 DEF AskTypes
<1> QED
  BY <1>1, <1>2 DEF AskTypes

\* A call whose page, or whose place on it, goes.
LEMMA LeftTyped ==
    ASSUME AskTypes, NEW a \in Asks, ask[a] # Nothing, NEW data \in BOOLEAN, NEW here \in BOOLEAN,
           NEW new, new = [ask[a] EXCEPT !.data = data, !.here = here]
    PROVE  /\ new \in Asked /\ new # Nothing /\ new.kind = ask[a].kind
           /\ Typed(new) /\ Known(new, used)
<1>1. ask[a] \in Asked /\ Typed(ask[a]) /\ Known(ask[a], used)
  BY DEF AskTypes
<1>2. /\ new \in Asked /\ new.kind = ask[a].kind /\ new.what = ask[a].what
      /\ new.answer = ask[a].answer /\ new.got = ask[a].got
  BY <1>1 DEF Asked
<1>3. new # Nothing
  BY <1>2, WebSettingsNames
<1> QED
  BY <1>1, <1>2, <1>3 DEF Typed, Known

\* What the pages keep while nothing of theirs is touched.
LEMMA AbandonedTyped ==
    ASSUME AskTypes
    PROVE  /\ Abandoned \in [Asks -> Asked \cup {Nothing}]
           /\ \A a \in Asks : Abandoned[a] # Nothing =>
                Typed(Abandoned[a]) /\ Known(Abandoned[a], used)
<1> SUFFICES ASSUME NEW a \in Asks
             PROVE  /\ Abandoned[a] \in Asked \cup {Nothing}
                    /\ Abandoned[a] # Nothing => Typed(Abandoned[a]) /\ Known(Abandoned[a], used)
  BY DEF Abandoned
<1>1. CASE ask[a] = Nothing
  BY <1>1 DEF Abandoned
<1>2. CASE ask[a] # Nothing
  <2>1. Abandoned[a] = [ask[a] EXCEPT !.data = FALSE, !.here = FALSE]
    BY <1>2 DEF Abandoned
  <2> QED
    BY <1>2, <2>1, LeftTyped
<1> QED
  BY <1>1, <1>2

\* A page that opens starts afresh, and its reads with it.
LEMMA OpenStep ==
    ASSUME SettingsTypes, NEW p \in Views, Open(p)
    PROVE  SettingsTypes'
<1>1. /\ p \in Views \ {"dialog"}
      /\ view' = p /\ switches' = Nothing /\ form' = EmptyForm /\ errors' = {}
      /\ panel' = UnreadPanel
      /\ UNCHANGED <<stored, password, found, used>>
  BY DEF Open
<1>2. AskTypes
  BY DEF SettingsTypes
<1>3. PICK calls \in [Mounted(p) -> Asks] :
        ask' = [a \in Asks |->
                  IF \E k \in Mounted(p) : calls[k] = a
                    THEN NewAsk(CHOOSE k \in Mounted(p) : calls[k] = a, Nothing)
                    ELSE Abandoned[a]]
  BY DEF Open
<1>4. ASSUME NEW a \in Asks
      PROVE  /\ ask'[a] \in Asked \cup {Nothing}
             /\ ask'[a] # Nothing => Typed(ask'[a]) /\ Known(ask'[a], used)
  <2>1. CASE \E k \in Mounted(p) : calls[k] = a
    <3> DEFINE kind == CHOOSE k \in Mounted(p) : calls[k] = a
    <3>1. kind \in {"read", "list"}
      BY <2>1 DEF Mounted
    <3>2. ask'[a] = NewAsk(kind, Nothing)
      BY <1>3, <2>1
    <3> HIDE DEF kind
    <3> QED
      BY <3>1, <3>2, NewAskTyped
  <2>2. CASE ~\E k \in Mounted(p) : calls[k] = a
    <3>1. ask'[a] = Abandoned[a]
      BY <1>3, <2>2
    <3> QED
      BY <1>2, <3>1, AbandonedTyped
  <2> QED
    BY <2>1, <2>2
<1>5. AskTypes'
  <2>1. ask' = [a \in Asks |-> ask'[a]]
    BY <1>3
  <2>2. ask' \in [Asks -> Asked \cup {Nothing}]
    BY <1>4, <2>1
  <2> QED
    BY <1>1, <1>4, <2>2 DEF AskTypes
<1>6. ServerTypes' /\ SwitchTypes'
  BY <1>1 DEF SettingsTypes, ServerTypes, SwitchTypes
<1>7. FormTypes' /\ FormWaits' /\ PanelTypes'
  BY <1>1, EmptyFormTyped, UnreadPanelTyped DEF FormTypes, FormWaits, PanelTypes
<1> QED
  BY <1>5, <1>6, <1>7 DEF SettingsTypes
\* The dialog and the banners: only calls that save lose their place.
LEMMA CoverStep ==
    ASSUME SettingsTypes, OpenDialog \/ CloseDialog \/ BannerExpires \/ DismissErrors
    PROVE  SettingsTypes'
<1>a. ServerTypes /\ SwitchTypes /\ AskTypes /\ FormTypes /\ PanelTypes /\ FormWaits
  BY DEF SettingsTypes
<1>1. UNCHANGED <<stored, password, found, used, switches, form, panel>>
  BY DEF OpenDialog, CloseDialog, BannerExpires, DismissErrors
<1>2. ServerTypes' /\ FormTypes' /\ PanelTypes'
  BY <1>a, <1>1 DEF ServerTypes, FormTypes, PanelTypes
<1>3. SwitchTypes'
  BY <1>a, <1>1 DEF SwitchTypes, Views, OpenDialog, CloseDialog, BannerExpires, DismissErrors
<1>4. CASE UNCHANGED ask
  BY <1>a, <1>1, <1>2, <1>3, <1>4 DEF SettingsTypes, AskTypes, FormWaits
<1>5. CASE CloseDialog
  <2>1. ask' = [a \in Asks |-> IF ask[a] # Nothing /\ ask[a].kind = "save"
                                 THEN [ask[a] EXCEPT !.here = FALSE] ELSE ask[a]]
    BY <1>5 DEF CloseDialog
  <2>2. ASSUME NEW a \in Asks
        PROVE  /\ ask'[a] \in Asked \cup {Nothing}
               /\ ask'[a] # Nothing => Typed(ask'[a]) /\ Known(ask'[a], used)
               /\ AsksPassword(ask[a]) => AsksPassword(ask'[a])
    <3>1. CASE ask[a] # Nothing /\ ask[a].kind = "save"
      <4>1. ask'[a] = [ask[a] EXCEPT !.here = FALSE] /\ ask[a] \in Asked
        BY <1>a, <2>1, <3>1 DEF AskTypes
      <4>2. /\ ask'[a] = [ask[a] EXCEPT !.data = ask[a].data, !.here = FALSE]
            /\ ask[a].data \in BOOLEAN
        BY <4>1 DEF Asked
      <4>3. \A new : new = [ask[a] EXCEPT !.data = ask[a].data, !.here = FALSE] =>
              new \in Asked /\ new # Nothing /\ Typed(new) /\ Known(new, used)
        BY <1>a, <3>1, <4>2, LeftTyped
      <4> QED
        BY <3>1, <4>2, <4>3 DEF AsksPassword
    <3>2. CASE ~(ask[a] # Nothing /\ ask[a].kind = "save")
      <4>1. ask'[a] = ask[a]
        BY <2>1, <3>2
      <4> QED
        BY <1>a, <4>1 DEF AskTypes
    <3> QED
      BY <3>1, <3>2
  <2>3. ask' \in [Asks -> Asked \cup {Nothing}]
    <3>1. ask' = [a \in Asks |-> ask'[a]]
      BY <2>1
    <3> QED
      BY <2>2, <3>1
  <2>4. AskTypes' /\ FormWaits'
    BY <1>a, <1>1, <2>2, <2>3 DEF AskTypes, FormWaits
  <2> QED
    BY <1>2, <1>3, <2>4 DEF SettingsTypes
<1> QED
  BY <1>4, <1>5 DEF OpenDialog, BannerExpires, DismissErrors

\* What is pressed: the form waits only once its call is made.
LEMMA PressStep ==
    ASSUME SettingsTypes,
           \/ Retype
           \/ \E current \in Passwords \ {"short"}, next \in Passwords, same \in BOOLEAN :
                Type(current, next, same)
           \/ \E a \in Asks :
                \/ SubmitPassword(a)
                \/ \E key \in Keys, value \in BOOLEAN : Flip(a, key, value)
                \/ \E o \in Observed : Ignore(a, o)
    PROVE  SettingsTypes'
<1>a. ServerTypes /\ SwitchTypes /\ AskTypes /\ FormTypes /\ PanelTypes /\ FormWaits
  BY DEF SettingsTypes
<1>b. form \in PasswordForm
  BY <1>a DEF FormTypes
<1>1. CASE Retype
  <2>1. form' = [form EXCEPT !.current = Nothing, !.next = Nothing, !.same = TRUE]
    BY <1>1 DEF Retype
  <2>2. form' \in PasswordForm /\ form'.current = Nothing /\ form'.busy = form.busy
    BY <1>b, <2>1 DEF PasswordForm
  <2>3. UNCHANGED <<stored, password, found, used, view, switches, errors, panel, ask>>
    BY <1>1 DEF Retype
  <2> QED
    BY <1>a, <2>2, <2>3 DEF SettingsTypes, ServerTypes, SwitchTypes, AskTypes, FormTypes,
                             PanelTypes, FormWaits
<1>2. ASSUME NEW current \in Passwords \ {"short"}, NEW next \in Passwords, NEW same \in BOOLEAN,
             Type(current, next, same)
      PROVE  SettingsTypes'
  <2>1. form' = [form EXCEPT !.current = current, !.next = next, !.same = same]
    BY <1>2 DEF Type
  <2>2. /\ form' \in PasswordForm /\ form'.current = current /\ form'.next = next
        /\ form'.busy = form.busy
    BY <1>b, <2>1 DEF PasswordForm
  <2>3. UNCHANGED <<stored, password, found, used, view, switches, errors, panel, ask>>
    BY <1>2 DEF Type
  <2> QED
    BY <1>a, <2>2, <2>3 DEF SettingsTypes, ServerTypes, SwitchTypes, AskTypes, FormTypes,
                             PanelTypes, FormWaits
<1>3. ASSUME NEW a \in Asks, SubmitPassword(a)
      PROVE  SettingsTypes'
  <2>1. /\ UNCHANGED <<stored, password, found, used, view, switches, panel>>
        /\ errors' = {} /\ ~form.busy /\ form.current # Nothing
    BY <1>3 DEF SubmitPassword
  <2>2. ServerTypes' /\ SwitchTypes' /\ PanelTypes'
    BY <1>a, <2>1 DEF ServerTypes, SwitchTypes, PanelTypes
  <2>3. CASE form.same
    <3> DEFINE what == [current |-> form.current, next |-> form.next]
               new == NewAsk("password", what)
    <3>1. /\ ask' = [ask EXCEPT ![a] = new]
          /\ form' = [form EXCEPT !.done = FALSE, !.mismatch = FALSE, !.busy = TRUE]
      BY <1>3, <2>3 DEF SubmitPassword
    <3>2. what \in [current : Passwords \ {"short"}, next : Passwords]
      BY <1>a, <2>1 DEF FormTypes
    <3> HIDE DEF what
    <3>3. /\ new \in Asked /\ new # Nothing /\ new.kind = "password" /\ new.here
          /\ Typed(new) /\ Known(new, used)
      BY <3>2, NewAskTyped
    <3> HIDE DEF new
    <3>4. AskTypes' /\ ask'[a] = new
      BY <1>a, <2>1, <3>1, <3>3, AskSetTyped
    <3>5. FormWaits'
      BY <3>3, <3>4 DEF FormWaits, AsksPassword
    <3>6. form' \in PasswordForm /\ form'.current = form.current /\ form'.next = form.next
      BY <1>b, <3>1 DEF PasswordForm
    <3>7. FormTypes'
      BY <1>a, <3>6 DEF FormTypes
    <3> QED
      BY <2>2, <3>4, <3>5, <3>7 DEF SettingsTypes
  <2>4. CASE ~form.same
    <3>1. form' = [form EXCEPT !.done = FALSE, !.mismatch = TRUE] /\ UNCHANGED ask
      BY <1>3, <2>4 DEF SubmitPassword, Mismatch
    <3>2. /\ form' \in PasswordForm /\ form'.current = form.current /\ form'.next = form.next
          /\ form'.busy = form.busy
      BY <1>b, <3>1 DEF PasswordForm
    <3> QED
      BY <1>a, <2>1, <2>2, <3>1, <3>2 DEF SettingsTypes, AskTypes, FormTypes, FormWaits
  <2> QED
    BY <2>3, <2>4
<1>4. ASSUME NEW a \in Asks, NEW key \in Keys, NEW value \in BOOLEAN, Flip(a, key, value)
      PROVE  SettingsTypes'
  <2> DEFINE what == [key |-> key, value |-> value]
             new == NewAsk("save", what)
  <2>1. /\ UNCHANGED <<stored, password, found, used, view, switches, panel, form>>
        /\ errors' \in {{}, errors} /\ ask[a] = Nothing
        /\ ask' = [ask EXCEPT ![a] = new]
    BY <1>4 DEF Flip
  <2>2. ServerTypes' /\ SwitchTypes' /\ PanelTypes' /\ FormTypes'
    BY <1>a, <2>1 DEF ServerTypes, SwitchTypes, PanelTypes, FormTypes
  <2>3. what \in [key : Keys, value : BOOLEAN]
    OBVIOUS
  <2> HIDE DEF what
  <2>4. new \in Asked /\ new # Nothing /\ Typed(new) /\ Known(new, used)
    BY <2>3, NewAskTyped
  <2> HIDE DEF new
  <2>5. AskTypes' /\ \A b \in Asks : b # a => ask'[b] = ask[b]
    BY <1>a, <2>1, <2>4, AskSetTyped
  <2>6. FormWaits'
    BY <1>a, <2>1, <2>5 DEF FormWaits, AsksPassword
  <2> QED
    BY <2>2, <2>5, <2>6 DEF SettingsTypes
<1>5. ASSUME NEW a \in Asks, NEW o \in Observed, Ignore(a, o)
      PROVE  SettingsTypes'
  <2> DEFINE new == NewAsk("ignore", o)
  <2>1. /\ UNCHANGED <<stored, password, found, used, view, switches, errors, form>>
        /\ panel' = [panel EXCEPT !.rows = @ \ {o}] /\ ask[a] = Nothing
        /\ ask' = [ask EXCEPT ![a] = new]
    BY <1>5 DEF Ignore
  <2>2. ServerTypes' /\ SwitchTypes' /\ FormTypes' /\ PanelTypes'
    BY <1>a, <2>1 DEF ServerTypes, SwitchTypes, PanelTypes, DiscoveredPanel, FormTypes
  <2>3. new \in Asked /\ new # Nothing /\ Typed(new) /\ Known(new, used)
    BY NewAskTyped
  <2> HIDE DEF new
  <2>4. AskTypes' /\ \A b \in Asks : b # a => ask'[b] = ask[b]
    BY <1>a, <2>1, <2>3, AskSetTyped
  <2>5. FormWaits'
    BY <1>a, <2>1, <2>4 DEF FormWaits, AsksPassword
  <2> QED
    BY <2>2, <2>4, <2>5 DEF SettingsTypes
<1> QED
  BY <1>1, <1>2, <1>3, <1>4, <1>5
\* What the server does: a call's answer is of its kind, and ids are never forgotten.
LEMMA SettingsServed ==
    ASSUME SettingsTypes,
           Elsewhere \/ \E a \in Asks :
                          ServeAsk(a) \/ \E code \in {"NETWORK"} \cup SessionEnded : Fail(a, code)
    PROVE  SettingsTypes'
<1>a. ServerTypes /\ SwitchTypes /\ AskTypes /\ FormTypes /\ PanelTypes /\ FormWaits
  BY DEF SettingsTypes
<1>b. UNCHANGED <<view, switches, form, errors, panel>>
  BY DEF Elsewhere, ServeAsk, Fail
<1>c. SwitchTypes' /\ FormTypes'
  BY <1>a, <1>b DEF SwitchTypes, FormTypes
<1>1. CASE Elsewhere
  <2>1. UNCHANGED <<password, ask>>
    BY <1>1 DEF Elsewhere
  <2>2. used \subseteq used' /\ used' \subseteq Observed /\ found' \subseteq used'
    BY <1>a, <1>1 DEF Elsewhere, ServerTypes
  <2>3. stored' \in [Keys -> BOOLEAN]
    <3>1. CASE UNCHANGED stored
      BY <1>a, <3>1 DEF ServerTypes
    <3>2. ASSUME NEW k \in Keys, stored' = [stored EXCEPT ![k] = ~@]
          PROVE  stored' \in [Keys -> BOOLEAN]
      <4>1. (~stored[k]) \in BOOLEAN
        OBVIOUS
      <4> QED
        BY <1>a, <3>2, <4>1 DEF ServerTypes
    <3> QED
      BY <1>1, <3>1, <3>2 DEF Elsewhere
  <2>4. ServerTypes' /\ PanelTypes'
    BY <1>a, <1>b, <2>1, <2>2, <2>3 DEF ServerTypes, PanelTypes
  <2>5. AskTypes' /\ FormWaits'
    BY <1>a, <1>b, <2>1, <2>2 DEF AskTypes, Known, FormWaits
  <2> QED
    BY <1>c, <2>4, <2>5 DEF SettingsTypes
<1>2. ASSUME NEW a \in Asks, ServeAsk(a)
      PROVE  SettingsTypes'
  <2>1. ask[a] # Nothing /\ UNCHANGED used
    BY <1>2 DEF ServeAsk
  <2>2. ask[a] \in Asked /\ Typed(ask[a])
    BY <1>a, <2>1 DEF AskTypes
  <2>3. PanelTypes'
    BY <1>a, <1>b, <2>1 DEF PanelTypes
  <2>4. ASSUME NEW code \in Codes \cup {"ok"}, NEW got, Respond(a, code, got), ServerTypes',
               got \in [Keys -> BOOLEAN] \cup (SUBSET Observed) \cup {Nothing},
               code = "ok" /\ ask[a].kind \in {"read", "save"} => got \in [Keys -> BOOLEAN],
               code = "ok" /\ ask[a].kind \in {"list", "relist"} => got \subseteq used
        PROVE  SettingsTypes'
    <3>1. AskTypes' /\ \A b \in Asks : AsksPassword(ask[b]) => AsksPassword(ask'[b])
      BY <1>a, <2>1, <2>4, RespondTyped
    <3>2. FormWaits'
      BY <1>a, <1>b, <3>1 DEF FormWaits
    <3> QED
      BY <1>c, <2>3, <2>4, <3>1, <3>2 DEF SettingsTypes
  <2>5. CASE ServeSwitches(a)
    <3>1. /\ ask[a].kind \in {"read", "save"} /\ Respond(a, "ok", stored')
          /\ UNCHANGED <<password, found>>
          /\ stored' = IF ask[a].kind = "read" THEN stored
                       ELSE [stored EXCEPT ![ask[a].what.key] = ask[a].what.value]
      BY <2>5 DEF ServeSwitches
    <3>2. stored' \in [Keys -> BOOLEAN]
      <4>1. CASE ask[a].kind = "read"
        BY <1>a, <3>1, <4>1 DEF ServerTypes
      <4>2. CASE ask[a].kind # "read"
        <5>1. ask[a].what.key \in Keys /\ ask[a].what.value \in BOOLEAN
          BY <2>2, <3>1, <4>2 DEF Typed
        <5> QED
          BY <1>a, <3>1, <4>2, <5>1 DEF ServerTypes
      <4> QED
        BY <4>1, <4>2
    <3>3. ServerTypes'
      BY <1>a, <2>1, <3>1, <3>2 DEF ServerTypes
    <3> QED
      BY <2>4, <3>1, <3>2, <3>3
  <2>6. CASE ServePassword(a)
    <3>1. ask[a].kind = "password" /\ UNCHANGED <<stored, found>>
      BY <2>6 DEF ServePassword
    <3>2. ask[a].what.next \in Passwords
      BY <2>2, <3>1 DEF Typed
    <3>3. PICK code \in {"VAL", "AUTH_001", "ok"} :
            /\ Respond(a, code, Nothing)
            /\ password' \in {password, ask[a].what.next}
            /\ password' = "short" => password = "short"
      BY <2>6 DEF ServePassword
    <3>4. ServerTypes'
      BY <1>a, <2>1, <3>1, <3>2, <3>3 DEF ServerTypes
    <3> QED
      BY <2>4, <3>1, <3>3, <3>4 DEF Codes
  <2>7. CASE ServeDiscovered(a)
    <3>1. UNCHANGED <<stored, password>> /\ found' \subseteq found
      BY <2>7 DEF ServeDiscovered
    <3>2. ServerTypes'
      BY <1>a, <2>1, <3>1 DEF ServerTypes
    <3>3. CASE ask[a].kind \in {"list", "relist"} /\ Respond(a, "ok", found)
      <4>1. found \in SUBSET Observed /\ found \subseteq used
        BY <1>a DEF ServerTypes
      <4> QED
        BY <2>4, <3>2, <3>3, <4>1
    <3>4. CASE /\ ask[a].kind = "ignore"
               /\ Respond(a, IF ask[a].what \in found THEN "ok" ELSE "DEVICE_005", Nothing)
      BY <2>4, <3>2, <3>4 DEF Codes
    <3> QED
      BY <2>7, <3>3, <3>4 DEF ServeDiscovered
  <2> QED
    BY <1>2, <2>5, <2>6, <2>7 DEF ServeAsk
<1>3. ASSUME NEW a \in Asks, NEW code \in {"NETWORK"} \cup SessionEnded, Fail(a, code)
      PROVE  SettingsTypes'
  <2>1. /\ ask[a] # Nothing /\ UNCHANGED <<stored, password, found, used>>
        /\ Respond(a, code, Nothing) /\ code \in Codes /\ code # "ok"
    BY <1>3 DEF Fail, Codes, SessionEnded
  <2>2. AskTypes' /\ \A b \in Asks : AsksPassword(ask[b]) => AsksPassword(ask'[b])
    BY <1>a, <2>1, RespondTyped
  <2>3. FormWaits' /\ ServerTypes' /\ PanelTypes'
    BY <1>a, <1>b, <2>1, <2>2 DEF FormWaits, ServerTypes, PanelTypes
  <2> QED
    BY <1>c, <2>2, <2>3 DEF SettingsTypes
<1> QED
  BY <1>1, <1>2, <1>3

\* What lands: only the password's answer, or the end of the session, ends the wait.
LEMMA SettingsLanded ==
    ASSUME SettingsTypes, NEW a \in Asks, LandAsk(a)
    PROVE  SettingsTypes'
<1>a. ServerTypes /\ SwitchTypes /\ AskTypes /\ FormTypes /\ PanelTypes /\ FormWaits
  BY DEF SettingsTypes
<1>b. UNCHANGED <<stored, password, found, used>> /\ ask[a] # Nothing
  BY DEF LandAsk, LandSessionOver, LandSwitches, LandRefusedSwitch, LandPassword, LandFound,
         LandIgnore, Arrived
<1>c. ask[a] \in Asked /\ Typed(ask[a]) /\ Known(ask[a], used)
  BY <1>a, <1>b DEF AskTypes
<1>d. ServerTypes'
  BY <1>a, <1>b DEF ServerTypes
<1>e. \A code : Captured(code) \subseteq {"field", "banner"}
  BY DEF Captured
<1>f. ASSUME Landed(a)
      PROVE  AskTypes' /\ \A b \in Asks : b # a => ask'[b] = ask[b]
  BY <1>a, <1>b, <1>f, AskSetTyped DEF Landed
<1>g. ASSUME \A b \in Asks : b # a => ask'[b] = ask[b], UNCHANGED form, ~AsksPassword(ask[a])
      PROVE  FormTypes' /\ FormWaits'
  BY <1>a, <1>g DEF FormTypes, FormWaits
<1>1. CASE LandSessionOver(a)
  <2>1. /\ ask' = [Abandoned EXCEPT ![a] = Nothing]
        /\ view' = "out" /\ errors' = {} /\ switches' = Nothing
        /\ form' = EmptyForm /\ panel' = UnreadPanel
    BY <1>1 DEF LandSessionOver
  <2>2. /\ ask' \in [Asks -> Asked \cup {Nothing}] /\ ask'[a] = Nothing
        /\ \A b \in Asks : b # a => ask'[b] = Abandoned[b]
    BY <1>a, <2>1, AbandonedTyped
  <2>3. AskTypes'
    BY <1>a, <1>b, <2>2, AbandonedTyped DEF AskTypes
  <2>4. SwitchTypes' /\ FormTypes' /\ FormWaits' /\ PanelTypes'
    BY <2>1, EmptyFormTyped, UnreadPanelTyped DEF SwitchTypes, FormTypes, FormWaits, PanelTypes
  <2> QED
    BY <1>d, <2>3, <2>4 DEF SettingsTypes
<1>2. CASE LandSwitches(a)
  <2>1. /\ ask[a].answer = "ok" /\ ask[a].kind \in {"read", "save"} /\ Landed(a)
        /\ switches' = (IF ask[a].data THEN ask[a].got ELSE switches)
        /\ UNCHANGED <<view, form, errors, panel>>
    BY <1>2 DEF LandSwitches, Arrived
  <2>2. SwitchTypes' /\ PanelTypes'
    BY <1>a, <1>b, <1>c, <2>1 DEF SwitchTypes, PanelTypes, Typed
  <2>3. ~AsksPassword(ask[a])
    BY <2>1 DEF AsksPassword
  <2> QED
    BY <1>d, <1>f, <1>g, <2>1, <2>2, <2>3 DEF SettingsTypes
<1>3. ASSUME NEW code \in Codes \cup {"ok"}, LandRefusedSwitch(a, code)
      PROVE  SettingsTypes'
  <2>1. /\ ask[a].kind \in {"read", "save"} /\ Landed(a)
        /\ errors' \in {Captured(code), errors} /\ UNCHANGED <<view, switches, form, panel>>
    BY <1>3 DEF LandRefusedSwitch
  <2>2. SwitchTypes' /\ PanelTypes'
    BY <1>a, <1>b, <1>e, <2>1 DEF SwitchTypes, PanelTypes
  <2>3. ~AsksPassword(ask[a])
    BY <2>1 DEF AsksPassword
  <2> QED
    BY <1>d, <1>f, <1>g, <2>1, <2>2, <2>3 DEF SettingsTypes
<1>4. ASSUME NEW code \in Codes \cup {"ok"}, LandPassword(a, code)
      PROVE  SettingsTypes'
  <2>1. Landed(a) /\ UNCHANGED <<view, switches, panel>> /\ errors' \in {Captured(code), errors}
    BY <1>4 DEF LandPassword
  <2>2. SwitchTypes' /\ PanelTypes'
    BY <1>a, <1>b, <1>e, <2>1 DEF SwitchTypes, PanelTypes
  <2>3. FormTypes' /\ FormWaits'
    <3>1. CASE ~ask[a].here
      <4>1. UNCHANGED form /\ ~AsksPassword(ask[a])
        BY <1>4, <3>1 DEF LandPassword, AsksPassword
      <4> QED
        BY <1>f, <1>g, <2>1, <4>1
    <3>2. CASE ask[a].here /\ code = "ok"
      <4>1. form' = [EmptyForm EXCEPT !.done = TRUE]
        BY <1>4, <3>2 DEF LandPassword
      <4>2. form' \in PasswordForm /\ form'.current = Nothing /\ ~form'.busy
        BY <4>1, EmptyFormTyped DEF PasswordForm
      <4> QED
        BY <4>2 DEF FormTypes, FormWaits
    <3>3. CASE ask[a].here /\ code # "ok"
      <4>1. form' = [form EXCEPT !.busy = FALSE]
        BY <1>4, <3>3 DEF LandPassword
      <4>2. /\ form' \in PasswordForm /\ form'.current = form.current /\ form'.next = form.next
            /\ ~form'.busy
        BY <1>a, <4>1 DEF FormTypes, PasswordForm
      <4> QED
        BY <1>a, <4>2 DEF FormTypes, FormWaits
    <3> QED
      BY <3>1, <3>2, <3>3
  <2> QED
    BY <1>d, <1>f, <2>1, <2>2, <2>3 DEF SettingsTypes
<1>5. ASSUME NEW code \in Codes \cup {"ok"}, LandFound(a, code)
      PROVE  SettingsTypes'
  <2>1. /\ ask[a].answer = code /\ ask[a].kind \in {"list", "relist"} /\ Landed(a)
        /\ UNCHANGED <<view, switches, form, errors>>
    BY <1>5 DEF LandFound, Arrived
  <2>2. code = "ok" => ask[a].got \subseteq used
    BY <1>c, <2>1 DEF Known
  <2>3. PanelTypes'
    <3> DEFINE shownRows == IF code = "ok" THEN ask[a].got ELSE panel.rows
    <3>1. shownRows \subseteq used /\ used \subseteq Observed
      BY <1>a, <2>2 DEF PanelTypes, ServerTypes
    <3> HIDE DEF shownRows
    <3>2. \/ panel' = panel
          \/ panel' = [rows |-> shownRows, loading |-> FALSE, loaded |-> TRUE,
                       failed |-> code # "ok"]
          \/ panel' = [panel EXCEPT !.rows = shownRows]
      BY <1>5 DEF LandFound, shownRows
    <3>3. CASE panel' = panel
      BY <1>a, <1>b, <3>3 DEF PanelTypes
    <3>4. CASE panel' = [rows |-> shownRows, loading |-> FALSE, loaded |-> TRUE,
                         failed |-> code # "ok"]
      <4>1. shownRows \in SUBSET Observed /\ (code # "ok") \in BOOLEAN
        BY <3>1
      <4> QED
        BY <1>b, <3>1, <3>4, <4>1 DEF PanelTypes, DiscoveredPanel
    <3>5. CASE panel' = [panel EXCEPT !.rows = shownRows]
      BY <1>a, <1>b, <3>1, <3>5 DEF PanelTypes, DiscoveredPanel
    <3> QED
      BY <3>2, <3>3, <3>4, <3>5
  <2>4. ~AsksPassword(ask[a]) /\ SwitchTypes'
    BY <1>a, <2>1 DEF AsksPassword, SwitchTypes
  <2> QED
    BY <1>d, <1>f, <1>g, <2>1, <2>3, <2>4 DEF SettingsTypes
<1>6. ASSUME NEW code \in Codes \cup {"ok"}, LandIgnore(a, code)
      PROVE  SettingsTypes'
  <2>1. ask[a].kind = "ignore" /\ UNCHANGED <<view, switches, form, errors>>
    BY <1>6 DEF LandIgnore
  <2>2. ~AsksPassword(ask[a]) /\ SwitchTypes'
    BY <1>a, <2>1 DEF AsksPassword, SwitchTypes
  <2>3. panel' = panel \/ panel' = [panel EXCEPT !.failed = TRUE]
    BY <1>6 DEF LandIgnore
  <2>4. PanelTypes'
    BY <1>a, <1>b, <2>3 DEF PanelTypes, DiscoveredPanel
  <2>5. AskTypes' /\ \A b \in Asks : b # a => ask'[b] = ask[b]
    <3>1. CASE Landed(a)
      BY <1>f, <3>1
    <3>2. CASE ask' = [ask EXCEPT ![a] = [NewAsk("relist", Nothing) EXCEPT
                                            !.data = ask[a].data, !.here = ask[a].here]]
      <4> DEFINE new == [NewAsk("relist", Nothing) EXCEPT
                           !.data = ask[a].data, !.here = ask[a].here]
      <4>1. NewAsk("relist", Nothing) \in Asked
        BY NewAskTyped
      <4>2. new \in Asked /\ new.kind = "relist" /\ new.answer = Nothing
        BY <1>c, <4>1 DEF Asked, NewAsk
      <4>3. ask' = [ask EXCEPT ![a] = new]
        BY <3>2
      <4> HIDE DEF new
      <4>4. Typed(new) /\ Known(new, used)
        BY <4>2, WebSettingsNames DEF Typed, Known
      <4> QED
        BY <1>a, <1>b, <4>2, <4>3, <4>4, AskSetTyped
    <3> QED
      BY <1>6, <3>1, <3>2 DEF LandIgnore
  <2> QED
    BY <1>d, <1>g, <2>1, <2>2, <2>4, <2>5 DEF SettingsTypes
<1> QED
  BY <1>1, <1>2, <1>3, <1>4, <1>5, <1>6 DEF LandAsk

LEMMA SettingsStep == SettingsTypes /\ [WebSettingsNext]_webSettingsVars => SettingsTypes'
<1> SUFFICES ASSUME SettingsTypes, [WebSettingsNext]_webSettingsVars PROVE SettingsTypes'
  OBVIOUS
<1>1. CASE UNCHANGED webSettingsVars
  <2>1. UNCHANGED <<stored, password, found, used, view, switches, form, errors, panel, ask>>
    BY <1>1 DEF webSettingsVars
  <2> QED
    BY <2>1 DEF SettingsTypes, ServerTypes, SwitchTypes, AskTypes, FormTypes, PanelTypes, FormWaits
<1>2. CASE WebSettingsNext
  BY <1>2, OpenStep, CoverStep, PressStep, SettingsServed, SettingsLanded DEF WebSettingsNext
<1> QED
  BY <1>1, <1>2

\* Every component of the dashboard keeps to its types, whatever the sizes: no page
\* shows more rows than it asks for, no list shows an id that was never given, and
\* the password form never waits for a call that is not there.
THEOREM WebTypesCorrect == WebSpec => []WebTypeOK
<1>1. WebDevicesSpec => []WebDevicesTypeOK
  <2>1. PagesInvariant => WebDevicesTypeOK
    BY DEF PagesInvariant, DevicesTypes, WebDevicesTypeOK
  <2>2. PagesInvariant /\ [WebDevicesNext]_webDevicesVars => PagesInvariant'
    BY PagesSteps
  <2> QED
    BY <2>1, <2>2, PagesStart, PTL DEF WebDevicesSpec
<1>2. HistorySpec => []HistoryTypeOK
  <2>1. HistoryTypes => HistoryTypeOK
    <3> SUFFICES ASSUME HistoryTypes PROVE HistoryTypeOK
      OBVIOUS
    <3>1. wanted \in (-MaxMoves)..(MaxMoves + 1)
      BY HistoryNumbers DEF HistoryTypes
    <3>2. meta # Absent => meta.current \in Nat \ {0} /\ meta.pages \in Nat
      BY DEF HistoryTypes, PageMeta
    <3> QED
      BY <3>1, <3>2 DEF HistoryTypes, HistoryTypeOK
  <2> QED
    BY <2>1, HistoryStart, HistoryStep, PTL DEF HistorySpec
<1>3. WebSettingsSpec => []WebSettingsTypeOK
  <2>1. SettingsTypes => WebSettingsTypeOK
    <3> SUFFICES ASSUME SettingsTypes PROVE WebSettingsTypeOK
      OBVIOUS
    <3>1. \A a \in Asks : ask[a] # Nothing => ask[a].answer \in Codes \cup {"ok", Nothing}
      BY DEF SettingsTypes, AskTypes, Asked
    <3> QED
      BY <3>1 DEF SettingsTypes, ServerTypes, SwitchTypes, PanelTypes, FormWaits, AsksPassword,
                  WebSettingsTypeOK
  <2> QED
    BY <2>1, SettingsStart, SettingsStep, PTL DEF WebSettingsSpec
<1> QED
  BY <1>1, <1>2, <1>3, SessionTypes, WebIsItsParts, PTL DEF WebTypeOK
-----------------------------------------------------------------------------
(* The switches.  A page reads them once, before any can be pressed; what  *)
(* the server answered and has not landed waits in the order it was        *)
(* answered, so the last of it, or what is shown when nothing waits, is    *)
(* what the server stores, until an answer is overtaken or lost.           *)

SwitchCall(a) == ask[a] # Nothing /\ ask[a].kind \in {"read", "save"} /\ ask[a].data
SwitchAnswered(a) == SwitchCall(a) /\ ask[a].answer = "ok"

ReadsFirst ==
    \A a \in Asks : SwitchCall(a) /\ ask[a].kind = "read" =>
      switches = Nothing /\ \A b \in Asks : SwitchCall(b) => b = a

Once(calls) == \A i, j \in 1..Len(calls) : calls[i] = calls[j] => i = j
WaitsIn(calls, a) == \E i \in 1..Len(calls) : calls[i] = a

AnswersInOrder ==
    /\ order \in Seq(Asks) /\ Once(order)
    /\ \A a \in Asks : SwitchAnswered(a) <=> WaitsIn(order, a)

LastIsStored ==
    calm => IF order = <<>> THEN switches \in {stored, Nothing}
            ELSE ask[order[Len(order)]].got = stored

SwitchesInvariant == SettingsTypes /\ ReadsFirst /\ AnswersInOrder /\ LastIsStored

\* An element that is there once is taken from its place.
LEMMA TakenFromItsPlace ==
    ASSUME NEW S, NEW s \in Seq(S), NEW i \in 1..Len(s),
           \A j \in 1..Len(s) : s[j] = s[i] => j = i
    PROVE  RemoveFirst(s, s[i]) = RemoveAt(s, i)
<1> DEFINE I == {j \in 1..Len(s) : s[j] = s[i]}
<1>1. I = {i}
  OBVIOUS
<1>2. Min(I) = i
  BY <1>1 DEF Min
<1>3. SelectInSeq(s, LAMBDA v : v = s[i]) = Min(I)
  BY <1>1 DEF SelectInSeq
<1> QED
  BY <1>2, <1>3 DEF RemoveFirst

\* What stands after the place taken moves up by one.
LEMMA RestMovesUp ==
    ASSUME NEW S, NEW s \in Seq(S), NEW i \in 1..Len(s)
    PROVE  /\ RemoveAt(s, i) \in Seq(S)
           /\ Len(RemoveAt(s, i)) = Len(s) - 1
           /\ \A j \in 1..(Len(s) - 1) : RemoveAt(s, i)[j] = IF j < i THEN s[j] ELSE s[j + 1]
<1>1. Len(s) \in Nat /\ i \in Nat /\ i >= 1 /\ i <= Len(s)
  OBVIOUS
<1> DEFINE before == SubSeq(s, 1, i - 1)
           after == SubSeq(s, i + 1, Len(s))
<1>2. before \in Seq(S) /\ Len(before) = i - 1 /\ \A j \in 1..(i - 1) : before[j] = s[j]
  BY <1>1
<1>3. after \in Seq(S) /\ Len(after) = Len(s) - i /\ \A j \in 1..(Len(s) - i) : after[j] = s[i + j]
  BY <1>1
<1>4. RemoveAt(s, i) = before \o after
  BY DEF RemoveAt
<1> HIDE DEF before, after
<1>5. ASSUME NEW j \in 1..(Len(s) - 1)
      PROVE  RemoveAt(s, i)[j] = IF j < i THEN s[j] ELSE s[j + 1]
  <2>1. CASE j < i
    BY <1>1, <1>2, <1>3, <1>4, <2>1
  <2>2. CASE ~(j < i)
    <3>1. j - (i - 1) \in 1..(Len(s) - i) /\ i + (j - (i - 1)) = j + 1
      BY <1>1, <2>2
    <3>2. RemoveAt(s, i)[j] = after[j - (i - 1)]
      BY <1>1, <1>2, <1>3, <1>4, <2>2
    <3> QED
      BY <1>3, <2>2, <3>1, <3>2
  <2> QED
    BY <2>1, <2>2
<1>6. RemoveAt(s, i) \in Seq(S)
  BY <1>2, <1>3, <1>4
<1>7. Len(RemoveAt(s, i)) = Len(s) - 1
  BY <1>1, <1>2, <1>3, <1>4
<1> QED
  BY <1>5, <1>6, <1>7

\* Of a sequence without repetitions, RemoveFirst leaves the others, in their order.
LEMMA OthersRemain ==
    ASSUME NEW S, NEW s \in Seq(S), Once(s), NEW e
    PROVE  /\ RemoveFirst(s, e) \in Seq(S) /\ Once(RemoveFirst(s, e))
           /\ \A b : WaitsIn(RemoveFirst(s, e), b) <=> b # e /\ WaitsIn(s, b)
           /\ ~WaitsIn(s, e) => RemoveFirst(s, e) = s
           /\ RemoveFirst(s, e) # <<>> /\ s[Len(s)] # e
                => RemoveFirst(s, e)[Len(RemoveFirst(s, e))] = s[Len(s)]
           /\ RemoveFirst(s, e) = <<>> => s = <<>> \/ (Len(s) = 1 /\ s[1] = e)
<1> DEFINE rest == RemoveFirst(s, e)
<1>a. rest = RemoveFirst(s, e)
  OBVIOUS
<1> HIDE DEF rest
<1>1. CASE ~WaitsIn(s, e)
  <2>1. rest = s
    BY <1>1, <1>a DEF WaitsIn, RemoveFirst
  <2> QED
    BY <1>1, <1>a, <2>1
<1>2. CASE WaitsIn(s, e)
  <2>1. PICK i \in 1..Len(s) : s[i] = e
    BY <1>2 DEF WaitsIn
  <2>2. \A j \in 1..Len(s) : s[j] = s[i] => j = i
    BY DEF Once
  <2>3. rest = RemoveAt(s, i)
    BY <1>a, <2>1, <2>2, TakenFromItsPlace
  <2>4. /\ rest \in Seq(S) /\ Len(rest) = Len(s) - 1
        /\ \A j \in 1..(Len(s) - 1) : rest[j] = IF j < i THEN s[j] ELSE s[j + 1]
    BY <2>3, RestMovesUp
  <2>5. Len(s) \in Nat /\ i \in Nat /\ i >= 1 /\ i <= Len(s)
    OBVIOUS
  <2> DEFINE from(j) == IF j < i THEN j ELSE j + 1
  <2>6. \A j \in 1..Len(rest) : from(j) \in 1..Len(s) /\ from(j) # i /\ rest[j] = s[from(j)]
    BY <2>4, <2>5
  <2>7. \A j, k \in 1..Len(rest) : from(j) = from(k) => j = k
    BY <2>4, <2>5
  <2>8. \A k \in 1..Len(s) : k # i => \E j \in 1..Len(rest) : from(j) = k
    <3> SUFFICES ASSUME NEW k \in 1..Len(s), k # i
                 PROVE  \E j \in 1..Len(rest) : from(j) = k
      OBVIOUS
    <3>1. CASE k < i
      BY <2>4, <2>5, <3>1
    <3>2. CASE k > i
      <4>1. k - 1 \in 1..Len(rest) /\ from(k - 1) = k
        BY <2>4, <2>5, <3>2
      <4> QED
        BY <4>1
    <3> QED
      BY <2>5, <3>1, <3>2
  <2>9. rest # <<>> /\ s[Len(s)] # e => rest[Len(rest)] = s[Len(s)]
    <3> SUFFICES ASSUME rest # <<>>, s[Len(s)] # e PROVE rest[Len(rest)] = s[Len(s)]
      OBVIOUS
    <3>1. Len(rest) >= 1 /\ Len(s) # i
      BY <2>1, <2>4
    <3>2. Len(rest) \in 1..(Len(s) - 1) /\ ~(Len(rest) < i) /\ Len(rest) + 1 = Len(s)
      BY <2>4, <2>5, <3>1
    <3> QED
      BY <2>4, <3>2
  <2>10. rest = <<>> => Len(s) = 1 /\ s[1] = e
    <3> SUFFICES ASSUME rest = <<>> PROVE Len(s) = 1 /\ s[1] = e
      OBVIOUS
    <3>1. Len(rest) = 0
      OBVIOUS
    <3>2. 0 = Len(s) - 1
      BY <2>4, <3>1
    <3>3. Len(s) = 1
      BY <2>5, <3>2
    <3>4. i = 1
      BY <2>5, <3>3
    <3> QED
      BY <2>1, <3>3, <3>4
  <2> HIDE DEF from
  <2>11. Once(rest)
    BY <2>6, <2>7 DEF Once
  <2>12. ASSUME NEW b
         PROVE  WaitsIn(rest, b) <=> b # e /\ WaitsIn(s, b)
    <3>1. ASSUME NEW j \in 1..Len(rest), rest[j] = b
          PROVE  b # e /\ WaitsIn(s, b)
      BY <2>1, <2>6, <3>1 DEF Once, WaitsIn
    <3>2. ASSUME b # e, NEW k \in 1..Len(s), s[k] = b
          PROVE  WaitsIn(rest, b)
      BY <2>1, <2>6, <2>8, <3>2 DEF WaitsIn
    <3> QED
      BY <3>1, <3>2 DEF WaitsIn
  <2> QED
    BY <1>2, <1>a, <2>4, <2>9, <2>10, <2>11, <2>12
<1> QED
  BY <1>1, <1>2
-----------------------------------------------------------------------------
LEMMA SwitchesStart == WebSettingsInit => SwitchesInvariant
<1> SUFFICES ASSUME WebSettingsInit PROVE SwitchesInvariant
  OBVIOUS
<1>1. SettingsTypes
  BY SettingsStart
<1>2. \A a \in Asks : ~SwitchCall(a)
  BY DEF WebSettingsInit, SwitchCall
<1>3. order = <<>> /\ switches = Nothing
  BY DEF WebSettingsInit
<1>4. AnswersInOrder
  BY <1>2, <1>3 DEF AnswersInOrder, SwitchAnswered, Once, WaitsIn
<1> QED
  BY <1>1, <1>2, <1>3, <1>4 DEF SwitchesInvariant, ReadsFirst, LastIsStored

\* A step that answers nothing about the switches and lands nothing of it.
LEMMA SwitchesUndisturbed ==
    ASSUME SwitchesInvariant, SettingsTypes', ReadsFirst',
           UNCHANGED <<stored, switches, order>>, calm' => calm,
           \A a \in Asks : SwitchAnswered(a)' <=> SwitchAnswered(a),
           \A a \in Asks : SwitchAnswered(a) => ask'[a].got = ask[a].got
    PROVE  SwitchesInvariant'
<1>1. AnswersInOrder /\ LastIsStored
  BY DEF SwitchesInvariant
<1>2. AnswersInOrder'
  BY <1>1 DEF AnswersInOrder
<1>3. LastIsStored'
  <2>1. CASE order = <<>>
    BY <1>1, <2>1 DEF LastIsStored
  <2>2. CASE order # <<>>
    <3>1. Len(order) \in 1..Len(order) /\ order[Len(order)] \in Asks
      BY <1>1, <2>2 DEF AnswersInOrder
    <3>2. SwitchAnswered(order[Len(order)])
      BY <1>1, <3>1 DEF AnswersInOrder, WaitsIn
    <3> QED
      BY <1>1, <2>2, <3>1, <3>2 DEF LastIsStored
  <2> QED
    BY <2>1, <2>2
<1> QED
  BY <1>2, <1>3 DEF SwitchesInvariant

\* No read of the switches is made, and none is taken up again.
LEMMA ReadsStayFirst ==
    ASSUME ReadsFirst, UNCHANGED switches,
           \A a \in Asks : SwitchCall(a)' => SwitchCall(a) /\ ask'[a].kind = ask[a].kind
    PROVE  ReadsFirst'
<1> SUFFICES ASSUME NEW a \in Asks, SwitchCall(a)', ask'[a].kind = "read"
             PROVE  switches' = Nothing /\ \A b \in Asks : SwitchCall(b)' => b = a
  BY DEF ReadsFirst
<1>1. SwitchCall(a) /\ ask[a].kind = "read"
  OBVIOUS
<1>2. switches = Nothing /\ \A b \in Asks : SwitchCall(b) => b = a
  BY <1>1 DEF ReadsFirst
<1> QED
  BY <1>2

\* Nothing of the switches' calls changes, or one that has no answer goes.
LEMMA OtherCallsMove ==
    ASSUME SwitchesInvariant, SettingsTypes', UNCHANGED <<stored, switches, order>>, calm' => calm,
           \A a \in Asks : SwitchCall(a)' => SwitchCall(a),
           \A a \in Asks : SwitchAnswered(a) => SwitchCall(a)',
           \A a \in Asks : SwitchCall(a)' =>
             /\ ask'[a].kind = ask[a].kind /\ ask'[a].answer = ask[a].answer
             /\ ask'[a].got = ask[a].got
    PROVE  SwitchesInvariant'
<1>1. ReadsFirst'
  BY ReadsStayFirst DEF SwitchesInvariant
<1>2. ASSUME NEW a \in Asks PROVE SwitchAnswered(a)' <=> SwitchAnswered(a)
  BY DEF SwitchAnswered
<1>3. ASSUME NEW a \in Asks, SwitchAnswered(a) PROVE ask'[a].got = ask[a].got
  BY <1>3
<1> QED
  BY <1>1, <1>2, <1>3, SwitchesUndisturbed
\* A page that opens reads the switches anew, if it shows them, and waits for nothing else.
LEMMA OpenSwitches ==
    ASSUME SwitchesInvariant, SettingsTypes', NEW p \in Views, Open(p)
    PROVE  SwitchesInvariant'
<1>1. order' = <<>> /\ switches' = Nothing
  BY DEF Open
<1>2. PICK calls \in [Mounted(p) -> Asks] :
        ask' = [a \in Asks |->
                  IF \E k \in Mounted(p) : calls[k] = a
                    THEN NewAsk(CHOOSE k \in Mounted(p) : calls[k] = a, Nothing)
                    ELSE Abandoned[a]]
  BY DEF Open
<1>3. ASSUME NEW a \in Asks, SwitchCall(a)'
      PROVE  "read" \in Mounted(p) /\ a = calls["read"] /\ ask'[a].answer = Nothing
  <2>1. CASE \E k \in Mounted(p) : calls[k] = a
    <3> DEFINE kind == CHOOSE k \in Mounted(p) : calls[k] = a
    <3>1. kind \in Mounted(p) /\ calls[kind] = a
      BY <2>1
    <3>2. ask'[a] = NewAsk(kind, Nothing)
      BY <1>2, <2>1
    <3> HIDE DEF kind
    <3>3. ask'[a].kind = kind /\ ask'[a].answer = Nothing
      BY <3>2 DEF NewAsk
    <3>4. kind = "read"
      BY <1>3, <3>1, <3>3 DEF SwitchCall, Mounted
    <3> QED
      BY <3>1, <3>3, <3>4
  <2>2. CASE ~\E k \in Mounted(p) : calls[k] = a
    <3>1. ask'[a] = Abandoned[a]
      BY <1>2, <2>2
    <3>2. ask[a] # Nothing => ask[a] \in Asked
      BY DEF SwitchesInvariant, SettingsTypes, AskTypes
    <3>3. ask'[a] = Nothing \/ ~ask'[a].data
      BY <3>1, <3>2 DEF Abandoned, Asked
    <3> QED
      BY <1>3, <3>3 DEF SwitchCall
  <2> QED
    BY <2>1, <2>2
<1>4. ASSUME NEW a \in Asks PROVE ~SwitchAnswered(a)'
  BY <1>3, WebSettingsNames DEF SwitchAnswered
<1>5. AnswersInOrder'
  BY <1>1, <1>4 DEF AnswersInOrder, Once, WaitsIn
<1>6. ReadsFirst' /\ LastIsStored'
  BY <1>1, <1>3 DEF ReadsFirst, LastIsStored
<1> QED
  BY <1>5, <1>6 DEF SwitchesInvariant

\* Everything else that is pressed, a switch included, leaves what was answered.
LEMMA PressedSwitches ==
    ASSUME SwitchesInvariant, SettingsTypes',
           \/ OpenDialog \/ CloseDialog \/ BannerExpires \/ DismissErrors \/ Retype
           \/ \E current \in Passwords \ {"short"}, next \in Passwords, same \in BOOLEAN :
                Type(current, next, same)
           \/ \E a \in Asks :
                \/ SubmitPassword(a)
                \/ \E key \in Keys, value \in BOOLEAN : Flip(a, key, value)
                \/ \E o \in Observed : Ignore(a, o)
    PROVE  SwitchesInvariant'
<1>a. AskTypes
  BY DEF SwitchesInvariant, SettingsTypes
<1>b. ReadsFirst
  BY DEF SwitchesInvariant
<1>1. UNCHANGED <<stored, switches, order, calm>>
  <2>1. CASE OpenDialog \/ CloseDialog \/ BannerExpires \/ DismissErrors \/ Retype
    BY <2>1 DEF OpenDialog, CloseDialog, BannerExpires, DismissErrors, Retype
  <2>2. ASSUME NEW current \in Passwords \ {"short"}, NEW next \in Passwords, NEW same \in BOOLEAN,
               Type(current, next, same)
        PROVE  UNCHANGED <<stored, switches, order, calm>>
    BY <2>2 DEF Type
  <2>3. ASSUME NEW a \in Asks,
               \/ SubmitPassword(a)
               \/ \E key \in Keys, value \in BOOLEAN : Flip(a, key, value)
               \/ \E o \in Observed : Ignore(a, o)
        PROVE  UNCHANGED <<stored, switches, order, calm>>
    BY <2>3 DEF SubmitPassword, Flip, Ignore
  <2> QED
    BY <2>1, <2>2, <2>3
<1>2. CASE UNCHANGED ask
  BY <1>1, <1>2, OtherCallsMove DEF SwitchCall, SwitchAnswered
<1>3. CASE CloseDialog
  <2>1. ask' = [a \in Asks |-> IF ask[a] # Nothing /\ ask[a].kind = "save"
                                 THEN [ask[a] EXCEPT !.here = FALSE] ELSE ask[a]]
    BY <1>3 DEF CloseDialog
  <2>2. ASSUME NEW a \in Asks
        PROVE  /\ SwitchCall(a)' <=> SwitchCall(a)
               /\ ask'[a] = Nothing \/
                    /\ ask'[a].kind = ask[a].kind /\ ask'[a].answer = ask[a].answer
                    /\ ask'[a].got = ask[a].got
    <3>1. CASE ask[a] # Nothing /\ ask[a].kind = "save"
      <4>1. ask'[a] = [ask[a] EXCEPT !.here = FALSE] /\ ask[a] \in Asked
        BY <1>a, <2>1, <3>1 DEF AskTypes
      <4>2. /\ ask'[a] \in Asked /\ ask'[a].kind = ask[a].kind /\ ask'[a].answer = ask[a].answer
            /\ ask'[a].got = ask[a].got /\ ask'[a].data = ask[a].data
        BY <4>1 DEF Asked
      <4>3. ask'[a] # Nothing
        BY <4>2, WebSettingsNames
      <4> QED
        BY <3>1, <4>2, <4>3 DEF SwitchCall
    <3>2. CASE ~(ask[a] # Nothing /\ ask[a].kind = "save")
      <4>1. ask'[a] = ask[a]
        BY <2>1, <3>2
      <4> QED
        BY <4>1 DEF SwitchCall
    <3> QED
      BY <3>1, <3>2
  <2> QED
    BY <1>1, <2>2, OtherCallsMove DEF SwitchCall, SwitchAnswered
<1>4. ASSUME NEW a \in Asks, NEW kind \in {"password", "ignore"}, NEW what, ask[a] = Nothing,
             ask' = [ask EXCEPT ![a] = NewAsk(kind, what)]
      PROVE  SwitchesInvariant'
  <2>1. ask'[a].kind = kind /\ \A b \in Asks : b # a => ask'[b] = ask[b]
    BY <1>a, <1>4 DEF AskTypes, NewAsk
  <2>2. ~SwitchCall(a) /\ ~SwitchCall(a)'
    BY <1>4, <2>1 DEF SwitchCall
  <2>3. \A b \in Asks : b # a => (SwitchCall(b)' <=> SwitchCall(b))
    BY <2>1 DEF SwitchCall
  <2> QED
    BY <1>1, <2>1, <2>2, <2>3, OtherCallsMove DEF SwitchAnswered
<1>5. ASSUME NEW a \in Asks, NEW key \in Keys, NEW value \in BOOLEAN, Flip(a, key, value)
      PROVE  SwitchesInvariant'
  <2>1. /\ switches # Nothing /\ ask[a] = Nothing
        /\ ask' = [ask EXCEPT ![a] = NewAsk("save", [key |-> key, value |-> value])]
    BY <1>5 DEF Flip
  <2>2. /\ ask'[a].kind = "save" /\ ask'[a].answer = Nothing
        /\ \A b \in Asks : b # a => ask'[b] = ask[b]
    BY <1>a, <2>1 DEF AskTypes, NewAsk
  <2>3. \A b \in Asks : b # a => (SwitchCall(b)' <=> SwitchCall(b))
    BY <2>2 DEF SwitchCall
  <2>4. \A b \in Asks : SwitchCall(b) => ask[b].kind # "read"
    BY <1>b, <2>1 DEF ReadsFirst
  <2>5. ReadsFirst'
    BY <2>2, <2>3, <2>4 DEF ReadsFirst
  <2>6. ~SwitchAnswered(a) /\ ~SwitchAnswered(a)'
    BY <2>1, <2>2, WebSettingsNames DEF SwitchAnswered, SwitchCall
  <2>7. \A b \in Asks : SwitchAnswered(b)' <=> SwitchAnswered(b)
    BY <2>2, <2>3, <2>6 DEF SwitchAnswered
  <2>8. \A b \in Asks : SwitchAnswered(b) => ask'[b].got = ask[b].got
    BY <2>2, <2>6
  <2> QED
    BY <1>1, <2>5, <2>7, <2>8, SwitchesUndisturbed
<1>6. ASSUME NEW a \in Asks, SubmitPassword(a)
      PROVE  SwitchesInvariant'
  BY <1>2, <1>4, <1>6 DEF SubmitPassword
<1>7. ASSUME NEW a \in Asks, NEW o \in Observed, Ignore(a, o)
      PROVE  SwitchesInvariant'
  BY <1>4, <1>7 DEF Ignore
<1>8. ASSUME NEW current \in Passwords \ {"short"}, NEW next \in Passwords, NEW same \in BOOLEAN,
             Type(current, next, same)
      PROVE  SwitchesInvariant'
  BY <1>2, <1>8 DEF Type
<1>9. CASE OpenDialog \/ BannerExpires \/ DismissErrors \/ Retype
  BY <1>2, <1>9 DEF OpenDialog, BannerExpires, DismissErrors, Retype
<1> QED
  BY <1>3, <1>5, <1>6, <1>7, <1>8, <1>9
\* What is answered is put after what was: no call waits twice.
LEMMA AnsweredLast ==
    ASSUME AnswersInOrder, NEW a \in Asks, ~SwitchAnswered(a), SwitchAnswered(a)',
           order' = Append(order, a),
           \A b \in Asks : b # a => (SwitchAnswered(b)' <=> SwitchAnswered(b))
    PROVE  AnswersInOrder' /\ order' # <<>> /\ order'[Len(order')] = a
<1>1. order \in Seq(Asks) /\ Len(order) \in Nat
  BY DEF AnswersInOrder
<1>2. /\ order' \in Seq(Asks) /\ Len(order') = Len(order) + 1 /\ order'[Len(order) + 1] = a
      /\ \A i \in 1..Len(order) : order'[i] = order[i]
  BY <1>1
<1>3. \A i \in 1..Len(order) : order[i] # a
  BY DEF AnswersInOrder, WaitsIn
<1>4. \A i \in 1..Len(order') : i \in 1..Len(order) \/ i = Len(order) + 1
  BY <1>1, <1>2
<1>5. Once(order')
  BY <1>2, <1>3, <1>4 DEF AnswersInOrder, Once
<1>6. ASSUME NEW b \in Asks
      PROVE  SwitchAnswered(b)' <=> WaitsIn(order', b)
  <2>1. Len(order) + 1 \in 1..Len(order') /\ \A i \in 1..Len(order) : i \in 1..Len(order')
    BY <1>1, <1>2
  <2>2. CASE b = a
    BY <1>2, <2>1, <2>2 DEF WaitsIn
  <2>3. CASE b # a
    <3>1. SwitchAnswered(b)' <=> WaitsIn(order, b)
      BY <2>3 DEF AnswersInOrder
    <3>2. WaitsIn(order, b) <=> WaitsIn(order', b)
      BY <1>2, <1>4, <2>1, <2>3 DEF WaitsIn
    <3> QED
      BY <3>1, <3>2
  <2> QED
    BY <2>2, <2>3
<1>7. order' # <<>>
  BY <1>1, <1>2
<1> QED
  BY <1>2, <1>5, <1>6, <1>7 DEF AnswersInOrder

\* The switches' calls that the server answers.
LEMMA ServedSwitches ==
    ASSUME SwitchesInvariant, SettingsTypes', NEW a \in Asks, ServeAsk(a), ServeSwitches(a)
    PROVE  SwitchesInvariant'
<1> DEFINE q == ask[a]
<1>1. /\ q # Nothing /\ q.answer = Nothing /\ q.kind \in {"read", "save"} /\ UNCHANGED switches
      /\ Respond(a, "ok", stored')
      /\ order' = IF q.data THEN Append(order, a) ELSE order
      /\ q.kind = "read" => stored' = stored
  BY DEF ServeAsk, ServeSwitches
<1>2. calm' => calm /\ (q.data \/ q.kind = "read")
  BY DEF ServeSwitches
<1>3. q \in Asked /\ ask \in [Asks -> Asked \cup {Nothing}]
  BY <1>1 DEF SwitchesInvariant, SettingsTypes, AskTypes
<1>4. /\ ask'[a] = [q EXCEPT !.answer = "ok", !.got = stored']
      /\ \A b \in Asks : b # a => ask'[b] = ask[b]
  BY <1>1, <1>3 DEF Respond
<1>5. /\ ask'[a].kind = q.kind /\ ask'[a].data = q.data /\ ask'[a].answer = "ok"
      /\ ask'[a].got = stored'
  BY <1>3, <1>4 DEF Asked
<1>6. ask'[a] # Nothing
  <2>1. stored' \in [Keys -> BOOLEAN]
    BY DEF SettingsTypes, ServerTypes
  <2>2. ask'[a] \in Asked
    BY <1>3, <1>4, <2>1 DEF Asked
  <2> QED
    BY <2>2, WebSettingsNames
<1>7. SwitchCall(a) <=> q.data
  BY <1>1 DEF SwitchCall
<1>8. /\ SwitchCall(a)' <=> q.data
      /\ \A b \in Asks : b # a => (SwitchCall(b)' <=> SwitchCall(b))
  BY <1>1, <1>4, <1>5, <1>6 DEF SwitchCall
<1>9. ReadsFirst'
  <2>1. \A b \in Asks : SwitchCall(b)' => SwitchCall(b) /\ ask'[b].kind = ask[b].kind
    BY <1>4, <1>5, <1>7, <1>8
  <2> QED
    BY <1>1, <2>1, ReadsStayFirst DEF SwitchesInvariant
<1>10. /\ ~SwitchAnswered(a)
       /\ \A b \in Asks : b # a => (SwitchAnswered(b)' <=> SwitchAnswered(b))
  BY <1>1, <1>4, <1>8, WebSettingsNames DEF SwitchAnswered
<1>11. CASE q.data
  <2>1. SwitchAnswered(a)' /\ order' = Append(order, a)
    BY <1>1, <1>5, <1>8, <1>11 DEF SwitchAnswered
  <2>2. AnswersInOrder' /\ order' # <<>> /\ order'[Len(order')] = a
    BY <1>10, <2>1, AnsweredLast DEF SwitchesInvariant
  <2>3. LastIsStored'
    BY <1>5, <2>2 DEF LastIsStored
  <2> QED
    BY <1>9, <2>2, <2>3 DEF SwitchesInvariant
<1>12. CASE ~q.data
  <2>1. ~SwitchAnswered(a)' /\ UNCHANGED order
    BY <1>1, <1>8, <1>12 DEF SwitchAnswered
  <2>2. /\ \A b \in Asks : SwitchAnswered(b)' <=> SwitchAnswered(b)
        /\ \A b \in Asks : SwitchAnswered(b) => ask'[b].got = ask[b].got
    BY <1>4, <1>10, <2>1
  <2>3. CASE UNCHANGED stored
    BY <1>1, <1>2, <1>9, <2>1, <2>2, <2>3, SwitchesUndisturbed
  <2>4. CASE q.kind # "read"
    <3>1. LastIsStored'
      BY <1>2, <1>12, <2>4 DEF LastIsStored
    <3>2. AnswersInOrder'
      BY <2>1, <2>2 DEF SwitchesInvariant, AnswersInOrder
    <3> QED
      BY <1>9, <3>1, <3>2 DEF SwitchesInvariant
  <2> QED
    BY <1>1, <2>3, <2>4
<1> QED
  BY <1>11, <1>12
\* A call that fails: an answer that is lost waits no longer.
LEMMA FailedSwitches ==
    ASSUME SwitchesInvariant, SettingsTypes', NEW a \in Asks,
           NEW code \in {"NETWORK"} \cup SessionEnded, Fail(a, code)
    PROVE  SwitchesInvariant'
<1> DEFINE q == ask[a]
<1>a. ReadsFirst /\ AnswersInOrder /\ LastIsStored /\ SettingsTypes
  BY DEF SwitchesInvariant
<1>1. /\ q # Nothing /\ code # "ok" /\ Respond(a, code, Nothing)
      /\ UNCHANGED <<stored, switches>> /\ order' = RemoveFirst(order, a)
  BY DEF Fail, SessionEnded
<1>2. calm' => calm /\ ~(q.kind = "save" /\ q.answer = "ok")
  BY DEF Fail
<1>3. q \in Asked /\ ask \in [Asks -> Asked \cup {Nothing}]
  BY <1>a, <1>1 DEF SettingsTypes, AskTypes
<1>4. /\ ask'[a] = [q EXCEPT !.answer = code, !.got = Nothing]
      /\ \A b \in Asks : b # a => ask'[b] = ask[b]
  BY <1>1, <1>3 DEF Respond
<1>5. ask'[a].kind = q.kind /\ ask'[a].data = q.data /\ ask'[a].answer = code
  BY <1>3, <1>4 DEF Asked
<1>6. \A b \in Asks : SwitchCall(b)' => SwitchCall(b) /\ ask'[b].kind = ask[b].kind
  BY <1>1, <1>4, <1>5 DEF SwitchCall
<1>7. ReadsFirst'
  BY <1>a, <1>1, <1>6, ReadsStayFirst
<1>8. /\ ~SwitchAnswered(a)'
      /\ \A b \in Asks : b # a => (SwitchAnswered(b)' <=> SwitchAnswered(b))
  BY <1>1, <1>4, <1>5 DEF SwitchAnswered, SwitchCall
<1>9. /\ order' \in Seq(Asks) /\ Once(order')
      /\ \A b : WaitsIn(order', b) <=> b # a /\ WaitsIn(order, b)
      /\ ~WaitsIn(order, a) => order' = order
  BY <1>a, <1>1, OthersRemain DEF AnswersInOrder
<1>10. AnswersInOrder'
  BY <1>a, <1>8, <1>9 DEF AnswersInOrder
<1>11. CASE ~SwitchAnswered(a)
  <2>1. UNCHANGED order
    BY <1>a, <1>9, <1>11 DEF AnswersInOrder
  <2>2. \A b \in Asks : SwitchAnswered(b)' <=> SwitchAnswered(b)
    BY <1>8, <1>11
  <2>3. \A b \in Asks : SwitchAnswered(b) => ask'[b].got = ask[b].got
    BY <1>4, <1>11
  <2>4. calm' => calm
    BY <1>2
  <2> QED
    BY <1>1, <1>7, <2>1, <2>2, <2>3, <2>4, SwitchesUndisturbed
<1>12. CASE SwitchAnswered(a)
  <2>1. SwitchCall(a) /\ q.answer = "ok" /\ q.kind \in {"read", "save"}
    BY <1>12 DEF SwitchAnswered, SwitchCall
  <2>2. CASE q.kind = "save"
    <3>1. LastIsStored'
      BY <1>2, <2>1, <2>2 DEF LastIsStored
    <3> QED
      BY <1>7, <1>10, <3>1 DEF SwitchesInvariant
  <2>3. CASE q.kind = "read"
    <3>1. switches = Nothing /\ \A b \in Asks : SwitchCall(b) => b = a
      BY <1>a, <2>1, <2>3 DEF ReadsFirst
    <3>2. \A b \in Asks : ~WaitsIn(order', b)
      BY <1>a, <1>9, <3>1 DEF AnswersInOrder, SwitchAnswered
    <3>3. \A i \in 1..Len(order') : order'[i] \in Asks
      BY <1>9
    <3>4. order' = <<>>
      <4>1. Len(order') \in Nat
        BY <1>9
      <4>2. ~(Len(order') >= 1)
        BY <3>2, <3>3, <4>1 DEF WaitsIn
      <4>3. Len(order') = 0
        BY <4>1, <4>2
      <4> QED
        BY <1>9, <4>3
    <3>5. LastIsStored'
      BY <1>1, <3>1, <3>4 DEF LastIsStored
    <3> QED
      BY <1>7, <1>10, <3>5 DEF SwitchesInvariant
  <2> QED
    BY <2>1, <2>2, <2>3
<1> QED
  BY <1>11, <1>12

\* A change from elsewhere ends the calm; the other calls' answers are not of the switches.
LEMMA SwitchesServed ==
    ASSUME SwitchesInvariant, SettingsTypes',
           Elsewhere \/ \E a \in Asks :
                          ServeAsk(a) \/ \E code \in {"NETWORK"} \cup SessionEnded : Fail(a, code)
    PROVE  SwitchesInvariant'
<1>1. CASE Elsewhere
  <2>1. UNCHANGED <<ask, switches, order>>
    BY <1>1 DEF Elsewhere
  <2>2. UNCHANGED <<stored, calm>> \/ calm' = FALSE
    BY <1>1 DEF Elsewhere
  <2>3. CASE UNCHANGED <<stored, calm>>
    BY <2>1, <2>3, OtherCallsMove DEF SwitchCall, SwitchAnswered
  <2>4. CASE calm' = FALSE
    BY <2>1, <2>4 DEF SwitchesInvariant, ReadsFirst, AnswersInOrder, LastIsStored, SwitchAnswered,
                      SwitchCall
  <2> QED
    BY <2>2, <2>3, <2>4
<1>2. ASSUME NEW a \in Asks, ServeAsk(a)
      PROVE  SwitchesInvariant'
  <2>1. CASE ServeSwitches(a)
    BY <1>2, <2>1, ServedSwitches
  <2>2. CASE ServePassword(a) \/ ServeDiscovered(a)
    <3>1. /\ ask[a].kind \notin {"read", "save"} /\ UNCHANGED <<stored, switches, order, calm>>
          /\ \E code, got : Respond(a, code, got)
      BY <1>2, <2>2 DEF ServeAsk, ServePassword, ServeDiscovered
    <3>2. PICK code, got : Respond(a, code, got)
      BY <3>1
    <3>3. ask[a] \in Asked /\ ask \in [Asks -> Asked \cup {Nothing}]
      BY <1>2 DEF ServeAsk, SwitchesInvariant, SettingsTypes, AskTypes
    <3>4. /\ ask'[a] = [ask[a] EXCEPT !.answer = code, !.got = got]
          /\ \A b \in Asks : b # a => ask'[b] = ask[b]
      BY <3>2, <3>3 DEF Respond
    <3>5. ask'[a].kind = ask[a].kind
      BY <3>3, <3>4 DEF Asked
    <3>6. ~SwitchCall(a) /\ ~SwitchCall(a)'
      BY <3>1, <3>5 DEF SwitchCall
    <3>7. \A b \in Asks : b # a => (SwitchCall(b)' <=> SwitchCall(b))
      BY <3>4 DEF SwitchCall
    <3> QED
      BY <3>1, <3>4, <3>6, <3>7, OtherCallsMove DEF SwitchAnswered
  <2> QED
    BY <1>2, <2>1, <2>2 DEF ServeAsk
<1> QED
  BY <1>1, <1>2, FailedSwitches

\* What is shown comes from the last answer, or from one after which others still wait.
LEMMA LandedSwitches ==
    ASSUME SwitchesInvariant, SettingsTypes', NEW a \in Asks, LandSwitches(a), UNCHANGED stored
    PROVE  SwitchesInvariant'
<1> DEFINE q == ask[a]
<1>a. ReadsFirst /\ AnswersInOrder /\ LastIsStored /\ SettingsTypes
  BY DEF SwitchesInvariant
<1>1. /\ q # Nothing /\ q.answer = "ok" /\ q.kind \in {"read", "save"}
      /\ ask' = [ask EXCEPT ![a] = Nothing] /\ order' = RemoveFirst(order, a)
      /\ switches' = IF q.data THEN q.got ELSE switches
  BY DEF LandSwitches, Arrived, Landed
<1>2. calm' => calm /\ (q.data => Head(order) = a)
  BY DEF LandSwitches
<1>3. ask'[a] = Nothing /\ \A b \in Asks : b # a => ask'[b] = ask[b]
  BY <1>a, <1>1 DEF SettingsTypes, AskTypes
<1>4. /\ ~SwitchCall(a)'
      /\ \A b \in Asks : b # a => (SwitchCall(b)' <=> SwitchCall(b))
  BY <1>3 DEF SwitchCall
<1>5. /\ ~SwitchAnswered(a)'
      /\ \A b \in Asks : b # a => (SwitchAnswered(b)' <=> SwitchAnswered(b))
  BY <1>3, <1>4 DEF SwitchAnswered
<1>6. /\ order' \in Seq(Asks) /\ Once(order')
      /\ \A b : WaitsIn(order', b) <=> b # a /\ WaitsIn(order, b)
      /\ ~WaitsIn(order, a) => order' = order
      /\ order' # <<>> /\ order[Len(order)] # a => order'[Len(order')] = order[Len(order)]
      /\ order' = <<>> => order = <<>> \/ (Len(order) = 1 /\ order[1] = a)
  BY <1>a, <1>1, OthersRemain DEF AnswersInOrder
<1>7. AnswersInOrder'
  BY <1>a, <1>5, <1>6 DEF AnswersInOrder
<1>8. CASE ~q.data
  <2>1. ~SwitchAnswered(a) /\ UNCHANGED switches
    BY <1>1, <1>8 DEF SwitchAnswered, SwitchCall
  <2>2. UNCHANGED order
    BY <1>a, <1>6, <2>1 DEF AnswersInOrder
  <2>3. ReadsFirst'
    BY <1>a, <1>3, <1>4, <2>1, ReadsStayFirst
  <2>4. /\ \A b \in Asks : SwitchAnswered(b)' <=> SwitchAnswered(b)
        /\ \A b \in Asks : SwitchAnswered(b) => ask'[b].got = ask[b].got
    BY <1>3, <1>5, <2>1
  <2>5. calm' => calm
    BY <1>2
  <2> QED
    BY <2>1, <2>2, <2>3, <2>4, <2>5, SwitchesUndisturbed
<1>9. CASE q.data
  <2>1. SwitchAnswered(a) /\ switches' = q.got
    BY <1>1, <1>9 DEF SwitchAnswered, SwitchCall
  <2>2. ASSUME NEW b \in Asks, SwitchCall(b)'
        PROVE  ask'[b].kind # "read"
    <3>1. SwitchCall(b) /\ b # a /\ ask'[b] = ask[b]
      BY <1>3, <1>4, <2>2
    <3>2. ask[b].kind = "read" => a = b
      BY <1>a, <2>1, <3>1 DEF ReadsFirst, SwitchAnswered
    <3> QED
      BY <3>1, <3>2
  <2>3. ReadsFirst'
    BY <2>2 DEF ReadsFirst
  <2>4. WaitsIn(order, a)
    BY <1>a, <2>1 DEF AnswersInOrder
  <2>5. order # <<>> /\ Len(order) \in Nat /\ Len(order) >= 1 /\ order \in Seq(Asks)
    BY <1>a, <2>4 DEF AnswersInOrder, WaitsIn
  <2>6. calm' => calm /\ order[1] = a
    <3>1. Head(order) = order[1]
      BY <2>5
    <3> QED
      BY <1>2, <1>9, <3>1
  <2>7. CASE calm'
    <3>1. calm /\ order[1] = a /\ ask[order[Len(order)]].got = stored
      BY <1>a, <2>5, <2>6, <2>7 DEF LastIsStored
    <3>2. CASE order' = <<>>
      <4>1. Len(order) = 1
        BY <1>6, <2>5, <3>2
      <4>2. switches' = stored'
        BY <2>1, <3>1, <4>1
      <4> QED
        BY <1>7, <2>3, <3>2, <4>2 DEF SwitchesInvariant, LastIsStored
    <3>3. CASE order' # <<>>
      <4> DEFINE last == order[Len(order)]
      <4>1. last # a
        <5> SUFFICES ASSUME last = a PROVE FALSE
          OBVIOUS
        <5>1. 1 \in 1..Len(order) /\ Len(order) \in 1..Len(order)
          BY <2>5
        <5>2. Len(order) = 1
          BY <1>a, <3>1, <5>1 DEF AnswersInOrder, Once
        <5>3. \A i \in 1..Len(order) : order[i] = a
          BY <3>1, <5>2
        <5>4. 1 \in 1..Len(order')
          BY <1>6, <3>3
        <5>5. WaitsIn(order', order'[1]) /\ ~WaitsIn(order', order'[1])
          BY ZenonT(60), <1>6, <5>3, <5>4 DEF WaitsIn
        <5> QED
          BY <5>5
      <4>2. order'[Len(order')] = last /\ last \in Asks
        BY <1>6, <2>5, <3>3, <4>1
      <4>3. ask'[last].got = stored'
        BY <1>3, <3>1, <4>1, <4>2
      <4>4. LastIsStored'
        BY <3>3, <4>2, <4>3 DEF LastIsStored
      <4> QED
        BY <1>7, <2>3, <4>4 DEF SwitchesInvariant
    <3> QED
      BY <3>2, <3>3
  <2>8. CASE ~calm'
    BY <1>7, <2>3, <2>8 DEF SwitchesInvariant, LastIsStored
  <2> QED
    BY <2>7, <2>8
<1> QED
  BY <1>8, <1>9
\* What else lands: the end of the session drops all of it, the rest leaves the switches alone.
LEMMA SwitchesLanded ==
    ASSUME SwitchesInvariant, SettingsTypes', NEW a \in Asks, LandAsk(a)
    PROVE  SwitchesInvariant'
<1>a. AskTypes
  BY DEF SwitchesInvariant, SettingsTypes
<1>b. UNCHANGED stored
  BY DEF LandAsk
<1>1. CASE LandSessionOver(a)
  <2>1. /\ ask' = [Abandoned EXCEPT ![a] = Nothing] /\ switches' = Nothing /\ order' = <<>>
    BY <1>1 DEF LandSessionOver
  <2>2. ASSUME NEW b \in Asks PROVE ~SwitchCall(b)'
    <3>1. ask'[b] \in {Nothing, Abandoned[b]}
      BY <1>a, <2>1, AbandonedTyped
    <3>2. CASE ask[b] = Nothing
      BY <3>1, <3>2 DEF Abandoned, SwitchCall
    <3>3. CASE ask[b] # Nothing
      <4>1. ask[b] \in Asked /\ Abandoned[b] = [ask[b] EXCEPT !.data = FALSE, !.here = FALSE]
        BY <1>a, <3>3 DEF AskTypes, Abandoned
      <4>2. ~Abandoned[b].data
        BY <4>1 DEF Asked
      <4> QED
        BY <3>1, <4>2 DEF SwitchCall
    <3> QED
      BY <3>2, <3>3
  <2>3. AnswersInOrder'
    BY <2>1, <2>2 DEF AnswersInOrder, SwitchAnswered, Once, WaitsIn
  <2>4. ReadsFirst' /\ LastIsStored'
    BY <2>1, <2>2 DEF ReadsFirst, LastIsStored
  <2> QED
    BY <2>3, <2>4 DEF SwitchesInvariant
<1>2. CASE LandSwitches(a)
  BY <1>b, <1>2, LandedSwitches
<1>3. ASSUME UNCHANGED <<switches, order, calm>>, ~SwitchAnswered(a), ~SwitchCall(a)',
             \A b \in Asks : b # a => ask'[b] = ask[b]
      PROVE  SwitchesInvariant'
  <2>1. \A b \in Asks : b # a => (SwitchCall(b)' <=> SwitchCall(b))
    BY <1>3 DEF SwitchCall
  <2> QED
    BY <1>b, <1>3, <2>1, OtherCallsMove DEF SwitchAnswered
<1>4. ASSUME Landed(a) PROVE ask'[a] = Nothing /\ \A b \in Asks : b # a => ask'[b] = ask[b]
  BY <1>a, <1>4 DEF AskTypes, Landed
<1>5. ASSUME NEW code \in Codes \cup {"ok"}, LandRefusedSwitch(a, code)
      PROVE  SwitchesInvariant'
  <2>1. /\ ask[a].answer = code /\ code # "ok" /\ Landed(a) /\ UNCHANGED <<switches, order, calm>>
    BY <1>5 DEF LandRefusedSwitch, Arrived
  <2>2. ~SwitchAnswered(a) /\ ~SwitchCall(a)'
    BY <1>4, <2>1 DEF SwitchAnswered, SwitchCall
  <2> QED
    BY <1>3, <1>4, <2>1, <2>2
<1>6. ASSUME NEW code \in Codes \cup {"ok"}, LandPassword(a, code) \/ LandFound(a, code)
      PROVE  SwitchesInvariant'
  <2>1. /\ ask[a].kind \notin {"read", "save"} /\ Landed(a) /\ UNCHANGED <<switches, order, calm>>
    BY <1>6 DEF LandPassword, LandFound
  <2>2. ~SwitchAnswered(a) /\ ~SwitchCall(a)'
    BY <1>4, <2>1 DEF SwitchAnswered, SwitchCall
  <2> QED
    BY <1>3, <1>4, <2>1, <2>2
<1>7. ASSUME NEW code \in Codes \cup {"ok"}, LandIgnore(a, code)
      PROVE  SwitchesInvariant'
  <2>1. ask[a].kind = "ignore" /\ UNCHANGED <<switches, order, calm>>
    BY <1>7 DEF LandIgnore
  <2>2. ~SwitchAnswered(a)
    BY <2>1 DEF SwitchAnswered, SwitchCall
  <2>3. CASE Landed(a)
    BY <1>3, <1>4, <2>1, <2>2, <2>3 DEF SwitchCall
  <2>4. CASE ask' = [ask EXCEPT ![a] = [NewAsk("relist", Nothing) EXCEPT
                                          !.data = ask[a].data, !.here = ask[a].here]]
    <3>1. /\ ask'[a].kind = "relist"
          /\ \A b \in Asks : b # a => ask'[b] = ask[b]
      BY <1>a, <2>4 DEF AskTypes, NewAsk
    <3>2. ~SwitchCall(a)'
      BY <3>1 DEF SwitchCall
    <3> QED
      BY <1>3, <2>1, <2>2, <3>1, <3>2
  <2> QED
    BY <1>7, <2>3, <2>4 DEF LandIgnore
<1> QED
  BY <1>1, <1>2, <1>5, <1>6, <1>7 DEF LandAsk

LEMMA SwitchesStep ==
    SwitchesInvariant /\ [WebSettingsNext]_webSettingsVars => SwitchesInvariant'
<1> SUFFICES ASSUME SwitchesInvariant, [WebSettingsNext]_webSettingsVars PROVE SwitchesInvariant'
  OBVIOUS
<1>1. SettingsTypes'
  BY SettingsStep DEF SwitchesInvariant
<1>2. CASE UNCHANGED webSettingsVars
  <2>1. UNCHANGED <<stored, switches, ask, order, calm>>
    BY <1>2 DEF webSettingsVars
  <2> QED
    BY <1>1, <2>1, OtherCallsMove DEF SwitchCall, SwitchAnswered
<1>3. CASE WebSettingsNext
  BY <1>1, <1>3, OpenSwitches, PressedSwitches, SwitchesServed, SwitchesLanded DEF WebSettingsNext
<1> QED
  BY <1>2, <1>3

\* While it is calm, the last answer about the switches that waits to be shown, or
\* else what is shown, is what the server stores; the answers wait in the order they
\* were given, and no change is on its way before the first read has come back.
THEOREM SwitchesInvariantHolds == WebSettingsSpec => []SwitchesInvariant
<1>1. WebSettingsInit => SwitchesInvariant
  BY SwitchesStart
<1>2. SwitchesInvariant /\ [WebSettingsNext]_webSettingsVars => SwitchesInvariant'
  BY SwitchesStep
<1> QED
  BY <1>1, <1>2, PTL DEF WebSettingsSpec

\* However many changes of the switches are on their way at once, and whichever of
\* them are refused, once nothing about them is on its way they show what the server
\* stores, unless someone else changed it or an answer was overtaken or lost.
THEOREM SwitchesAreStored == WebSpec => []SwitchesShowStored
<1>1. SwitchesInvariant => SwitchesShowStored
  <2> SUFFICES ASSUME SwitchesInvariant, switches # Nothing, calm,
                      \A a \in Asks : ask[a] # Nothing =>
                        ask[a].kind \notin {"read", "save"} \/ ~ask[a].data
               PROVE  switches = stored
    BY DEF SwitchesShowStored
  <2>1. \A a \in Asks : ~WaitsIn(order, a)
    BY DEF SwitchesInvariant, AnswersInOrder, SwitchAnswered, SwitchCall
  <2>2. order = <<>>
    <3>1. order \in Seq(Asks) /\ \A i \in 1..Len(order) : order[i] \in Asks
      BY DEF SwitchesInvariant, AnswersInOrder
    <3>2. Len(order) \in Nat /\ ~(Len(order) >= 1)
      BY <2>1, <3>1 DEF WaitsIn
    <3>3. Len(order) = 0
      BY <3>2
    <3> QED
      BY <3>1, <3>3
  <2> QED
    BY <2>2 DEF SwitchesInvariant, LastIsStored
<1>2. WebSettingsSpec => []SwitchesShowStored
  BY <1>1, SwitchesInvariantHolds, PTL
<1> QED
  BY <1>2, WebIsItsParts, PTL
=============================================================================
