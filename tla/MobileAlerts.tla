---------------------------- MODULE MobileAlerts -----------------------------
(***************************************************************************)
(* How a phone rings.  While the app is in front, Android hands the alert  *)
(* to JavaScript (services/notification.ts): it gets a player of its own,  *)
(* but all callbacks -- a player has loaded, a player has ended -- go      *)
(* through the one module variable, which may name a later alert's player  *)
(* by then.  Listening starts when the permission is granted, once in the  *)
(* app's life, and ends for good when a session ends.  With the app not in *)
(* front Android itself plays the alert, on a channel the app declared     *)
(* (AlertChannels.kt).                                                     *)
(***************************************************************************)
EXTENDS Naturals, FiniteSets

CONSTANTS
    Players,        \* bound: alerts with sound rung in one life of the app
    Silent,         \* no player
    MaxBuzzes       \* bound: alerts received, with sound or without

ASSUME AlertBounds == MaxBuzzes \in Nat /\ Silent \notin Players

VARIABLES
    oreo,       \* Android has channels
    channels,   \* the channels declared
    app,        \* "front", "back" or "dead"
    answered,   \* this life's question for the permission and the token: its answer
    permission,
    listening,  \* foregroundUnsubscribe is set
    alertSound, \* the player in hand, or Silent
    player,     \* [Players -> what became of it]
    buzzing,    \* Vibration
    apart,      \* history: players no other one's time overlapped
    unheard,    \* history: where the app was when nothing rang that should have
    received

playVars == <<alertSound, player, buzzing, apart>>
phoneVars == <<oreo, channels, app, answered, permission>>
alertsVars == <<phoneVars, listening, playVars, unheard, received>>

\* "idle": loaded and not played; "cut": released before its end.
Fates == {"unused", "loading", "broken", "idle", "playing", "ended", "cut"}
Channels == {"alert", "override"}
Answers == {"open", "token", "none"}

AlertsInit ==
    /\ oreo \in BOOLEAN /\ channels = {} /\ app = "dead"
    /\ answered = "open" /\ permission = FALSE /\ listening = FALSE
    /\ alertSound = Silent /\ player = [p \in Players |-> "unused"]
    /\ buzzing = FALSE /\ apart = {} /\ unheard = {} /\ received = 0

AlertsTypeOK ==
    /\ {permission, listening, buzzing} \subseteq BOOLEAN /\ answered \in Answers
    /\ unheard \subseteq {"front", "back", "dead"}
    /\ channels \subseteq Channels /\ app \in {"front", "back", "dead"}
    /\ alertSound \in Players \cup {Silent} /\ player \in [Players -> Fates]
    /\ apart \subseteq Players

-----------------------------------------------------------------------------
(* The app's life.                                                         *)

\* MainApplication.onCreate declares the channels; declaring them again changes
\* nothing, and before Oreo there are none.
Launch ==
    /\ app = "dead" /\ app' = "front"
    /\ channels' = IF oreo THEN Channels ELSE {}
    /\ UNCHANGED <<oreo, answered, permission, listening, playVars, unheard, received>>

Leave ==
    /\ app = "front" /\ app' = "back"
    /\ UNCHANGED <<oreo, channels, answered, permission, listening, playVars, unheard, received>>

Return ==
    /\ app = "back" /\ app' = "front"
    /\ UNCHANGED <<oreo, channels, answered, permission, listening, playVars, unheard, received>>

\* The process goes, with its players.
Kill ==
    /\ app # "dead" /\ app' = "dead"
    /\ answered' = "open" /\ listening' = FALSE
    /\ alertSound' = Silent /\ player' = [p \in Players |-> "unused"]
    /\ buzzing' = FALSE /\ apart' = {}
    /\ UNCHANGED <<oreo, channels, permission, unheard, received>>

\* release() ends what plays; what has not loaded yet it leaves alone.
Released(p) == IF player[p] = "playing" THEN "cut" ELSE player[p]

\* stopListening: the player in hand goes, one replaced earlier plays on.
Unsubscribe(granted) ==
    /\ listening' = granted /\ buzzing' = FALSE /\ alertSound' = Silent
    /\ player' = [p \in Players |-> IF p = alertSound THEN Released(p) ELSE player[p]]
    /\ apart' = {}

\* requestPermissionAndGetToken has answered; startListening stops first.
StartListening ==
    /\ app # "dead" /\ answered = "open" /\ answered' = "token"
    /\ permission' = TRUE /\ Unsubscribe(TRUE)
    /\ UNCHANGED <<oreo, channels, app, unheard, received>>

\* Declined, withdrawn since, or granted and Firebase has no token.
NoToken ==
    /\ app # "dead" /\ answered = "open" /\ answered' = "none" /\ permission' \in BOOLEAN
    /\ UNCHANGED <<oreo, channels, app, listening, playVars, unheard, received>>

\* forgetSession: signed out, or the server ended the session.
SessionEnds ==
    /\ app # "dead" /\ Unsubscribe(FALSE) /\ UNCHANGED <<phoneVars, unheard, received>>

-----------------------------------------------------------------------------
(* Alerts.                                                                 *)

Receive == received < MaxBuzzes /\ received' = received + 1

\* Android draws it, with the channel the owner's preference picks; below Oreo
\* the payload names the sound, and the ringer switch has the last word.
Notify(override, silenced) ==
    LET heard == IF oreo THEN /\ (IF override THEN "override" ELSE "alert") \in channels
                              /\ ~silenced \/ override
                 ELSE ~silenced
        meant == ~silenced \/ (override /\ oreo)
    IN  /\ app # "front" /\ permission /\ Receive
        /\ unheard' = IF meant /\ ~heard THEN unheard \cup {app} ELSE unheard
        /\ UNCHANGED <<phoneVars, listening, playVars>>

\* ring: without its flags an alert does neither; both are on if they are missing.
Ring(sound, vibration) ==
    /\ app = "front" /\ listening /\ Receive
    /\ buzzing' = (buzzing \/ vibration)
    /\ IF sound
         THEN \E p \in Players :
                /\ player[p] = "unused"
                /\ player' = [player EXCEPT ![p] = "loading"] /\ alertSound' = p
                /\ apart' = IF \E q \in Players : player[q] \in {"loading", "playing"}
                              THEN {q \in apart : player[q] = "ended"} ELSE apart \cup {p}
         ELSE UNCHANGED <<player, alertSound, apart>>
    /\ UNCHANGED <<phoneVars, listening, unheard>>

\* Android hands it to an app that has no listener for it: none yet, or the one
\* it had went with a session, and only a new life of the app has another.
NobodyListens ==
    /\ app = "front" /\ permission /\ ~listening /\ Receive
    /\ unheard' = IF answered = "token" THEN unheard \cup {app} ELSE unheard
    /\ UNCHANGED <<phoneVars, listening, playVars>>

BuzzEnds ==
    /\ buzzing /\ buzzing' = FALSE
    /\ UNCHANGED <<phoneVars, listening, alertSound, player, apart, unheard, received>>

\* The player has loaded: the one in hand is played.  One that is still loading
\* itself refuses, which ends it at once, or leaves it for when it has loaded.
Loaded(p) ==
    LET ready == [player EXCEPT ![p] = "idle"]
    IN  /\ player[p] = "loading"
        /\ \/ /\ alertSound # Silent /\ ready[alertSound] \in {"idle", "playing", "ended"}
              /\ player' = [ready EXCEPT ![alertSound] = "playing"]
              /\ UNCHANGED alertSound
           \/ /\ alertSound # Silent /\ ready[alertSound] \in {"loading", "broken"}
              /\ player' = ready /\ alertSound' \in {alertSound, Silent}
           \/ /\ alertSound = Silent
              /\ player' = ready /\ UNCHANGED alertSound
        /\ UNCHANGED <<phoneVars, listening, buzzing, apart, unheard, received>>

\* It is logged, and stays in hand.
LoadFails(p) ==
    /\ player[p] = "loading" /\ player' = [player EXCEPT ![p] = "broken"]
    /\ UNCHANGED <<phoneVars, listening, alertSound, buzzing, apart, unheard, received>>

\* Mistake: the player that was released stays in hand.
EndsInHand(p) ==
    /\ player[p] = "playing"
    /\ player' = [q \in Players |-> IF q = p THEN "ended"
                                    ELSE IF q = alertSound THEN Released(q) ELSE player[q]]
    /\ UNCHANGED <<phoneVars, listening, alertSound, buzzing, apart, unheard, received>>

\* A player has ended: the one in hand is released.
Ends(p) ==
    /\ player[p] = "playing"
    /\ player' = [q \in Players |-> IF q = p THEN "ended"
                                    ELSE IF q = alertSound THEN Released(q) ELSE player[q]]
    /\ alertSound' = Silent
    /\ UNCHANGED <<phoneVars, listening, buzzing, apart, unheard, received>>

AlertsNext ==
    \/ Launch \/ Leave \/ Return \/ Kill
    \/ StartListening \/ NoToken \/ SessionEnds \/ NobodyListens \/ BuzzEnds
    \/ \E override, silenced \in BOOLEAN : Notify(override, silenced)
    \/ \E sound, vibration \in BOOLEAN : Ring(sound, vibration)
    \/ \E p \in Players : Loaded(p) \/ LoadFails(p) \/ Ends(p)

AlertsSpec == AlertsInit /\ [][AlertsNext]_alertsVars

-----------------------------------------------------------------------------

\* Whatever callbacks are still to come, the player in hand was never released,
\* a phone that does not listen holds none and does not vibrate, and an alert
\* rung while no other one was loading or playing, with none following before its
\* end, rings to its end unless the session ends.  What the system plays instead
\* always finds its channel declared.
AlertsRingOut ==
    /\ alertSound # Silent => player[alertSound] \notin {"ended", "cut"}
    /\ ~listening => alertSound = Silent /\ ~buzzing
    /\ \A p \in apart : player[p] \notin {"idle", "cut"}
    /\ unheard \subseteq {"front"}

\* notification.ts says of ring that "it runs when the app happens to be open", and
\* that the system plays every other alert: an app that has its token is never
\* open and silent.
OpenAppRings == "front" \notin unheard

\* notification.ts says that "on receipt the device plays the alert sound": when
\* the players of a listening phone have loaded, one of them at least was played.
AnAlertIsPlayed ==
    listening /\ (\A p \in Players : player[p] # "loading") /\ (\E p \in Players : player[p] = "idle") =>
      \E p \in Players : player[p] \in {"playing", "ended", "cut"}
=============================================================================
