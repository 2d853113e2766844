-------------------------- MODULE MobilePreferences --------------------------
(***************************************************************************)
(* The phone's notification switches.  usePreferences loads the stored     *)
(* preferences once per screen, moves a switch before the server has       *)
(* answered and puts everything back if it refuses.  The settings screen   *)
(* and, on top of it, the notification screen each have a copy of their    *)
(* own; the latter saves through a form with an edit buffer.               *)
(***************************************************************************)
EXTENDS Naturals, FiniteSets

CONSTANTS
    Key,
    MasterKey,         \* notifications_enabled: the others show only while it is on
    SilentKey,         \* alert_on_silent: the notification screen's
    Defaults,          \* [Key -> BOOLEAN]: shown until the load has answered
    Jobs, NoJob,
    MaxSaves           \* bound: saves, in total

ASSUME PreferencesBounds ==
    {MasterKey, SilentKey} \subseteq Key /\ Defaults \in [Key -> BOOLEAN] /\ MaxSaves \in Nat

VARIABLES
    stored,     \* [Key -> BOOLEAN]: the account's row at the server
    copy,       \* [Switchboards -> copy \cup {NoJob}]: the two screens' hooks
    box,        \* the notification screen's form
    job,        \* [Jobs -> request \cup {NoJob}]
    chosen,     \* history: [Key -> SUBSET BOOLEAN], what the user has asked for
    edit,       \* history: the last edit of the box, and how far it has got
    saves

preferenceVars == <<stored, copy, box, job, chosen, edit, saves>>

Switchboards == {"settings", "notifications"}

\* An edit is open until a save carries it, and sent until that has landed; one
\* made while the save of an earlier edit ran is crossed by it.
Edits == [value : BOOLEAN, state : {"none", "open", "sent"}, crossed : BOOLEAN]
NoEdit == [value |-> Defaults[SilentKey], state |-> "none", crossed |-> FALSE]

Board == [shown : [Key -> BOOLEAN], loading : BOOLEAN]

\* NoJob stands for "not there": it is no screen's copy.
ASSUME NoJobIsNoBoard == NoJob \notin Board

Fresh == [shown |-> Defaults, loading |-> TRUE]
FreshBox == [silent |-> Defaults[SilentKey], dirty |-> FALSE, saving |-> FALSE]

PreferencesInit ==
    /\ stored \in [Key -> BOOLEAN]
    /\ copy = [s \in Switchboards |-> NoJob]
    /\ box = FreshBox
    /\ job = [j \in Jobs |-> NoJob]
    /\ chosen = [k \in Key |-> {stored[k]}]
    /\ edit = NoEdit
    /\ saves = 0

PreferencesTypeOK ==
    /\ stored \in [Key -> BOOLEAN] /\ saves \in 0..MaxSaves
    /\ \A s \in Switchboards : copy[s] # NoJob => copy[s].shown \in [Key -> BOOLEAN]
    /\ {box.silent, box.dirty, box.saving} \subseteq BOOLEAN /\ edit \in Edits

-----------------------------------------------------------------------------

\* `changes` is what a save carries, [subset of Key -> BOOLEAN].
NewJob(s, changes, previous, form) ==
    [on |-> s, changes |-> changes, previous |-> previous, form |-> form,
     at |-> "sent", answer |-> NoJob]

Begin(j, record) == job[j] = NoJob /\ job' = [job EXCEPT ![j] = record]

\* A screen is pushed: its hook loads, once.
OpenBoard(j, s) ==
    /\ copy[s] = NoJob /\ (s = "notifications" => copy["settings"] # NoJob)
    /\ copy' = [copy EXCEPT ![s] = Fresh]
    /\ box' = IF s = "notifications" THEN FreshBox ELSE box
    /\ edit' = IF s = "notifications" THEN NoEdit ELSE edit
    /\ Begin(j, NewJob(s, <<>>, Defaults, FALSE))
    /\ UNCHANGED <<stored, chosen, saves>>

\* The screen on top is popped; its requests go on and land nowhere.
CloseBoard(s) ==
    /\ copy[s] # NoJob /\ (s = "settings" => copy["notifications"] = NoJob)
    /\ copy' = [copy EXCEPT ![s] = NoJob]
    /\ job' = [j \in Jobs |-> IF job[j] # NoJob /\ job[j].on = s
                                THEN [job[j] EXCEPT !.on = NoJob] ELSE job[j]]
    /\ box' = IF s = "notifications" THEN FreshBox ELSE box
    /\ edit' = IF s = "notifications" THEN NoEdit ELSE edit
    /\ UNCHANGED <<stored, chosen, saves>>

\* Mistake: a save sends every switch as it is shown, not the one that moved.
WholeUpdate(s, k, value) == [copy[s].shown EXCEPT ![k] = value]

Update(s, k, value) == [key \in {k} |-> value]

\* setPreference up to its await; `previous` is the copy it closes over.
SetPreference(j, s, k, value, form) ==
    /\ saves < MaxSaves /\ saves' = saves + 1
    /\ copy' = [copy EXCEPT ![s].shown[k] = value]
    /\ Begin(j, NewJob(s, Update(s, k, value), copy[s].shown, form))
    /\ chosen' = [chosen EXCEPT ![k] = @ \cup {value}]
    /\ UNCHANGED stored

\* The settings screen's switches, with the notification screen not over it.
FlipSwitch(j, k) ==
    /\ copy["settings"] # NoJob /\ copy["notifications"] = NoJob /\ k # SilentKey
    /\ k = MasterKey \/ copy["settings"].shown[MasterKey]
    /\ SetPreference(j, "settings", k, ~copy["settings"].shown[k], FALSE)
    /\ UNCHANGED <<box, edit>>

\* Mistake: the box adopts the stored value whatever the user has done to it.
AdoptAlways(board, form) == [form EXCEPT !.silent = board.shown[SilentKey]]

\* The effect on [alert_on_silent, isDirty]: adopt the stored value, but never
\* over an edit.
Adopt(board, form) == [form EXCEPT !.silent = IF form.dirty THEN @ ELSE board.shown[SilentKey]]

\* Also while a save is under way.
ToggleBox ==
    /\ copy["notifications"] # NoJob
    /\ box' = [box EXCEPT !.silent = ~@, !.dirty = TRUE]
    /\ edit' = [value |-> ~box.silent, state |-> "open", crossed |-> box.saving]
    /\ UNCHANGED <<stored, copy, job, chosen, saves>>

SaveBox(j) ==
    /\ copy["notifications"] # NoJob /\ box.dirty /\ ~box.saving /\ ~copy["notifications"].loading
    /\ box' = [box EXCEPT !.saving = TRUE]
    /\ edit' = [edit EXCEPT !.state = "sent"]
    /\ SetPreference(j, "notifications", SilentKey, box.silent, TRUE)

\* The server answers with the whole row, after the update if it is one; the
\* answer may be lost.
AnswerJob(j) ==
    /\ job[j] # NoJob /\ job[j].at = "sent"
    /\ LET changes == job[j].changes
           after == [k \in Key |-> IF k \in DOMAIN changes THEN changes[k] ELSE stored[k]]
       IN  \/ /\ stored' = after
              /\ \/ job' = [job EXCEPT ![j].answer = after, ![j].at = "ok"]
                 \/ job' = [job EXCEPT ![j].at = "failed"]
           \/ /\ job' = [job EXCEPT ![j].at = "failed"]
              /\ UNCHANGED stored
    /\ UNCHANGED <<copy, box, chosen, edit, saves>>

\* The copy becomes the answer; after a failed save it becomes what it was when
\* the save began.  The form calls it saved either way, and itself clean, also if
\* it was edited meanwhile: setPreference swallows the failure.
LandJob(j) ==
    /\ job[j] # NoJob /\ job[j].at # "sent"
    /\ LET r == job[j]
           failed == r.at = "failed"
           load == DOMAIN r.changes = {}
           board == [shown |-> IF ~failed THEN r.answer
                               ELSE IF load THEN copy[r.on].shown ELSE r.previous,
                     loading |-> copy[r.on].loading /\ ~load]
           form == IF r.form THEN [box EXCEPT !.dirty = FALSE, !.saving = FALSE] ELSE box
       IN  IF r.on = NoJob THEN UNCHANGED <<copy, box, edit>>
           ELSE /\ copy' = [copy EXCEPT ![r.on] = board]
                /\ box' = IF r.on = "notifications" THEN Adopt(board, form) ELSE box
                /\ edit' = IF r.form /\ edit.state = "sent" THEN NoEdit ELSE edit
    /\ job' = [job EXCEPT ![j] = NoJob]
    /\ UNCHANGED <<stored, chosen, saves>>

PreferencesNext ==
    \/ ToggleBox
    \/ \E s \in Switchboards : CloseBoard(s)
    \/ \E j \in Jobs : SaveBox(j) \/ AnswerJob(j) \/ LandJob(j)
    \/ \E j \in Jobs, s \in Switchboards : OpenBoard(j, s)
    \/ \E j \in Jobs, k \in Key : FlipSwitch(j, k)

PreferencesSpec == PreferencesInit /\ [][PreferencesNext]_preferenceVars

-----------------------------------------------------------------------------

\* A preference at the server only ever has a value its own switch was put to:
\* neither the defaults a screen shows before its load has answered, nor one
\* screen's old copy, is ever written over what another screen has saved.
OnlyWhatWasChosen == \A k \in Key : stored[k] \in chosen[k]

\* What the user put the box to stays in it until the save that carries it has
\* been answered, whichever loads and other screens' saves land meanwhile; but an
\* edit made while an earlier one was being saved has no such promise.
BoxShowsEdit == edit.state # "none" /\ ~edit.crossed => box.dirty /\ box.silent = edit.value

\* NotificationSettingsScreen.tsx says that the stored value is adopted "only
\* while the user has not touched the box": an edit that no save has carried to
\* its end is what the box shows.
EditsAreKept == edit.state # "none" => box.silent = edit.value
=============================================================================
