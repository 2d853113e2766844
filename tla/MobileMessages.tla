--------------------------- MODULE MobileMessages ----------------------------
(***************************************************************************)
(* What the phone tells its user and for how long: the errors of           *)
(* ErrorContext, shared by every screen and shown by each mounted screen's *)
(* ErrorAlert, and one screen's toasts.  Each has timers of its own, armed *)
(* and cleared by effects.  Time is counted in ticks; a timer fires when   *)
(* it has run out, before time goes on.                                    *)
(***************************************************************************)
EXTENDS Naturals, FiniteSets

CONSTANTS
    Banners,        \* the screens that can show an ErrorAlert
    AutoClose,      \* ERROR_AUTO_CLOSE_MS, in ticks
    ToastTime,      \* TOAST_DURATION_MS, in ticks
    MaxNews         \* bound: errors reported and toasts shown, in total

ASSUME MessagesBounds == AutoClose \in Nat \ {0} /\ ToastTime \in Nat \ {0} /\ MaxNews \in Nat

VARIABLES
    errors,     \* the id of the array of errors shown, 0 for none
    context,    \* ErrorContext's timer: ticks left, or Off
    banner,     \* [Banners -> ticks left, Off, or Away]
    toast,      \* the id of the toast shown, 0 for none
    toastTimer,
    age,        \* history: ticks since the errors and the toast were shown
    news

messagesVars == <<errors, context, banner, toast, toastTimer, age, news>>

\* No timer runs that long.
Off == AutoClose + ToastTime + 1
Away == AutoClose + ToastTime + 2
Timers == 0..(AutoClose + ToastTime)

MessagesInit ==
    /\ errors = 0 /\ context = Off
    /\ banner = [b \in Banners |-> Away]
    /\ toast = 0 /\ toastTimer = Off
    /\ age = [errors |-> 0, toast |-> 0] /\ news = 0

MessagesTypeOK ==
    /\ {errors, toast, news} \subseteq 0..MaxNews
    /\ {context, toastTimer} \subseteq Timers \cup {Off}
    /\ banner \in [Banners -> Timers \cup {Off, Away}]

-----------------------------------------------------------------------------

\* Timers are cleared by their effects' cleanup: with the errors gone, all are.
NoErrors ==
    /\ errors' = 0 /\ context' = Off
    /\ banner' = [b \in Banners |-> IF banner[b] = Away THEN Away ELSE Off]
    /\ age' = [age EXCEPT !.errors = 0]
    /\ UNCHANGED <<toast, toastTimer, news>>

\* showErrors: the context's effect depends on the array, and starts again; a
\* banner's depends on there being errors, and goes on as it was.
ShowErrors ==
    /\ news < MaxNews /\ news' = news + 1
    /\ errors' = news + 1 /\ context' = AutoClose
    /\ banner' = [b \in Banners |-> IF banner[b] = Off THEN AutoClose ELSE banner[b]]
    /\ age' = [age EXCEPT !.errors = 0]
    /\ UNCHANGED <<toast, toastTimer>>

\* The cross, or the time is up: the context's or any banner's.
DismissErrors == errors # 0 /\ NoErrors
ErrorsExpire == (context = 0 \/ \E b \in Banners : banner[b] = 0) /\ NoErrors

MountBanner(b) ==
    /\ banner[b] = Away
    /\ banner' = [banner EXCEPT ![b] = IF errors = 0 THEN Off ELSE AutoClose]
    /\ UNCHANGED <<errors, context, toast, toastTimer, age, news>>

UnmountBanner(b) ==
    /\ banner[b] # Away
    /\ banner' = [banner EXCEPT ![b] = Away]
    /\ UNCHANGED <<errors, context, toast, toastTimer, age, news>>

\* Mistake: the toast's effect depends on there being one, not on which.
ShowToastInPlace ==
    /\ news < MaxNews /\ news' = news + 1
    /\ toast' = news + 1 /\ toastTimer' = IF toast = 0 THEN ToastTime ELSE toastTimer
    /\ age' = [age EXCEPT !.toast = 0]
    /\ UNCHANGED <<errors, context, banner>>

\* showToast: every toast has an id of its own, and its effect depends on it.
ShowToast ==
    /\ news < MaxNews /\ news' = news + 1
    /\ toast' = news + 1 /\ toastTimer' = ToastTime
    /\ age' = [age EXCEPT !.toast = 0]
    /\ UNCHANGED <<errors, context, banner>>

ToastExpires ==
    /\ toastTimer = 0
    /\ toast' = 0 /\ toastTimer' = Off /\ age' = [age EXCEPT !.toast = 0]
    /\ UNCHANGED <<errors, context, banner, news>>

Less(timer) == IF timer \in {Off, Away} THEN timer ELSE timer - 1

Pass ==
    /\ 0 \notin {context, toastTimer} \cup {banner[b] : b \in Banners}
    /\ context' = Less(context) /\ toastTimer' = Less(toastTimer)
    /\ banner' = [b \in Banners |-> Less(banner[b])]
    /\ age' = [errors |-> IF errors = 0 THEN 0 ELSE age.errors + 1,
               toast |-> IF toast = 0 THEN 0 ELSE age.toast + 1]
    /\ UNCHANGED <<errors, toast, news>>

MessagesNext ==
    \/ ShowErrors \/ DismissErrors \/ ErrorsExpire \/ ShowToast \/ ToastExpires \/ Pass
    \/ \E b \in Banners : MountBanner(b) \/ UnmountBanner(b)

MessagesSpec == MessagesInit /\ [][MessagesNext]_messagesVars

-----------------------------------------------------------------------------

\* No error outstays its time, whichever screens come and go; and a toast gets
\* all of its time, whatever toast it takes the place of.  (An error does not:
\* the banner's own timer, started by an earlier one, can end it early.)
MessagesKeepTime ==
    /\ age.errors <= AutoClose
    /\ toastTimer = 0 => age.toast = ToastTime
=============================================================================
