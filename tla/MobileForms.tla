----------------------------- MODULE MobileForms -----------------------------
(***************************************************************************)
(* The phone's account forms: sign in, create account, reset password and, *)
(* once signed in, change password.  A form refuses a second submission    *)
(* while its first runs, but only as long as it stays mounted, and nothing *)
(* stops another form from submitting; so two sign-ins can run at once.    *)
(* Each writes its token and its user to AsyncStorage, which carries out   *)
(* what it is asked one by one, and copies them into React state.          *)
(***************************************************************************)
EXTENDS Naturals, Sequences, FiniteSets

CONSTANTS
    Accounts, Runs, Unknown,
    MaxSubmits      \* bound: submissions, in total

ASSUME FormsBounds == MaxSubmits \in Nat

VARIABLES
    route,      \* the screen on top
    form,       \* [Forms -> form]: what each mounted form holds
    run,        \* [Runs -> submission \cup {Unknown}]
    disk,       \* AsyncStorage: token and user, each by its account
    face,       \* AuthContext: token and user
    queue,      \* runs whose storage operation is still to be carried out
    submits

formsVars == <<route, form, run, disk, face, queue, submits>>

Forms == {"Login", "Register", "ForgotPassword", "Profile"}
AuthForms == Forms \ {"Profile"}

\* `ready`: the fields pass the form's own checks (canSubmit); `sent` is the
\* reset screen's "Check your email".
Blank == [ready |-> FALSE, busy |-> FALSE, sent |-> FALSE]
NoAccount == [token |-> Unknown, user |-> Unknown]

Submission == [kind : Forms, from : Forms \cup {Unknown}, account : Accounts,
               at : {"sent", "token", "user", "read"}]

\* Unknown stands for "not there": it is no submission.
ASSUME UnknownIsNoSubmission == Unknown \notin Submission

FormsInit ==
    /\ route = "Login"
    /\ form = [f \in Forms |-> Blank]
    /\ run = [r \in Runs |-> Unknown]
    /\ disk = NoAccount /\ face = NoAccount
    /\ queue = <<>> /\ submits = 0

FormsTypeOK ==
    /\ route \in Forms \cup {"App"}
    /\ form \in [Forms -> [ready : BOOLEAN, busy : BOOLEAN, sent : BOOLEAN]]
    /\ {disk.token, disk.user, face.token, face.user} \subseteq Accounts \cup {Unknown}
    /\ submits \in 0..MaxSubmits
    /\ \A i \in DOMAIN queue : run[queue[i]] # Unknown

-----------------------------------------------------------------------------

Authenticated == face.token # Unknown

\* Registration asks more of its fields than the others: an address, a password
\* that is long enough and repeated, and consent.
Fill(f) ==
    /\ route = f /\ ~form[f].sent
    /\ form' = [form EXCEPT ![f].ready = ~@]
    /\ UNCHANGED <<route, run, disk, face, queue, submits>>

\* A submission forgets the form it came from when that is unmounted.
Unmounted(f) == [r \in Runs |-> IF run[r] # Unknown /\ run[r].from = f
                                  THEN [run[r] EXCEPT !.from = Unknown] ELSE run[r]]

\* The sign-in screen stays mounted under the other two; they do not under it.
Navigate(f) ==
    /\ route \in AuthForms /\ f \in AuthForms /\ route # f
    /\ "Login" \in {route, f}
    /\ route' = f
    /\ form' = IF f = "Login" THEN [form EXCEPT ![route] = Blank] ELSE form
    /\ run' = IF f = "Login" THEN Unmounted(route) ELSE run
    /\ UNCHANGED <<disk, face, queue, submits>>

OpenProfile ==
    /\ route = "App" /\ route' = "Profile"
    /\ UNCHANGED <<form, run, disk, face, queue, submits>>

CloseProfile ==
    /\ route = "Profile" /\ route' = "App"
    /\ form' = [form EXCEPT !["Profile"] = Blank]
    /\ run' = Unmounted("Profile")
    /\ UNCHANGED <<disk, face, queue, submits>>

Submit(r, f, account) ==
    /\ route = f /\ form[f].ready /\ ~form[f].busy /\ ~form[f].sent
    /\ submits < MaxSubmits /\ submits' = submits + 1
    /\ run[r] = Unknown
    /\ run' = [run EXCEPT ![r] = [kind |-> f, from |-> f, account |-> account, at |-> "sent"]]
    /\ form' = [form EXCEPT ![f].busy = TRUE]
    /\ UNCHANGED <<route, disk, face, queue>>

\* What a submission does to its form when it is over: the reset screen says
\* "sent" whatever happened, the password fields are emptied by a success.
Finished(r, succeeded) ==
    LET f == run[r].from
    IN  IF f = Unknown THEN form
        ELSE [form EXCEPT ![f] =
                [ready |-> @.ready /\ ~(f = "Profile" /\ succeeded), busy |-> FALSE,
                 sent |-> f = "ForgotPassword"]]

SignsIn(r) == run[r].kind \in {"Login", "Register"}

Fails(r) ==
    /\ run[r] # Unknown /\ run[r].at = "sent"
    /\ form' = Finished(r, FALSE)
    /\ run' = [run EXCEPT ![r] = Unknown]
    /\ UNCHANGED <<route, disk, face, queue, submits>>

Succeeds(r) ==
    /\ run[r] # Unknown /\ run[r].at = "sent"
    /\ IF SignsIn(r)
         THEN /\ run' = [run EXCEPT ![r].at = "token"] /\ queue' = Append(queue, r)
              /\ UNCHANGED form
         ELSE /\ form' = Finished(r, TRUE) /\ run' = [run EXCEPT ![r] = Unknown]
              /\ UNCHANGED queue
    /\ UNCHANGED <<route, disk, face, submits>>

-----------------------------------------------------------------------------
(* persist, then AuthContext: token, user, setToken, stored user, setUser. *)

NextInLine(r, at) == queue # <<>> /\ r = Head(queue) /\ run[r].at = at

WriteToken(r) ==
    /\ NextInLine(r, "token")
    /\ disk' = [disk EXCEPT !.token = run[r].account]
    /\ run' = [run EXCEPT ![r].at = "user"]
    /\ queue' = Append(Tail(queue), r)
    /\ UNCHANGED <<route, form, face, submits>>

\* setToken mounts the app's stack in place of the forms.
WriteUser(r) ==
    /\ NextInLine(r, "user")
    /\ disk' = [disk EXCEPT !.user = run[r].account]
    /\ face' = [face EXCEPT !.token = run[r].account]
    /\ route' = IF Authenticated THEN route ELSE "App"
    /\ form' = IF Authenticated THEN form ELSE [f \in Forms |-> Blank]
    /\ run' = [q \in Runs |->
                 IF q = r THEN [run[r] EXCEPT !.at = "read", !.from = Unknown]
                 ELSE IF run[q] # Unknown /\ run[q].from \in AuthForms
                   THEN [run[q] EXCEPT !.from = Unknown] ELSE run[q]]
    /\ queue' = Append(Tail(queue), r)
    /\ UNCHANGED submits

\* Mistake: setUser is called only while nobody is shown yet.
ReadUserEarly(r) ==
    /\ NextInLine(r, "read")
    /\ face' = [face EXCEPT !.user = IF @ = Unknown THEN disk.user ELSE @]
    /\ run' = [run EXCEPT ![r] = Unknown]
    /\ queue' = Tail(queue)
    /\ UNCHANGED <<route, form, disk, submits>>

ReadUser(r) ==
    /\ NextInLine(r, "read")
    /\ face' = [face EXCEPT !.user = disk.user]
    /\ run' = [run EXCEPT ![r] = Unknown]
    /\ queue' = Tail(queue)
    /\ UNCHANGED <<route, form, disk, submits>>

FormsNext ==
    \/ OpenProfile \/ CloseProfile
    \/ \E f \in Forms : Fill(f) \/ Navigate(f)
    \/ \E r \in Runs, f \in Forms, account \in Accounts : Submit(r, f, account)
    \/ \E r \in Runs : Fails(r) \/ Succeeds(r) \/ WriteToken(r) \/ WriteUser(r) \/ ReadUser(r)

FormsSpec == FormsInit /\ [][FormsNext]_formsVars

-----------------------------------------------------------------------------

\* However many sign-ins ran at once, when they are over the phone is one
\* account's: the stored token and user and the ones shown are all of it.
OneAccount ==
    (\A r \in Runs : run[r] # Unknown => ~SignsIn(r)) =>
      /\ disk.token = disk.user /\ face = disk
=============================================================================
