------------------------- MODULE MobileScreensProofs -------------------------
(***************************************************************************)
(* Machine-checked proofs about the phone's screens: a scan of any network *)
(* by any pool of workers, any set of preferences and requests, any number *)
(* of accounts and of sign-ins at once.                                    *)
(***************************************************************************)
EXTENDS NetworkScan, MobilePreferences, MobileForms, FiniteSetTheorems, TLAPS

-----------------------------------------------------------------------------
(* The scan.  Every host up to the shared cursor has been taken by a       *)
(* worker, once, and a worker returns only past the last host; each of     *)
(* those that have returned moved the cursor one further.                  *)

ScanTypes ==
    /\ scan \in [phase : Phases, prefix : BOOLEAN]
    /\ named \in [Hosts -> Names \cup {Nobody}]
    /\ pool \in [cursor : Nat, at : [Workers -> 0..Done], answered : SUBSET Hosts]
    /\ probes \in [Hosts -> Nat]
    /\ \A o \in filed : o.ip \in Hosts /\ o.name \in Names \cup {Nobody}

Returned(at) == {w \in Workers : at[w] = Done}

\* With what the pool p has done.
Swept(p) ==
    /\ \A h \in Hosts : probes[h] = IF h <= p.cursor THEN 1 ELSE 0
    /\ Returned(p.at) # {} => p.cursor > LastHost

CursorIsBounded ==
    /\ pool.cursor > LastHost => pool.cursor = LastHost + Cardinality(Returned(pool.at))
    /\ pool.cursor <= LastHost => Returned(pool.at) = {}

ScanInvariant ==
    /\ ScanTypes
    /\ CursorIsBounded
    /\ \A h \in Hosts : probes[h] <= 1
    /\ scan.phase = "listen" => \A h \in Hosts : probes[h] = 0
    /\ scan.phase = "sweep" => scan.prefix /\ Swept(pool)
    /\ scan.phase = "submit" /\ scan.prefix => \A h \in Hosts : probes[h] = 1

\* The pool is never wider than Width, so the cursor is never past its bound.
LEMMA PoolIsBounded ==
    ASSUME ScanTypes, CursorIsBounded
    PROVE  pool.cursor \in 0..(LastHost + Width)
<1> USE ScanBounds
<1> DEFINE size == IF Width < LastHost THEN Width ELSE LastHost
<1>1. size \in Nat /\ size <= Width
  OBVIOUS
<1>2. Workers = 1..size
  BY DEF Workers
<1>3. IsFiniteSet(Workers) /\ Cardinality(Workers) = size
  <2> HIDE DEF size
  <2> QED
    BY <1>1, <1>2, FS_Interval
<1>4. Returned(pool.at) \in SUBSET Workers
  BY DEF Returned
<1>5. Cardinality(Returned(pool.at)) <= size /\ Cardinality(Returned(pool.at)) \in Nat
  BY <1>3, <1>4, FS_Subset, FS_CardinalityType
<1>6. pool.cursor \in Nat
  BY DEF ScanTypes
<1> HIDE DEF size
<1> QED
  BY <1>1, <1>5, <1>6 DEF CursorIsBounded

LEMMA ScanStarts == ScanInit => ScanInvariant
<1> SUFFICES ASSUME ScanInit PROVE ScanInvariant
  OBVIOUS
<1> USE ScanBounds DEF ScanInit
<1>1. ScanTypes
  BY DEF ScanTypes, Phases, FreshPool, Done
<1>2. Returned(pool.at) = {} /\ pool.cursor = 0
  BY DEF Returned, FreshPool, Done
<1> QED
  BY <1>1, <1>2 DEF ScanInvariant, CursorIsBounded

LEMMA TakeNextKeeps ==
    ASSUME ScanInvariant, NEW w \in Workers, TakeNext(w)
    PROVE  ScanInvariant'
<1> USE ScanBounds
<1>0. pool \in [cursor : Nat, at : [Workers -> 0..Done], answered : SUBSET Hosts]
  BY DEF ScanInvariant, ScanTypes
<1>1. /\ scan.phase = "sweep" /\ pool.at[w] = 0 /\ scan' = scan /\ scan.prefix
      /\ Swept(pool) /\ CursorIsBounded /\ ScanTypes
  BY DEF TakeNext, Ready, ScanInvariant
<1>2. pool.cursor \in Nat /\ LastHost \in Nat
  BY <1>0
<1>3. CASE pool.cursor < LastHost
  <2>1. /\ pool' = [pool EXCEPT !.at[w] = pool.cursor + 1, !.cursor = pool.cursor + 1]
        /\ probes' = [probes EXCEPT ![pool.cursor + 1] = @ + 1]
    BY <1>3 DEF TakeNext, Probed
  <2>2. pool'.cursor = pool.cursor + 1 /\ pool'.at = [pool.at EXCEPT ![w] = pool.cursor + 1]
    BY <1>0, <2>1
  <2>3. Returned(pool.at) = {} /\ Returned(pool'.at) = {}
    BY <1>0, <1>1, <1>2, <1>3, <2>2 DEF CursorIsBounded, Returned, Done
  <2>4. pool' \in [cursor : Nat, at : [Workers -> 0..Done], answered : SUBSET Hosts]
    <3>1. pool'.at \in [Workers -> 0..Done] /\ pool'.cursor \in Nat
      BY <1>0, <1>2, <1>3, <2>2 DEF Done
    <3> QED
      BY <1>0, <2>1, <2>2, <3>1
  <2>5. probes \in [Hosts -> Nat] /\ pool.cursor + 1 \in Hosts
    BY <1>1, <1>2, <1>3 DEF ScanTypes, Hosts
  <2>6. probes' \in [Hosts -> Nat]
    BY <2>1, <2>5
  <2>7. \A h \in Hosts : probes'[h] = IF h <= pool'.cursor THEN 1 ELSE 0
    BY <1>1, <1>2, <2>1, <2>2, <2>5 DEF Swept, Hosts
  <2>8. \A h \in Hosts : probes'[h] <= 1
    BY <2>7
  <2>9. ScanTypes'
    BY <1>1, <2>4, <2>6 DEF ScanTypes, TakeNext
  <2>10. CursorIsBounded' /\ Swept(pool)'
    BY <1>2, <1>3, <2>2, <2>3, <2>7 DEF CursorIsBounded, Swept
  <2> QED
    BY <1>1, <2>8, <2>9, <2>10 DEF ScanInvariant
<1>4. CASE ~(pool.cursor < LastHost)
  <2>1. pool' = [pool EXCEPT !.at[w] = Done, !.cursor = pool.cursor + 1] /\ probes' = probes
    BY <1>4 DEF TakeNext, Probed
  <2>2. pool'.cursor = pool.cursor + 1 /\ pool'.at = [pool.at EXCEPT ![w] = Done]
    BY <1>0, <2>1
  <2>3. Returned(pool'.at) = Returned(pool.at) \cup {w} /\ w \notin Returned(pool.at)
    BY <1>0, <1>1, <2>2 DEF Returned, Done
  <2>4. IsFiniteSet(Returned(pool.at))
    <3>1. IsFiniteSet(Workers)
      BY FS_Interval DEF Workers
    <3> QED
      BY <3>1, FS_Subset DEF Returned
  <2>5. Cardinality(Returned(pool'.at)) = Cardinality(Returned(pool.at)) + 1
    BY <2>3, <2>4, FS_AddElement
  <2>6. Cardinality(Returned(pool.at)) \in Nat
    BY <2>4, FS_CardinalityType
  <2>7. pool.cursor = LastHost + Cardinality(Returned(pool.at))
    <3>1. CASE pool.cursor > LastHost
      BY <1>1, <3>1 DEF CursorIsBounded
    <3>2. CASE pool.cursor = LastHost
      BY <1>1, <1>2, <3>2, FS_EmptySet DEF CursorIsBounded
    <3> QED
      BY <1>2, <1>4, <3>1, <3>2
  <2>8. pool' \in [cursor : Nat, at : [Workers -> 0..Done], answered : SUBSET Hosts]
    <3>1. pool'.at \in [Workers -> 0..Done] /\ pool'.cursor \in Nat
      BY <1>0, <1>2, <2>2 DEF Done
    <3> QED
      BY <1>0, <2>1, <2>2, <3>1
  <2>9. ScanTypes'
    BY <1>1, <2>1, <2>8 DEF ScanTypes, TakeNext
  <2>10. CursorIsBounded'
    BY <1>2, <1>4, <2>2, <2>5, <2>6, <2>7 DEF CursorIsBounded
  <2>11. Swept(pool)'
    BY <1>1, <1>2, <1>4, <2>1, <2>2 DEF Swept, Hosts
  <2>12. \A h \in Hosts : probes'[h] <= 1
    BY <2>1 DEF ScanInvariant
  <2> QED
    BY <1>1, <2>9, <2>10, <2>11, <2>12 DEF ScanInvariant
<1> QED
  BY <1>3, <1>4

LEMMA ProbeEndsKeeps ==
    ASSUME ScanInvariant, NEW w \in Workers, ProbeEnds(w)
    PROVE  ScanInvariant'
<1> USE ScanBounds
<1>0. pool \in [cursor : Nat, at : [Workers -> 0..Done], answered : SUBSET Hosts]
  BY DEF ScanInvariant, ScanTypes
<1>1. pool.at[w] \in Hosts /\ UNCHANGED <<scan, named, probes, filed>>
  BY DEF ProbeEnds
<1>2. /\ pool'.cursor = pool.cursor /\ pool'.at = [pool.at EXCEPT ![w] = 0]
      /\ pool'.answered \in SUBSET Hosts
      /\ pool' = [cursor |-> pool'.cursor, at |-> pool'.at, answered |-> pool'.answered]
  <2>1. PICK reply \in BOOLEAN :
          pool' = [pool EXCEPT !.at[w] = 0,
                               !.answered = IF reply THEN @ \cup {pool.at[w]} ELSE @]
    BY DEF ProbeEnds
  <2> DEFINE found == IF reply THEN pool.answered \cup {pool.at[w]} ELSE pool.answered
  <2>2. found \in SUBSET Hosts
    BY <1>0, <1>1
  <2>3. /\ pool'.cursor = pool.cursor /\ pool'.at = [pool.at EXCEPT ![w] = 0]
        /\ pool'.answered = found
        /\ pool' = [cursor |-> pool'.cursor, at |-> pool'.at, answered |-> pool'.answered]
    BY <1>0, <2>1
  <2> QED
    BY <2>2, <2>3
<1>3. Returned(pool'.at) = Returned(pool.at)
  BY <1>0, <1>1, <1>2 DEF Returned, Done, Hosts
<1>4. pool'.at \in [Workers -> 0..Done]
  BY <1>0, <1>2 DEF Done
<1>5. ScanTypes'
  BY <1>0, <1>1, <1>2, <1>4 DEF ScanInvariant, ScanTypes
<1> QED
  BY <1>1, <1>2, <1>3, <1>5 DEF ScanInvariant, CursorIsBounded, Swept

\* A sweep whose workers have all returned has been through every host.
LEMMA SweepEndsKeeps ==
    ASSUME ScanInvariant, SweepEnds
    PROVE  ScanInvariant'
<1> USE ScanBounds
<1>1. /\ scan.phase = "sweep" /\ scan.prefix /\ Swept(pool)
      /\ scan' = [scan EXCEPT !.phase = "submit"] /\ \A w \in Workers : pool.at[w] = Done
      /\ UNCHANGED <<named, pool, probes, filed>>
  BY DEF SweepEnds, ScanInvariant
<1>2. \A h \in Hosts : probes[h] = 1
  <2>1. SUFFICES ASSUME NEW h \in Hosts PROVE probes[h] = 1
    OBVIOUS
  <2>2. 1 \in Workers
    BY DEF Hosts, Workers
  <2>3. 1 \in Returned(pool.at)
    BY <1>1, <2>2 DEF Returned
  <2>4. pool.cursor > LastHost /\ pool.cursor \in Nat
    BY <1>1, <2>3 DEF Swept, ScanInvariant, ScanTypes
  <2> QED
    BY <1>1, <2>4 DEF Swept, Hosts
<1>3. ScanTypes'
  BY <1>1 DEF ScanInvariant, ScanTypes, Phases
<1>4. scan'.phase = "submit"
  BY <1>1 DEF ScanInvariant, ScanTypes
<1> QED
  BY <1>1, <1>2, <1>3, <1>4 DEF ScanInvariant, CursorIsBounded

LEMMA ScanStep ==
    ASSUME ScanInvariant, [ScanNext]_scanVars
    PROVE  ScanInvariant'
<1> USE ScanBounds
<1>0. ScanTypes
  BY DEF ScanInvariant
<1>1. CASE PressScan
  <2>1. scan' \in [phase : Phases, prefix : BOOLEAN] /\ scan'.phase = "bssid"
    BY <1>0, <1>1 DEF PressScan, ScanTypes, Phases
  <2> QED
    BY <1>1, <2>1 DEF PressScan, ScanInvariant, ScanTypes, CursorIsBounded
<1>2. CASE ReadNetwork
  <2>1. scan' \in [phase : Phases, prefix : BOOLEAN] /\ scan'.phase \in {"listen", "idle"}
    BY <1>0, <1>2 DEF ReadNetwork, ScanTypes, Phases
  <2>2. named' \in [Hosts -> Names \cup {Nobody}]
    BY <1>2 DEF ReadNetwork
  <2>3. probes' \in [Hosts -> Nat] /\ \A h \in Hosts : probes'[h] = 0
    BY <1>2 DEF ReadNetwork
  <2>4. UNCHANGED <<pool, filed>>
    BY <1>2 DEF ReadNetwork
  <2> QED
    BY <2>1, <2>2, <2>3, <2>4 DEF ScanInvariant, ScanTypes, CursorIsBounded
<1>3. CASE StopListening
  <2>1. /\ scan' \in [phase : Phases, prefix : BOOLEAN]
        /\ scan'.phase = IF scan'.prefix THEN "sweep" ELSE "submit"
    BY <1>3 DEF StopListening, Phases
  <2>2. /\ pool'.cursor = 0 /\ pool'.at = [w \in Workers |-> 0]
        /\ pool' \in [cursor : Nat, at : [Workers -> 0..Done], answered : SUBSET Hosts]
    BY <1>3 DEF StopListening, FreshPool, Done
  <2>3. Returned(pool'.at) = {}
    BY <2>2 DEF Returned, Done
  <2>4. UNCHANGED <<named, probes, filed>> /\ \A h \in Hosts : probes[h] = 0
    BY <1>3 DEF StopListening, ScanInvariant
  <2>5. ScanTypes'
    BY <1>0, <2>1, <2>2, <2>4 DEF ScanTypes
  <2>6. CursorIsBounded' /\ Swept(pool)'
    BY <2>2, <2>3, <2>4 DEF CursorIsBounded, Swept, Hosts
  <2> QED
    BY <2>1, <2>4, <2>5, <2>6 DEF ScanInvariant
<1>4. CASE SubmitScan
  <2>1. scan' \in [phase : Phases, prefix : BOOLEAN] /\ scan'.phase = "idle"
    BY <1>0, <1>4 DEF SubmitScan, ScanTypes, Phases
  <2>2. \A o \in filed' : o.ip \in Hosts /\ o.name \in Names \cup {Nobody}
    BY <1>0, <1>4 DEF SubmitScan, ScanTypes, Merged, ByName, BySweep, Announced
  <2> QED
    BY <1>4, <2>1, <2>2 DEF SubmitScan, ScanInvariant, ScanTypes, CursorIsBounded
<1>5. CASE \E h \in Hosts, name \in Names : Announce(h, name)
  <2>1. named' \in [Hosts -> Names \cup {Nobody}]
    BY <1>0, <1>5 DEF Announce, ScanTypes
  <2> QED
    BY <1>5, <2>1 DEF Announce, ScanInvariant, ScanTypes, CursorIsBounded, Swept
<1>6. CASE UNCHANGED scanVars
  BY <1>6 DEF scanVars, ScanInvariant, ScanTypes, CursorIsBounded, Swept
<1> QED
  BY <1>1, <1>2, <1>3, <1>4, <1>5, <1>6, TakeNextKeeps, ProbeEndsKeeps, SweepEndsKeeps
  DEF ScanNext

\* A scan always keeps to its types: the shared cursor passes the last host at
\* most once per worker (createWorker's cursor += 1 before its return).
THEOREM ScanTypesCorrect == ScanSpec => []ScanTypeOK
<1>1. ScanInvariant => ScanTypeOK
  BY PoolIsBounded DEF ScanInvariant, ScanTypes, ScanTypeOK
<1> QED
  BY <1>1, ScanStarts, ScanStep, PTL DEF ScanSpec

\* Whatever the pool and the order in which probes end: the workers of
\* probeInBatches probe every host of the network exactly once, and what
\* useNetworkScan submits has one observation for every address that answered.
THEOREM ScansAreComplete == ScanSpec => []ScanIsComplete
<1>1. ScanInvariant => ScanIsComplete
  <2> SUFFICES ASSUME ScanInvariant PROVE ScanIsComplete
    OBVIOUS
  <2>1. \A h \in Hosts : ByName(h).ip = h /\ BySweep(h).ip = h
    BY DEF ByName, BySweep
  <2>2. Announced \subseteq Hosts /\ pool.answered \subseteq Hosts
    BY DEF Announced, ScanInvariant, ScanTypes
  <2>3. {o.ip : o \in Merged} = Announced \cup pool.answered
    BY <2>1, <2>2 DEF Merged
  <2>4. \A o, other \in Merged : o.ip = other.ip => o = other
    BY <2>1, <2>2 DEF Merged
  <2> QED
    BY <2>3, <2>4 DEF ScanInvariant, ScanIsComplete
<1> QED
  BY <1>1, ScanStarts, ScanStep, PTL DEF ScanSpec

-----------------------------------------------------------------------------
(* The preferences.  A request carries only values the user has asked for, *)
(* and belongs to a screen that is there or to none.                       *)

Switches == [Key -> BOOLEAN]

Job == [on : Switchboards \cup {NoJob}, changes : UNION {[S -> BOOLEAN] : S \in SUBSET Key},
        previous : Switches, form : BOOLEAN, at : {"sent", "ok", "failed"},
        answer : Switches \cup {NoJob}]

PreferencesTypes ==
    /\ stored \in Switches
    /\ copy \in [Switchboards -> Board \cup {NoJob}]
    /\ box \in [silent : BOOLEAN, dirty : BOOLEAN, saving : BOOLEAN]
    /\ job \in [Jobs -> Job \cup {NoJob}]
    /\ chosen \in [Key -> SUBSET BOOLEAN]
    /\ edit \in Edits
    /\ saves \in 0..MaxSaves

\* With what the user has asked for and the screens that are there.
IsSound(r, asked, boards) ==
    /\ \A k \in DOMAIN r.changes : r.changes[k] \in asked[k]
    /\ r.at = "ok" => r.answer \in Switches
    /\ r.on # NoJob => boards[r.on] # NoJob

IsForm(r) == r # NoJob /\ r.form /\ r.on # NoJob

\* A touched box shows the last edit.  There is one save of the form at a time,
\* and while it runs it carries that edit, or the edit was made since.
EditInvariant ==
    /\ box.dirty => box.silent = edit.value
    /\ BoxShowsEdit
    /\ \A j \in Jobs : IsForm(job[j]) => job[j].on = "notifications" /\ box.saving
    /\ \A i, j \in Jobs : IsForm(job[i]) /\ IsForm(job[j]) => i = j
    /\ box.saving /\ edit.state = "open" => edit.crossed

PreferencesInvariant ==
    /\ PreferencesTypes
    /\ OnlyWhatWasChosen
    /\ EditInvariant
    /\ \A j \in Jobs : job[j] # NoJob => IsSound(job[j], chosen, copy)

USE DEF Switches

LEMMA PreferencesStart == PreferencesInit => PreferencesInvariant
  BY PreferencesBounds
  DEF PreferencesInit, PreferencesInvariant, PreferencesTypes, FreshBox, OnlyWhatWasChosen,
      EditInvariant, IsForm, BoxShowsEdit, NoEdit, Edits, Switchboards

\* The edit is as it was while the box is and no save of the form begins.
LEMMA EditUndisturbed ==
    ASSUME EditInvariant, UNCHANGED <<box, edit>>,
           \A i \in Jobs : IsForm(job'[i]) => IsForm(job[i]) /\ job'[i].on = job[i].on
    PROVE  EditInvariant'
  BY DEF EditInvariant, BoxShowsEdit

\* A request stays sound while what was asked for only grows and no screen goes.
LEMMA StaysSound ==
    ASSUME NEW r, IsSound(r, chosen, copy), chosen' \in [Key -> SUBSET BOOLEAN],
           DOMAIN r.changes \subseteq Key,
           \A k \in Key : chosen[k] \subseteq chosen'[k],
           \A s : copy[s] # NoJob => copy'[s] # NoJob
    PROVE  IsSound(r, chosen', copy')
  BY DEF IsSound

LEMMA ChangesAreOfKeys ==
    ASSUME PreferencesTypes, NEW j \in Jobs, job[j] # NoJob
    PROVE  /\ job[j] \in Job /\ DOMAIN job[j].changes \subseteq Key
           /\ \A k \in DOMAIN job[j].changes : job[j].changes[k] \in BOOLEAN
<1>1. job[j] \in Job
  BY DEF PreferencesTypes
<1>2. PICK S \in SUBSET Key : job[j].changes \in [S -> BOOLEAN]
  BY <1>1 DEF Job
<1> QED
  BY <1>1, <1>2

\* What setPreference does to everything but the form.
LEMMA SetPreferenceKeeps ==
    ASSUME PreferencesInvariant, NEW j \in Jobs, NEW s \in Switchboards, NEW k \in Key,
           NEW value \in BOOLEAN, NEW ofForm \in BOOLEAN, copy[s] # NoJob,
           SetPreference(j, s, k, value, ofForm)
    PROVE  /\ copy' \in [Switchboards -> Board \cup {NoJob}]
           /\ \A t \in Switchboards : copy'[t] # NoJob <=> copy[t] # NoJob
           /\ job' \in [Jobs -> Job \cup {NoJob}]
           /\ chosen' \in [Key -> SUBSET BOOLEAN]
           /\ saves' \in 0..MaxSaves
           /\ OnlyWhatWasChosen'
           /\ \A i \in Jobs : job'[i] # NoJob => IsSound(job'[i], chosen', copy')
<1> USE PreferencesBounds
<1>0. PreferencesTypes
  BY DEF PreferencesInvariant
<1>1. copy[s] \in Board
  BY <1>0 DEF PreferencesTypes
<1> DEFINE board == [copy[s] EXCEPT !.shown[k] = value]
<1>2. board \in Board
  BY <1>1 DEF Board
<1>3. copy' = [copy EXCEPT ![s] = board]
  BY <1>0 DEF SetPreference, PreferencesTypes
<1> HIDE DEF board
<1>4. copy' \in [Switchboards -> Board \cup {NoJob}]
  BY <1>0, <1>2, <1>3 DEF PreferencesTypes
<1>5. \A t \in Switchboards : copy'[t] # NoJob <=> copy[t] # NoJob
  BY <1>0, <1>1, <1>2, <1>3, NoJobIsNoBoard DEF PreferencesTypes
<1>6. /\ chosen' = [chosen EXCEPT ![k] = @ \cup {value}] /\ UNCHANGED stored
      /\ saves' = saves + 1 /\ saves < MaxSaves
  BY DEF SetPreference
<1>7. chosen' \in [Key -> SUBSET BOOLEAN] /\ \A key \in Key : chosen[key] \subseteq chosen'[key]
  BY <1>0, <1>6 DEF PreferencesTypes
<1> DEFINE new == NewJob(s, Update(s, k, value), copy[s].shown, ofForm)
<1>8. job[j] = NoJob /\ job' = [job EXCEPT ![j] = new]
  BY DEF SetPreference, Begin
<1>9. new.changes = [key \in {k} |-> value] /\ new.at = "sent" /\ new.on = s
  BY DEF NewJob, Update
<1>10. new \in Job
  <2>1. new.changes \in UNION {[S -> BOOLEAN] : S \in SUBSET Key}
    <3>1. new.changes \in [{k} -> BOOLEAN]
      BY <1>9
    <3> QED
      BY <3>1
  <2>2. copy[s].shown \in Switches
    BY <1>1 DEF Board
  <2> QED
    BY <2>1, <2>2 DEF NewJob, Update, Job
<1>11. IsSound(new, chosen', copy')
  BY <1>0, <1>5, <1>6, <1>9 DEF IsSound, PreferencesTypes
<1> HIDE DEF new
<1>12. job' \in [Jobs -> Job \cup {NoJob}]
  BY <1>0, <1>8, <1>10 DEF PreferencesTypes
<1>13. ASSUME NEW i \in Jobs, job'[i] # NoJob PROVE IsSound(job'[i], chosen', copy')
  <2>1. CASE i = j
    BY <1>0, <1>8, <1>11, <2>1 DEF PreferencesTypes
  <2>2. CASE i # j
    <3>1. job'[i] = job[i] /\ IsSound(job[i], chosen, copy) /\ job[i] \in Job
      BY <1>0, <1>8, <1>13, <2>2 DEF PreferencesTypes, PreferencesInvariant
    <3>2. DOMAIN job[i].changes \subseteq Key
      BY <1>0, <1>13, <3>1, ChangesAreOfKeys
    <3>3. job[i].on # NoJob => job[i].on \in Switchboards
      BY <3>1 DEF Job
    <3> QED
      BY <1>5, <1>7, <3>1, <3>2, <3>3 DEF IsSound
  <2> QED
    BY <2>1, <2>2
<1>14. OnlyWhatWasChosen'
  BY <1>6, <1>7 DEF OnlyWhatWasChosen, PreferencesInvariant
<1>15. saves' \in 0..MaxSaves
  BY <1>0, <1>6 DEF PreferencesTypes
<1> QED
  BY <1>4, <1>5, <1>7, <1>12, <1>13, <1>14, <1>15

LEMMA FlipSwitchKeeps ==
    ASSUME PreferencesInvariant, NEW j \in Jobs, NEW k \in Key, FlipSwitch(j, k)
    PROVE  PreferencesInvariant'
<1>0. PreferencesTypes
  BY DEF PreferencesInvariant
<1> DEFINE value == ~copy["settings"].shown[k]
<1>1. /\ copy["settings"] # NoJob /\ copy["notifications"] = NoJob /\ value \in BOOLEAN
      /\ SetPreference(j, "settings", k, value, FALSE)
      /\ "settings" \in Switchboards /\ "notifications" \in Switchboards
  BY DEF FlipSwitch, Switchboards
<1>2. UNCHANGED <<box, edit, stored>>
  BY DEF FlipSwitch, SetPreference
<1> HIDE DEF value
<1>4. EditInvariant'
  <2>1. job' = [job EXCEPT ![j] = NewJob("settings", Update("settings", k, value),
                                         copy["settings"].shown, FALSE)]
    BY <1>1 DEF SetPreference, Begin
  <2>2. \A i \in Jobs : IsForm(job'[i]) => job'[i] = job[i]
    BY <1>0, <2>1 DEF IsForm, NewJob, PreferencesTypes
  <2> QED
    BY <1>2, <2>2, EditUndisturbed DEF PreferencesInvariant
<1>3. /\ copy' \in [Switchboards -> Board \cup {NoJob}]
      /\ copy'["notifications"] = NoJob
      /\ job' \in [Jobs -> Job \cup {NoJob}]
      /\ chosen' \in [Key -> SUBSET BOOLEAN]
      /\ saves' \in 0..MaxSaves
      /\ OnlyWhatWasChosen'
      /\ \A i \in Jobs : job'[i] # NoJob => IsSound(job'[i], chosen', copy')
  BY <1>1, SetPreferenceKeeps
<1> QED
  BY <1>0, <1>2, <1>3, <1>4 DEF PreferencesInvariant, PreferencesTypes

LEMMA SaveBoxKeeps ==
    ASSUME PreferencesInvariant, NEW j \in Jobs, SaveBox(j)
    PROVE  PreferencesInvariant'
<1>0. PreferencesTypes
  BY DEF PreferencesInvariant
<1>1. /\ copy["notifications"] # NoJob /\ box.silent \in BOOLEAN
      /\ SetPreference(j, "notifications", SilentKey, box.silent, TRUE)
      /\ "notifications" \in Switchboards /\ SilentKey \in Key
  BY <1>0, PreferencesBounds DEF SaveBox, Switchboards, PreferencesTypes
<1>2. /\ box.dirty /\ ~box.saving /\ box' = [box EXCEPT !.saving = TRUE]
      /\ edit' = [edit EXCEPT !.state = "sent"] /\ UNCHANGED stored
  BY DEF SaveBox, SetPreference
<1>3. /\ box' \in [silent : BOOLEAN, dirty : BOOLEAN, saving : BOOLEAN]
      /\ box'.silent = box.silent /\ box'.dirty = box.dirty /\ box'.saving
      /\ edit' \in Edits /\ edit'.value = edit.value /\ edit'.state = "sent"
  BY <1>0, <1>2 DEF PreferencesTypes, Edits
<1>5. EditInvariant'
  <2>1. job' = [job EXCEPT ![j] = NewJob("notifications",
                  Update("notifications", SilentKey, box.silent), copy["notifications"].shown, TRUE)]
    BY <1>1 DEF SetPreference, Begin
  <2>2. job'[j].on = "notifications" /\ \A i \in Jobs : i # j => job'[i] = job[i]
    BY <1>0, <2>1 DEF NewJob, PreferencesTypes
  <2>3. \A i \in Jobs : ~IsForm(job[i])
    BY <1>2 DEF PreferencesInvariant, EditInvariant
  <2>4. \A i \in Jobs : IsForm(job'[i]) => i = j
    BY <2>2, <2>3
  <2> QED
    BY <1>2, <1>3, <2>2, <2>4 DEF PreferencesInvariant, EditInvariant, BoxShowsEdit
<1>4. /\ copy' \in [Switchboards -> Board \cup {NoJob}]
      /\ job' \in [Jobs -> Job \cup {NoJob}]
      /\ chosen' \in [Key -> SUBSET BOOLEAN]
      /\ saves' \in 0..MaxSaves
      /\ OnlyWhatWasChosen'
      /\ \A i \in Jobs : job'[i] # NoJob => IsSound(job'[i], chosen', copy')
  BY <1>1, SetPreferenceKeeps
<1> QED
  BY <1>0, <1>2, <1>3, <1>4, <1>5 DEF PreferencesInvariant, PreferencesTypes

LEMMA ToggleBoxKeeps ==
    ASSUME PreferencesInvariant, ToggleBox
    PROVE  PreferencesInvariant'
<1>1. /\ box' \in [silent : BOOLEAN, dirty : BOOLEAN, saving : BOOLEAN]
      /\ box'.silent = edit'.value /\ box'.dirty /\ box'.saving = box.saving
      /\ edit' \in Edits /\ edit'.crossed = box.saving
  BY DEF ToggleBox, PreferencesInvariant, PreferencesTypes, Edits
<1>2. EditInvariant'
  BY <1>1 DEF ToggleBox, PreferencesInvariant, EditInvariant, BoxShowsEdit
<1> QED
  BY <1>1, <1>2 DEF ToggleBox, PreferencesInvariant, PreferencesTypes, OnlyWhatWasChosen,
                    IsSound

LEMMA OpenBoardKeeps ==
    ASSUME PreferencesInvariant, NEW j \in Jobs, NEW s \in Switchboards, OpenBoard(j, s)
    PROVE  PreferencesInvariant'
<1> USE PreferencesBounds
<1>0. PreferencesTypes
  BY DEF PreferencesInvariant
<1>1. /\ copy[s] = NoJob /\ copy' = [copy EXCEPT ![s] = Fresh]
      /\ UNCHANGED <<stored, chosen, saves>>
  BY DEF OpenBoard
<1>2. Fresh \in Board /\ Fresh # NoJob
  <2>1. Fresh \in Board
    BY DEF Fresh, Board
  <2> QED
    BY <2>1, NoJobIsNoBoard
<1>3. /\ copy' \in [Switchboards -> Board \cup {NoJob}] /\ copy'[s] # NoJob
      /\ \A t \in Switchboards : t # s => copy'[t] = copy[t]
  BY <1>0, <1>1, <1>2 DEF PreferencesTypes
<1> DEFINE new == NewJob(s, <<>>, Defaults, FALSE)
<1>4. job' = [job EXCEPT ![j] = new]
  BY DEF OpenBoard, Begin
<1>5. DOMAIN new.changes = {} /\ new.changes = <<>> /\ new.at = "sent" /\ new.on = s
  BY DEF NewJob
<1>6. new \in Job
  <2>1. <<>> \in [{} -> BOOLEAN]
    OBVIOUS
  <2>2. <<>> \in UNION {[S -> BOOLEAN] : S \in SUBSET Key}
    BY <2>1
  <2> QED
    BY <2>2 DEF NewJob, Job
<1>7. IsSound(new, chosen', copy')
  BY <1>3, <1>5 DEF IsSound
<1> HIDE DEF new
<1>8. job' \in [Jobs -> Job \cup {NoJob}]
  BY <1>0, <1>4, <1>6 DEF PreferencesTypes
<1>9. ASSUME NEW i \in Jobs, job'[i] # NoJob PROVE IsSound(job'[i], chosen', copy')
  <2>1. CASE i = j
    BY <1>0, <1>4, <1>7, <2>1 DEF PreferencesTypes
  <2>2. CASE i # j
    <3>1. job'[i] = job[i] /\ IsSound(job[i], chosen, copy) /\ job[i] \in Job
      BY <1>0, <1>4, <1>9, <2>2 DEF PreferencesTypes, PreferencesInvariant
    <3>2. job[i].on # NoJob => job[i].on \in Switchboards
      BY <3>1 DEF Job
    <3> QED
      BY <1>1, <1>3, <3>1, <3>2 DEF IsSound
  <2> QED
    BY <2>1, <2>2
<1>12. \A i \in Jobs : IsForm(job'[i]) => job'[i] = job[i]
  BY <1>0, <1>4 DEF new, NewJob, IsForm, PreferencesTypes
<1>10. CASE s = "notifications"
  <2>1. box' = FreshBox /\ edit' = NoEdit
    BY <1>10 DEF OpenBoard
  <2>2. \A i \in Jobs : ~IsForm(job'[i])
    BY <1>1, <1>10, <1>12 DEF PreferencesInvariant, EditInvariant, IsSound, IsForm
  <2> QED
    BY <1>0, <1>1, <1>3, <1>8, <1>9, <2>1, <2>2
    DEF PreferencesInvariant, PreferencesTypes, EditInvariant, BoxShowsEdit, FreshBox,
        OnlyWhatWasChosen, NoEdit, Edits
<1>11. CASE s # "notifications"
  <2>1. box' = box /\ edit' = edit
    BY <1>11 DEF OpenBoard
  <2>2. EditInvariant'
    BY <1>12, <2>1, EditUndisturbed DEF PreferencesInvariant
  <2> QED
    BY <1>0, <1>1, <1>3, <1>8, <1>9, <2>1, <2>2
    DEF PreferencesInvariant, PreferencesTypes, OnlyWhatWasChosen
<1> QED
  BY <1>10, <1>11

LEMMA CloseBoardKeeps ==
    ASSUME PreferencesInvariant, NEW s \in Switchboards, CloseBoard(s)
    PROVE  PreferencesInvariant'
<1> USE PreferencesBounds
<1>0. PreferencesTypes
  BY DEF PreferencesInvariant
<1>1. /\ copy' = [copy EXCEPT ![s] = NoJob]
      /\ job' = [j \in Jobs |-> IF job[j] # NoJob /\ job[j].on = s
                                  THEN [job[j] EXCEPT !.on = NoJob] ELSE job[j]]
      /\ UNCHANGED <<stored, chosen, saves>>
  BY DEF CloseBoard
<1>2. /\ copy' \in [Switchboards -> Board \cup {NoJob}]
      /\ copy'[s] = NoJob /\ \A t \in Switchboards : t # s => copy'[t] = copy[t]
  BY <1>0, <1>1 DEF PreferencesTypes
<1>3. ASSUME NEW i \in Jobs
      PROVE  job'[i] \in Job \cup {NoJob} /\ (job'[i] # NoJob => IsSound(job'[i], chosen', copy'))
  <2>1. CASE job[i] # NoJob /\ job[i].on = s
    <3>1. job'[i] = [job[i] EXCEPT !.on = NoJob] /\ job[i] \in Job /\ IsSound(job[i], chosen, copy)
      BY <1>0, <1>1, <2>1 DEF PreferencesTypes, PreferencesInvariant
    <3>2. /\ job'[i] \in Job /\ job'[i].on = NoJob /\ job'[i].changes = job[i].changes
          /\ job'[i].at = job[i].at /\ job'[i].answer = job[i].answer
      BY <3>1 DEF Job
    <3> QED
      BY <1>1, <3>1, <3>2 DEF IsSound
  <2>2. CASE ~(job[i] # NoJob /\ job[i].on = s)
    <3>1. /\ job'[i] = job[i] /\ job[i] \in Job \cup {NoJob}
          /\ job[i] # NoJob => IsSound(job[i], chosen, copy)
      BY <1>0, <1>1, <2>2 DEF PreferencesTypes, PreferencesInvariant
    <3>2. job[i] # NoJob /\ job[i].on # NoJob => job[i].on \in Switchboards /\ job[i].on # s
      BY <2>2, <3>1 DEF Job
    <3> QED
      BY <1>1, <1>2, <3>1, <3>2 DEF IsSound
  <2> QED
    BY <2>1, <2>2
<1>4. job' \in [Jobs -> Job \cup {NoJob}]
  BY <1>1, <1>3
<1>7. \A i \in Jobs : IsForm(job'[i]) => job'[i] = job[i] /\ job[i].on # s
  <2>1. SUFFICES ASSUME NEW i \in Jobs, IsForm(job'[i]) PROVE job'[i] = job[i] /\ job[i].on # s
    OBVIOUS
  <2>2. CASE job[i] # NoJob /\ job[i].on = s
    <3>1. job'[i] = [job[i] EXCEPT !.on = NoJob] /\ job[i] \in Job
      BY <1>0, <1>1, <2>2 DEF PreferencesTypes
    <3>2. job'[i].on = NoJob
      BY <3>1 DEF Job
    <3> QED
      BY <2>1, <3>2 DEF IsForm
  <2>3. CASE ~(job[i] # NoJob /\ job[i].on = s)
    BY <1>1, <2>1, <2>3 DEF IsForm
  <2> QED
    BY <2>2, <2>3
<1>5. CASE s = "notifications"
  <2>1. box' = FreshBox /\ edit' = NoEdit
    BY <1>5 DEF CloseBoard
  <2>2. \A i \in Jobs : ~IsForm(job'[i])
    BY <1>5, <1>7 DEF PreferencesInvariant, EditInvariant
  <2> QED
    BY <1>0, <1>1, <1>2, <1>3, <1>4, <2>1, <2>2
    DEF PreferencesInvariant, PreferencesTypes, EditInvariant, BoxShowsEdit, FreshBox,
        OnlyWhatWasChosen, NoEdit, Edits
<1>6. CASE s # "notifications"
  <2>1. box' = box /\ edit' = edit
    BY <1>6 DEF CloseBoard
  <2>2. EditInvariant'
    BY <1>7, <2>1, EditUndisturbed DEF PreferencesInvariant
  <2> QED
    BY <1>0, <1>1, <1>2, <1>3, <1>4, <2>1, <2>2
    DEF PreferencesInvariant, PreferencesTypes, OnlyWhatWasChosen
<1> QED
  BY <1>5, <1>6

LEMMA AnswerJobKeeps ==
    ASSUME PreferencesInvariant, NEW j \in Jobs, AnswerJob(j)
    PROVE  PreferencesInvariant'
<1>0. PreferencesTypes
  BY DEF PreferencesInvariant
<1>1. /\ job[j] # NoJob /\ job[j].at = "sent"
      /\ UNCHANGED <<copy, box, chosen, edit, saves>>
  BY DEF AnswerJob
<1>2. /\ job[j] \in Job /\ DOMAIN job[j].changes \subseteq Key /\ IsSound(job[j], chosen, copy)
      /\ \A k \in DOMAIN job[j].changes : job[j].changes[k] \in BOOLEAN
  BY <1>0, <1>1, ChangesAreOfKeys DEF PreferencesInvariant
<1> DEFINE after == [k \in Key |-> IF k \in DOMAIN job[j].changes
                                     THEN job[j].changes[k] ELSE stored[k]]
           ok == [job[j] EXCEPT !.answer = after, !.at = "ok"]
           failed == [job[j] EXCEPT !.at = "failed"]
<1>3. /\ stored' \in {after, stored}
      /\ \/ job' = [job EXCEPT ![j] = ok]
         \/ job' = [job EXCEPT ![j] = failed]
  BY <1>0 DEF AnswerJob, PreferencesTypes
<1>4. after \in Switches /\ \A k \in Key : after[k] \in chosen[k]
  BY <1>0, <1>2 DEF PreferencesTypes, IsSound, PreferencesInvariant, OnlyWhatWasChosen
<1> HIDE DEF after
<1>5. stored' \in Switches /\ OnlyWhatWasChosen'
  BY <1>0, <1>1, <1>3, <1>4 DEF PreferencesTypes, OnlyWhatWasChosen, PreferencesInvariant
<1>6. /\ ok \in Job /\ ok.on = job[j].on /\ ok.changes = job[j].changes /\ ok.answer \in Switches
      /\ failed \in Job /\ failed.on = job[j].on /\ failed.changes = job[j].changes
      /\ failed.at = "failed" /\ ok.form = job[j].form /\ failed.form = job[j].form
  BY <1>2, <1>4 DEF Job
<1>7. IsSound(ok, chosen', copy') /\ IsSound(failed, chosen', copy')
  BY <1>1, <1>2, <1>6 DEF IsSound
<1> HIDE DEF ok, failed
<1>8. job' \in [Jobs -> Job \cup {NoJob}]
  BY <1>0, <1>3, <1>6 DEF PreferencesTypes
<1>9. \A i \in Jobs : i # j => job'[i] = job[i]
  BY <1>0, <1>3 DEF PreferencesTypes
<1>10. job'[j] \in {ok, failed}
  BY <1>0, <1>3 DEF PreferencesTypes
<1>11. ASSUME NEW i \in Jobs, job'[i] # NoJob PROVE IsSound(job'[i], chosen', copy')
  BY <1>1, <1>7, <1>9, <1>10, <1>11 DEF IsSound, PreferencesInvariant
<1>12. EditInvariant'
  <2>1. \A i \in Jobs : IsForm(job'[i]) => IsForm(job[i]) /\ job'[i].on = job[i].on
    BY <1>1, <1>6, <1>9, <1>10 DEF IsForm
  <2> QED
    BY <1>1, <2>1, EditUndisturbed DEF PreferencesInvariant
<1> QED
  BY <1>0, <1>1, <1>5, <1>8, <1>11, <1>12 DEF PreferencesInvariant, PreferencesTypes

LEMMA LandJobKeeps ==
    ASSUME PreferencesInvariant, NEW j \in Jobs, LandJob(j)
    PROVE  PreferencesInvariant'
<1>0. PreferencesTypes
  BY DEF PreferencesInvariant
<1>1. /\ job[j] # NoJob /\ job[j].at # "sent" /\ job' = [job EXCEPT ![j] = NoJob]
      /\ UNCHANGED <<stored, chosen, saves>>
  BY DEF LandJob
<1>2. job[j] \in Job /\ IsSound(job[j], chosen, copy)
  BY <1>0, <1>1 DEF PreferencesInvariant, PreferencesTypes
<1>3. job' \in [Jobs -> Job \cup {NoJob}]
  BY <1>0, <1>1 DEF PreferencesTypes
<1>4. \A i \in Jobs : job'[i] # NoJob => job'[i] = job[i]
  BY <1>0, <1>1 DEF PreferencesTypes
<1>5. CASE job[j].on = NoJob
  <2>1. UNCHANGED <<copy, box, edit>>
    BY <1>5 DEF LandJob
  <2>2. EditInvariant'
    BY <1>4, <2>1, EditUndisturbed DEF PreferencesInvariant, IsForm
  <2> QED
    BY <1>0, <1>1, <1>3, <1>4, <2>1, <2>2
    DEF PreferencesInvariant, PreferencesTypes, OnlyWhatWasChosen, IsSound
<1>6. CASE job[j].on # NoJob
  <2> DEFINE r == job[j]
             load == DOMAIN r.changes = {}
             board == [shown |-> IF r.at # "failed" THEN r.answer
                                 ELSE IF load THEN copy[r.on].shown ELSE r.previous,
                       loading |-> copy[r.on].loading /\ ~load]
             form2 == IF r.form THEN [box EXCEPT !.dirty = FALSE, !.saving = FALSE] ELSE box
  <2>1. copy[r.on] \in Board /\ r.on \in Switchboards
    BY <1>0, <1>2, <1>6 DEF IsSound, PreferencesTypes, Job
  <2>2. board \in Board
    BY <1>1, <1>2, <2>1 DEF Board, Job, IsSound
  <2>3. /\ copy' = [copy EXCEPT ![r.on] = board]
        /\ box' = IF r.on = "notifications" THEN Adopt(board, form2) ELSE box
        /\ edit' = IF r.form /\ edit.state = "sent" THEN NoEdit ELSE edit
    BY <1>6 DEF LandJob
  <2>4. /\ copy' \in [Switchboards -> Board \cup {NoJob}]
        /\ \A s \in Switchboards : copy'[s] # NoJob <=> copy[s] # NoJob
    <3> HIDE DEF board, r
    <3> QED
      BY <1>0, <2>1, <2>2, <2>3, NoJobIsNoBoard DEF PreferencesTypes
  <2>5. /\ form2 \in [silent : BOOLEAN, dirty : BOOLEAN, saving : BOOLEAN]
        /\ form2.silent = box.silent /\ (form2.dirty => box.dirty)
        /\ r.form => ~form2.dirty /\ ~form2.saving
        /\ ~r.form => form2 = box
    BY <1>0 DEF PreferencesTypes
  <2>6. /\ box' \in [silent : BOOLEAN, dirty : BOOLEAN, saving : BOOLEAN]
        /\ (box'.dirty => box.dirty /\ box'.silent = box.silent)
        /\ r.form /\ r.on = "notifications" => ~box'.dirty /\ ~box'.saving
        /\ ~r.form => box'.dirty = box.dirty /\ box'.saving = box.saving
    <3>1. board.shown[SilentKey] \in BOOLEAN
      BY <2>2, PreferencesBounds DEF Board
    <3> HIDE DEF board, form2, r
    <3> QED
      BY <1>0, <2>3, <2>5, <3>1 DEF Adopt, PreferencesTypes
  <2>7. \A i \in Jobs : job'[i] # NoJob => IsSound(job'[i], chosen', copy')
    <3>1. SUFFICES ASSUME NEW i \in Jobs, job'[i] # NoJob PROVE IsSound(job'[i], chosen', copy')
      OBVIOUS
    <3>2. job'[i] = job[i] /\ IsSound(job[i], chosen, copy) /\ job[i] \in Job
      BY <1>0, <1>4, <3>1 DEF PreferencesInvariant, PreferencesTypes
    <3>3. job[i].on # NoJob => job[i].on \in Switchboards
      BY <3>2 DEF Job
    <3> HIDE DEF board, form2, r
    <3> QED
      BY <1>1, <2>4, <3>2, <3>3 DEF IsSound
  <2>8. "notifications" \in Switchboards
    BY DEF Switchboards
  <2>9. edit' \in Edits
    BY <1>0, <2>3, PreferencesBounds DEF PreferencesTypes, NoEdit, Edits
  <2>10. EditInvariant'
    <3> HIDE DEF board, form2
    <3>1. EditInvariant
      BY DEF PreferencesInvariant
    <3>2. \A i \in Jobs : IsForm(job'[i]) => job'[i] = job[i] /\ i # j
      BY <1>0, <1>1, <1>4 DEF IsForm, PreferencesTypes
    <3>3. CASE r.form
      <4>1. IsForm(job[j]) /\ r.on = "notifications" /\ box.saving
        BY <1>1, <1>6, <3>1, <3>3 DEF IsForm, EditInvariant
      <4>2. \A i \in Jobs : ~IsForm(job'[i])
        BY <3>1, <3>2, <4>1 DEF EditInvariant
      <4>3. edit'.state # "none" => edit' = edit /\ edit.state = "open" /\ edit.crossed
        BY <1>0, <2>3, <3>1, <3>3, <4>1 DEF EditInvariant, NoEdit, Edits, PreferencesTypes
      <4> QED
        BY <2>6, <3>3, <4>1, <4>2, <4>3 DEF EditInvariant, BoxShowsEdit
    <3>4. CASE ~r.form
      <4>1. edit' = edit
        BY <2>3, <3>4
      <4> QED
        BY <2>6, <3>1, <3>2, <3>4, <4>1 DEF EditInvariant, BoxShowsEdit
    <3> QED
      BY <3>3, <3>4
  <2> HIDE DEF board, form2, r
  <2> QED
    BY <1>0, <1>1, <1>3, <2>4, <2>6, <2>7, <2>9, <2>10
    DEF PreferencesInvariant, PreferencesTypes, OnlyWhatWasChosen
<1> QED
  BY <1>5, <1>6

LEMMA PreferencesStep ==
    ASSUME PreferencesInvariant, [PreferencesNext]_preferenceVars
    PROVE  PreferencesInvariant'
<1>1. CASE UNCHANGED preferenceVars
  BY <1>1, EditUndisturbed DEF preferenceVars, PreferencesInvariant, PreferencesTypes,
              OnlyWhatWasChosen, IsSound
<1> QED
  BY <1>1, ToggleBoxKeeps, CloseBoardKeeps, SaveBoxKeeps, AnswerJobKeeps, LandJobKeeps,
     OpenBoardKeeps, FlipSwitchKeeps DEF PreferencesNext

\* The inductive invariant of the preferences holds in every behaviour of
\* usePreferences and the two screens that use it.
THEOREM PreferencesInvariantHolds == PreferencesSpec => []PreferencesInvariant
  BY PreferencesStart, PreferencesStep, PTL DEF PreferencesSpec

\* The switches, the form and the stored row always have their types, and what a
\* landing request writes into a screen's copy is a whole set of preferences.
THEOREM PreferencesTypesCorrect == PreferencesSpec => []PreferencesTypeOK
<1>1. PreferencesInvariant => PreferencesTypeOK
  BY DEF PreferencesInvariant, PreferencesTypes, PreferencesTypeOK, Board
<1> QED
  BY <1>1, PreferencesInvariantHolds, PTL

\* However loads, saves and the screens opening and closing interleave, the
\* server's row only ever holds what the user put each switch to: usePreferences
\* sends the switch that moved and nothing of what else its screen shows.
THEOREM OnlyChosenIsStored == PreferencesSpec => []OnlyWhatWasChosen
<1>1. PreferencesInvariant => OnlyWhatWasChosen
  BY DEF PreferencesInvariant
<1> QED
  BY <1>1, PreferencesInvariantHolds, PTL

\* Whatever lands, and whichever screen asked for it, an edit made while the
\* notification screen was not saving stays in its box until the save that carries
\* it has been answered.
THEOREM EditsStayInTheBox == PreferencesSpec => []BoxShowsEdit
<1>1. PreferencesInvariant => BoxShowsEdit
  BY DEF PreferencesInvariant, EditInvariant
<1> QED
  BY <1>1, PreferencesInvariantHolds, PTL

-----------------------------------------------------------------------------
(* The forms.  AsyncStorage answers in the order it is asked, so sign-ins  *)
(* write their users in the order in which they wrote their tokens: the    *)
(* stored token is that of the last whose user is still to be written, and *)
(* with none left it is the stored user's.                                 *)

FormsTypes ==
    /\ route \in Forms \cup {"App"}
    /\ form \in [Forms -> [ready : BOOLEAN, busy : BOOLEAN, sent : BOOLEAN]]
    /\ run \in [Runs -> Submission \cup {Unknown}]
    /\ disk \in [token : Accounts \cup {Unknown}, user : Accounts \cup {Unknown}]
    /\ face \in [token : Accounts \cup {Unknown}, user : Accounts \cup {Unknown}]
    /\ queue \in Seq(Runs)
    /\ submits \in 0..MaxSubmits

\* The phase of the i-th in line.
At(i) == run[queue[i]].at

InLine ==
    /\ \A i \in 1..Len(queue) :
         run[queue[i]] # Unknown /\ SignsIn(queue[i]) /\ At(i) # "sent"
    /\ \A i, j \in 1..Len(queue) : queue[i] = queue[j] => i = j

LastTokenStands ==
    /\ \A i \in 1..Len(queue) :
         At(i) = "user" /\ (\A j \in (i + 1)..Len(queue) : At(j) # "user") =>
           disk.token = run[queue[i]].account
    /\ (\A i \in 1..Len(queue) : At(i) # "user") => disk.token = disk.user

ShownIsStored ==
    /\ face.token = disk.user
    /\ (\A i \in 1..Len(queue) : At(i) # "read") => face.user = disk.user

FormsInvariant == FormsTypes /\ InLine /\ LastTokenStands /\ ShownIsStored
Form == [ready : BOOLEAN, busy : BOOLEAN, sent : BOOLEAN]

LEMMA FormsStart == FormsInit => FormsInvariant
<1> SUFFICES ASSUME FormsInit PROVE FormsInvariant
  OBVIOUS
<1>1. queue = <<>> /\ Len(queue) = 0
  BY DEF FormsInit
<1>2. FormsTypes
  BY FormsBounds DEF FormsInit, FormsTypes, Forms, Blank, NoAccount
<1>3. InLine
  BY <1>1 DEF InLine
<1>4. LastTokenStands /\ ShownIsStored
  BY <1>1 DEF FormsInit, NoAccount, LastTokenStands, ShownIsStored
<1> QED
  BY <1>2, <1>3, <1>4 DEF FormsInvariant

\* What two records of a submission have to agree on for those in line.
SameSignIn(k, l) == l # Unknown /\ l.kind = k.kind /\ l.at = k.at /\ l.account = k.account

\* Steps of the forms alone: storage, what is shown and the line stay.
LEMMA LineUndisturbed ==
    ASSUME FormsInvariant, FormsTypes', UNCHANGED <<disk, face, queue>>,
           \A i \in 1..Len(queue) : SameSignIn(run[queue[i]], run'[queue[i]])
    PROVE  FormsInvariant'
  BY SMTT(40) DEF FormsInvariant, InLine, LastTokenStands, ShownIsStored, At, SignsIn, SameSignIn

LEMMA LineIsOfRuns ==
    ASSUME FormsInvariant, NEW i \in 1..Len(queue)
    PROVE  queue[i] \in Runs /\ run[queue[i]] \in Submission /\ run[queue[i]] # Unknown
  BY UnknownIsNoSubmission DEF FormsInvariant, FormsTypes, InLine

LEMMA UnmountedKeeps ==
    ASSUME FormsInvariant, NEW f
    PROVE  /\ Unmounted(f) \in [Runs -> Submission \cup {Unknown}]
           /\ \A i \in 1..Len(queue) : SameSignIn(run[queue[i]], Unmounted(f)[queue[i]])
<1>1. ASSUME NEW r \in Runs, run[r] # Unknown
      PROVE  Unmounted(f)[r] \in Submission /\ SameSignIn(run[r], Unmounted(f)[r])
  <2>1. run[r] \in Submission
    BY <1>1 DEF FormsInvariant, FormsTypes
  <2> DEFINE gone == [run[r] EXCEPT !.from = Unknown]
  <2>2. /\ gone \in Submission /\ gone.kind = run[r].kind /\ gone.at = run[r].at
        /\ gone.account = run[r].account
    BY <2>1 DEF Submission
  <2>3. Unmounted(f)[r] \in {gone, run[r]}
    BY <1>1 DEF Unmounted
  <2> HIDE DEF gone
  <2> QED
    BY <1>1, <2>1, <2>2, <2>3, UnknownIsNoSubmission DEF SameSignIn
<1>2. ASSUME NEW r \in Runs, run[r] = Unknown PROVE Unmounted(f)[r] = Unknown
  BY <1>2 DEF Unmounted
<1>3. Unmounted(f) \in [Runs -> Submission \cup {Unknown}]
  <2>1. \A r \in Runs : Unmounted(f)[r] \in Submission \cup {Unknown}
    BY <1>1, <1>2
  <2>2. Unmounted(f) = [r \in Runs |-> Unmounted(f)[r]]
    BY DEF Unmounted
  <2> QED
    BY <2>1, <2>2
<1> QED
  BY <1>1, <1>3, LineIsOfRuns

LEMMA FinishedIsTyped ==
    ASSUME FormsInvariant, NEW r \in Runs, run[r] # Unknown, NEW succeeded \in BOOLEAN
    PROVE  Finished(r, succeeded) \in [Forms -> Form]
<1> DEFINE f == run[r].from
<1>1. form \in [Forms -> Form] /\ run[r] \in Submission
  BY DEF FormsInvariant, FormsTypes, Form
<1>2. f \in Forms \cup {Unknown}
  BY <1>1 DEF Submission
<1>3. CASE f = Unknown
  BY <1>1, <1>3 DEF Finished
<1>4. CASE f # Unknown
  <2> DEFINE over == [ready |-> form[f].ready /\ ~(f = "Profile" /\ succeeded), busy |-> FALSE,
                      sent |-> f = "ForgotPassword"]
  <2>1. over \in Form
    BY <1>1, <1>2, <1>4 DEF Form
  <2>2. Finished(r, succeeded) = [form EXCEPT ![f] = over]
    BY <1>1, <1>2, <1>4 DEF Finished
  <2> HIDE DEF over, f
  <2> QED
    BY <1>1, <2>1, <2>2
<1> QED
  BY <1>3, <1>4

\* The forms' own steps.
LEMMA ScreensKeep ==
    ASSUME FormsInvariant,
           OpenProfile \/ CloseProfile \/ \E f \in Forms : Fill(f) \/ Navigate(f)
    PROVE  FormsInvariant'
<1> USE DEF Forms, AuthForms
<1>0. /\ FormsTypes /\ form \in [Forms -> Form] /\ Blank \in Form
      /\ \A i \in 1..Len(queue) : SameSignIn(run[queue[i]], run[queue[i]])
  BY LineIsOfRuns DEF FormsInvariant, FormsTypes, Form, Blank, SameSignIn
<1>1. CASE OpenProfile
  <2>1. FormsTypes' /\ UNCHANGED <<disk, face, queue, run>>
    BY <1>0, <1>1 DEF OpenProfile, FormsTypes
  <2> QED
    BY <1>0, <2>1, LineUndisturbed
<1>2. CASE CloseProfile
  <2>1. /\ route' = "App" /\ run' = Unmounted("Profile") /\ UNCHANGED <<disk, face, queue, submits>>
        /\ form' \in [Forms -> Form]
    BY <1>0, <1>2 DEF CloseProfile
  <2>2. FormsTypes'
    BY <1>0, <2>1, UnmountedKeeps DEF FormsTypes, Form
  <2> QED
    BY <2>1, <2>2, UnmountedKeeps, LineUndisturbed
<1>3. ASSUME NEW f \in Forms, Fill(f) PROVE FormsInvariant'
  <2>1. form' = [form EXCEPT ![f] = [form[f] EXCEPT !.ready = ~form[f].ready]]
    BY <1>0, <1>3 DEF Fill
  <2>2. [form[f] EXCEPT !.ready = ~form[f].ready] \in Form
    BY <1>0 DEF Form
  <2>3. form' \in [Forms -> Form]
    BY <1>0, <2>1, <2>2
  <2>4. FormsTypes' /\ UNCHANGED <<disk, face, queue, run>>
    BY <1>0, <1>3, <2>3 DEF Fill, FormsTypes, Form
  <2> QED
    BY <1>0, <2>4, LineUndisturbed
<1>4. ASSUME NEW f \in Forms, Navigate(f) PROVE FormsInvariant'
  <2>1. form' \in [Forms -> Form] /\ route' = f /\ UNCHANGED <<disk, face, queue, submits>>
    BY <1>0, <1>4 DEF Navigate
  <2>2. run' \in {run, Unmounted(route)}
    BY <1>4 DEF Navigate
  <2>3. /\ run' \in [Runs -> Submission \cup {Unknown}]
        /\ \A i \in 1..Len(queue) : SameSignIn(run[queue[i]], run'[queue[i]])
    BY <1>0, <2>2, UnmountedKeeps DEF FormsTypes
  <2>4. FormsTypes'
    BY <1>0, <2>1, <2>3 DEF FormsTypes, Form
  <2> QED
    BY <2>1, <2>3, <2>4, LineUndisturbed
<1> QED
  BY <1>1, <1>2, <1>3, <1>4

LEMMA SubmitKeeps ==
    ASSUME FormsInvariant, NEW r \in Runs, NEW f \in Forms, NEW account \in Accounts,
           Submit(r, f, account)
    PROVE  FormsInvariant'
<1>0. FormsTypes /\ form \in [Forms -> Form]
  BY DEF FormsInvariant, FormsTypes, Form
<1> DEFINE new == [kind |-> f, from |-> f, account |-> account, at |-> "sent"]
<1>1. /\ run[r] = Unknown /\ run' = [run EXCEPT ![r] = new]
      /\ form' = [form EXCEPT ![f].busy = TRUE]
      /\ submits < MaxSubmits /\ submits' = submits + 1
      /\ UNCHANGED <<route, disk, face, queue>>
  BY DEF Submit
<1>2. new \in Submission
  BY DEF Submission
<1> HIDE DEF new
<1>3. run' \in [Runs -> Submission \cup {Unknown}]
  BY <1>0, <1>1, <1>2 DEF FormsTypes
<1>4. form' \in [Forms -> Form]
  <2>1. form' = [form EXCEPT ![f] = [form[f] EXCEPT !.busy = TRUE]]
    BY <1>0, <1>1
  <2>2. [form[f] EXCEPT !.busy = TRUE] \in Form
    BY <1>0 DEF Form
  <2> QED
    BY <1>0, <2>1, <2>2
<1>5. submits' \in 0..MaxSubmits
  BY <1>0, <1>1, FormsBounds DEF FormsTypes
<1>6. \A i \in 1..Len(queue) : SameSignIn(run[queue[i]], run'[queue[i]])
  BY <1>0, <1>1, LineIsOfRuns DEF FormsTypes, SameSignIn
<1>7. FormsTypes'
  BY <1>0, <1>1, <1>3, <1>4, <1>5 DEF FormsTypes, Form
<1> QED
  BY <1>1, <1>6, <1>7, LineUndisturbed

\* A submission that is over and was not in line.
LEMMA OverKeeps ==
    ASSUME FormsInvariant, NEW r \in Runs, run[r] # Unknown, run[r].at = "sent",
           NEW succeeded \in BOOLEAN, form' = Finished(r, succeeded),
           run' = [run EXCEPT ![r] = Unknown],
           UNCHANGED <<route, disk, face, queue, submits>>
    PROVE  FormsInvariant'
<1>1. FormsTypes
  BY DEF FormsInvariant
<1>2. form' \in [Forms -> Form]
  BY FinishedIsTyped
<1>3. run' \in [Runs -> Submission \cup {Unknown}]
  BY <1>1 DEF FormsTypes
<1>4. \A i \in 1..Len(queue) : SameSignIn(run[queue[i]], run'[queue[i]])
  BY <1>1, LineIsOfRuns DEF FormsTypes, SameSignIn, FormsInvariant, InLine, At
<1>5. FormsTypes'
  BY <1>1, <1>2, <1>3 DEF FormsTypes, Form
<1> QED
  BY <1>4, <1>5, LineUndisturbed

\* A sign-in that the server granted joins the line at its end.
LEMMA SucceedsKeeps ==
    ASSUME FormsInvariant, NEW r \in Runs, Succeeds(r)
    PROVE  FormsInvariant'
<1>0. FormsTypes
  BY DEF FormsInvariant
<1>1. CASE ~SignsIn(r)
  BY <1>1, OverKeeps DEF Succeeds
<1>2. CASE SignsIn(r)
  <2>1. /\ run[r] # Unknown /\ run[r].at = "sent" /\ run' = [run EXCEPT ![r].at = "token"]
        /\ queue' = Append(queue, r) /\ UNCHANGED <<route, disk, face, submits, form>>
    BY <1>2 DEF Succeeds
  <2> DEFINE new == [run[r] EXCEPT !.at = "token"]
             n == Len(queue)
  <2>2. run[r] \in Submission /\ run' = [run EXCEPT ![r] = new]
    BY <1>0, <2>1 DEF FormsTypes
  <2>3. new \in Submission /\ new.kind = run[r].kind /\ new.at = "token"
    BY <2>2 DEF Submission
  <2> HIDE DEF new
  <2>4. run' \in [Runs -> Submission \cup {Unknown}]
    BY <1>0, <2>2, <2>3 DEF FormsTypes
  <2>5. /\ queue' \in Seq(Runs) /\ n \in Nat /\ Len(queue') = n + 1 /\ queue'[n + 1] = r
        /\ \A i \in 1..n : queue'[i] = queue[i]
    BY <1>0, <2>1 DEF FormsTypes
  <2>6. \A i \in 1..n : queue[i] # r /\ queue[i] \in Runs /\ run'[queue[i]] = run[queue[i]]
    BY <1>0, <2>1, <2>2, LineIsOfRuns DEF FormsInvariant, FormsTypes, InLine, At
  <2>7. /\ \A i \in 1..n : run'[queue'[i]] = run[queue[i]]
        /\ run'[queue'[n + 1]] = new
    BY <1>0, <2>2, <2>5, <2>6 DEF FormsTypes
  <2>8. FormsTypes'
    BY <1>0, <2>1, <2>4, <2>5 DEF FormsTypes
  <2>9. new # Unknown
    BY <2>3, UnknownIsNoSubmission
  <2> HIDE DEF n
  <2>10. 1..Len(queue') = 1..n \cup {n + 1}
    BY <2>5
  <2>11. InLine'
    <3>1. \A i \in 1..n : /\ run'[queue'[i]] # Unknown /\ run'[queue'[i]].at # "sent"
                          /\ run'[queue'[i]].kind \in {"Login", "Register"}
      BY <2>7 DEF FormsInvariant, InLine, At, SignsIn, n
    <3>2. /\ run'[r] # Unknown /\ run'[r].at # "sent" /\ run'[r].kind \in {"Login", "Register"}
      BY <1>2, <2>3, <2>5, <2>7, <2>9 DEF SignsIn
    <3>3. \A i, j \in 1..n : queue[i] = queue[j] => i = j
      BY DEF FormsInvariant, InLine, n
    <3>4. \A i, j \in 1..Len(queue') : queue'[i] = queue'[j] => i = j
      BY <2>5, <2>6, <2>10, <3>3
    <3> QED
      BY <2>5, <2>10, <3>1, <3>2, <3>4 DEF InLine, At, SignsIn
  <2>12. LastTokenStands'
    <3>1. run'[queue'[n + 1]].at # "user"
      BY <2>3, <2>7
    <3>2. \A i \in 1..n : At(i)' = At(i) /\ run'[queue'[i]].account = run[queue[i]].account
      BY <2>7 DEF At
    <3>3. LastTokenStands
      BY DEF FormsInvariant
    <3> QED
      BY SMTT(40), <2>1, <2>5, <2>10, <3>1, <3>2, <3>3 DEF LastTokenStands, At, n
  <2>13. ShownIsStored'
    <3>1. \A i \in 1..n : At(i)' = At(i)
      BY <2>7 DEF At
    <3> QED
      BY <2>1, <2>10, <3>1 DEF FormsInvariant, ShownIsStored, n
  <2> QED
    BY <2>8, <2>11, <2>12, <2>13 DEF FormsInvariant
<1> QED
  BY <1>1, <1>2

\* The first in line takes its turn: the others move up by one.
LEMMA MovesUp ==
    ASSUME FormsInvariant, queue # <<>>
    PROVE  /\ Len(queue) \in Nat /\ Len(queue) >= 1 /\ Head(queue) = queue[1]
           /\ queue[1] \in Runs /\ run[queue[1]] \in Submission
           /\ Tail(queue) \in Seq(Runs) /\ Len(Tail(queue)) = Len(queue) - 1
           /\ \A i \in 1..(Len(queue) - 1) :
                Tail(queue)[i] = queue[i + 1] /\ queue[i + 1] # queue[1] /\ i + 1 \in 1..Len(queue)
<1>1. queue \in Seq(Runs)
  BY DEF FormsInvariant, FormsTypes
<1>2. Len(queue) \in Nat /\ Len(queue) >= 1 /\ Head(queue) = queue[1]
  BY <1>1
<1>3. queue[1] \in Runs /\ run[queue[1]] \in Submission
  BY <1>2, LineIsOfRuns
<1>4. /\ Tail(queue) \in Seq(Runs) /\ Len(Tail(queue)) = Len(queue) - 1
      /\ \A i \in 1..(Len(queue) - 1) : Tail(queue)[i] = queue[i + 1]
  BY <1>1
<1>5. ASSUME NEW i \in 1..(Len(queue) - 1)
      PROVE  i + 1 \in 1..Len(queue) /\ queue[i + 1] # queue[1]
  <2>1. i + 1 \in 1..Len(queue) /\ 1 \in 1..Len(queue) /\ i + 1 # 1
    BY <1>2
  <2> QED
    BY <2>1 DEF FormsInvariant, InLine
<1> QED
  BY <1>2, <1>3, <1>4, <1>5

\* Its turn over, it goes to the end of the line in its next phase.
LEMMA GoesToTheEnd ==
    ASSUME FormsInvariant, queue # <<>>, queue' = Append(Tail(queue), queue[1]),
           NEW at \in {"user", "read"},
           run'[queue[1]] # Unknown, run'[queue[1]].kind = run[queue[1]].kind,
           run'[queue[1]].at = at, run'[queue[1]].account = run[queue[1]].account,
           \A i \in 2..Len(queue) : SameSignIn(run[queue[i]], run'[queue[i]])
    PROVE  /\ InLine'
           /\ queue' \in Seq(Runs) /\ Len(queue') = Len(queue)
           /\ run'[queue'[Len(queue)]].at = at
           /\ run'[queue'[Len(queue)]].account = run[queue[1]].account
           /\ \A i \in 1..(Len(queue) - 1) :
                At(i)' = At(i + 1) /\ run'[queue'[i]].account = run[queue[i + 1]].account
<1> DEFINE n == Len(queue)
<1>1. /\ n \in Nat /\ n >= 1 /\ queue' \in Seq(Runs) /\ Len(queue') = n /\ queue'[n] = queue[1]
      /\ \A i \in 1..(n - 1) : queue'[i] = queue[i + 1] /\ queue[i + 1] # queue[1]
  BY MovesUp
<1>2. \A i \in 1..(n - 1) : SameSignIn(run[queue[i + 1]], run'[queue'[i]])
  BY <1>1
<1>3. InLine
  BY DEF FormsInvariant
<1> HIDE DEF n
<1>4. 1..n = 1..(n - 1) \cup {n} /\ 1 \in 1..n /\ \A i \in 1..(n - 1) : i + 1 \in 1..n
  BY <1>1
<1>5. InLine'
  <2>1. \A i \in 1..n : run[queue[i]] # Unknown /\ run[queue[i]].kind \in {"Login", "Register"}
                        /\ run[queue[i]].at # "sent"
    BY <1>3 DEF InLine, SignsIn, At, n
  <2>2. \A i \in 1..n : run'[queue'[i]] # Unknown /\ run'[queue'[i]].kind \in {"Login", "Register"}
                        /\ run'[queue'[i]].at # "sent"
    BY <1>1, <1>2, <1>4, <2>1 DEF SameSignIn
  <2>3. ASSUME NEW i \in 1..n, NEW j \in 1..n, queue'[i] = queue'[j] PROVE i = j
    <3>1. \A k, l \in 1..n : queue[k] = queue[l] => k = l
      BY <1>3 DEF InLine, n
    <3>2. CASE i \in 1..(n - 1) /\ j \in 1..(n - 1)
      <4>1. i + 1 = j + 1
        BY <1>1, <1>4, <2>3, <3>1, <3>2
      <4> QED
        BY <1>1, <4>1
    <3>3. CASE i = n \/ j = n
      BY <1>1, <1>4, <2>3, <3>3
    <3> QED
      BY <1>4, <3>2, <3>3
  <2> QED
    BY <1>1, <2>2, <2>3 DEF InLine, SignsIn, At
<1>6. run'[queue'[n]].at = at
  BY <1>1
<1>7. \A i \in 1..(n - 1) :
        At(i)' = At(i + 1) /\ run'[queue'[i]].account = run[queue[i + 1]].account
  BY <1>2 DEF At, SameSignIn
<1> QED
  BY <1>1, <1>5, <1>6, <1>7 DEF n

LEMMA WriteTokenKeeps ==
    ASSUME FormsInvariant, NEW r \in Runs, WriteToken(r)
    PROVE  FormsInvariant'
<1>0. FormsTypes
  BY DEF FormsInvariant
<1>1. /\ queue # <<>> /\ r = queue[1] /\ run[r].at = "token" /\ run[r] \in Submission
      /\ run' = [run EXCEPT ![r].at = "user"] /\ disk' = [disk EXCEPT !.token = run[r].account]
      /\ queue' = Append(Tail(queue), r) /\ UNCHANGED <<route, form, face, submits>>
  BY MovesUp DEF WriteToken, NextInLine
<1> DEFINE new == [run[r] EXCEPT !.at = "user"]
           n == Len(queue)
<1>2. /\ new \in Submission /\ new.kind = run[r].kind /\ new.at = "user"
      /\ new.account = run[r].account /\ run' = [run EXCEPT ![r] = new]
  BY <1>0, <1>1 DEF FormsTypes, Submission
<1> HIDE DEF new
<1>3. run' \in [Runs -> Submission \cup {Unknown}] /\ run'[r] = new /\ new # Unknown
  BY <1>0, <1>2, UnknownIsNoSubmission DEF FormsTypes
<1>4. /\ disk'.token = run[r].account /\ disk'.user = disk.user
      /\ disk' \in [token : Accounts \cup {Unknown}, user : Accounts \cup {Unknown}]
  BY <1>0, <1>1 DEF FormsTypes, Submission
<1>5. \A i \in 2..n : SameSignIn(run[queue[i]], run'[queue[i]])
  <2>1. ASSUME NEW i \in 2..n PROVE SameSignIn(run[queue[i]], run'[queue[i]])
    <3>1. i - 1 \in 1..(n - 1) /\ i \in 1..n /\ (i - 1) + 1 = i
      BY <1>1, MovesUp
    <3>2. queue[i] # r /\ queue[i] \in Runs /\ run[queue[i]] # Unknown
      BY <1>1, <3>1, MovesUp, LineIsOfRuns
    <3> QED
      BY <1>0, <1>2, <3>2 DEF SameSignIn, FormsTypes
  <2> QED
    BY <2>1
<1>6. /\ InLine' /\ queue' \in Seq(Runs) /\ Len(queue') = n
      /\ run'[queue'[n]].at = "user"
      /\ run'[queue'[n]].account = run[r].account /\ n \in Nat /\ n >= 1
      /\ \A i \in 1..(n - 1) : At(i)' = At(i + 1)
  BY <1>1, <1>2, <1>3, <1>5, GoesToTheEnd, MovesUp
<1>7. FormsTypes'
  BY <1>0, <1>1, <1>3, <1>4, <1>6 DEF FormsTypes
<1> HIDE DEF n
<1>8. LastTokenStands'
  <2>1. ASSUME NEW i \in 1..n, i # n PROVE n \in (i + 1)..n
    BY <1>6, <2>1
  <2>2. n \in 1..n
    BY <1>6
  <2> QED
    BY <1>4, <1>6, <2>1, <2>2 DEF LastTokenStands, At
<1>9. ShownIsStored'
  <2>1. ShownIsStored
    BY DEF FormsInvariant
  <2>2. (\A i \in 1..n : At(i)' # "read") => \A i \in 1..n : At(i) # "read"
    <3>1. ASSUME \A i \in 1..n : At(i)' # "read", NEW i \in 1..n PROVE At(i) # "read"
      <4>1. CASE i = 1
        BY <1>1, <4>1 DEF At
      <4>2. CASE i # 1
        <5>1. i - 1 \in 1..(n - 1) /\ (i - 1) + 1 = i /\ i - 1 \in 1..n
          BY <1>6, <4>2
        <5> QED
          BY <1>6, <3>1, <5>1
      <4> QED
        BY <4>1, <4>2
    <3> QED
      BY <3>1
  <2> QED
    BY <1>1, <1>4, <1>6, <2>1, <2>2 DEF ShownIsStored, At, n
<1> QED
  BY <1>6, <1>7, <1>8, <1>9 DEF FormsInvariant

\* What setToken's render makes of the submissions.
LEMMA WriteUserRuns ==
    ASSUME FormsInvariant, NEW r \in Runs, WriteUser(r)
    PROVE  /\ run' \in [Runs -> Submission \cup {Unknown}]
           /\ run'[r] # Unknown /\ run'[r].kind = run[r].kind
           /\ run'[r].at = "read" /\ run'[r].account = run[r].account
           /\ \A q \in Runs : q # r /\ run[q] # Unknown => SameSignIn(run[q], run'[q])
<1>0. FormsTypes
  BY DEF FormsInvariant
<1>1. run[r] \in Submission
  BY MovesUp DEF WriteUser, NextInLine
<1>2. run' = [q \in Runs |->
                IF q = r THEN [run[r] EXCEPT !.at = "read", !.from = Unknown]
                ELSE IF run[q] # Unknown /\ run[q].from \in AuthForms
                  THEN [run[q] EXCEPT !.from = Unknown] ELSE run[q]]
  BY DEF WriteUser
<1>3. ASSUME NEW q \in Runs, q # r, run[q] # Unknown
      PROVE  run'[q] \in Submission /\ SameSignIn(run[q], run'[q])
  <2>1. run[q] \in Submission
    BY <1>0, <1>3 DEF FormsTypes
  <2> DEFINE gone == [run[q] EXCEPT !.from = Unknown]
  <2>2. /\ gone \in Submission /\ gone.kind = run[q].kind /\ gone.at = run[q].at
        /\ gone.account = run[q].account
    BY <2>1 DEF Submission
  <2>3. run'[q] \in {gone, run[q]}
    BY <1>2, <1>3
  <2> HIDE DEF gone
  <2> QED
    BY <1>3, <2>1, <2>2, <2>3, UnknownIsNoSubmission DEF SameSignIn
<1>4. ASSUME NEW q \in Runs, q # r, run[q] = Unknown PROVE run'[q] = Unknown
  BY <1>2, <1>4
<1>5. /\ run'[r] \in Submission /\ run'[r].kind = run[r].kind
      /\ run'[r].at = "read" /\ run'[r].account = run[r].account
  <2> DEFINE new == [run[r] EXCEPT !.at = "read", !.from = Unknown]
  <2>1. /\ new \in Submission /\ new.kind = run[r].kind
        /\ new.at = "read" /\ new.account = run[r].account
    BY <1>1 DEF Submission
  <2>2. run'[r] = new
    BY <1>2
  <2> HIDE DEF new
  <2> QED
    BY <2>1, <2>2
<1>6. run' \in [Runs -> Submission \cup {Unknown}]
  <2>1. \A q \in Runs : run'[q] \in Submission \cup {Unknown}
    BY <1>3, <1>4, <1>5
  <2>2. run' = [q \in Runs |-> run'[q]]
    BY <1>2
  <2> QED
    BY <2>1, <2>2
<1> QED
  BY <1>3, <1>5, <1>6, UnknownIsNoSubmission

LEMMA WriteUserKeeps ==
    ASSUME FormsInvariant, NEW r \in Runs, WriteUser(r)
    PROVE  FormsInvariant'
<1> DEFINE n == Len(queue)
<1>0. FormsTypes /\ LastTokenStands /\ ShownIsStored
  BY DEF FormsInvariant
<1>1. /\ queue # <<>> /\ r = queue[1] /\ run[r].at = "user" /\ run[r] \in Submission
      /\ disk' = [disk EXCEPT !.user = run[r].account]
      /\ face' = [face EXCEPT !.token = run[r].account]
      /\ queue' = Append(Tail(queue), r) /\ submits' = submits
  BY MovesUp DEF WriteUser, NextInLine
<1>2. /\ disk'.user = run[r].account /\ disk'.token = disk.token
      /\ face'.token = run[r].account /\ face'.user = face.user
      /\ disk' \in [token : Accounts \cup {Unknown}, user : Accounts \cup {Unknown}]
      /\ face' \in [token : Accounts \cup {Unknown}, user : Accounts \cup {Unknown}]
  BY <1>0, <1>1 DEF FormsTypes, Submission
<1>3. /\ run' \in [Runs -> Submission \cup {Unknown}]
      /\ run'[r] # Unknown /\ run'[r].kind = run[r].kind
      /\ run'[r].at = "read" /\ run'[r].account = run[r].account
  BY WriteUserRuns
<1>4. \A i \in 2..n : SameSignIn(run[queue[i]], run'[queue[i]])
  <2>1. ASSUME NEW i \in 2..n PROVE SameSignIn(run[queue[i]], run'[queue[i]])
    <3>1. i - 1 \in 1..(n - 1) /\ i \in 1..n /\ (i - 1) + 1 = i
      BY <1>1, MovesUp
    <3>2. queue[i] # r /\ queue[i] \in Runs /\ run[queue[i]] # Unknown
      BY <1>1, <3>1, MovesUp, LineIsOfRuns
    <3> QED
      BY <3>2, WriteUserRuns
  <2> QED
    BY <2>1
<1>5. /\ InLine' /\ queue' \in Seq(Runs) /\ Len(queue') = n
      /\ run'[queue'[n]].at = "read"
      /\ n \in Nat /\ n >= 1
      /\ \A i \in 1..(n - 1) :
           At(i)' = At(i + 1) /\ run'[queue'[i]].account = run[queue[i + 1]].account
  BY <1>1, <1>3, <1>4, GoesToTheEnd, MovesUp
<1>6. route' \in Forms \cup {"App"} /\ form' \in [Forms -> Form]
  BY <1>0 DEF WriteUser, FormsTypes, Form, Blank
<1>7. FormsTypes'
  BY <1>0, <1>1, <1>2, <1>3, <1>5, <1>6 DEF FormsTypes, Form
<1>8. \A j \in 2..n : j - 1 \in 1..(n - 1) /\ At(j) = At(j - 1)'
  <2>1. \A j \in 2..n : j - 1 \in 1..(n - 1) /\ (j - 1) + 1 = j
    BY <1>5
  <2> QED
    BY <1>5, <2>1 DEF At
<1>9. LastTokenStands'
  <2>1. ASSUME NEW i \in 1..n, At(i)' = "user", \A j \in (i + 1)..n : At(j)' # "user"
        PROVE  disk'.token = run'[queue'[i]].account
    <3>1. i \in 1..(n - 1) /\ i + 1 \in 1..n
      BY <1>5, <2>1 DEF At
    <3>2. At(i + 1) = "user"
      BY <1>5, <2>1, <3>1
    <3>3. ASSUME NEW j \in ((i + 1) + 1)..n PROVE At(j) # "user"
      <4>1. j \in 2..n /\ j - 1 \in (i + 1)..n
        BY <1>5, <3>1
      <4> QED
        BY <1>8, <2>1, <4>1 DEF At
    <3>4. disk.token = run[queue[i + 1]].account
      BY <1>0, <3>1, <3>2, <3>3 DEF LastTokenStands
    <3> QED
      BY <1>2, <1>5, <3>1, <3>4
  <2>2. ASSUME \A i \in 1..n : At(i)' # "user" PROVE disk'.token = disk'.user
    <3>1. \A j \in 2..n : At(j) # "user"
      <4>1. \A j \in 2..n : j - 1 \in 1..n
        BY <1>5
      <4> QED
        BY <1>8, <2>2, <4>1 DEF At
    <3>2. At(1) = "user" /\ 1 \in 1..n /\ 1 + 1 = 2
      BY <1>1, <1>5 DEF At
    <3>3. disk.token = run[queue[1]].account
      BY <1>0, <3>1, <3>2 DEF LastTokenStands
    <3> QED
      BY <1>1, <1>2, <3>3
  <2> QED
    BY <1>5, <2>1, <2>2 DEF LastTokenStands
<1>10. ShownIsStored'
  <2>1. n \in 1..n
    BY <1>5
  <2> QED
    BY <1>2, <1>5, <2>1 DEF ShownIsStored, At
<1> QED
  BY <1>5, <1>7, <1>9, <1>10 DEF FormsInvariant

LEMMA ReadUserKeeps ==
    ASSUME FormsInvariant, NEW r \in Runs, ReadUser(r)
    PROVE  FormsInvariant'
<1> DEFINE n == Len(queue)
<1>0. FormsTypes /\ InLine /\ LastTokenStands /\ ShownIsStored
  BY DEF FormsInvariant
<1>1. /\ queue # <<>> /\ r = queue[1] /\ run[r].at = "read"
      /\ face' = [face EXCEPT !.user = disk.user] /\ run' = [run EXCEPT ![r] = Unknown]
      /\ queue' = Tail(queue) /\ UNCHANGED <<route, form, disk, submits>>
  BY MovesUp DEF ReadUser, NextInLine
<1>2. /\ face'.user = disk.user /\ face'.token = face.token
      /\ face' \in [token : Accounts \cup {Unknown}, user : Accounts \cup {Unknown}]
      /\ run' \in [Runs -> Submission \cup {Unknown}]
  BY <1>0, <1>1 DEF FormsTypes
<1>3. /\ n \in Nat /\ n >= 1 /\ queue' \in Seq(Runs) /\ Len(queue') = n - 1
      /\ \A i \in 1..(n - 1) :
           queue'[i] = queue[i + 1] /\ queue[i + 1] # r /\ i + 1 \in 1..n
  BY <1>1, MovesUp
<1>4. \A i \in 1..(n - 1) : run'[queue'[i]] = run[queue[i + 1]] /\ At(i)' = At(i + 1)
  BY <1>0, <1>1, <1>3, LineIsOfRuns DEF FormsTypes, At
<1>5. FormsTypes'
  BY <1>0, <1>1, <1>2, <1>3 DEF FormsTypes
<1>6. InLine'
  <2>1. ASSUME NEW i \in 1..(n - 1)
        PROVE  /\ run'[queue'[i]] # Unknown /\ At(i)' # "sent"
               /\ run'[queue'[i]].kind \in {"Login", "Register"}
    <3>1. run[queue[i + 1]] # Unknown /\ SignsIn(queue[i + 1]) /\ At(i + 1) # "sent"
      BY <1>0, <1>3 DEF InLine
    <3>2. run'[queue'[i]].kind \in {"Login", "Register"}
      BY <1>4, <3>1 DEF SignsIn
    <3> QED
      BY <1>3, <1>4, <3>1, <3>2 DEF SignsIn
  <2>2. ASSUME NEW i \in 1..(n - 1), NEW j \in 1..(n - 1), queue'[i] = queue'[j] PROVE i = j
    <3>1. i + 1 = j + 1
      BY <1>0, <1>3, <2>2 DEF InLine
    <3> QED
      BY <1>3, <3>1
  <2> QED
    BY <1>3, <2>1, <2>2 DEF InLine, SignsIn, At
<1>7. LastTokenStands'
  <2>1. ASSUME NEW i \in 1..(n - 1), At(i)' = "user",
               \A j \in (i + 1)..(n - 1) : At(j)' # "user"
        PROVE  disk'.token = run'[queue'[i]].account
    <3>1. At(i + 1) = "user" /\ i + 1 \in 1..n
      BY <1>3, <1>4, <2>1
    <3>2. ASSUME NEW j \in ((i + 1) + 1)..n PROVE At(j) # "user"
      <4>1. j - 1 \in (i + 1)..(n - 1) /\ j - 1 \in 1..(n - 1) /\ (j - 1) + 1 = j
        BY <1>3
      <4> QED
        BY <1>4, <2>1, <4>1 DEF At
    <3> QED
      BY <1>0, <1>1, <1>4, <3>1, <3>2 DEF LastTokenStands
  <2>2. ASSUME \A i \in 1..(n - 1) : At(i)' # "user" PROVE disk'.token = disk'.user
    <3>1. ASSUME NEW i \in 1..n PROVE At(i) # "user"
      <4>1. CASE i = 1
        BY <1>1, <4>1 DEF At
      <4>2. CASE i # 1
        <5>1. i - 1 \in 1..(n - 1) /\ (i - 1) + 1 = i
          BY <1>3, <4>2
        <5> QED
          BY <1>4, <2>2, <5>1 DEF At
      <4> QED
        BY <4>1, <4>2
    <3> QED
      BY <1>0, <1>1, <3>1 DEF LastTokenStands
  <2> QED
    BY <1>3, <2>1, <2>2 DEF LastTokenStands, At
<1>8. ShownIsStored'
  BY <1>0, <1>1, <1>2 DEF ShownIsStored
<1> QED
  BY <1>5, <1>6, <1>7, <1>8 DEF FormsInvariant

LEMMA FormsStep ==
    ASSUME FormsInvariant, [FormsNext]_formsVars
    PROVE  FormsInvariant'
<1>1. ASSUME NEW r \in Runs, Fails(r) PROVE FormsInvariant'
  BY <1>1, OverKeeps DEF Fails
<1>2. CASE UNCHANGED formsVars
  BY <1>2 DEF formsVars, FormsInvariant, FormsTypes, InLine, LastTokenStands, ShownIsStored, At,
              SignsIn
<1> QED
  BY <1>1, <1>2, ScreensKeep, SubmitKeeps, SucceedsKeeps, WriteTokenKeeps, WriteUserKeeps,
     ReadUserKeeps DEF FormsNext

\* The inductive invariant of the forms holds in every behaviour of them.
THEOREM FormsInvariantHolds == FormsSpec => []FormsInvariant
  BY FormsStart, FormsStep, PTL DEF FormsSpec

\* The forms, the submissions, storage and what is shown keep to their types,
\* and whoever waits for AsyncStorage is a submission that still runs.
THEOREM FormsTypesCorrect == FormsSpec => []FormsTypeOK
<1>1. FormsInvariant => FormsTypeOK
  <2> SUFFICES ASSUME FormsInvariant PROVE FormsTypeOK
    OBVIOUS
  <2>1. queue \in Seq(Runs) /\ DOMAIN queue = 1..Len(queue)
    BY DEF FormsInvariant, FormsTypes
  <2>2. \A i \in DOMAIN queue : run[queue[i]] # Unknown
    BY <2>1 DEF FormsInvariant, InLine
  <2> QED
    BY <2>2 DEF FormsInvariant, FormsTypes, FormsTypeOK
<1> QED
  BY <1>1, FormsInvariantHolds, PTL

\* However many sign-ins run at once: once none does, the token and the user
\* that persist stored and those AuthContext shows are one account's.
THEOREM PhoneIsOneAccounts == FormsSpec => []OneAccount
<1>1. FormsInvariant => OneAccount
  <2> SUFFICES ASSUME FormsInvariant, \A r \in Runs : run[r] # Unknown => ~SignsIn(r)
               PROVE  disk.token = disk.user /\ face = disk
    BY DEF OneAccount
  <2>1. Len(queue) = 0
    <3>1. Len(queue) \in Nat
      BY DEF FormsInvariant, FormsTypes
    <3>2. ASSUME Len(queue) >= 1 PROVE FALSE
      <4>1. 1 \in 1..Len(queue)
        BY <3>1, <3>2
      <4> QED
        BY <4>1, LineIsOfRuns DEF FormsInvariant, InLine
    <3> QED
      BY <3>1, <3>2
  <2>2. disk.token = disk.user /\ face.token = disk.user /\ face.user = disk.user
    BY <2>1 DEF FormsInvariant, LastTokenStands, ShownIsStored
  <2> QED
    BY <2>2 DEF FormsInvariant, FormsTypes
<1> QED
  BY <1>1, FormsInvariantHolds, PTL
=============================================================================
