----------------------------- MODULE NetworkScan -----------------------------
(***************************************************************************)
(* A scan of the phone's network: useNetworkScan over discovery.ts.  It    *)
(* listens for mDNS announcements until a timeout, then sweeps the /24     *)
(* with a pool of workers that pull hosts from one shared cursor, merges   *)
(* the two and submits the result.                                         *)
(*                                                                         *)
(* A host's address is its number.  Between two awaits a worker runs       *)
(* alone, so taking the cursor and advancing it is one step.               *)
(***************************************************************************)
EXTENDS Naturals, FiniteSets

CONSTANTS
    LastHost,      \* SWEEP_LAST_HOST
    Width,         \* SWEEP_CONCURRENCY
    Names,         \* what devices call themselves
    TypeHint       \* [Names -> STRING], "null" for a name that says nothing

ASSUME ScanBounds == LastHost \in Nat /\ Width \in Nat \ {0} /\ DOMAIN TypeHint = Names

VARIABLES
    scan,      \* phase, and whether the phone knows its prefix
    named,     \* [Hosts -> name or "null"]: scanMdns's map
    pool,      \* cursor, what each worker awaits, what the sweep has answered
    probes,    \* history: how often each host was probed in this scan
    filed      \* the observations submitted last

scanVars == <<scan, named, pool, probes, filed>>

Hosts == 1..LastHost
Nobody == "null"
Done == LastHost + 1      \* a worker that has returned

\* Array.from({length: min(width, tasks)})
Workers == 1..(IF Width < LastHost THEN Width ELSE LastHost)

Phases == {"idle", "bssid", "listen", "sweep", "submit"}

Observation == [ip : Hosts, name : Names \cup {Nobody}, type : STRING, via : {"MDNS", "SWEEP"}]

FreshPool == [cursor |-> 0, at |-> [w \in Workers |-> 0], answered |-> {}]

ScanInit ==
    /\ scan = [phase |-> "idle", prefix |-> FALSE]
    /\ named = [h \in Hosts |-> Nobody]
    /\ pool = FreshPool
    /\ probes = [h \in Hosts |-> 0]
    /\ filed = {}

ScanTypeOK ==
    /\ scan \in [phase : Phases, prefix : BOOLEAN]
    /\ named \in [Hosts -> Names \cup {Nobody}]
    /\ pool.cursor \in 0..(LastHost + Width) /\ pool.answered \subseteq Hosts
    /\ pool.at \in [Workers -> 0..Done]
    /\ \A o \in filed : o.ip \in Hosts /\ o.name \in Names \cup {Nobody}

-----------------------------------------------------------------------------

\* The button; a press during a scan does nothing (inFlight).
PressScan ==
    /\ scan.phase = "idle"
    /\ scan' = [scan EXCEPT !.phase = "bssid"]
    /\ UNCHANGED <<named, pool, probes, filed>>

\* Without a BSSID nothing could be filed, so nothing is scanned.
ReadNetwork ==
    /\ scan.phase = "bssid"
    /\ \E known \in BOOLEAN : scan' = [scan EXCEPT !.phase = IF known THEN "listen" ELSE "idle"]
    /\ named' = [h \in Hosts |-> Nobody]
    /\ probes' = [h \in Hosts |-> 0]
    /\ UNCHANGED <<pool, filed>>

\* 'resolved': the last announcement of an address gives its name.
Announce(h, name) ==
    /\ scan.phase = "listen"
    /\ named' = [named EXCEPT ![h] = name]
    /\ UNCHANGED <<scan, pool, probes, filed>>

\* The timeout ends listening, also when Zeroconf is missing: then at once and
\* with nothing.  getSubnetPrefix may find no address to sweep from.
StopListening ==
    /\ scan.phase = "listen"
    /\ \E prefix \in BOOLEAN :
         scan' = [phase |-> IF prefix THEN "sweep" ELSE "submit", prefix |-> prefix]
    /\ pool' = FreshPool
    /\ UNCHANGED <<named, probes, filed>>

\* A worker that is not awaiting a probe takes the next host, or returns.
Ready(w) == scan.phase = "sweep" /\ pool.at[w] = 0

\* Mistake: a worker that finds no host left looks again instead of returning.
ProbedForever(w, cursor) ==
    /\ pool' = [pool EXCEPT !.at[w] = IF cursor < LastHost THEN cursor + 1 ELSE 0,
                            !.cursor = cursor + 1]
    /\ probes' = IF cursor < LastHost THEN [probes EXCEPT ![cursor + 1] = @ + 1] ELSE probes

Probed(w, cursor) ==
    IF cursor < LastHost
      THEN /\ pool' = [pool EXCEPT !.at[w] = cursor + 1, !.cursor = cursor + 1]
           /\ probes' = [probes EXCEPT ![cursor + 1] = @ + 1]
      ELSE /\ pool' = [pool EXCEPT !.at[w] = Done, !.cursor = cursor + 1]
           /\ UNCHANGED probes

\* Mistake: the cursor moves on only when the probe has answered.
TakeWithoutAdvancing(w) ==
    /\ Ready(w)
    /\ IF pool.cursor < LastHost
         THEN /\ pool' = [pool EXCEPT !.at[w] = pool.cursor + 1]
              /\ probes' = [probes EXCEPT ![pool.cursor + 1] = @ + 1]
         ELSE pool' = [pool EXCEPT !.at[w] = Done] /\ UNCHANGED probes
    /\ UNCHANGED <<scan, named, filed>>

TakeNext(w) ==
    /\ Ready(w)
    /\ Probed(w, pool.cursor)
    /\ UNCHANGED <<scan, named, filed>>

\* Anything that replies is there; the AbortController ends the wait otherwise.
ProbeEnds(w) ==
    /\ scan.phase = "sweep" /\ pool.at[w] \in Hosts
    /\ \E reply \in BOOLEAN :
         pool' = [pool EXCEPT !.at[w] = 0,
                              !.answered = IF reply THEN @ \cup {pool.at[w]} ELSE @]
    /\ UNCHANGED <<scan, named, probes, filed>>

\* Promise.all over the workers
SweepEnds ==
    /\ scan.phase = "sweep" /\ \A w \in Workers : pool.at[w] = Done
    /\ scan' = [scan EXCEPT !.phase = "submit"]
    /\ UNCHANGED <<named, pool, probes, filed>>

Announced == {h \in Hosts : named[h] # Nobody}

ByName(h) == [ip |-> h, name |-> named[h], type |-> TypeHint[named[h]], via |-> "MDNS"]
BySweep(h) == [ip |-> h, name |-> Nobody, type |-> Nobody, via |-> "SWEEP"]

\* One observation per address; the one that knows a name wins.
Merged == {ByName(h) : h \in Announced} \cup {BySweep(h) : h \in pool.answered \ Announced}

\* submitScan, and the finally that releases the button; a refusal files nothing.
SubmitScan ==
    /\ scan.phase = "submit"
    /\ \/ filed' = Merged
       \/ UNCHANGED filed
    /\ scan' = [scan EXCEPT !.phase = "idle"]
    /\ UNCHANGED <<named, pool, probes>>

ScanNext ==
    \/ PressScan \/ ReadNetwork \/ StopListening \/ SweepEnds \/ SubmitScan
    \/ \E h \in Hosts, name \in Names : Announce(h, name)
    \/ \E w \in Workers : TakeNext(w) \/ ProbeEnds(w)

ScanSpec == ScanInit /\ [][ScanNext]_scanVars

-----------------------------------------------------------------------------

\* Workers that share a cursor between them probe every host exactly once, and
\* what is filed has one entry for every address that answered either way.
ScanIsComplete ==
    /\ \A h \in Hosts : probes[h] <= 1
    /\ scan.phase = "submit" =>
         /\ scan.prefix => \A h \in Hosts : probes[h] = 1
         /\ {o.ip : o \in Merged} = Announced \cup pool.answered
         /\ \A o, other \in Merged : o.ip = other.ip => o = other
=============================================================================
