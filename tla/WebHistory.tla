----------------------------- MODULE WebHistory ------------------------------
(***************************************************************************)
(* The dashboard's alert history: the table that shows it a page at a time *)
(* and the figures computed from a sample of it.  A page is asked for when *)
(* the reader moves; answers are shown in the order they arrive, and the   *)
(* pager's buttons go by the last one shown.  Days are counted; an alert   *)
(* may be dated a day ahead of the browser's clock.                        *)
(***************************************************************************)
EXTENDS Integers, Sequences, SequencesExt, FiniteSets

CONSTANTS
    Targets,        \* devices an alert can be for
    Absent, Reads,
    PageSize,       \* DEFAULT_PAGE_SIZE
    SampleSize,     \* ACTIVITY_SAMPLE_SIZE
    Days,           \* ACTIVITY_WINDOW_DAYS
    MaxAlerts, MaxMoves, MaxMidnights   \* bounds

ASSUME HistoryBounds ==
    /\ {PageSize, SampleSize, Days} \subseteq Nat \ {0}
    /\ {MaxAlerts, MaxMoves, MaxMidnights} \subseteq Nat

VARIABLES
    log,        \* server: the caller's alerts, newest first
    today,
    limit,      \* the rows this page asks for at a time
    wanted,     \* useAlerts: the page asked for last
    shown,      \* useAlerts: the alerts shown
    meta,       \* useAlerts: their pagination block, or Absent
    counted,    \* the day on which the figures were computed
    read,       \* [Reads -> read \cup {Absent}]
    moves

historyVars == <<log, today, limit, wanted, shown, meta, counted, read, moves>>

TargetLists == {q \in SeqOf(Targets, Cardinality(Targets)) : q # <<>> /\ IsInjective(q)}
Alert == [day : 0..(MaxMidnights + 1), failed : BOOLEAN, targets : TargetLists]

HistoryInit ==
    /\ log = <<>> /\ today = 0 /\ limit \in {PageSize, SampleSize}
    /\ wanted = 1 /\ shown = <<>> /\ meta = Absent /\ counted = 0
    /\ read = [r \in Reads |-> IF r = CHOOSE s \in Reads : TRUE
                                 THEN [page |-> 1, answer |-> "none", rows |-> <<>>,
                                       meta |-> Absent] ELSE Absent]
    /\ moves = 0

HistoryTypeOK ==
    /\ {log, shown} \subseteq Seq(Alert) /\ Len(shown) <= limit
    /\ wanted \in (-MaxMoves)..(MaxMoves + 1)
    /\ meta # Absent => meta.current \in Nat \ {0} /\ meta.pages \in Nat
    /\ {today, counted} \subseteq 0..MaxMidnights

-----------------------------------------------------------------------------
(* Reading.                                                                *)

PageCount(n) == (n + limit - 1) \div limit

OnPage(p) ==
    LET first == (p - 1) * limit + 1
        last == p * limit
    IN  IF first > Len(log) THEN <<>>
        ELSE SubSeq(log, first, IF last < Len(log) THEN last ELSE Len(log))

HasNext == meta # Absent /\ meta.current < meta.pages
HasPrevious == meta # Absent /\ meta.current > 1

\* The pager is drawn only where there are pages; Activity has none.
PagerShown == limit = PageSize /\ meta # Absent /\ meta.pages > 1

\* From the page asked for, under buttons that go by the page shown: pressed
\* twice before the answer, they run past either end.
Turn(r, step) ==
    /\ PagerShown /\ (IF step = 1 THEN HasNext ELSE HasPrevious)
    /\ moves < MaxMoves /\ moves' = moves + 1
    /\ wanted' = wanted + step
    /\ read[r] = Absent
    /\ read' = [read EXCEPT ![r] =
                  [page |-> wanted + step, answer |-> "none", rows |-> <<>>, meta |-> Absent]]
    /\ UNCHANGED <<log, today, limit, shown, meta, counted>>

\* There is no page 0, and a page past the last is empty.
ServeRead(r) ==
    /\ read[r] # Absent /\ read[r].answer = "none"
    /\ LET p == read[r].page IN
         \/ /\ p >= 1
            /\ read' = [read EXCEPT ![r].answer = "ok", ![r].rows = OnPage(p),
                                    ![r].meta = [current |-> p, pages |-> PageCount(Len(log))]]
         \/ read' = [read EXCEPT ![r].answer = "failed"]
    /\ UNCHANGED <<log, today, limit, wanted, shown, meta, counted, moves>>

\* Whatever was asked for since.  A failure leaves the page it found.
LandRead(r) ==
    /\ read[r] # Absent /\ read[r].answer # "none"
    /\ read' = [read EXCEPT ![r] = Absent]
    /\ IF read[r].answer = "ok"
         THEN shown' = read[r].rows /\ meta' = read[r].meta /\ counted' = today
         ELSE UNCHANGED <<shown, meta, counted>>
    /\ UNCHANGED <<log, today, limit, wanted, moves>>

\* An alert is sent, from here or from a phone.
NewAlert(alert) ==
    /\ Len(log) < MaxAlerts /\ alert.day \in {today, today + 1}
    /\ log' = <<alert>> \o log
    /\ UNCHANGED <<today, limit, wanted, shown, meta, counted, read, moves>>

\* What was computed stays: it is computed again when the alerts change.
Midnight ==
    /\ today < MaxMidnights /\ today' = today + 1
    /\ UNCHANGED <<log, limit, wanted, shown, meta, counted, read, moves>>

HistoryNext ==
    \/ Midnight \/ \E alert \in Alert : NewAlert(alert)
    \/ \E r \in Reads : Turn(r, 1) \/ Turn(r, -1) \/ ServeRead(r) \/ LandRead(r)

HistorySpec == HistoryInit /\ [][HistoryNext]_historyVars

-----------------------------------------------------------------------------
(* The figures, from the alerts shown.                                     *)

\* The table's filters, over the page shown: a status and a device.  RECEIVED, a
\* status the server never writes, is not told from SENT; the third filter, a
\* window that slides with the clock, is finer than the days counted here.
Visible(status, device) ==
    SelectSeq(shown, LAMBDA a :
        /\ status = "all" \/ a.failed = (status = "FAILED")
        /\ device = Absent \/ Contains(a.targets, device))

\* Mistake: the columns start a day too early.
BucketByDayEarly(alerts, now) ==
    [i \in 1..Days |-> Len(SelectSeq(alerts, LAMBDA a : a.day = now - (Days - i) - 1))]

\* Oldest column first; an alert dated tomorrow finds no column.
BucketByDay(alerts, now) ==
    [i \in 1..Days |-> Len(SelectSeq(alerts, LAMBDA a : a.day = now - (Days - i)))]

SentToday(alerts, now) == Len(SelectSeq(alerts, LAMBDA a : a.day >= now))

Delivered(alerts) == Len(SelectSeq(alerts, LAMBDA a : ~a.failed))

\* Math.round of a percentage.
DeliveryRate(alerts) ==
    IF alerts = <<>> THEN Absent
    ELSE (200 * Delivered(alerts) + Len(alerts)) \div (2 * Len(alerts))

AllTargets(alerts) == FlattenSeq([i \in DOMAIN alerts |-> alerts[i].targets])
Tally(alerts, d) == Len(SelectSeq(AllTargets(alerts), LAMBDA e : e = d))

\* The first, in the order they were met, of those alerted most often.
MostAlerted(alerts) ==
    LET met == AllTargets(alerts)
        most == {i \in DOMAIN met : \A j \in DOMAIN met : Tally(alerts, met[i]) >= Tally(alerts, met[j])}
    IN  IF met = <<>> THEN Absent ELSE met[CHOOSE i \in most : \A j \in most : i <= j]

\* A device that has been removed since keeps its place, by its id; so does one
\* without a name, which is in no set of devices here.
TargetNames(alert, devices) ==
    [i \in DOMAIN alert.targets |->
       IF alert.targets[i] \in devices THEN alert.targets[i] ELSE "Removed device"]

TargetKind(alert) == IF Len(alert.targets) = 1 THEN "Single" ELSE "Multiple"

\* A row of the table.
TableRow(alert, devices) ==
    [names |-> TargetNames(alert, devices), kind |-> TargetKind(alert), failed |-> alert.failed]

\* The chart is scaled to its busiest day, 1 at least.
Bars(columns) ==
    LET peak == FoldSeq(LAMBDA n, most : IF n > most THEN n ELSE most, 1, columns)
    IN  [i \in DOMAIN columns |-> (100 * columns[i]) \div peak]

\* What the Activity page shows of its sample.
Activity(alerts, now) ==
    LET columns == BucketByDay(alerts, now)
    IN  [columns |-> columns, bars |-> Bars(columns),
         week |-> FoldSeq(LAMBDA n, sum : n + sum, 0, columns),
         rate |-> DeliveryRate(alerts), most |-> MostAlerted(alerts)]

\* The figures agree with each other and with the rows they were computed from,
\* on the day they were: the columns hold each alert of the window once, what
\* today's column lacks of "today" is dated ahead, bars are as high as their days
\* were busy, the rate is as near as a whole percentage can be, nothing was
\* alerted more than "most alerted", and the rows a filter leaves are the ones
\* its figure counted.
FiguresAddUp ==
    LET figures == Activity(shown, counted)
        columns == figures.columns
        bars == figures.bars
        ahead == Len(SelectSeq(shown, LAMBDA a : a.day > counted))
        recent == Len(SelectSeq(shown, LAMBDA a : a.day > counted - Days))
    IN  /\ figures.week = recent - ahead
        /\ columns[Days] = SentToday(shown, counted) - ahead
        /\ \A i, j \in 1..Days : columns[i] <= columns[j] => bars[i] <= bars[j]
        /\ IF figures.week = 0 THEN \A i \in 1..Days : bars[i] = 0 ELSE \E i \in 1..Days : bars[i] = 100
        /\ IF shown = <<>> THEN figures.rate = Absent /\ figures.most = Absent
           ELSE /\ figures.rate \in 0..100
                /\ 2 * (figures.rate * Len(shown) - 100 * Delivered(shown))
                     \in (-Len(shown))..Len(shown)
                /\ \A d \in Targets : Tally(shown, d) <= Tally(shown, figures.most)
        /\ \A d \in Targets : Len(Visible("all", d)) = Tally(shown, d)
        /\ Len(Visible("FAILED", Absent)) = Len(shown) - Delivered(shown)
        /\ \A i \in DOMAIN shown :
             LET row == TableRow(shown[i], Targets) IN
               Len(row.names) >= 1 /\ (row.kind = "Single" <=> Len(row.names) = 1)
=============================================================================
