--------------------------- MODULE MobileAppProofs ---------------------------
(***************************************************************************)
(* Machine-checked proofs about the app's device list, messages and        *)
(* alerts, and about what they and its forms, switches and scan make up.   *)
(***************************************************************************)
EXTENDS MCMobileApp, MobileScreensProofs

-----------------------------------------------------------------------------
(* The device list.                                                        *)

IsSend(k) == k # None /\ k.kind = "send"
IsLog(k) == k # None /\ k.kind = "log"
ByDetail(k) == k.from = "detail" /\ ~k.gone
IsRead(k) == k # None /\ IsListCall(k) /\ k.at = "answered" /\ k.result = "ok"
IsFresh(k) == IsLog(k) /\ k.at = "answered" /\ k.result = "ok" /\ ~k.old

\* What an answer brings and what a request is about go with its kind.
Asked == {k \in Ask :
            /\ IsListCall(k) /\ k.result = "ok" => k.items \in [Phones -> Shown]
            /\ k.kind = "log" /\ k.result = "ok" => k.items \in 0..MaxSends
            /\ ~IsListCall(k) => k.dev \in Phones}

Frame == [dev : Phones, status : Statuses, old : BOOLEAN]

DevicesTypes ==
    /\ server \in [Phones -> Standing]
    /\ logged \in [Phones -> 0..MaxSends]
    /\ list \in [Phones -> Shown]
    /\ flags \in [loading : BOOLEAN, refreshing : BOOLEAN, sending : BOOLEAN, signedIn : BOOLEAN]
    /\ screen \in [target : Phones \cup {None}, route : Phones \cup {None},
                   alertOpen : BOOLEAN, removeOpen : BOOLEAN, history : 0..MaxSends]
    /\ asked \in [Asks -> Asked \cup {None}]
    /\ socket \in {"up", "down"}
    /\ frames \in Seq(Frame)
    /\ known \subseteq Phones
    /\ stale \in BOOLEAN /\ historyStale \in BOOLEAN
    /\ changes \in 0..MaxChanges

\* A send is the only one and holds isSending, and its dialog is open on a screen
\* that is still there.
InItsDialog(k) ==
    /\ k.from = "dashboard" => screen.target = k.dev
    /\ ByDetail(k) => screen.route = k.dev /\ screen.alertOpen

SendsAreSingle ==
    /\ \A c, d \in Asks : IsSend(asked[c]) /\ IsSend(asked[d]) => c = d
    /\ flags.sending <=> \E c \in Asks : IsSend(asked[c])
    /\ \A c \in Asks : IsSend(asked[c]) => InItsDialog(asked[c])
    /\ screen.alertOpen \/ screen.removeOpen => screen.route # None
    /\ screen.target = None \/ screen.route = None

\* A history is read for the device on the screen; an answer that nothing has
\* overtaken is the log; and one that lacks an alert is about to be read again.
HistoryIsRead ==
    /\ \A c \in Asks : IsLog(asked[c]) => screen.route = asked[c].dev
    /\ \A c \in Asks : IsFresh(asked[c]) => asked[c].items = logged[asked[c].dev]
    /\ screen.route # None /\ ~historyStale /\ screen.history # logged[screen.route] =>
         \E c \in Asks : IsLog(asked[c]) \/ (IsSend(asked[c]) /\ ByDetail(asked[c]))

Untold(fs, d) == \A i \in 1..Len(fs) : fs[i].dev # d

\* With no frame on its way, the server has a device as it is shown, or removed.
CaughtUp(shown, fs, rows) ==
    \A d \in Phones : shown[d] # "absent" /\ Untold(fs, d) => rows[d] \in {shown[d], "removed"}

\* A row that is there was there since.
Known(shown, rows) == \A d \in Phones : shown[d] # "absent" => rows[d] # "absent"

\* The last frame on its way to a device has the status of its row, or is old.
FramesTell(fs, rows) ==
    /\ \A i \in 1..Len(fs) : rows[fs[i].dev] # "absent"
    /\ \A i \in 1..Len(fs) :
         ~fs[i].old /\ (\A j \in (i + 1)..Len(fs) : fs[j].dev # fs[i].dev) =>
           rows[fs[i].dev] \in {fs[i].status, "removed"}

ListIsFed ==
    /\ Listed = known
    /\ Known(list, server)
    /\ FramesTell(frames, server)
    /\ socket = "down" => frames = <<>>
    /\ ~stale => CaughtUp(list, frames, server)
    /\ \A c \in Asks : IsRead(asked[c]) =>
         /\ Known(asked[c].items, server)
         /\ ~asked[c].old => CaughtUp(asked[c].items, frames, server)

DevicesInvariant == DevicesTypes /\ SendsAreSingle /\ HistoryIsRead /\ ListIsFed

LEMMA DevicesStart == DevicesInit => DevicesInvariant
<1> SUFFICES ASSUME DevicesInit PROVE DevicesInvariant
  OBVIOUS
<1> USE DEF DevicesInit, SignedOut, Closed, Empty
<1>1. DevicesTypes
  <2>1. server \in [Phones -> Standing] /\ list \in [Phones -> Shown]
    BY DEF Standing, Statuses, Shown
  <2>2. flags \in [loading : BOOLEAN, refreshing : BOOLEAN, sending : BOOLEAN, signedIn : BOOLEAN]
    OBVIOUS
  <2>3. frames \in Seq(Frame)
    OBVIOUS
  <2>4. MaxSends \in Nat /\ MaxChanges \in Nat
    BY DevicesBounds
  <2>5. /\ screen \in [target : Phones \cup {None}, route : Phones \cup {None},
                       alertOpen : BOOLEAN, removeOpen : BOOLEAN, history : 0..MaxSends]
        /\ logged \in [Phones -> 0..MaxSends]
    BY <2>4
  <2>6. asked \in [Asks -> Asked \cup {None}] /\ changes \in 0..MaxChanges
    BY <2>4
  <2> QED
    BY <2>1, <2>2, <2>3, <2>5, <2>6 DEF DevicesTypes
<1>2. SendsAreSingle /\ HistoryIsRead
  BY DEF SendsAreSingle, HistoryIsRead, IsSend, IsLog, IsFresh
<1>3. Listed = {} /\ Len(frames) = 0
  BY DEF Listed
<1>4. ListIsFed
  BY <1>3 DEF ListIsFed, Known, FramesTell, CaughtUp, IsRead
<1> QED
  BY <1>1, <1>2, <1>4 DEF DevicesInvariant

\* What a step leaves of an async function, as far as the sends, the histories
\* and the list are concerned.
SameSend(k, l) ==
    /\ IsSend(l) <=> IsSend(k)
    /\ IsSend(k) => l.dev = k.dev /\ l.from \in {k.from, None} /\ (k.gone => l.gone)

SameLog(k, l) ==
    /\ IsLog(l) <=> IsLog(k)
    /\ IsLog(k) => l.dev = k.dev
    /\ IsFresh(l) => IsFresh(k) /\ l.items = k.items
    /\ IsSend(k) /\ ByDetail(k) => IsSend(l) /\ ByDetail(l)

SameRead(k, l) == IsRead(l) => IsRead(k) /\ l.items = k.items /\ (k.old => l.old)

LEMMA SendsUndisturbed ==
    ASSUME DevicesInvariant,
           screen'.target = screen.target, screen'.route = screen.route,
           screen'.alertOpen = screen.alertOpen, screen'.removeOpen => screen.removeOpen,
           flags'.sending = flags.sending,
           \A c \in Asks : SameSend(asked[c], asked'[c])
    PROVE  SendsAreSingle'
  BY DevicesNames DEF DevicesInvariant, SendsAreSingle, InItsDialog, ByDetail, SameSend

LEMMA HistoryUndisturbed ==
    ASSUME DevicesInvariant, UNCHANGED <<logged, historyStale>>,
           screen'.route = screen.route, screen'.history = screen.history,
           \A c \in Asks : SameLog(asked[c], asked'[c])
    PROVE  HistoryIsRead'
<1>1. HistoryIsRead
  BY DEF DevicesInvariant
<1>2. \A c \in Asks : IsLog(asked'[c]) => screen'.route = asked'[c].dev
  BY <1>1 DEF HistoryIsRead, SameLog
<1>3. \A c \in Asks : IsFresh(asked'[c]) => asked'[c].items = logged'[asked'[c].dev]
  BY <1>1 DEF HistoryIsRead, SameLog, IsFresh
<1>4. screen'.route # None /\ ~historyStale' /\ screen'.history # logged'[screen'.route] =>
        \E c \in Asks : IsLog(asked'[c]) \/ (IsSend(asked'[c]) /\ ByDetail(asked'[c]))
  BY <1>1 DEF HistoryIsRead, SameLog
<1> QED
  BY <1>2, <1>3, <1>4 DEF HistoryIsRead, IsLog, IsFresh, IsSend

LEMMA ListUndisturbed ==
    ASSUME DevicesInvariant, UNCHANGED <<server, list, socket, frames, known, stale>>,
           \A c \in Asks : SameRead(asked[c], asked'[c])
    PROVE  ListIsFed'
  BY DEF DevicesInvariant, ListIsFed, SameRead, Listed, IsRead

\* With the screens gone no history is read, and a send answers to no dialog.
LEMMA ScreensGone ==
    ASSUME DevicesInvariant, screen' = Closed, flags'.sending = flags.sending,
           \A c \in Asks :
             /\ IsSend(asked'[c]) <=> IsSend(asked[c])
             /\ IsSend(asked'[c]) => asked'[c].from # "dashboard" /\ ~ByDetail(asked'[c])
             /\ ~IsLog(asked'[c])
    PROVE  SendsAreSingle' /\ HistoryIsRead'
<1>1. SendsAreSingle'
  BY DevicesNames DEF DevicesInvariant, SendsAreSingle, InItsDialog, Closed
<1>2. HistoryIsRead'
  BY DEF HistoryIsRead, Closed, IsFresh
<1> QED
  BY <1>1, <1>2

-----------------------------------------------------------------------------
(* What the helpers make of an async function.                             *)

\* No async function is told from itself, or from itself overtaken.
AgedFrom(k, l) == l = k \/ (k \in Asked /\ l = [k EXCEPT !.old = TRUE])

LEMMA AgedIsSame ==
    ASSUME NEW k \in Asked \cup {None}, NEW l, AgedFrom(k, l)
    PROVE  /\ l \in Asked \cup {None} /\ (l = None <=> k = None)
           /\ SameSend(k, l) /\ SameLog(k, l) /\ SameRead(k, l)
           /\ k # None => /\ l.kind = k.kind /\ l.from = k.from /\ l.gone = k.gone
                          /\ l.dev = k.dev /\ l.at = k.at
<1> USE DEF ByDetail, SameSend, SameLog, SameRead, IsSend, IsLog, IsFresh, IsRead, IsListCall
<1>1. CASE l = k
  BY <1>1
<1>2. CASE k \in Asked /\ l = [k EXCEPT !.old = TRUE]
  <2>1. k \in Ask /\ k # None
    BY <1>2, DevicesNames DEF Asked
  <2>2. /\ l \in Ask /\ l.kind = k.kind /\ l.dev = k.dev /\ l.from = k.from /\ l.at = k.at
        /\ l.gone = k.gone /\ l.result = k.result /\ l.items = k.items /\ l.old
    BY <1>2, <2>1 DEF Ask
  <2>3. l \in Asked /\ l # None
    BY <1>2, <2>2, DevicesNames DEF Asked
  <2> QED
    BY <2>1, <2>2, <2>3
<1> QED
  BY <1>1, <1>2 DEF AgedFrom

LEMMA ReadsOvertaken ==
    ASSUME NEW calls \in [Asks -> Asked \cup {None}]
    PROVE  /\ Overtaken(calls, ReadList) \in [Asks -> Asked \cup {None}]
           /\ \A c \in Asks : /\ AgedFrom(calls[c], Overtaken(calls, ReadList)[c])
                              /\ IsRead(calls[c]) => Overtaken(calls, ReadList)[c].old
<1> DEFINE after == Overtaken(calls, ReadList)
<1>1. after = [c \in Asks |-> IF calls[c] # None /\ ReadList(calls[c])
                                THEN [calls[c] EXCEPT !.old = TRUE] ELSE calls[c]]
  BY DEF Overtaken
<1>2. ASSUME NEW c \in Asks
      PROVE  AgedFrom(calls[c], after[c]) /\ (IsRead(calls[c]) => after[c].old)
  <2>1. CASE calls[c] # None /\ ReadList(calls[c])
    BY <1>1, <2>1 DEF AgedFrom, Asked, Ask
  <2>2. CASE ~(calls[c] # None /\ ReadList(calls[c]))
    BY <1>1, <2>2 DEF AgedFrom, IsRead, ReadList
  <2> QED
    BY <2>1, <2>2
<1>3. \A c \in Asks : after[c] \in Asked \cup {None}
  BY <1>2, AgedIsSame
<1> QED
  BY <1>1, <1>2, <1>3

LEMMA HistoriesOvertaken ==
    ASSUME NEW calls \in [Asks -> Asked \cup {None}]
    PROVE  /\ Overtaken(calls, ReadHistory) \in [Asks -> Asked \cup {None}]
           /\ \A c \in Asks : /\ AgedFrom(calls[c], Overtaken(calls, ReadHistory)[c])
                              /\ IsFresh(calls[c]) => Overtaken(calls, ReadHistory)[c].old
<1> DEFINE after == Overtaken(calls, ReadHistory)
<1>1. after = [c \in Asks |-> IF calls[c] # None /\ ReadHistory(calls[c])
                                THEN [calls[c] EXCEPT !.old = TRUE] ELSE calls[c]]
  BY DEF Overtaken
<1>2. ASSUME NEW c \in Asks
      PROVE  AgedFrom(calls[c], after[c]) /\ (IsFresh(calls[c]) => after[c].old)
  <2>1. CASE calls[c] # None /\ ReadHistory(calls[c])
    BY <1>1, <2>1 DEF AgedFrom, Asked, Ask
  <2>2. CASE ~(calls[c] # None /\ ReadHistory(calls[c]))
    BY <1>1, <2>2 DEF AgedFrom, IsFresh, IsLog, ReadHistory
  <2> QED
    BY <2>1, <2>2
<1>3. \A c \in Asks : after[c] \in Asked \cup {None}
  BY <1>2, AgedIsSame
<1> QED
  BY <1>1, <1>2, <1>3

LEMMA ListCallsOvertaken ==
    ASSUME NEW calls \in [Asks -> Asked \cup {None}]
    PROVE  /\ Overtaken(calls, IsListCall) \in [Asks -> Asked \cup {None}]
           /\ \A c \in Asks : /\ AgedFrom(calls[c], Overtaken(calls, IsListCall)[c])
                              /\ IsRead(calls[c]) => Overtaken(calls, IsListCall)[c].old
<1> DEFINE after == Overtaken(calls, IsListCall)
<1>1. after = [c \in Asks |-> IF calls[c] # None /\ IsListCall(calls[c])
                                THEN [calls[c] EXCEPT !.old = TRUE] ELSE calls[c]]
  BY DEF Overtaken
<1>2. ASSUME NEW c \in Asks
      PROVE  AgedFrom(calls[c], after[c]) /\ (IsRead(calls[c]) => after[c].old)
  <2>1. CASE calls[c] # None /\ IsListCall(calls[c])
    BY <1>1, <2>1 DEF AgedFrom, Asked, Ask
  <2>2. CASE ~(calls[c] # None /\ IsListCall(calls[c]))
    BY <1>1, <2>2 DEF AgedFrom, IsRead
  <2> QED
    BY <2>1, <2>2
<1>3. \A c \in Asks : after[c] \in Asked \cup {None}
  BY <1>2, AgedIsSame
<1> QED
  BY <1>1, <1>2, <1>3

\* `calls` is asked with some of its functions over or overtaken.
LEMMA LeftBehind ==
    ASSUME DevicesTypes, NEW calls \in [Asks -> Asked \cup {None}],
           \A c \in Asks : calls[c] # None => asked[c] # None /\ calls[c].kind = asked[c].kind
    PROVE  /\ Left(calls) \in [Asks -> Asked \cup {None}]
           /\ \A c \in Asks :
                /\ ~IsLog(Left(calls)[c])
                /\ IsSend(Left(calls)[c]) <=> IsSend(calls[c])
                /\ IsSend(calls[c]) => Left(calls)[c].gone /\ Left(calls)[c].from = calls[c].from
                /\ SameRead(calls[c], Left(calls)[c])
<1>1. ASSUME NEW c \in Asks
      PROVE  /\ Left(calls)[c] \in Asked \cup {None}
             /\ ~IsLog(Left(calls)[c])
             /\ IsSend(Left(calls)[c]) <=> IsSend(calls[c])
             /\ IsSend(calls[c]) => Left(calls)[c].gone /\ Left(calls)[c].from = calls[c].from
             /\ SameRead(calls[c], Left(calls)[c])
  <2> USE DEF IsSend, IsLog, IsRead, SameRead
  <2>1. CASE calls[c] = None \/ Waiting(c, "log")
    <3>1. Left(calls)[c] = None
      BY <2>1 DEF Left
    <3> QED
      BY <2>1, <3>1 DEF Waiting
  <2>2. CASE ~(calls[c] = None \/ Waiting(c, "log"))
    <3> DEFINE l == [calls[c] EXCEPT !.gone = TRUE]
    <3>1. Left(calls)[c] = l
      BY <2>2 DEF Left
    <3>2. calls[c] \in Asked /\ calls[c] \in Ask /\ calls[c].kind # "log"
      BY <2>2 DEF Asked, Waiting
    <3>3. /\ l \in Ask /\ l.kind = calls[c].kind /\ l.dev = calls[c].dev
          /\ l.from = calls[c].from /\ l.gone /\ l.at = calls[c].at
          /\ l.result = calls[c].result /\ l.items = calls[c].items /\ l.old = calls[c].old
      BY <3>2 DEF Ask
    <3>4. l \in Asked /\ l # None
      BY <3>2, <3>3, DevicesNames DEF Asked, IsListCall
    <3> HIDE DEF l
    <3> QED
      BY <2>2, <3>1, <3>2, <3>3, <3>4 DEF IsListCall
  <2> QED
    BY <2>1, <2>2
<1>2. Left(calls) = [c \in Asks |-> Left(calls)[c]]
  BY DEF Left
<1> QED
  BY <1>1, <1>2

LEMMA SessionBehind ==
    ASSUME DevicesTypes
    PROVE  /\ Unscreened(asked) \in [Asks -> Asked \cup {None}]
           /\ \A c \in Asks :
                /\ ~IsLog(Unscreened(asked)[c])
                /\ IsSend(Unscreened(asked)[c]) <=> IsSend(asked[c])
                /\ IsSend(asked[c]) => Unscreened(asked)[c].from = None
                /\ SameRead(asked[c], Unscreened(asked)[c])
<1>1. ASSUME NEW c \in Asks
      PROVE  /\ Unscreened(asked)[c] \in Asked \cup {None}
             /\ ~IsLog(Unscreened(asked)[c])
             /\ IsSend(Unscreened(asked)[c]) <=> IsSend(asked[c])
             /\ IsSend(asked[c]) => Unscreened(asked)[c].from = None
             /\ SameRead(asked[c], Unscreened(asked)[c])
  <2> USE DEF IsSend, IsLog, IsRead, SameRead
  <2>1. CASE asked[c] = None \/ Waiting(c, "log")
    <3>1. Unscreened(asked)[c] = None
      BY <2>1 DEF Unscreened
    <3> QED
      BY <2>1, <3>1 DEF Waiting
  <2>2. CASE ~(asked[c] = None \/ Waiting(c, "log"))
    <3> DEFINE l == [asked[c] EXCEPT !.from = None]
    <3>1. Unscreened(asked)[c] = l
      BY <2>2 DEF Unscreened
    <3>2. asked[c] \in Asked /\ asked[c] \in Ask /\ asked[c].kind # "log"
      BY <2>2 DEF DevicesTypes, Asked, Waiting
    <3>3. /\ l \in Ask /\ l.kind = asked[c].kind /\ l.dev = asked[c].dev /\ l.from = None
          /\ l.at = asked[c].at /\ l.result = asked[c].result /\ l.items = asked[c].items
          /\ l.old = asked[c].old
      BY <3>2 DEF Ask
    <3>4. l \in Asked /\ l # None
      BY <3>2, <3>3, DevicesNames DEF Asked, IsListCall
    <3> HIDE DEF l
    <3> QED
      BY <2>2, <3>1, <3>2, <3>3, <3>4 DEF IsListCall
  <2> QED
    BY <2>1, <2>2
<1>2. Unscreened(asked) = [c \in Asks |-> Unscreened(asked)[c]]
  BY DEF Unscreened
<1> QED
  BY <1>1, <1>2

LEMMA NewAskIs ==
    ASSUME NEW kind \in {"first", "refresh", "log", "remove", "send"},
           NEW d \in Phones \cup {None}, NEW from \in {"dashboard", "detail", None},
           kind \in {"log", "remove", "send"} => d \in Phones
    PROVE  /\ NewAsk(kind, d, from) \in Asked /\ NewAsk(kind, d, from) # None
           /\ NewAsk(kind, d, from).kind = kind /\ NewAsk(kind, d, from).dev = d
           /\ NewAsk(kind, d, from).from = from /\ NewAsk(kind, d, from).at = "sent"
           /\ ~NewAsk(kind, d, from).gone
<1>1. NewAsk(kind, d, from) \in Ask
  BY DEF NewAsk, Ask, Items
<1>2. NewAsk(kind, d, from) \in Asked
  BY <1>1, DevicesNames DEF NewAsk, Asked, IsListCall
<1> QED
  BY <1>1, <1>2, DevicesNames DEF NewAsk

\* A request that begins in a place that was free.
LEMMA AskBegins ==
    ASSUME DevicesTypes, NEW c \in Asks, NEW new \in Asked, AskFor(c, new), new.at = "sent"
    PROVE  /\ asked' \in [Asks -> Asked \cup {None}]
           /\ asked[c] = None /\ asked'[c] = new /\ new # None
           /\ \A x \in Asks : x # c => asked'[x] = asked[x]
           /\ \A x \in Asks : SameRead(asked[x], asked'[x])
           /\ new.kind # "send" => \A x \in Asks : SameSend(asked[x], asked'[x])
           /\ new.kind # "log" => \A x \in Asks : SameLog(asked[x], asked'[x])
<1>1. new \in Ask /\ new # None
  BY DevicesNames DEF Asked
<1>2. /\ asked' \in [Asks -> Asked \cup {None}]
      /\ asked[c] = None /\ asked'[c] = new
      /\ \A x \in Asks : x # c => asked'[x] = asked[x]
  BY DEF AskFor, DevicesTypes
<1> QED
  BY <1>1, <1>2 DEF SameRead, SameSend, SameLog, ByDetail, IsRead, IsSend, IsLog, IsFresh

\* A request that is over and leaves its place.
LEMMA AskEnds ==
    ASSUME DevicesTypes, NEW c \in Asks, asked[c] # None, asked' = [asked EXCEPT ![c] = None]
    PROVE  /\ asked' \in [Asks -> Asked \cup {None}] /\ asked'[c] = None
           /\ \A x \in Asks : x # c => asked'[x] = asked[x]
           /\ \A x \in Asks : SameRead(asked[x], asked'[x])
           /\ asked[c].kind # "send" => \A x \in Asks : SameSend(asked[x], asked'[x])
           /\ asked[c].kind \notin {"log", "send"} => \A x \in Asks : SameLog(asked[x], asked'[x])
  BY DEF DevicesTypes, SameRead, SameSend, SameLog, ByDetail, IsRead, IsSend, IsLog, IsFresh

\* A request that is answered: how is for its kind to say.
LEMMA AnsweredIs ==
    ASSUME DevicesTypes, NEW c \in Asks, asked[c] # None,
           NEW result \in {"ok", "refused", "lost"}, NEW items \in Items,
           result = "ok" /\ IsListCall(asked[c]) => items \in [Phones -> Shown],
           result = "ok" /\ asked[c].kind = "log" => items \in 0..MaxSends
    PROVE  /\ Answered(c, result, items) \in [Asks -> Asked \cup {None}]
           /\ \A x \in Asks : x # c => Answered(c, result, items)[x] = asked[x]
           /\ LET l == Answered(c, result, items)[c]
              IN  /\ l \in Asked /\ l # None /\ l.kind = asked[c].kind /\ l.dev = asked[c].dev
                  /\ l.from = asked[c].from /\ l.gone = asked[c].gone
                  /\ l.at = "answered" /\ l.result = result /\ l.items = items /\ l.old = asked[c].old
<1> DEFINE l == [asked[c] EXCEPT !.at = "answered", !.result = result, !.items = items]
<1>1. asked[c] \in Asked /\ asked[c] \in Ask
  BY DEF DevicesTypes, Asked
<1>2. Answered(c, result, items) = [asked EXCEPT ![c] = l]
  BY DEF Answered, DevicesTypes
<1>3. /\ l \in Ask /\ l.kind = asked[c].kind /\ l.dev = asked[c].dev
      /\ l.from = asked[c].from /\ l.gone = asked[c].gone
      /\ l.at = "answered" /\ l.result = result /\ l.items = items /\ l.old = asked[c].old
  BY <1>1 DEF Ask
<1>4. l \in Asked /\ l # None
  BY <1>1, <1>3, DevicesNames DEF Asked, IsListCall
<1> HIDE DEF l
<1> QED
  BY <1>2, <1>3, <1>4 DEF DevicesTypes

\* Rows that are removed, or that were not there and are now.
LEMMA RowsRemoved ==
    ASSUME DevicesInvariant, UNCHANGED <<list, socket, frames, known, stale>>,
           \A d \in Phones : server'[d] = server[d] \/ server[d] = "absent" \/ server'[d] = "removed",
           \A d \in Phones : server'[d] = "absent" => server[d] = "absent",
           \A c \in Asks : SameRead(asked[c], asked'[c])
    PROVE  ListIsFed'
<1>0. ListIsFed /\ DevicesTypes
  BY DEF DevicesInvariant
<1>1. ASSUME NEW shown, Known(shown, server) PROVE Known(shown, server')
  BY <1>1 DEF Known
<1>2. ASSUME NEW shown, Known(shown, server), CaughtUp(shown, frames, server)
      PROVE  CaughtUp(shown, frames, server')
  BY <1>2 DEF Known, CaughtUp
<1>3. FramesTell(frames, server')
  <2>1. \A i \in 1..Len(frames) : frames[i] \in Frame
    BY <1>0 DEF DevicesTypes
  <2>2. \A i \in 1..Len(frames) : frames[i].dev \in Phones
    BY <2>1 DEF Frame
  <2> QED
    BY <1>0, <2>2 DEF FramesTell, ListIsFed
<1> QED
  BY <1>0, <1>1, <1>2, <1>3 DEF ListIsFed, SameRead, Listed, IsRead

-----------------------------------------------------------------------------
(* The steps of the screens and of the requests.                           *)

LEMMA Unasked ==
    ASSUME DevicesInvariant, asked' = asked
    PROVE  \A c \in Asks : SameSend(asked[c], asked'[c]) /\ SameLog(asked[c], asked'[c])
                           /\ SameRead(asked[c], asked'[c])
  BY DEF SameSend, SameLog, SameRead, ByDetail, IsFresh

LEMMA DialogsKeep ==
    ASSUME DevicesInvariant,
           Dismiss \/ OpenAlertDialog \/ OpenRemoveDialog \/ \E d \in Phones : OpenTarget(d)
    PROVE  DevicesInvariant'
<1>0. DevicesTypes /\ SendsAreSingle
  BY DEF DevicesInvariant
<1>1. UNCHANGED <<server, logged, list, flags, asked, socket, frames, known, stale, historyStale,
                  changes>>
  BY DEF Dismiss, OpenAlertDialog, OpenRemoveDialog, OpenTarget
<1>2. /\ screen' \in [target : Phones \cup {None}, route : Phones \cup {None},
                      alertOpen : BOOLEAN, removeOpen : BOOLEAN, history : 0..MaxSends]
      /\ screen'.route = screen.route /\ screen'.history = screen.history
  BY ZenonT(60), <1>0 DEF Dismiss, OpenAlertDialog, OpenRemoveDialog, OpenTarget, DevicesTypes
<1>3. DevicesTypes'
  BY <1>0, <1>1, <1>2 DEF DevicesTypes
<1>4. HistoryIsRead' /\ ListIsFed'
  BY <1>1, <1>2, Unasked, HistoryUndisturbed, ListUndisturbed
<1>5. SendsAreSingle'
  <2>1. CASE flags.sending = FALSE
    <3>1. \A c \in Asks : ~IsSend(asked[c])
      BY <1>0, <2>1 DEF SendsAreSingle
    <3>2. /\ screen'.alertOpen \/ screen'.removeOpen => screen'.route # None
          /\ screen'.target = None \/ screen'.route = None
      BY <1>0 DEF Dismiss, OpenAlertDialog, OpenRemoveDialog, OpenTarget, OnDetail, OnDashboard,
                  DevicesTypes, SendsAreSingle
    <3> QED
      BY <1>1, <2>1, <3>1, <3>2 DEF SendsAreSingle, IsSend
  <2>2. CASE flags.sending
    <3>1. \A c \in Asks : IsSend(asked[c]) => asked[c].dev \in Phones
      BY <1>0 DEF DevicesTypes, IsSend, Asked, IsListCall
    <3>2. /\ screen'.alertOpen \/ screen'.removeOpen => screen'.route # None
          /\ screen'.target = None \/ screen'.route = None
          /\ screen.alertOpen => screen'.alertOpen
          /\ screen.target # None => screen'.target = screen.target
      BY <1>0, <2>2 DEF Dismiss, OpenAlertDialog, OpenRemoveDialog, OpenTarget, OnDetail,
                        OnDashboard, DevicesTypes, SendsAreSingle
    <3> QED
      BY <1>0, <1>1, <1>2, <3>1, <3>2, DevicesNames
      DEF SendsAreSingle, InItsDialog, ByDetail, IsSend
  <2> QED
    BY <1>0, <2>1, <2>2 DEF DevicesTypes
<1> QED
  BY <1>3, <1>4, <1>5 DEF DevicesInvariant

\* A send whose caller stays what it is, and every send's.
SameCaller(k, l) ==
    l # None /\ l.kind = k.kind /\ l.dev = k.dev /\ l.from = k.from /\ l.gone = k.gone

SendsLast == \A x \in Asks : IsSend(asked[x]) => SameCaller(asked[x], asked'[x])

\* What the server does with a request, and a request that gets no answer.
LEMMA AnswerKeeps ==
    ASSUME DevicesInvariant, NEW c \in Asks, Answer(c) \/ LoseAsk(c)
    PROVE  DevicesInvariant' /\ SendsLast
<1> USE DevicesBounds
<1>0. DevicesTypes /\ SendsAreSingle /\ HistoryIsRead /\ ListIsFed
  BY DEF DevicesInvariant
<1>1. /\ asked[c] # None /\ asked[c] \in Asked /\ asked[c] \in Ask
      /\ UNCHANGED <<list, flags, screen, socket, frames, known, stale>>
  BY <1>0 DEF Answer, LoseAsk, DevicesTypes, Asked
<1>2. CASE LoseAsk(c)
  <2>1. /\ asked' = Answered(c, "lost", None) /\ UNCHANGED <<server, logged, historyStale>>
        /\ changes' \in 0..MaxChanges
    BY <1>0, <1>2 DEF LoseAsk, Change, DevicesTypes
  <2>2. /\ asked' \in [Asks -> Asked \cup {None}]
        /\ \A x \in Asks : x # c => asked'[x] = asked[x]
        /\ asked'[c] # None /\ asked'[c].kind = asked[c].kind /\ asked'[c].dev = asked[c].dev
        /\ asked'[c].from = asked[c].from /\ asked'[c].gone = asked[c].gone
        /\ asked'[c].result = "lost"
    BY <1>0, <1>1, <2>1, AnsweredIs DEF Items
  <2>3. \A x \in Asks : SameSend(asked[x], asked'[x]) /\ SameLog(asked[x], asked'[x])
                        /\ SameRead(asked[x], asked'[x])
    BY <1>1, <2>2 DEF SameSend, SameLog, SameRead, ByDetail, IsSend, IsLog, IsFresh, IsRead
  <2>4. DevicesTypes'
    BY <1>0, <1>1, <2>1, <2>2 DEF DevicesTypes
  <2>5. SendsLast
    BY <2>2 DEF SendsLast, SameCaller, IsSend
  <2> QED
    BY <1>1, <2>1, <2>3, <2>4, <2>5, SendsUndisturbed, HistoryUndisturbed, ListUndisturbed
    DEF DevicesInvariant
<1>3. CASE Answer(c) /\ ListCall(c)
  <2> DEFINE items == [p \in Phones |-> IF server[p] \in Statuses THEN server[p] ELSE "absent"]
  <2>1. /\ asked' = Answered(c, "ok", items) /\ UNCHANGED <<server, logged, historyStale, changes>>
        /\ asked[c].at = "sent"
    BY <1>3 DEF Answer, ListCall, IsListCall, Waiting
  <2>2. items \in [Phones -> Shown] /\ items \in Items
    BY DEF Shown, Items
  <2>3. /\ \A d \in Phones : items[d] # "absent" => server[d] = items[d]
        /\ IsListCall(asked[c]) /\ asked[c].kind \notin {"log", "send"}
    BY <1>3 DEF ListCall, IsListCall
  <2> HIDE DEF items
  <2>4. /\ asked' \in [Asks -> Asked \cup {None}]
        /\ \A x \in Asks : x # c => asked'[x] = asked[x]
        /\ asked'[c] # None /\ asked'[c].kind = asked[c].kind /\ asked'[c].items = items
    BY <1>0, <1>1, <2>1, <2>2, <2>3, AnsweredIs
  <2>5. \A x \in Asks : SameSend(asked[x], asked'[x]) /\ SameLog(asked[x], asked'[x])
    BY <1>1, <2>3, <2>4 DEF SameSend, SameLog, IsSend, IsLog, IsFresh
  <2>6. DevicesTypes'
    BY <1>0, <1>1, <2>1, <2>4 DEF DevicesTypes
  <2>7. Known(items, server) /\ CaughtUp(items, frames, server)
    BY <2>3 DEF Known, CaughtUp
  <2>8. ListIsFed'
    BY <1>0, <1>1, <2>1, <2>4, <2>7 DEF ListIsFed, Listed, IsRead
  <2>9. SendsLast
    BY <2>3, <2>4 DEF SendsLast, SameCaller, IsSend
  <2> QED
    BY <1>1, <2>1, <2>5, <2>6, <2>8, <2>9, SendsUndisturbed, HistoryUndisturbed
    DEF DevicesInvariant
<1>4. CASE Answer(c) /\ Waiting(c, "log") /\ asked' = Answered(c, "ok", logged[asked[c].dev])
  <2>1. /\ UNCHANGED <<server, logged, historyStale, changes>>
        /\ asked[c].at = "sent" /\ asked[c].kind = "log"
    BY <1>4 DEF Answer, ListCall, IsListCall, Waiting
  <2>2. logged[asked[c].dev] \in 0..MaxSends /\ logged[asked[c].dev] \in Items
    BY <1>0, <1>1, <2>1 DEF Asked, IsListCall, DevicesTypes, Items
  <2>3. /\ asked' \in [Asks -> Asked \cup {None}]
        /\ \A x \in Asks : x # c => asked'[x] = asked[x]
        /\ asked'[c] # None /\ asked'[c].kind = asked[c].kind /\ asked'[c].dev = asked[c].dev
        /\ asked'[c].items = logged[asked[c].dev]
    BY <1>0, <1>1, <1>4, <2>1, <2>2, AnsweredIs DEF IsListCall
  <2>4. \A x \in Asks : SameSend(asked[x], asked'[x]) /\ SameRead(asked[x], asked'[x])
    BY <1>1, <2>1, <2>3 DEF SameSend, SameRead, IsSend, IsRead, IsListCall
  <2>5. DevicesTypes'
    BY <1>0, <1>1, <2>1, <2>3 DEF DevicesTypes
  <2>6. HistoryIsRead'
    BY <1>0, <1>1, <2>1, <2>3 DEF HistoryIsRead, IsLog, IsFresh, IsSend
  <2>7. SendsLast
    BY <2>1, <2>3 DEF SendsLast, SameCaller, IsSend
  <2> QED
    BY <1>1, <2>1, <2>4, <2>5, <2>6, <2>7, SendsUndisturbed, ListUndisturbed DEF DevicesInvariant
<1>5. CASE Answer(c) /\ asked' = Answered(c, "refused", None)
           /\ UNCHANGED <<server, logged, historyStale>>
  <2>1. changes' = changes
    BY <1>5 DEF Answer
  <2>2. /\ asked' \in [Asks -> Asked \cup {None}]
        /\ \A x \in Asks : x # c => asked'[x] = asked[x]
        /\ asked'[c] # None /\ asked'[c].kind = asked[c].kind /\ asked'[c].dev = asked[c].dev
        /\ asked'[c].from = asked[c].from /\ asked'[c].gone = asked[c].gone
        /\ asked'[c].result = "refused"
    BY <1>0, <1>1, <1>5, AnsweredIs DEF Items
  <2>3. \A x \in Asks : SameSend(asked[x], asked'[x]) /\ SameLog(asked[x], asked'[x])
                        /\ SameRead(asked[x], asked'[x])
    BY <1>1, <2>2 DEF SameSend, SameLog, SameRead, ByDetail, IsSend, IsLog, IsFresh, IsRead
  <2>4. DevicesTypes'
    BY <1>0, <1>1, <1>5, <2>1, <2>2 DEF DevicesTypes
  <2>5. SendsLast
    BY <2>2 DEF SendsLast, SameCaller, IsSend
  <2> QED
    BY <1>1, <1>5, <2>3, <2>4, <2>5, SendsUndisturbed, HistoryUndisturbed, ListUndisturbed
    DEF DevicesInvariant
<1>6. CASE /\ Answer(c) /\ Waiting(c, "remove") /\ asked' = Answered(c, "ok", None)
           /\ server' = [server EXCEPT ![asked[c].dev] = "removed"]
           /\ UNCHANGED <<logged, historyStale>>
  <2>1. /\ server' = [server EXCEPT ![asked[c].dev] = "removed"]
        /\ UNCHANGED <<logged, historyStale, changes>> /\ asked[c].kind = "remove"
    BY <1>6 DEF Answer, Waiting
  <2>2. /\ asked' \in [Asks -> Asked \cup {None}]
        /\ \A x \in Asks : x # c => asked'[x] = asked[x]
        /\ asked'[c] # None /\ asked'[c].kind = asked[c].kind
    BY <1>0, <1>1, <1>6, <2>1, AnsweredIs DEF Items, IsListCall
  <2>3. \A x \in Asks : SameSend(asked[x], asked'[x]) /\ SameLog(asked[x], asked'[x])
                        /\ SameRead(asked[x], asked'[x])
    BY <1>1, <2>1, <2>2 DEF SameSend, SameLog, SameRead, IsSend, IsLog, IsFresh, IsRead, IsListCall
  <2>4. server' \in [Phones -> Standing]
        /\ \A d \in Phones : server'[d] \in {server[d], "removed"}
    BY <1>0, <2>1 DEF DevicesTypes, Standing
  <2>5. DevicesTypes'
    BY <1>0, <1>1, <2>1, <2>2, <2>4 DEF DevicesTypes
  <2>6. ListIsFed'
    BY <1>0, <1>1, <2>3, <2>4, RowsRemoved
  <2>7. SendsLast
    BY <2>1, <2>2 DEF SendsLast, SameCaller, IsSend
  <2> QED
    BY <1>1, <2>1, <2>3, <2>5, <2>6, <2>7, SendsUndisturbed, HistoryUndisturbed
    DEF DevicesInvariant
<1>7. CASE /\ Answer(c) /\ Waiting(c, "send") /\ logged[asked[c].dev] < MaxSends
           /\ logged' = [logged EXCEPT ![asked[c].dev] = @ + 1]
           /\ asked' = Overtaken(Answered(c, "ok", None), ReadHistory)
           /\ historyStale' = (historyStale \/ (~FromDetail(c) /\ screen.route = asked[c].dev))
           /\ UNCHANGED server
  <2> DEFINE calls == Answered(c, "ok", None)
             d == asked[c].dev
  <2>1. /\ logged[d] < MaxSends /\ logged' = [logged EXCEPT ![d] = @ + 1]
        /\ historyStale' = (historyStale \/ (~ByDetail(asked[c]) /\ screen.route = d))
        /\ UNCHANGED <<server, changes>> /\ asked[c].kind = "send"
    BY <1>1, <1>7 DEF Answer, Waiting, FromDetail, ByDetail
  <2>2. d \in Phones
    BY <1>1, <2>1 DEF Asked, IsListCall
  <2>3. /\ calls \in [Asks -> Asked \cup {None}]
        /\ \A x \in Asks : x # c => calls[x] = asked[x]
        /\ calls[c] # None /\ calls[c].kind = "send" /\ calls[c].dev = d
        /\ calls[c].from = asked[c].from /\ calls[c].gone = asked[c].gone
    BY <1>0, <1>1, <2>1, AnsweredIs DEF Items, IsListCall
  <2>4. \A x \in Asks : SameSend(asked[x], calls[x]) /\ SameLog(asked[x], calls[x])
                        /\ SameRead(asked[x], calls[x])
    BY <1>1, <2>1, <2>3 
    DEF SameSend, SameLog, SameRead, ByDetail, IsSend, IsLog, IsFresh, IsRead, IsListCall
  <2> HIDE DEF calls
  <2>5. /\ asked' \in [Asks -> Asked \cup {None}]
        /\ \A x \in Asks : AgedFrom(calls[x], asked'[x]) /\ (IsFresh(calls[x]) => asked'[x].old)
    BY <1>7, <2>3, HistoriesOvertaken DEF calls
  <2>6. \A x \in Asks : SameSend(calls[x], asked'[x]) /\ SameLog(calls[x], asked'[x])
                        /\ SameRead(calls[x], asked'[x])
    BY <2>3, <2>5, AgedIsSame
  <2>7. \A x \in Asks : SameSend(asked[x], asked'[x]) /\ SameRead(asked[x], asked'[x])
    BY <2>4, <2>6 DEF SameSend, SameRead
  <2>8. logged' \in [Phones -> 0..MaxSends] /\ historyStale' \in BOOLEAN
    BY <1>0, <2>1, <2>2 DEF DevicesTypes
  <2>9. DevicesTypes'
    BY <1>0, <1>1, <2>1, <2>5, <2>8 DEF DevicesTypes
  <2>10. \A x \in Asks : ~IsFresh(asked'[x])
    BY <2>5, <2>6 DEF SameLog, IsFresh
  <2>11. \A x \in Asks :
           /\ IsLog(asked'[x]) <=> IsLog(asked[x])
           /\ IsLog(asked[x]) => asked'[x].dev = asked[x].dev
           /\ IsSend(asked[x]) /\ ByDetail(asked[x]) => IsSend(asked'[x]) /\ ByDetail(asked'[x])
    BY <2>4, <2>6 DEF SameLog
  <2>12. ASSUME screen.route # None, ~historyStale', screen.history # logged'[screen.route]
         PROVE  \E x \in Asks : IsLog(asked[x]) \/ (IsSend(asked[x]) /\ ByDetail(asked[x]))
    <3>1. CASE ByDetail(asked[c])
      BY <1>1, <2>1, <3>1 DEF IsSend
    <3>2. CASE ~ByDetail(asked[c])
      <4>1. screen.route # d /\ ~historyStale
        BY <2>1, <2>12, <3>2
      <4>2. logged'[screen.route] = logged[screen.route]
        BY <1>0, <2>1, <2>12, <4>1 DEF DevicesTypes
      <4> QED
        BY <1>0, <2>12, <4>1, <4>2 DEF HistoryIsRead
    <3> QED
      BY <3>1, <3>2
  <2>13. HistoryIsRead'
    BY <1>0, <1>1, <2>10, <2>11, <2>12 DEF HistoryIsRead, IsLog, IsFresh, IsSend
  <2>14. SendsLast
    <3>1. \A x \in Asks : IsSend(asked[x]) => calls[x] # None /\ SameCaller(asked[x], calls[x])
      BY <1>1, <2>1, <2>3 DEF SameCaller, IsSend
    <3>2. \A x \in Asks : calls[x] # None => SameCaller(calls[x], asked'[x])
      BY <2>3, <2>5, AgedIsSame DEF SameCaller
    <3> QED
      BY <3>1, <3>2 DEF SendsLast, SameCaller
  <2> QED
    BY <1>1, <2>1, <2>7, <2>9, <2>13, <2>14, SendsUndisturbed, ListUndisturbed
    DEF DevicesInvariant
<1> QED
  BY <1>2, <1>3, <1>4, <1>5, <1>6, <1>7 DEF Answer

\* Requests that begin, other than for a history.
LEMMA BeginsKeep ==
    ASSUME DevicesInvariant, NEW c \in Asks,
           \/ SignInToList(c) \/ ErrorsChange(c) \/ RefreshList(c) \/ ConfirmRemove(c)
           \/ \E d \in Phones : RemoveGuest(c, d)
    PROVE  DevicesInvariant'
<1>0. DevicesTypes /\ SendsAreSingle
  BY DEF DevicesInvariant
<1>1. /\ UNCHANGED <<server, logged, list, socket, frames, known, stale, historyStale>>
      /\ changes' \in 0..MaxChanges
  BY <1>0, DevicesBounds
  DEF SignInToList, ErrorsChange, LoadFirstPage, Change, RefreshList, ConfirmRemove, RemoveGuest,
      DevicesTypes
<1>2. PICK new \in Asked : AskFor(c, new) /\ new.at = "sent" /\ new.kind \notin {"send", "log"}
  <2>1. CASE SignInToList(c) \/ ErrorsChange(c)
    BY <2>1, NewAskIs DEF SignInToList, ErrorsChange, LoadFirstPage
  <2>2. CASE RefreshList(c)
    BY <2>2, NewAskIs DEF RefreshList
  <2>3. CASE ConfirmRemove(c)
    <3>1. screen.route \in Phones
      BY <1>0, <2>3 DEF ConfirmRemove, DevicesTypes, SendsAreSingle
    <3> QED
      BY <2>3, <3>1, NewAskIs DEF ConfirmRemove
  <2>4. CASE \E d \in Phones : RemoveGuest(c, d)
    BY <2>4, NewAskIs DEF RemoveGuest
  <2> QED
    BY <2>1, <2>2, <2>3, <2>4
<1>3. /\ asked' \in [Asks -> Asked \cup {None}]
      /\ \A x \in Asks : SameSend(asked[x], asked'[x]) /\ SameLog(asked[x], asked'[x])
                         /\ SameRead(asked[x], asked'[x])
  BY <1>0, <1>2, AskBegins
<1>4. /\ screen' \in [target : Phones \cup {None}, route : Phones \cup {None},
                      alertOpen : BOOLEAN, removeOpen : BOOLEAN, history : 0..MaxSends]
      /\ screen'.route = screen.route /\ screen'.history = screen.history
      /\ screen'.target = screen.target /\ screen'.alertOpen = screen.alertOpen
      /\ screen'.removeOpen => screen.removeOpen
  BY <1>0 DEF SignInToList, ErrorsChange, LoadFirstPage, RefreshList, ConfirmRemove, RemoveGuest,
              DevicesTypes
<1>5. /\ flags' \in [loading : BOOLEAN, refreshing : BOOLEAN, sending : BOOLEAN,
                     signedIn : BOOLEAN]
      /\ flags'.sending = flags.sending
  BY <1>0 DEF SignInToList, ErrorsChange, LoadFirstPage, RefreshList, ConfirmRemove, RemoveGuest,
              DevicesTypes
<1>6. DevicesTypes'
  BY <1>0, <1>1, <1>3, <1>4, <1>5 DEF DevicesTypes
<1> QED
  BY <1>1, <1>3, <1>4, <1>5, <1>6, SendsUndisturbed, HistoryUndisturbed, ListUndisturbed
  DEF DevicesInvariant

\* A confirmed alert is the only one, and its dialog is the one it was confirmed in.
LEMMA ConfirmKeeps ==
    ASSUME DevicesInvariant, NEW c \in Asks, ConfirmTarget(c) \/ ConfirmAlert(c)
    PROVE  DevicesInvariant'
<1>0. DevicesTypes /\ SendsAreSingle
  BY DEF DevicesInvariant
<1> DEFINE d == IF ConfirmTarget(c) THEN screen.target ELSE screen.route
           from == IF ConfirmTarget(c) THEN "dashboard" ELSE "detail"
           new == NewAsk("send", d, from)
<1>1. /\ ~flags.sending /\ AskFor(c, new) /\ flags' = [flags EXCEPT !.sending = TRUE]
      /\ UNCHANGED <<server, logged, list, screen, socket, frames, known, stale, historyStale,
                     changes>>
  BY DEF ConfirmTarget, ConfirmAlert, Send
<1>2. /\ d \in Phones
      /\ from = "dashboard" => d = screen.target
      /\ from = "detail" => d = screen.route /\ screen.alertOpen
  BY <1>0 DEF ConfirmTarget, ConfirmAlert, DevicesTypes, SendsAreSingle
<1>3. from \in {"dashboard", "detail"}
  OBVIOUS
<1> HIDE DEF d, from
<1>4. /\ new \in Asked /\ new.at = "sent" /\ new.kind = "send" /\ new.dev = d /\ new.from = from
      /\ new # None
  BY <1>2, <1>3, NewAskIs
<1> HIDE DEF new
<1>5. /\ asked' \in [Asks -> Asked \cup {None}] /\ asked'[c] = new
      /\ \A x \in Asks : x # c => asked'[x] = asked[x]
      /\ \A x \in Asks : SameRead(asked[x], asked'[x]) /\ SameLog(asked[x], asked'[x])
  BY <1>0, <1>1, <1>4, AskBegins
<1>6. /\ flags' \in [loading : BOOLEAN, refreshing : BOOLEAN, sending : BOOLEAN,
                     signedIn : BOOLEAN]
      /\ flags'.sending = TRUE
  BY <1>0, <1>1 DEF DevicesTypes
<1>7. DevicesTypes'
  BY <1>0, <1>1, <1>5, <1>6 DEF DevicesTypes
<1>8. SendsAreSingle'
  <2>1. \A x \in Asks : ~IsSend(asked[x])
    BY <1>0, <1>1 DEF SendsAreSingle
  <2>2. IsSend(new) /\ InItsDialog(new)
    BY <1>2, <1>3, <1>4 DEF IsSend, InItsDialog, ByDetail
  <2> QED
    BY <1>0, <1>1, <1>5, <1>6, <2>1, <2>2 DEF SendsAreSingle, IsSend, InItsDialog
<1> QED
  BY <1>1, <1>5, <1>7, <1>8, HistoryUndisturbed, ListUndisturbed DEF DevicesInvariant

\* A device's screen opens on the dashboard, where no history is being read.
LEMMA OpenDetailKeeps ==
    ASSUME DevicesInvariant, NEW c \in Asks, NEW d \in Phones, OpenDetail(c, d)
    PROVE  DevicesInvariant'
<1>0. DevicesTypes /\ SendsAreSingle /\ HistoryIsRead
  BY DEF DevicesInvariant
<1> DEFINE new == NewAsk("log", d, "detail")
<1>1. /\ screen.route = None /\ screen.target = None
      /\ screen' = [Closed EXCEPT !.route = d] /\ historyStale' = FALSE /\ AskFor(c, new)
      /\ UNCHANGED <<server, logged, list, flags, socket, frames, known, stale, changes>>
  BY DEF OpenDetail, OnDashboard
<1>2. /\ new \in Asked /\ new.at = "sent" /\ new.kind = "log" /\ new.dev = d /\ new # None
  BY NewAskIs
<1> HIDE DEF new
<1>3. /\ asked' \in [Asks -> Asked \cup {None}] /\ asked'[c] = new /\ asked[c] = None
      /\ \A x \in Asks : x # c => asked'[x] = asked[x]
      /\ \A x \in Asks : SameRead(asked[x], asked'[x]) /\ SameSend(asked[x], asked'[x])
  BY <1>0, <1>1, <1>2, AskBegins
<1>4. /\ screen' \in [target : Phones \cup {None}, route : Phones \cup {None},
                      alertOpen : BOOLEAN, removeOpen : BOOLEAN, history : 0..MaxSends]
      /\ screen'.route = d /\ screen'.target = None
      /\ screen'.alertOpen = FALSE /\ screen'.removeOpen = FALSE
  <2>1. 0 \in 0..MaxSends
    BY DevicesBounds
  <2> QED
    BY <1>1, <2>1 DEF Closed
<1>5. DevicesTypes'
  BY <1>0, <1>1, <1>3, <1>4 DEF DevicesTypes
<1>6. \A x \in Asks : IsSend(asked[x]) => asked[x].dev \in Phones
  BY <1>0 DEF DevicesTypes, IsSend, Asked, IsListCall
<1>7. SendsAreSingle'
  <2>1. \A x \in Asks : IsSend(asked'[x]) => asked'[x] = asked[x]
    BY <1>2, <1>3 DEF IsSend
  <2>2. \A x \in Asks : IsSend(asked[x]) => asked[x].from # "dashboard" /\ ~ByDetail(asked[x])
    BY <1>0, <1>1, <1>6, DevicesNames DEF SendsAreSingle, InItsDialog
  <2> QED
    BY <1>0, <1>1, <1>3, <1>4, <2>1, <2>2, DevicesNames
    DEF SendsAreSingle, InItsDialog, SameSend
<1>8. HistoryIsRead'
  <2>1. \A x \in Asks : ~IsLog(asked[x])
    <3>1. \A x \in Asks : IsLog(asked[x]) => asked[x].dev \in Phones
      BY <1>0 DEF DevicesTypes, IsLog, Asked, IsListCall
    <3> QED
      BY <1>0, <1>1, <3>1, DevicesNames DEF HistoryIsRead
  <2> QED
    BY <1>2, <1>3, <1>4, <2>1 DEF HistoryIsRead, IsLog, IsFresh, IsSend
<1> QED
  BY <1>1, <1>3, <1>5, <1>7, <1>8, ListUndisturbed DEF DevicesInvariant

\* The answer is the list: what it left out is not known, and whether it was
\* overtaken is now the list's.
LEMMA LandListKeeps ==
    ASSUME DevicesInvariant, NEW c \in Asks, LandList(c)
    PROVE  DevicesInvariant'
<1>0. DevicesTypes /\ ListIsFed
  BY DEF DevicesInvariant
<1>1. /\ asked[c] # None /\ IsListCall(asked[c]) /\ asked[c].at = "answered"
      /\ asked' = [asked EXCEPT ![c] = None]
      /\ UNCHANGED <<server, logged, screen, socket, frames, historyStale, changes>>
  BY DEF LandList, ListCall
<1>2. asked[c].kind \notin {"log", "send"} /\ asked[c] \in Asked /\ asked[c] \in Ask
  BY <1>0, <1>1 DEF IsListCall, DevicesTypes, Asked
<1>3. /\ asked' \in [Asks -> Asked \cup {None}] /\ asked'[c] = None
      /\ \A x \in Asks : x # c => asked'[x] = asked[x]
      /\ \A x \in Asks : SameSend(asked[x], asked'[x]) /\ SameLog(asked[x], asked'[x])
                         /\ SameRead(asked[x], asked'[x])
  BY <1>0, <1>1, <1>2, AskEnds
<1>4. /\ flags' \in [loading : BOOLEAN, refreshing : BOOLEAN, sending : BOOLEAN,
                     signedIn : BOOLEAN]
      /\ flags'.sending = flags.sending
  BY <1>0 DEF LandList, Reloaded, DevicesTypes
<1>5. SendsAreSingle' /\ HistoryIsRead'
  BY <1>1, <1>3, <1>4, SendsUndisturbed, HistoryUndisturbed
<1>6. CASE asked[c].result = "ok"
  <2>1. /\ list' = asked[c].items /\ known' = {d \in Phones : asked[c].items[d] # "absent"}
        /\ stale' = asked[c].old
    BY <1>6 DEF LandList
  <2>2. asked[c].items \in [Phones -> Shown] /\ asked[c].old \in BOOLEAN
    BY <1>1, <1>2, <1>6 DEF Asked, Ask
  <2>3. DevicesTypes'
    BY <1>0, <1>1, <1>3, <1>4, <2>1, <2>2 DEF DevicesTypes
  <2>4. IsRead(asked[c])
    BY <1>1, <1>6 DEF IsRead
  <2>5. Known(list', server) /\ (~stale' => CaughtUp(list', frames, server))
    BY <1>0, <2>1, <2>4 DEF ListIsFed
  <2>6. Listed' = known'
    BY <2>1 DEF Listed
  <2>7. ListIsFed'
    BY <1>0, <1>1, <1>3, <2>5, <2>6 DEF ListIsFed, IsRead
  <2> QED
    BY <1>5, <2>3, <2>7 DEF DevicesInvariant
<1>7. CASE asked[c].result # "ok"
  <2>1. UNCHANGED <<list, known, stale>>
    BY <1>7 DEF LandList
  <2>2. DevicesTypes'
    BY <1>0, <1>1, <1>3, <1>4, <2>1 DEF DevicesTypes
  <2> QED
    BY <1>1, <1>3, <1>5, <2>1, <2>2, ListUndisturbed DEF DevicesInvariant
<1> QED
  BY <1>6, <1>7

\* A send that is over takes isSending and its dialog with it.
LEMMA LandSendKeeps ==
    ASSUME DevicesInvariant, NEW c \in Asks, LandDashboardSend(c) \/ LandDetailSend(c)
    PROVE  DevicesInvariant'
<1>0. DevicesTypes /\ SendsAreSingle /\ HistoryIsRead
  BY DEF DevicesInvariant
<1>1. /\ asked[c] # None /\ asked[c].kind = "send" /\ IsSend(asked[c])
      /\ flags' = [flags EXCEPT !.sending = FALSE]
      /\ UNCHANGED <<server, logged, list, socket, frames, known, stale, historyStale, changes>>
  BY DEF LandDashboardSend, LandDetailSend, Arrived, Waiting, IsSend
<1>2. asked[c] \in Asked /\ asked[c].dev \in Phones
  BY <1>0, <1>1 DEF DevicesTypes, Asked, IsListCall
<1>3. /\ flags' \in [loading : BOOLEAN, refreshing : BOOLEAN, sending : BOOLEAN,
                     signedIn : BOOLEAN]
      /\ flags'.sending = FALSE
  BY <1>0, <1>1 DEF DevicesTypes
<1>4. /\ screen' \in [target : Phones \cup {None}, route : Phones \cup {None},
                      alertOpen : BOOLEAN, removeOpen : BOOLEAN, history : 0..MaxSends]
      /\ screen'.route = screen.route /\ screen'.history = screen.history
      /\ screen'.alertOpen => screen.alertOpen
      /\ screen'.removeOpen => screen.removeOpen
      /\ screen'.target \in {screen.target, None}
  BY ZenonT(60), <1>0 DEF LandDashboardSend, LandDetailSend, DevicesTypes
<1>5. \A x \in Asks : x # c => ~IsSend(asked[x])
  BY <1>0, <1>1 DEF SendsAreSingle
<1>6. CASE LandDashboardSend(c)
  <2>1. asked' = [asked EXCEPT ![c] = None] /\ ~ByDetail(asked[c])
    BY <1>6 DEF LandDashboardSend, FromDetail, ByDetail
  <2>2. /\ asked' \in [Asks -> Asked \cup {None}] /\ asked'[c] = None
        /\ \A x \in Asks : x # c => asked'[x] = asked[x]
        /\ \A x \in Asks : SameRead(asked[x], asked'[x])
    BY <1>0, <1>1, <2>1, AskEnds
  <2>3. \A x \in Asks : SameLog(asked[x], asked'[x])
    BY <1>1, <2>1, <2>2 DEF SameLog, IsLog, IsFresh, IsSend
  <2>4. DevicesTypes'
    BY <1>0, <1>1, <1>3, <1>4, <2>2 DEF DevicesTypes
  <2>5. SendsAreSingle'
    BY <1>0, <1>3, <1>4, <1>5, <2>2 DEF SendsAreSingle, IsSend
  <2> QED
    BY <1>1, <1>4, <2>2, <2>3, <2>4, <2>5, HistoryUndisturbed, ListUndisturbed
    DEF DevicesInvariant
<1>7. CASE LandDetailSend(c)
  <2> DEFINE new == NewAsk("log", asked[c].dev, "detail")
  <2>1. asked' = [asked EXCEPT ![c] = new] /\ ByDetail(asked[c])
    BY <1>7 DEF LandDetailSend, FromDetail, ByDetail
  <2>2. new \in Asked /\ new.at = "sent" /\ new.kind = "log" /\ new.dev = asked[c].dev
        /\ new # None
    BY <1>2, NewAskIs
  <2> HIDE DEF new
  <2>3. /\ asked' \in [Asks -> Asked \cup {None}] /\ asked'[c] = new
        /\ \A x \in Asks : x # c => asked'[x] = asked[x]
    BY <1>0, <2>1, <2>2 DEF DevicesTypes
  <2>4. \A x \in Asks : SameRead(asked[x], asked'[x])
    BY <2>2, <2>3 DEF SameRead, IsRead
  <2>5. DevicesTypes'
    BY <1>0, <1>1, <1>3, <1>4, <2>3 DEF DevicesTypes
  <2>6. SendsAreSingle'
    BY <1>0, <1>3, <1>4, <1>5, <2>2, <2>3 DEF SendsAreSingle, IsSend
  <2>7. screen.route = asked[c].dev
    BY <1>0, <1>1, <2>1 DEF SendsAreSingle, InItsDialog
  <2>8. HistoryIsRead'
    BY <1>0, <1>1, <1>4, <2>2, <2>3, <2>7 DEF HistoryIsRead, IsLog, IsFresh
  <2> QED
    BY <1>1, <2>4, <2>5, <2>6, <2>8, ListUndisturbed DEF DevicesInvariant
<1> QED
  BY <1>6, <1>7

LEMMA LandHistoryKeeps ==
    ASSUME DevicesInvariant, NEW c \in Asks, LandHistory(c)
    PROVE  DevicesInvariant'
<1>0. DevicesTypes /\ HistoryIsRead
  BY DEF DevicesInvariant
<1>1. /\ asked[c] # None /\ asked[c].kind = "log" /\ asked[c].at = "answered"
      /\ asked' = [asked EXCEPT ![c] = None]
      /\ UNCHANGED <<server, logged, list, flags, socket, frames, known, stale, changes>>
  BY DEF LandHistory, Arrived, Waiting
<1>2. /\ asked' \in [Asks -> Asked \cup {None}] /\ asked'[c] = None
      /\ \A x \in Asks : x # c => asked'[x] = asked[x]
      /\ \A x \in Asks : SameRead(asked[x], asked'[x]) /\ SameSend(asked[x], asked'[x])
  BY <1>0, <1>1, AskEnds
<1>3. asked[c] \in Asked /\ asked[c] \in Ask /\ screen.route = asked[c].dev
  BY <1>0, <1>1 DEF DevicesTypes, Asked, HistoryIsRead, IsLog
<1>4. CASE asked[c].result = "ok"
  <2>1. screen' = [screen EXCEPT !.history = asked[c].items] /\ historyStale' = asked[c].old
    BY <1>4 DEF LandHistory
  <2>2. /\ screen' \in [target : Phones \cup {None}, route : Phones \cup {None},
                        alertOpen : BOOLEAN, removeOpen : BOOLEAN, history : 0..MaxSends]
        /\ screen'.route = screen.route /\ screen'.target = screen.target
        /\ screen'.alertOpen = screen.alertOpen /\ screen'.removeOpen = screen.removeOpen
        /\ screen'.history = asked[c].items
        /\ historyStale' \in BOOLEAN
    BY <1>0, <1>1, <1>3, <1>4, <2>1 DEF DevicesTypes, Asked, Ask
  <2>3. DevicesTypes'
    BY <1>0, <1>1, <1>2, <2>2 DEF DevicesTypes
  <2>4. ~historyStale' => screen'.history = logged[screen'.route]
    <3>1. ~historyStale' => IsFresh(asked[c])
      BY <1>1, <1>4, <2>1 DEF IsFresh, IsLog
    <3> QED
      BY <1>0, <1>3, <2>2, <3>1 DEF HistoryIsRead
  <2>5. HistoryIsRead'
    BY <1>0, <1>1, <1>2, <2>2, <2>4 DEF HistoryIsRead, IsLog, IsFresh
  <2> QED
    BY <1>1, <1>2, <2>2, <2>3, <2>5, SendsUndisturbed, ListUndisturbed DEF DevicesInvariant
<1>5. CASE asked[c].result # "ok"
  <2>1. screen' = screen /\ historyStale' = TRUE
    BY <1>5 DEF LandHistory
  <2>2. DevicesTypes'
    BY <1>0, <1>1, <1>2, <2>1 DEF DevicesTypes
  <2>3. HistoryIsRead'
    BY <1>0, <1>1, <1>2, <2>1 DEF HistoryIsRead, IsLog, IsFresh
  <2> QED
    BY <1>1, <1>2, <2>1, <2>2, <2>3, SendsUndisturbed, ListUndisturbed DEF DevicesInvariant
<1> QED
  BY <1>4, <1>5

\* GoBack and signing out: who left hears of nothing.
LEMMA LeavingKeeps ==
    ASSUME DevicesInvariant, GoBack \/ SignOutOfList
    PROVE  DevicesInvariant'
<1>0. DevicesTypes /\ SendsAreSingle /\ ListIsFed
  BY DEF DevicesInvariant
<1>1. screen' = Closed /\ historyStale' = FALSE /\ UNCHANGED <<server, logged>>
  BY DEF GoBack, SignOutOfList
<1>2. \A c \in Asks : IsSend(asked[c]) => asked[c].dev \in Phones
  BY <1>0 DEF DevicesTypes, IsSend, Asked, IsListCall
<1>3. screen' \in [target : Phones \cup {None}, route : Phones \cup {None},
                   alertOpen : BOOLEAN, removeOpen : BOOLEAN, history : 0..MaxSends]
  <2>1. 0 \in 0..MaxSends
    BY DevicesBounds
  <2> QED
    BY <1>1, <2>1 DEF Closed
<1>4. CASE GoBack
  <2>1. /\ asked' = Left(asked)
        /\ UNCHANGED <<server, logged, list, flags, socket, frames, known, stale, changes>>
    BY <1>4 DEF GoBack
  <2>2. /\ asked' \in [Asks -> Asked \cup {None}]
        /\ \A c \in Asks :
             /\ ~IsLog(asked'[c])
             /\ IsSend(asked'[c]) <=> IsSend(asked[c])
             /\ IsSend(asked[c]) => asked'[c].gone /\ asked'[c].from = asked[c].from
             /\ SameRead(asked[c], asked'[c])
    BY <1>0, <2>1, LeftBehind DEF DevicesTypes
  <2>3. \A c \in Asks : IsSend(asked[c]) => asked[c].from # "dashboard"
    <3>1. screen.target = None
      BY <1>0, <1>4 DEF GoBack, OnDetail, Missing, SendsAreSingle
    <3> QED
      BY <1>0, <1>2, <3>1, DevicesNames DEF SendsAreSingle, InItsDialog
  <2>4. DevicesTypes'
    BY <1>0, <1>1, <1>3, <2>1, <2>2 DEF DevicesTypes
  <2>5. SendsAreSingle' /\ HistoryIsRead'
    BY <1>1, <2>1, <2>2, <2>3, ScreensGone DEF ByDetail
  <2> QED
    BY <1>1, <2>1, <2>2, <2>4, <2>5, ListUndisturbed DEF DevicesInvariant
<1>5. CASE SignOutOfList
  <2> DEFINE calls == Unscreened(asked)
  <2>0. /\ calls \in [Asks -> Asked \cup {None}]
        /\ \A c \in Asks :
             /\ ~IsLog(calls[c])
             /\ IsSend(calls[c]) <=> IsSend(asked[c])
             /\ IsSend(asked[c]) => calls[c].from = None
             /\ SameRead(asked[c], calls[c])
    BY <1>0, SessionBehind
  <2>1. /\ asked' = Overtaken(calls, IsListCall) /\ list' = Empty /\ known' = {}
        /\ stale' = FALSE /\ socket' = "down" /\ frames' = <<>>
        /\ flags' = [flags EXCEPT !.signedIn = FALSE] /\ changes' = changes + 1
        /\ changes < MaxChanges
    BY <1>5 DEF SignOutOfList, Change
  <2> HIDE DEF calls
  <2>2. /\ asked' \in [Asks -> Asked \cup {None}]
        /\ \A c \in Asks : AgedFrom(calls[c], asked'[c]) /\ (IsRead(calls[c]) => asked'[c].old)
    BY <2>0, <2>1, ListCallsOvertaken
  <2>3. \A c \in Asks : /\ SameSend(calls[c], asked'[c]) /\ SameLog(calls[c], asked'[c])
                        /\ SameRead(calls[c], asked'[c])
                        /\ calls[c] # None => asked'[c].from = calls[c].from
    BY ZenonT(60), <2>0, <2>2, AgedIsSame
  <2>4. \A c \in Asks : /\ IsSend(asked'[c]) <=> IsSend(asked[c])
                        /\ IsSend(asked'[c]) => asked'[c].from = None
                        /\ ~IsLog(asked'[c])
    BY <2>0, <2>3 DEF SameSend, SameLog, IsSend
  <2>5. /\ flags' \in [loading : BOOLEAN, refreshing : BOOLEAN, sending : BOOLEAN,
                       signedIn : BOOLEAN]
        /\ flags'.sending = flags.sending
    BY <1>0, <2>1 DEF DevicesTypes
  <2>6. frames' \in Seq(Frame) /\ Len(frames') = 0
    BY <2>1
  <2>7. list' \in [Phones -> Shown] /\ Listed' = {}
    BY <2>1 DEF Empty, Shown, Listed
  <2>8. changes' \in 0..MaxChanges
    BY <1>0, <2>1, DevicesBounds DEF DevicesTypes
  <2>9. DevicesTypes'
    BY <1>0, <1>1, <1>3, <2>1, <2>2, <2>5, <2>6, <2>7, <2>8 DEF DevicesTypes
  <2>10. ASSUME NEW c \in Asks, IsRead(asked'[c])
         PROVE  Known(asked'[c].items, server) /\ asked'[c].old
    <3>1. /\ IsRead(calls[c]) /\ IsRead(asked[c]) /\ asked'[c].items = asked[c].items
          /\ asked'[c].old
      BY <2>0, <2>2, <2>3, <2>10 DEF SameRead
    <3> QED
      BY <1>0, <3>1 DEF ListIsFed
  <2>11. ListIsFed'
    <3>1. Known(list', server) /\ CaughtUp(list', frames', server) /\ FramesTell(frames', server)
      BY <2>1, <2>6 DEF Known, CaughtUp, FramesTell, Empty
    <3> QED
      BY <1>1, <2>1, <2>7, <2>10, <3>1 DEF ListIsFed, IsRead
  <2>12. SendsAreSingle' /\ HistoryIsRead'
    BY <1>1, <2>4, <2>5, ScreensGone, DevicesNames DEF ByDetail
  <2> QED
    BY <2>9, <2>11, <2>12 DEF DevicesInvariant
<1> QED
  BY <1>4, <1>5

\* An answer to a removal takes the device out of the list, and overtakes every
\* answer that may still have it.
LEMMA LandRemovalKeeps ==
    ASSUME DevicesInvariant, NEW c \in Asks, LandRemoval(c)
    PROVE  DevicesInvariant'
<1>0. DevicesTypes /\ SendsAreSingle /\ ListIsFed
  BY DEF DevicesInvariant
<1> DEFINE d == asked[c].dev
           gone == asked[c].result = "ok"
           back == asked[c].from = "detail" /\ screen.route # None
           before == IF gone THEN Overtaken(asked, ReadList) ELSE asked
           calls == [before EXCEPT ![c] = None]
<1>1. /\ asked[c] # None /\ asked[c].kind = "remove"
      /\ list' = IF gone THEN [list EXCEPT ![d] = "absent"] ELSE list
      /\ known' = IF gone THEN known \ {d} ELSE known
      /\ asked' = IF back THEN Left(calls) ELSE calls
      /\ screen' = IF back THEN Closed ELSE screen
      /\ historyStale' = (historyStale /\ ~back)
      /\ UNCHANGED <<server, logged, flags, socket, frames, stale, changes>>
  BY DEF LandRemoval, Arrived, Waiting
<1>a. historyStale' = IF back THEN FALSE ELSE historyStale
  BY <1>0, <1>1 DEF DevicesTypes
<1>b. back => \A x \in Asks : IsSend(asked[x]) => asked[x].from # "dashboard"
  <2>1. \A x \in Asks : IsSend(asked[x]) => asked[x].dev \in Phones
    BY <1>0 DEF DevicesTypes, IsSend, Asked, IsListCall
  <2> QED
    BY <1>0, <2>1, DevicesNames DEF SendsAreSingle, InItsDialog
<1>2. d \in Phones
  BY <1>0, <1>1 DEF DevicesTypes, Asked, IsListCall
<1>3. /\ before \in [Asks -> Asked \cup {None}]
      /\ \A x \in Asks : AgedFrom(asked[x], before[x])
      /\ gone => \A x \in Asks : IsRead(asked[x]) => before[x].old
  <2>1. asked \in [Asks -> Asked \cup {None}]
    BY <1>0 DEF DevicesTypes
  <2> QED
    BY <2>1, ReadsOvertaken DEF AgedFrom
<1> HIDE DEF before
<1>4. \A x \in Asks : /\ SameSend(asked[x], before[x]) /\ SameLog(asked[x], before[x])
                      /\ SameRead(asked[x], before[x]) /\ (before[x] = None <=> asked[x] = None)
                      /\ asked[x] # None => before[x].kind = asked[x].kind
  <2>1. asked \in [Asks -> Asked \cup {None}]
    BY <1>0 DEF DevicesTypes
  <2> SUFFICES ASSUME NEW x \in Asks
               PROVE  /\ SameSend(asked[x], before[x]) /\ SameLog(asked[x], before[x])
                      /\ SameRead(asked[x], before[x]) /\ (before[x] = None <=> asked[x] = None)
                      /\ asked[x] # None => before[x].kind = asked[x].kind
    OBVIOUS
  <2>2. asked[x] \in Asked \cup {None} /\ before[x] \in Asked \cup {None}
        /\ AgedFrom(asked[x], before[x])
    BY <1>3, <2>1
  <2> QED
    BY <2>2, AgedIsSame
<1>5. /\ calls \in [Asks -> Asked \cup {None}] /\ calls[c] = None
      /\ \A x \in Asks : x # c => calls[x] = before[x]
  BY <1>3
<1> HIDE DEF calls
<1>6. \A x \in Asks : /\ SameSend(asked[x], calls[x]) /\ SameLog(asked[x], calls[x])
                      /\ SameRead(asked[x], calls[x])
                      /\ gone /\ IsRead(calls[x]) => calls[x].old
                      /\ calls[x] # None => asked[x] # None /\ calls[x].kind = asked[x].kind
  BY <1>1, <1>3, <1>4, <1>5
  DEF SameSend, SameLog, SameRead, ByDetail, IsSend, IsLog, IsFresh, IsRead
<1>7. /\ asked' \in [Asks -> Asked \cup {None}]
      /\ \A x \in Asks : SameRead(calls[x], asked'[x])
      /\ back => \A x \in Asks :
           /\ ~IsLog(asked'[x])
           /\ IsSend(asked'[x]) <=> IsSend(asked[x])
           /\ IsSend(asked'[x]) => asked'[x].from # "dashboard" /\ ~ByDetail(asked'[x])
      /\ ~back => asked' = calls
  <2>1. CASE back
    <3>1. /\ asked' \in [Asks -> Asked \cup {None}]
          /\ \A x \in Asks :
               /\ ~IsLog(asked'[x])
               /\ IsSend(asked'[x]) <=> IsSend(calls[x])
               /\ IsSend(calls[x]) => asked'[x].gone /\ asked'[x].from = calls[x].from
               /\ SameRead(calls[x], asked'[x])
      BY <1>0, <1>1, <1>5, <1>6, <2>1, LeftBehind
    <3> QED
      BY <1>6, <1>b, <2>1, <3>1, DevicesNames DEF SameSend, ByDetail
  <2>2. CASE ~back
    BY <1>1, <1>5, <2>2 DEF SameRead
  <2> QED
    BY <2>1, <2>2
<1>8. SendsAreSingle' /\ HistoryIsRead'
  <2>1. CASE back
    BY <1>1, <1>7, <2>1, ScreensGone
  <2>2. CASE ~back
    BY <1>1, <1>a, <1>6, <1>7, <2>2, SendsUndisturbed, HistoryUndisturbed
  <2> QED
    BY <2>1, <2>2
<1>9. /\ screen' \in [target : Phones \cup {None}, route : Phones \cup {None},
                      alertOpen : BOOLEAN, removeOpen : BOOLEAN, history : 0..MaxSends]
      /\ historyStale' \in BOOLEAN
  <2>1. 0 \in 0..MaxSends
    BY DevicesBounds
  <2>2. Closed \in [target : Phones \cup {None}, route : Phones \cup {None},
                    alertOpen : BOOLEAN, removeOpen : BOOLEAN, history : 0..MaxSends]
    BY <2>1 DEF Closed
  <2> QED
    BY <1>0, <1>1, <1>a, <2>2 DEF DevicesTypes
<1>10. list' \in [Phones -> Shown] /\ known' \subseteq Phones /\ Listed' = known'
  BY <1>0, <1>1, <1>2 DEF DevicesTypes, Shown, ListIsFed, Listed
<1>11. DevicesTypes'
  BY <1>0, <1>1, <1>7, <1>9, <1>10 DEF DevicesTypes
<1>12. \A p \in Phones : list'[p] \in {list[p], "absent"}
  BY <1>0, <1>1, <1>2 DEF DevicesTypes
<1>13. Known(list', server) /\ (~stale => CaughtUp(list', frames, server))
  BY <1>0, <1>12 DEF ListIsFed, Known, CaughtUp
<1>14. ASSUME NEW x \in Asks, IsRead(asked'[x])
       PROVE  /\ Known(asked'[x].items, server)
              /\ ~asked'[x].old => CaughtUp(asked'[x].items, frames, server)
  <2>1. IsRead(calls[x]) /\ asked'[x].items = calls[x].items /\ (calls[x].old => asked'[x].old)
    BY <1>7, <1>14 DEF SameRead
  <2>2. IsRead(asked[x]) /\ calls[x].items = asked[x].items /\ (asked[x].old => calls[x].old)
    BY <1>6, <2>1 DEF SameRead
  <2> QED
    BY <1>0, <2>1, <2>2 DEF ListIsFed
<1>15. ListIsFed'
  BY <1>0, <1>1, <1>10, <1>13, <1>14 DEF ListIsFed, IsRead
<1> QED
  BY <1>8, <1>11, <1>15 DEF DevicesInvariant

-----------------------------------------------------------------------------
(* The steps of the server and of the socket.                              *)

\* Steps that touch no screen, no log and only the list calls among the requests.
LEMMA ListStep ==
    ASSUME DevicesInvariant, UNCHANGED <<logged, screen, flags, historyStale>>,
           asked' \in [Asks -> Asked \cup {None}],
           \A c \in Asks : AgedFrom(asked[c], asked'[c])
    PROVE  /\ SendsAreSingle' /\ HistoryIsRead'
           /\ \A c \in Asks : SameRead(asked[c], asked'[c])
<1>1. \A c \in Asks : SameSend(asked[c], asked'[c]) /\ SameLog(asked[c], asked'[c])
                      /\ SameRead(asked[c], asked'[c])
  BY AgedIsSame DEF DevicesInvariant, DevicesTypes
<1> QED
  BY <1>1, SendsUndisturbed, HistoryUndisturbed

\* A frame is applied in the order of the socket, so the last one has its say.
LEMMA LandFrameKeeps ==
    ASSUME DevicesInvariant, LandFrame
    PROVE  DevicesInvariant'
<1>0. DevicesTypes /\ ListIsFed
  BY DEF DevicesInvariant
<1> DEFINE f == Head(frames)
<1>1. /\ frames # <<>> /\ frames' = Tail(frames)
      /\ list' = [list EXCEPT ![f.dev] = IF @ = "absent" THEN @ ELSE f.status]
      /\ stale' = (stale \/ f.old)
      /\ asked' = Overtaken(asked, ReadList)
      /\ UNCHANGED <<server, logged, flags, screen, socket, known, historyStale, changes>>
  BY DEF LandFrame
<1>2. asked \in [Asks -> Asked \cup {None}] /\ frames \in Seq(Frame)
  BY <1>0 DEF DevicesTypes
<1>3. /\ asked' \in [Asks -> Asked \cup {None}]
      /\ \A c \in Asks : AgedFrom(asked[c], asked'[c]) /\ (IsRead(asked[c]) => asked'[c].old)
  BY <1>1, <1>2, ReadsOvertaken
<1>4. SendsAreSingle' /\ HistoryIsRead' /\ \A c \in Asks : SameRead(asked[c], asked'[c])
  BY <1>1, <1>3, ListStep
<1> DEFINE n == Len(frames)
<1>5. /\ n \in Nat /\ n >= 1 /\ f = frames[1] /\ f \in Frame
      /\ frames' \in Seq(Frame) /\ Len(frames') = n - 1
      /\ \A i \in 1..(n - 1) : frames'[i] = frames[i + 1] /\ i + 1 \in 1..n
      /\ \A i \in 1..n : frames[i] \in Frame
  BY <1>1, <1>2
<1>6. f.dev \in Phones /\ f.status \in Statuses /\ f.old \in BOOLEAN
  BY <1>5 DEF Frame
<1> HIDE DEF f, n
<1>7. /\ list' \in [Phones -> Shown]
      /\ \A d \in Phones :
           list'[d] = IF d = f.dev /\ list[d] # "absent" THEN f.status ELSE list[d]
      /\ \A d \in Phones : list'[d] = "absent" <=> list[d] = "absent"
  BY <1>0, <1>1, <1>6 DEF DevicesTypes, Shown, Statuses
<1>8. DevicesTypes'
  BY <1>0, <1>1, <1>3, <1>5, <1>6, <1>7 DEF DevicesTypes
<1>9. FramesTell(frames', server)
  <2>1. FramesTell(frames, server)
    BY <1>0 DEF ListIsFed
  <2>2. ASSUME NEW i \in 1..(n - 1)
        PROVE  server[frames'[i].dev] # "absent"
    BY <1>5, <2>1 DEF FramesTell, n
  <2>3. ASSUME NEW i \in 1..(n - 1), ~frames'[i].old,
               \A j \in (i + 1)..(n - 1) : frames'[j].dev # frames'[i].dev
        PROVE  server[frames'[i].dev] \in {frames'[i].status, "removed"}
    <3>1. ASSUME NEW j \in ((i + 1) + 1)..n PROVE frames[j].dev # frames[i + 1].dev
      <4>1. j - 1 \in (i + 1)..(n - 1) /\ j - 1 \in 1..(n - 1) /\ (j - 1) + 1 = j
        BY <1>5
      <4> QED
        BY <1>5, <2>3, <4>1
    <3> QED
      BY <1>5, <2>1, <2>3, <3>1 DEF FramesTell, n
  <2> QED
    BY <1>5, <2>2, <2>3 DEF FramesTell
<1>10. ASSUME CaughtUp(list, frames, server), ~f.old PROVE CaughtUp(list', frames', server)
  <2>1. SUFFICES ASSUME NEW d \in Phones, list'[d] # "absent", Untold(frames', d)
                 PROVE  server[d] \in {list'[d], "removed"}
    BY DEF CaughtUp
  <2>2. ASSUME NEW i \in 2..n PROVE frames[i].dev # d
    <3>1. i - 1 \in 1..(n - 1) /\ (i - 1) + 1 = i
      BY <1>5
    <3> QED
      BY <1>5, <2>1, <3>1 DEF Untold
  <2>3. CASE f.dev = d
    <3>1. server[d] \in {f.status, "removed"}
      <4>1. 1 \in 1..n /\ 1 + 1 = 2
        BY <1>5
      <4> QED
        BY <1>0, <1>5, <1>10, <2>2, <2>3, <4>1 DEF ListIsFed, FramesTell, n
    <3> QED
      BY <1>7, <2>1, <2>3, <3>1
  <2>4. CASE f.dev # d
    <3>1. \A i \in 1..n : i = 1 \/ i \in 2..n
      BY <1>5
    <3>2. Untold(frames, d)
      BY <1>5, <2>2, <2>4, <3>1 DEF Untold, n
    <3> QED
      BY <1>7, <1>10, <2>1, <2>4, <3>2 DEF CaughtUp
  <2> QED
    BY <2>3, <2>4
<1>11. Known(list', server) /\ Listed' = known'
  BY <1>0, <1>1, <1>7 DEF ListIsFed, Known, Listed
<1>12. socket' = "down" => frames' = <<>>
  BY <1>0, <1>1 DEF ListIsFed
<1>13. ListIsFed'
  BY <1>0, <1>1, <1>3, <1>4, <1>6, <1>9, <1>10, <1>11, <1>12 DEF ListIsFed, SameRead, IsRead
<1> QED
  BY <1>4, <1>8, <1>13 DEF DevicesInvariant

\* A row changes: its frame is on its way, or the list and what was read are out
\* of date.
LEMMA BeatenKeeps ==
    ASSUME DevicesInvariant, NEW d \in Phones, NEW status \in Statuses,
           Beaten(d, status), UNCHANGED <<logged, list, flags, screen, socket, known, historyStale>>,
           changes' \in 0..MaxChanges
    PROVE  DevicesInvariant'
<1>0. DevicesTypes /\ ListIsFed
  BY DEF DevicesInvariant
<1>1. /\ server[d] \in Statuses
      /\ server' = [server EXCEPT ![d] = status]
      /\ frames' = IF Missed THEN frames
                   ELSE Append(frames, [dev |-> d, status |-> status, old |-> FALSE])
      /\ stale' = (stale \/ Missed)
      /\ asked' = IF Missed THEN Overtaken(asked, ReadList) ELSE asked
  BY DEF Beaten
<1>2. /\ server' \in [Phones -> Standing] /\ server'[d] # "absent"
      /\ server'[d] = status
      /\ \A p \in Phones : p # d => server'[p] = server[p]
  BY <1>0, <1>1 DEF DevicesTypes, Standing, Statuses
<1>3. \A p \in Phones : server[p] # "absent" => server'[p] # "absent"
  BY <1>2
<1>4. asked \in [Asks -> Asked \cup {None}] /\ frames \in Seq(Frame)
  BY <1>0 DEF DevicesTypes
<1>5. CASE Missed
  <2>1. frames = <<>> /\ frames' = <<>> /\ stale' = TRUE /\ asked' = Overtaken(asked, ReadList)
        /\ Len(frames') = 0
    BY <1>0, <1>1, <1>5 DEF Missed, ListIsFed
  <2>2. /\ asked' \in [Asks -> Asked \cup {None}]
        /\ \A c \in Asks : AgedFrom(asked[c], asked'[c]) /\ (IsRead(asked[c]) => asked'[c].old)
    BY <1>4, <2>1, ReadsOvertaken
  <2>3. SendsAreSingle' /\ HistoryIsRead' /\ \A c \in Asks : SameRead(asked[c], asked'[c])
    BY <2>2, ListStep
  <2>4. DevicesTypes'
    BY <1>0, <1>2, <2>1, <2>2 DEF DevicesTypes
  <2>5. ASSUME NEW shown, Known(shown, server) PROVE Known(shown, server')
    BY <1>3, <2>5 DEF Known
  <2>6. FramesTell(frames', server')
    BY <2>1 DEF FramesTell
  <2>7. ListIsFed'
    BY <1>0, <2>1, <2>2, <2>3, <2>5, <2>6 DEF ListIsFed, SameRead, IsRead, Listed
  <2> QED
    BY <2>3, <2>4, <2>7 DEF DevicesInvariant
<1>6. CASE ~Missed
  <2> DEFINE f == [dev |-> d, status |-> status, old |-> FALSE]
             n == Len(frames)
  <2>1. /\ frames' = Append(frames, f) /\ stale' = stale /\ asked' = asked
        /\ socket = "up"
    BY <1>0, <1>1, <1>6 DEF Missed, DevicesTypes
  <2>2. f \in Frame /\ f.dev = d /\ f.status = status
    BY DEF Frame
  <2> HIDE DEF f
  <2>3. /\ n \in Nat /\ frames' \in Seq(Frame) /\ Len(frames') = n + 1 /\ frames'[n + 1] = f
        /\ \A i \in 1..n : frames'[i] = frames[i]
    BY <1>4, <2>1, <2>2
  <2>4. \A i \in 1..n : frames[i] \in Frame
    BY <1>4
  <2>5. \A i \in 1..n : frames[i].dev \in Phones
    BY <2>4 DEF Frame
  <2> HIDE DEF n
  <2>6. 1..(n + 1) = 1..n \cup {n + 1} /\ n + 1 \in 1..(n + 1)
    BY <2>3
  <2>7. \A p \in Phones : Untold(frames', p) => Untold(frames, p) /\ p # d
    BY <2>2, <2>3, <2>6 DEF Untold, n
  <2>8. ASSUME NEW shown, CaughtUp(shown, frames, server) PROVE CaughtUp(shown, frames', server')
    <3>1. SUFFICES ASSUME NEW p \in Phones, shown[p] # "absent", Untold(frames', p)
                   PROVE  server'[p] \in {shown[p], "removed"}
      BY DEF CaughtUp
    <3>2. server[p] \in {shown[p], "removed"}
      BY <2>7, <2>8, <3>1 DEF CaughtUp
    <3>3. server'[p] = server[p]
      BY <1>2, <2>7, <3>1
    <3> QED
      BY <3>2, <3>3
  <2>9. ASSUME NEW shown, Known(shown, server) PROVE Known(shown, server')
    BY <1>3, <2>9 DEF Known
  <2>10. FramesTell(frames', server')
    <3>0. FramesTell(frames, server)
      BY <1>0 DEF ListIsFed
    <3>1. ASSUME NEW i \in 1..(n + 1) PROVE server'[frames'[i].dev] # "absent"
      BY <1>2, <1>3, <2>2, <2>3, <2>5, <2>6, <3>0 DEF FramesTell, n
    <3>2. ASSUME NEW i \in 1..(n + 1), ~frames'[i].old,
                 \A j \in (i + 1)..(n + 1) : frames'[j].dev # frames'[i].dev
          PROVE  server'[frames'[i].dev] \in {frames'[i].status, "removed"}
      <4>1. CASE i = n + 1
        BY <1>2, <2>2, <2>3, <3>2, <4>1
      <4>2. CASE i \in 1..n
        <5>1. n + 1 \in (i + 1)..(n + 1) /\ \A j \in (i + 1)..n : j \in (i + 1)..(n + 1) /\ j \in 1..n
          BY <2>3, <4>2
        <5>2. frames[i].dev # d
          BY <2>2, <2>3, <3>2, <4>2, <5>1
        <5>3. \A j \in (i + 1)..n : frames[j].dev # frames[i].dev
          BY <2>3, <3>2, <4>2, <5>1
        <5>4. server[frames[i].dev] \in {frames[i].status, "removed"}
          BY <2>3, <3>0, <3>2, <4>2, <5>3 DEF FramesTell, n
        <5>5. server'[frames[i].dev] = server[frames[i].dev]
          BY <1>2, <2>5, <4>2, <5>2
        <5> QED
          BY <2>3, <4>2, <5>4, <5>5
      <4> QED
        BY <2>6, <4>1, <4>2
    <3> QED
      BY <2>3, <3>1, <3>2 DEF FramesTell
  <2>11. DevicesTypes'
    BY <1>0, <1>2, <2>1, <2>3 DEF DevicesTypes
  <2>12. SendsAreSingle' /\ HistoryIsRead'
    BY <1>4, <2>1, ListStep DEF AgedFrom
  <2>13. ListIsFed'
    BY <1>0, <2>1, <2>8, <2>9, <2>10 DEF ListIsFed, IsRead, Listed
  <2> QED
    BY <2>11, <2>12, <2>13 DEF DevicesInvariant
<1> QED
  BY <1>5, <1>6

\* A status that changes without a frame: everything that was read of it, and
\* every frame on its way with it, is old.
LEMMA UnannouncedKeeps ==
    ASSUME DevicesInvariant, NEW d \in Phones, NEW status \in Statuses, Unannounced(d, status),
           UNCHANGED <<logged, list, flags, screen, socket, known, historyStale>>,
           changes' \in 0..MaxChanges
    PROVE  DevicesInvariant'
<1>0. DevicesTypes /\ ListIsFed
  BY DEF DevicesInvariant
<1> DEFINE n == Len(frames)
<1>1. /\ server[d] \in Statuses /\ server' = [server EXCEPT ![d] = status]
      /\ frames' = [i \in DOMAIN frames |->
                       [frames[i] EXCEPT !.old = @ \/ frames[i].dev = d]]
      /\ stale' = TRUE /\ asked' = Overtaken(asked, ReadList)
  BY DEF Unannounced
<1>2. asked \in [Asks -> Asked \cup {None}] /\ frames \in Seq(Frame)
  BY <1>0 DEF DevicesTypes
<1>3. /\ server' \in [Phones -> Standing]
      /\ \A p \in Phones : server[p] # "absent" => server'[p] # "absent"
      /\ \A p \in Phones : p # d => server'[p] = server[p]
  BY <1>0, <1>1 DEF DevicesTypes, Standing, Statuses
<1>4. /\ asked' \in [Asks -> Asked \cup {None}]
      /\ \A c \in Asks : AgedFrom(asked[c], asked'[c]) /\ (IsRead(asked[c]) => asked'[c].old)
  BY <1>1, <1>2, ReadsOvertaken
<1>5. SendsAreSingle' /\ HistoryIsRead' /\ \A c \in Asks : SameRead(asked[c], asked'[c])
  BY <1>4, ListStep
<1>6. n \in Nat /\ DOMAIN frames = 1..n /\ \A i \in 1..n : frames[i] \in Frame
  BY <1>2
<1>7. \A i \in 1..n : /\ frames'[i] \in Frame
                      /\ frames'[i].dev = frames[i].dev /\ frames'[i].status = frames[i].status
                      /\ frames'[i].old = (frames[i].old \/ frames[i].dev = d)
  BY <1>1, <1>6 DEF Frame
<1>8. /\ DOMAIN frames' = 1..n /\ frames' \in [1..n -> Frame]
      /\ frames' \in Seq(Frame) /\ Len(frames') = n
  <2>1. frames' \in [1..n -> Frame]
    BY <1>1, <1>6, <1>7
  <2> QED
    BY <1>6, <2>1
<1>9. DevicesTypes'
  BY <1>0, <1>1, <1>3, <1>4, <1>8 DEF DevicesTypes
<1>10. ASSUME NEW shown, Known(shown, server) PROVE Known(shown, server')
  BY <1>3, <1>10 DEF Known
<1>11. FramesTell(frames', server')
  <2>1. FramesTell(frames, server)
    BY <1>0 DEF ListIsFed
  <2>2. \A i \in 1..n : frames[i].dev \in Phones
    BY <1>6 DEF Frame
  <2>3. ASSUME NEW i \in 1..n PROVE server'[frames'[i].dev] # "absent"
    BY <1>3, <1>7, <2>1, <2>2 DEF FramesTell
  <2>4. ASSUME NEW i \in 1..n, ~frames'[i].old,
               \A j \in (i + 1)..n : frames'[j].dev # frames'[i].dev
        PROVE  server'[frames'[i].dev] \in {frames'[i].status, "removed"}
    <3>1. \A j \in (i + 1)..n : j \in 1..n
      BY <1>6
    <3>2. ~frames[i].old /\ frames[i].dev # d /\ \A j \in (i + 1)..n : frames[j].dev # frames[i].dev
      BY <1>7, <2>4, <3>1
    <3>3. server[frames[i].dev] \in {frames[i].status, "removed"}
      BY <2>1, <3>2 DEF FramesTell
    <3> QED
      BY <1>3, <1>7, <2>2, <3>2, <3>3
  <2> QED
    BY <1>8, <2>3, <2>4 DEF FramesTell
<1>12. socket' = "down" => frames' = <<>>
  <2>1. ASSUME frames = <<>> PROVE frames' = <<>>
    BY <1>6, <1>8, <2>1
  <2> QED
    BY <1>0, <2>1 DEF ListIsFed
<1>13. ListIsFed'
  BY <1>0, <1>1, <1>4, <1>5, <1>10, <1>11, <1>12 DEF ListIsFed, SameRead, IsRead, Listed
<1> QED
  BY <1>5, <1>9, <1>13 DEF DevicesInvariant

LEMMA RowChangeKeeps ==
    ASSUME DevicesInvariant, NEW d \in Phones, RowChange(d)
    PROVE  DevicesInvariant'
<1>0. DevicesTypes
  BY DEF DevicesInvariant
<1>1. /\ UNCHANGED <<logged, list, flags, screen, socket, known, historyStale>>
      /\ changes' \in 0..MaxChanges
  BY <1>0, DevicesBounds DEF RowChange, Change, DevicesTypes
<1>2. CASE \/ \E status \in {"ONLINE", "UNKNOWN"} : Beaten(d, status)
           \/ \E status \in {"ONLINE", "OFFLINE"} : Unannounced(d, status)
  BY <1>1, <1>2, BeatenKeeps, UnannouncedKeeps DEF Statuses
<1>3. CASE /\ server[d] # "removed"
           /\ server' = [server EXCEPT ![d] = IF @ = "absent" THEN "ONLINE" ELSE "removed"]
           /\ UNCHANGED <<frames, stale, asked>>
  <2>1. /\ server' \in [Phones -> Standing]
        /\ \A p \in Phones : server'[p] = server[p] \/ server[p] = "absent" \/ server'[p] = "removed"
        /\ \A p \in Phones : server'[p] = "absent" => server[p] = "absent"
    BY <1>0, <1>3 DEF DevicesTypes, Standing, Statuses
  <2>2. DevicesTypes'
    BY <1>0, <1>1, <1>3, <2>1 DEF DevicesTypes
  <2>3. \A c \in Asks : SameSend(asked[c], asked'[c]) /\ SameLog(asked[c], asked'[c])
                        /\ SameRead(asked[c], asked'[c])
    BY <1>3, Unasked
  <2> QED
    BY <1>1, <1>3, <2>1, <2>2, <2>3, RowsRemoved, SendsUndisturbed, HistoryUndisturbed
    DEF DevicesInvariant
<1> QED
  BY <1>2, <1>3 DEF RowChange

LEMMA SocketKeeps ==
    ASSUME DevicesInvariant, OpenSocket \/ DropSocket
    PROVE  DevicesInvariant'
<1>0. DevicesTypes /\ ListIsFed
  BY DEF DevicesInvariant
<1>1. /\ UNCHANGED <<server, logged, list, flags, screen, known, historyStale>>
      /\ asked \in [Asks -> Asked \cup {None}]
  BY <1>0 DEF OpenSocket, DropSocket, DevicesTypes
<1>2. CASE OpenSocket
  <2>1. socket' = "up" /\ UNCHANGED <<asked, frames, stale, changes>>
    BY <1>2 DEF OpenSocket
  <2>2. DevicesTypes'
    BY <1>0, <1>1, <2>1 DEF DevicesTypes
  <2>3. ListIsFed'
    BY <1>0, <1>1, <2>1 DEF ListIsFed, Listed, IsRead
  <2> QED
    BY <1>1, <2>1, <2>2, <2>3, ListStep DEF AgedFrom, DevicesInvariant
<1>3. CASE DropSocket
  <2>1. /\ socket' = "down" /\ frames' = <<>> /\ stale' = (stale \/ frames # <<>>)
        /\ asked' = IF frames # <<>> THEN Overtaken(asked, ReadList) ELSE asked
        /\ changes < MaxChanges /\ changes' = changes + 1
    BY <1>3 DEF DropSocket, Change
  <2>2. frames' \in Seq(Frame) /\ Len(frames') = 0 /\ changes' \in 0..MaxChanges
    BY <1>0, <2>1, DevicesBounds DEF DevicesTypes
  <2>3. /\ asked' \in [Asks -> Asked \cup {None}]
        /\ \A c \in Asks : AgedFrom(asked[c], asked'[c])
        /\ frames # <<>> => \A c \in Asks : IsRead(asked[c]) => asked'[c].old
    BY <1>1, <2>1, ReadsOvertaken DEF AgedFrom
  <2>4. SendsAreSingle' /\ HistoryIsRead' /\ \A c \in Asks : SameRead(asked[c], asked'[c])
    BY <1>1, <2>3, ListStep
  <2>5. DevicesTypes'
    BY <1>0, <1>1, <2>1, <2>2, <2>3 DEF DevicesTypes
  <2>6. FramesTell(frames', server)
    BY <2>2 DEF FramesTell
  <2>7. ListIsFed'
    BY <1>0, <1>1, <2>1, <2>3, <2>4, <2>6 DEF ListIsFed, SameRead, IsRead, Listed
  <2> QED
    BY <2>4, <2>5, <2>7 DEF DevicesInvariant
<1> QED
  BY <1>2, <1>3

LEMMA DevicesStep ==
    ASSUME DevicesInvariant, [DevicesNext]_devicesVars
    PROVE  DevicesInvariant'
<1>1. CASE UNCHANGED devicesVars
  <2>1. DevicesTypes'
    BY <1>1 DEF devicesVars, DevicesInvariant, DevicesTypes
  <2>2. SendsAreSingle' /\ HistoryIsRead' /\ ListIsFed'
    BY <1>1, Unasked, SendsUndisturbed, HistoryUndisturbed, ListUndisturbed DEF devicesVars
  <2> QED
    BY <2>1, <2>2 DEF DevicesInvariant
<1>2. ASSUME NEW c \in Asks,
             \/ Answer(c) \/ LoseAsk(c) \/ SignInToList(c) \/ ErrorsChange(c) \/ RefreshList(c)
             \/ LandList(c) \/ LandRemoval(c) \/ ConfirmTarget(c) \/ LandDashboardSend(c)
             \/ ConfirmRemove(c) \/ ConfirmAlert(c) \/ LandDetailSend(c) \/ LandHistory(c)
      PROVE  DevicesInvariant'
  BY <1>2, AnswerKeeps, BeginsKeep, LandListKeeps, LandRemovalKeeps, ConfirmKeeps, LandSendKeeps,
     LandHistoryKeeps
<1>3. ASSUME NEW c \in Asks, NEW d \in Phones, OpenDetail(c, d) \/ RemoveGuest(c, d)
      PROVE  DevicesInvariant'
  BY <1>3, OpenDetailKeeps, BeginsKeep
<1>4. CASE \/ SignOutOfList \/ LandFrame \/ Dismiss \/ GoBack
           \/ OpenAlertDialog \/ OpenRemoveDialog \/ OpenSocket \/ DropSocket
           \/ \E d \in Phones : OpenTarget(d) \/ RowChange(d)
  BY <1>4, LeavingKeeps, LandFrameKeeps, DialogsKeep, SocketKeeps, RowChangeKeeps
<1> QED
  BY <1>1, <1>2, <1>3, <1>4 DEF DevicesNext

\* The inductive invariant of the device list holds in every behaviour of it.
THEOREM DevicesInvariantHolds == DevicesSpec => []DevicesInvariant
  BY DevicesStart, DevicesStep, PTL DEF DevicesSpec

\* The list, the screens and the requests of DeviceContext and its screens keep
\* to their types, and the server's log to its bound.
THEOREM DevicesTypesCorrect == DevicesSpec => []DevicesTypeOK
<1>1. DevicesInvariant => DevicesTypeOK
  BY DEF DevicesInvariant, DevicesTypes, DevicesTypeOK
<1> QED
  BY <1>1, DevicesInvariantHolds, PTL

\* Any number of devices, requests and frames, in any order: but for what
\* `stale` records, DeviceContext shows the last answer's devices less those it
\* removed, each with its row's status once every frame has arrived.
THEOREM TheListCatchesUp == DevicesSpec => []ListCatchesUp
<1>1. DevicesInvariant => ListCatchesUp
  <2> SUFFICES ASSUME DevicesInvariant, ~stale
               PROVE  /\ Listed = known
                      /\ frames = <<>> => \A d \in Listed : server[d] \in {list[d], "removed"}
    BY DEF ListCatchesUp
  <2>1. ListIsFed
    BY DEF DevicesInvariant
  <2>2. ASSUME frames = <<>>, NEW d \in Listed PROVE server[d] \in {list[d], "removed"}
    BY <2>1, <2>2 DEF ListIsFed, CaughtUp, Untold, Listed
  <2> QED
    BY <2>1, <2>2 DEF ListIsFed
<1> QED
  BY <1>1, DevicesInvariantHolds, PTL

-----------------------------------------------------------------------------
(* The dialog of a send.                                                   *)

\* Who leaves the dialog of a running send, as OneSendItsDialog says.
Leaves(c) ==
    \/ Arrived(c, "send") /\ c \notin Sends'
    \/ ~flags'.signedIn
    \/ asked[c].from = "detail" /\ list'[asked[c].dev] = "absent"
    \/ asked[c].from = "detail" /\ \E r \in Asks :
         Arrived(r, "remove") /\ asked[r].from = "detail" /\ asked'[r] = None

\* While a send and the screen it was confirmed on last, its dialog is hidden
\* only by the screen's saying that the device is gone.
LEMMA DialogLasts ==
    ASSUME DevicesInvariant', NEW c \in Asks, InDialog(c), SameCaller(asked[c], asked'[c])
    PROVE  InDialog(c)' \/ Leaves(c)
<1>1. SendsAreSingle'
  BY DEF DevicesInvariant
<1>2. c \in Sends' /\ IsSend(asked'[c])
  BY DEF InDialog, Sends, Waiting, SameCaller, IsSend
<1>3. InItsDialog(asked[c])'
  BY <1>1, <1>2 DEF SendsAreSingle, IsSend
<1>4. CASE asked[c].from = "dashboard"
  BY <1>2, <1>3, <1>4 DEF InDialog, InItsDialog, SameCaller
<1>5. CASE asked[c].from # "dashboard"
  <2>1. /\ asked[c].from = "detail" /\ ~asked[c].gone
        /\ ByDetail(asked'[c]) /\ FromDetail(c)'
    BY <1>5 DEF InDialog, FromDetail, ByDetail, SameCaller
  <2>2. screen'.route = asked[c].dev /\ asked'[c].dev = asked[c].dev /\ screen'.alertOpen
    BY <1>3, <2>1 DEF InItsDialog, ByDetail, SameCaller
  <2>3. CASE list'[asked[c].dev] = "absent"
    BY <2>1, <2>3 DEF Leaves
  <2>4. CASE list'[asked[c].dev] # "absent"
    <3>1. ~Missing'
      BY <2>2, <2>4 DEF Missing
    <3> QED
      BY <1>2, <2>1, <2>2, <3>1 DEF InDialog
  <2> QED
    BY <2>3, <2>4
<1> QED
  BY <1>4, <1>5

\* Most steps leave every send with the caller it has.
LEMMA CallersLast ==
    ASSUME DevicesInvariant, [DevicesNext]_devicesVars, NEW c \in Asks, IsSend(asked[c])
    PROVE  \/ SameCaller(asked[c], asked'[c])
           \/ LandDashboardSend(c) \/ LandDetailSend(c)
           \/ SignOutOfList \/ GoBack
           \/ \E r \in Asks : LandRemoval(r) /\ asked[r].from = "detail" /\ screen.route # None
<1>0. asked \in [Asks -> Asked \cup {None}] /\ asked[c] # None /\ asked[c].kind = "send"
  BY DEF DevicesInvariant, DevicesTypes, IsSend
<1>1. asked'[c] = asked[c] => SameCaller(asked[c], asked'[c])
  BY <1>0 DEF SameCaller
<1>2. SameCaller(asked[c], Overtaken(asked, ReadList)[c])
  BY <1>0, ReadsOvertaken, AgedIsSame DEF SameCaller
<1>3. ASSUME NEW x \in Asks,
             \/ SignInToList(x) \/ ErrorsChange(x) \/ RefreshList(x) \/ ConfirmTarget(x)
             \/ ConfirmRemove(x) \/ ConfirmAlert(x)
             \/ \E d \in Phones : OpenDetail(x, d) \/ RemoveGuest(x, d)
      PROVE  asked'[c] = asked[c]
  <2>1. PICK new : AskFor(x, new)
    BY <1>3 DEF SignInToList, ErrorsChange, LoadFirstPage, RefreshList, ConfirmTarget, Send,
                ConfirmRemove, ConfirmAlert, OpenDetail, RemoveGuest
  <2> QED
    BY <1>0, <2>1 DEF AskFor
<1>4. ASSUME NEW x \in Asks, LandList(x) \/ LandHistory(x) PROVE asked'[c] = asked[c]
  <2>1. x # c /\ asked' = [asked EXCEPT ![x] = None]
    BY <1>0, <1>4 DEF LandList, LandHistory, ListCall, IsListCall, Arrived, Waiting
  <2> QED
    BY <1>0, <2>1
<1>5. ASSUME NEW x \in Asks, x # c, LandDashboardSend(x) \/ LandDetailSend(x)
      PROVE  asked'[c] = asked[c]
  BY <1>0, <1>5 DEF LandDashboardSend, LandDetailSend
<1>6. ASSUME NEW r \in Asks, LandRemoval(r), ~(asked[r].from = "detail" /\ screen.route # None)
      PROVE  SameCaller(asked[c], asked'[c])
  <2>1. /\ r # c
        /\ \/ asked' = [Overtaken(asked, ReadList) EXCEPT ![r] = None]
           \/ asked' = [asked EXCEPT ![r] = None]
    BY <1>0, <1>6 DEF LandRemoval, Arrived, Waiting
  <2>2. asked'[c] \in {asked[c], Overtaken(asked, ReadList)[c]}
    BY <1>0, <2>1, ReadsOvertaken
  <2> QED
    BY <1>1, <1>2, <2>2
<1>7. CASE LandFrame \/ DropSocket \/ \E d \in Phones : RowChange(d)
  BY <1>1, <1>2, <1>7 DEF LandFrame, DropSocket, RowChange, Beaten, Unannounced
<1>8. CASE \/ Dismiss \/ OpenAlertDialog \/ OpenRemoveDialog \/ OpenSocket
           \/ \E d \in Phones : OpenTarget(d)
  BY <1>1, <1>8 DEF Dismiss, OpenAlertDialog, OpenRemoveDialog, OpenSocket, OpenTarget
<1>9. ASSUME NEW x \in Asks, Answer(x) \/ LoseAsk(x) PROVE SameCaller(asked[c], asked'[c])
  BY <1>9, AnswerKeeps DEF SendsLast
<1>10. CASE UNCHANGED devicesVars
  BY <1>1, <1>10 DEF devicesVars
<1>11. CASE DevicesNext
  BY <1>1, <1>3, <1>4, <1>5, <1>6, <1>7, <1>8, <1>9, <1>11 DEF DevicesNext
<1> QED
  BY <1>10, <1>11

LEMMA DialogsGo ==
    ASSUME DevicesInvariant, DevicesInvariant', [DevicesNext]_devicesVars,
           NEW c \in Asks, InDialog(c)
    PROVE  InDialog(c)' \/ Leaves(c)
<1>0. DevicesTypes /\ SendsAreSingle /\ IsSend(asked[c]) /\ InItsDialog(asked[c])
  BY DEF DevicesInvariant, SendsAreSingle, InDialog, Sends, Waiting, IsSend
<1>1. CASE SameCaller(asked[c], asked'[c])
  BY <1>1, DialogLasts
<1>2. CASE LandDashboardSend(c) \/ LandDetailSend(c)
  <2>1. Arrived(c, "send")
    BY <1>2 DEF LandDashboardSend, LandDetailSend
  <2>2. asked'[c] = None \/ asked'[c] = NewAsk("log", asked[c].dev, "detail")
    BY <1>0, <1>2 DEF LandDashboardSend, LandDetailSend, DevicesTypes
  <2>3. c \notin Sends'
    BY <2>2 DEF Sends, Waiting, NewAsk
  <2> QED
    BY <2>1, <2>3 DEF Leaves
<1>3. CASE SignOutOfList
  <2>1. ~flags'.signedIn
    BY <1>0, <1>3 DEF SignOutOfList, DevicesTypes
  <2> QED
    BY <2>1 DEF Leaves
<1>4. asked[c].from = "dashboard" => screen.route = None
  <2>1. asked[c].dev \in Phones
    BY <1>0 DEF DevicesTypes, IsSend, Asked, IsListCall
  <2> QED
    BY <1>0, <2>1, DevicesNames DEF SendsAreSingle, InItsDialog
<1>5. ~GoBack
  <2>1. GoBack => screen.route # None /\ (Missing \/ ~screen.alertOpen)
    BY DEF GoBack, OnDetail, Missing
  <2> QED
    BY <1>4, <2>1 DEF InDialog
<1>6. CASE \E r \in Asks : LandRemoval(r) /\ asked[r].from = "detail" /\ screen.route # None
  <2>1. PICK r \in Asks : LandRemoval(r) /\ asked[r].from = "detail" /\ screen.route # None
    BY <1>6
  <2>2. asked[c].from = "detail"
    BY <1>4, <2>1 DEF InDialog, FromDetail
  <2>3. Arrived(r, "remove")
    BY <2>1 DEF LandRemoval
  <2>4. asked'[r] = None
    <3> DEFINE before == IF asked[r].result = "ok" THEN Overtaken(asked, ReadList) ELSE asked
               calls == [before EXCEPT ![r] = None]
    <3>1. asked' = Left(calls)
      BY <2>1 DEF LandRemoval
    <3>2. before \in [Asks -> Asked \cup {None}]
      BY <1>0, ReadsOvertaken DEF DevicesTypes
    <3> HIDE DEF before
    <3>3. calls[r] = None
      BY <3>2
    <3> HIDE DEF calls
    <3> QED
      BY <3>1, <3>3 DEF Left
  <2> QED
    BY <2>1, <2>2, <2>3, <2>4 DEF Leaves
<1> QED
  BY <1>0, <1>1, <1>2, <1>3, <1>5, <1>6, CallersLast

\* isSending and the dialogs, for any number of devices and requests: at most one
\* alert is ever being sent, exactly while isSending says so; and the dialog it
\* was confirmed in leaves the phone only with the send's own answer, with the
\* session, with its device's place in the list, or with the answer to a removal.
THEOREM SendsHoldTheirDialog == DevicesSpec => OneSendItsDialog
<1>1. DevicesInvariant => Cardinality(Sends) = IF flags.sending THEN 1 ELSE 0
  <2> SUFFICES ASSUME DevicesInvariant PROVE Cardinality(Sends) = IF flags.sending THEN 1 ELSE 0
    OBVIOUS
  <2>1. SendsAreSingle
    BY DEF DevicesInvariant
  <2>2. \A c \in Asks : c \in Sends <=> IsSend(asked[c])
    BY DEF Sends, Waiting, IsSend
  <2>3. CASE flags.sending
    <3>1. PICK c \in Asks : IsSend(asked[c])
      BY <2>1, <2>3 DEF SendsAreSingle
    <3>2. Sends = {c}
      BY <2>1, <2>2, <3>1 DEF SendsAreSingle, Sends
    <3> QED
      BY <2>3, <3>2, FS_Singleton
  <2>4. CASE ~flags.sending
    <3>1. Sends = {}
      BY <2>1, <2>2, <2>4 DEF SendsAreSingle, Sends
    <3> QED
      BY <2>4, <3>1, FS_EmptySet
  <2> QED
    BY <2>3, <2>4
<1> DEFINE Goes == \A c \in Asks : InDialog(c) /\ ~InDialog(c)' => Leaves(c)
<1>2. DevicesInvariant /\ DevicesInvariant' /\ [DevicesNext]_devicesVars => [Goes]_devicesVars
  BY DialogsGo DEF InDialog
<1>3. DevicesSpec => [](Cardinality(Sends) = IF flags.sending THEN 1 ELSE 0)
  BY <1>1, DevicesInvariantHolds, PTL
<1>4. DevicesSpec => [][Goes]_devicesVars
  BY <1>2, DevicesInvariantHolds, PTL DEF DevicesSpec
<1>5. [][Goes]_devicesVars <=>
        [][\A c \in Asks : InDialog(c) /\ ~InDialog(c)' =>
             \/ Arrived(c, "send") /\ c \notin Sends'
             \/ ~flags'.signedIn
             \/ asked[c].from = "detail" /\ list'[asked[c].dev] = "absent"
             \/ asked[c].from = "detail" /\ \E r \in Asks :
                  Arrived(r, "remove") /\ asked[r].from = "detail" /\ asked'[r] = None]_devicesVars
  BY DEF Leaves
<1> QED
  BY <1>3, <1>4, <1>5 DEF OneSendItsDialog

\* However sends and reads of the history end and overtake each other: with none
\* under way, the device screen shows every alert in the log, but for what
\* `historyStale` records.
THEOREM TheHistoryShowsSends == DevicesSpec => []HistoryShowsSends
<1>1. DevicesInvariant => HistoryShowsSends
  BY DEF DevicesInvariant, HistoryIsRead, HistoryShowsSends, IsLog, IsSend
<1> QED
  BY <1>1, DevicesInvariantHolds, PTL

-----------------------------------------------------------------------------
(* Messages.  The context's timer and the age of the errors it is for add  *)
(* up to the time they are given, and a toast's do.                        *)

MessagesInvariant ==
    /\ MessagesTypeOK
    /\ age \in [errors : Nat, toast : Nat]
    /\ IF errors = 0 THEN age.errors = 0 /\ context = Off
       ELSE context \in 0..AutoClose /\ age.errors + context = AutoClose
    /\ IF toast = 0 THEN toastTimer = Off
       ELSE toastTimer \in 0..ToastTime /\ age.toast + toastTimer = ToastTime

LEMMA MessagesStart == MessagesInit => MessagesInvariant
  BY MessagesBounds DEF MessagesInit, MessagesInvariant, MessagesTypeOK, Timers, Off, Away

LEMMA MessagesStep ==
    ASSUME MessagesInvariant, [MessagesNext]_messagesVars
    PROVE  MessagesInvariant'
<1> USE MessagesBounds DEF MessagesInvariant, MessagesTypeOK, Timers, Off, Away
<1>1. CASE ShowErrors
  BY <1>1 DEF ShowErrors
<1>2. ASSUME NoErrors PROVE MessagesInvariant'
  BY <1>2 DEF NoErrors
<1>3. ASSUME NEW b \in Banners, MountBanner(b) \/ UnmountBanner(b) PROVE MessagesInvariant'
  BY <1>3 DEF MountBanner, UnmountBanner
<1>4. CASE ShowToast
  BY <1>4 DEF ShowToast
<1>5. CASE ToastExpires
  BY <1>5 DEF ToastExpires
<1>6. CASE Pass
  <2>1. /\ context # 0 /\ toastTimer # 0 /\ \A b \in Banners : banner[b] # 0
        /\ context' = Less(context) /\ toastTimer' = Less(toastTimer)
        /\ banner' = [b \in Banners |-> Less(banner[b])]
        /\ age' = [errors |-> IF errors = 0 THEN 0 ELSE age.errors + 1,
                   toast |-> IF toast = 0 THEN 0 ELSE age.toast + 1]
        /\ UNCHANGED <<errors, toast, news>>
    BY <1>6 DEF Pass
  <2>2. ASSUME NEW timer \in Timers \cup {Off, Away}, timer # 0
        PROVE  /\ Less(timer) \in Timers \cup {Off, Away}
               /\ timer \in Timers => Less(timer) = timer - 1 /\ timer - 1 \in Nat
               /\ timer \notin Timers => Less(timer) = timer
    BY <2>2 DEF Less
  <2>3. banner' \in [Banners -> Timers \cup {Off, Away}]
    BY <2>1, <2>2
  <2>4. /\ {context', toastTimer'} \subseteq Timers \cup {Off}
        /\ IF errors = 0 THEN context' = Off ELSE context' = context - 1
        /\ IF toast = 0 THEN toastTimer' = Off ELSE toastTimer' = toastTimer - 1
    BY <2>1 DEF Less
  <2> QED
    BY <2>1, <2>3, <2>4
<1>7. CASE UNCHANGED messagesVars
  BY <1>7 DEF messagesVars
<1> QED
  BY <1>1, <1>2, <1>3, <1>4, <1>5, <1>6, <1>7
  DEF MessagesNext, DismissErrors, ErrorsExpire

\* ErrorContext's and the toast's timers, with the ages that go with them.
THEOREM MessagesInvariantHolds == MessagesSpec => []MessagesInvariant
  BY MessagesStart, MessagesStep, PTL DEF MessagesSpec

\* Whatever the times are: no error outstays its own, however screens with
\* banners come and go (ErrorContext's effect starts again with every array of
\* errors), and a toast is taken away when its own has passed, no sooner.
THEOREM MessagesTakeTheirTime == MessagesSpec => []MessagesKeepTime
<1>1. MessagesInvariant => MessagesKeepTime
  BY MessagesBounds DEF MessagesInvariant, MessagesTypeOK, MessagesKeepTime, Off, Timers
<1> QED
  BY <1>1, MessagesInvariantHolds, PTL

-----------------------------------------------------------------------------
(* Alerts.  A player that had the phone to itself is alone at it, and in   *)
(* hand, until its end; and whoever is asked for the permission has        *)
(* launched the app, which declares its channels.                          *)

Live(p) == player[p] \in {"loading", "playing"}

AlertsInvariant ==
    /\ AlertsTypeOK
    /\ AlertsRingOut
    /\ \A p \in apart :
         /\ player[p] # "unused"
         /\ Live(p) => alertSound = p /\ \A q \in Players : Live(q) => q = p
    /\ oreo /\ (app # "dead" \/ permission) => channels = Channels

LEMMA AlertsStart == AlertsInit => AlertsInvariant
  BY DEF AlertsInit, AlertsInvariant, AlertsTypeOK, AlertsRingOut, Fates, Answers, Channels

LEMMA AlertsStep ==
    ASSUME AlertsInvariant, [AlertsNext]_alertsVars
    PROVE  AlertsInvariant'
<1> USE AlertBounds
        DEF AlertsInvariant, AlertsTypeOK, AlertsRingOut, Live, Fates, Answers, phoneVars,
            playVars
<1>1. CASE Launch \/ Leave \/ Return
  <2>1. /\ app' \in {"front", "back"} /\ channels' \subseteq Channels
        /\ oreo => channels' = Channels
        /\ UNCHANGED <<oreo, answered, permission, listening, playVars, unheard, received>>
    BY <1>1 DEF Launch, Leave, Return
  <2> QED
    BY <2>1
<1>2. CASE Kill
  BY <1>2 DEF Kill
<1>3. ASSUME NEW granted \in BOOLEAN, Unsubscribe(granted)
      PROVE  /\ alertSound' = Silent /\ player' \in [Players -> Fates] /\ apart' = {}
             /\ listening' = granted /\ buzzing' = FALSE
  BY <1>3 DEF Unsubscribe, Released
<1>4. CASE StartListening \/ SessionEnds
  <2>1. Unsubscribe(TRUE) \/ Unsubscribe(FALSE)
    BY <1>4 DEF StartListening, SessionEnds
  <2>2. /\ alertSound' = Silent /\ player' \in [Players -> Fates] /\ apart' = {}
        /\ listening' \in BOOLEAN /\ buzzing' = FALSE
    BY <1>3, <2>1
  <2>3. /\ UNCHANGED <<oreo, channels, app, unheard, received>>
        /\ answered' \in Answers /\ permission' \in BOOLEAN
        /\ oreo /\ (app # "dead" \/ permission') => channels = Channels
    BY <1>4 DEF StartListening, SessionEnds
  <2> QED
    BY <2>2, <2>3
<1>5. CASE NoToken
  BY <1>5 DEF NoToken
<1>13. CASE NobodyListens
  BY <1>13 DEF NobodyListens
<1>6. CASE BuzzEnds
  BY <1>6 DEF BuzzEnds
<1>7. ASSUME NEW override \in BOOLEAN, NEW silenced \in BOOLEAN, Notify(override, silenced)
      PROVE  AlertsInvariant'
  BY <1>7 DEF Notify, Channels
<1>8. ASSUME NEW sound \in BOOLEAN, NEW vibration \in BOOLEAN, Ring(sound, vibration)
      PROVE  AlertsInvariant'
  BY <1>8 DEF Ring
<1>9. ASSUME NEW p \in Players, Loaded(p) PROVE AlertsInvariant'
  BY <1>9 DEF Loaded
<1>10. ASSUME NEW p \in Players, LoadFails(p) PROVE AlertsInvariant'
  BY <1>10 DEF LoadFails
<1>11. ASSUME NEW p \in Players, Ends(p) PROVE AlertsInvariant'
  BY <1>11 DEF Ends, Released
<1>12. CASE UNCHANGED alertsVars
  BY <1>12 DEF alertsVars
<1> QED
  BY <1>1, <1>2, <1>4, <1>5, <1>6, <1>7, <1>8, <1>9, <1>10, <1>11, <1>12, <1>13 DEF AlertsNext

\* useAlertReceiver's players, with the one that is alone, and the channels.
THEOREM AlertsInvariantHolds == AlertsSpec => []AlertsInvariant
  BY AlertsStart, AlertsStep, PTL DEF AlertsSpec

\* Any number of alerts, players and lives of the app: the player in hand was
\* never released, only a phone that listens rings, an alert that overlaps no
\* other rings to its end if the session lasts, and Android never stays silent on
\* one for want of a channel.
THEOREM AlertsRing == AlertsSpec => []AlertsRingOut
<1>1. AlertsInvariant => AlertsRingOut
  BY DEF AlertsInvariant
<1> QED
  BY <1>1, AlertsInvariantHolds, PTL

-----------------------------------------------------------------------------
(* The app.  Its parts share no state: a behaviour of the app is a         *)
(* behaviour of each of them, and what was proved of a part holds in it.   *)

LEMMA AppIsItsParts ==
    AppSpec => DevicesSpec /\ ScanSpec /\ PreferencesSpec /\ FormsSpec /\ MessagesSpec
               /\ AlertsSpec
<1>1. AppInit => DevicesInit /\ ScanInit /\ PreferencesInit /\ FormsInit /\ MessagesInit
                 /\ AlertsInit
  BY DEF AppInit
<1>2. [AppNext]_appVars => [ScanNext]_scanVars
  BY DEF AppNext, appVars
<1>3. [AppNext]_appVars => [PreferencesNext]_preferenceVars
  BY DEF AppNext, appVars
<1>4. [AppNext]_appVars => [FormsNext]_formsVars
  BY DEF AppNext, appVars
<1>5. [AppNext]_appVars => [MessagesNext]_messagesVars
  BY DEF AppNext, appVars
<1>6. [AppNext]_appVars => [AlertsNext]_alertsVars
  BY DEF AppNext, appVars
<1>7. [AppNext]_appVars => [DevicesNext]_devicesVars
  BY DEF AppNext, appVars
<1> QED
  BY <1>1, <1>2, <1>3, <1>4, <1>5, <1>6, <1>7, PTL
  DEF AppSpec, DevicesSpec, ScanSpec, PreferencesSpec, FormsSpec, MessagesSpec, AlertsSpec

\* Every screen, context and hook of the app keeps to its types, for any number
\* of devices, hosts, preferences, accounts, requests, banners and players.
THEOREM AppTypesCorrect == AppSpec => []AppTypeOK
<1>1. MessagesInvariant => MessagesTypeOK
  BY DEF MessagesInvariant
<1>2. AlertsInvariant => AlertsTypeOK
  BY DEF AlertsInvariant
<1>3. DevicesTypeOK /\ ScanTypeOK /\ PreferencesTypeOK /\ FormsTypeOK /\ MessagesTypeOK
      /\ AlertsTypeOK => AppTypeOK
  BY DEF AppTypeOK
<1> QED
  BY <1>1, <1>2, <1>3, AppIsItsParts, DevicesTypesCorrect, ScanTypesCorrect,
     PreferencesTypesCorrect, FormsTypesCorrect, MessagesInvariantHolds, AlertsInvariantHolds, PTL
=============================================================================
