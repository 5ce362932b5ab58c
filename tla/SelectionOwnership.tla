-------------------------- MODULE SelectionOwnership --------------------------
(***************************************************************************)
(* Who owns a selection, and who believes it: QXcbClipboard::setMimeData(), *)
(* handleSelectionClearRequest(), handleXFixesSelectionRequest(), the       *)
(* formats cached by QXcbClipboardMime, and the destructor, against the X   *)
(* server and other clients that take selections, give them up or go.      *)
(* Every request names a time; the application knows the time of the last   *)
(* event it handled, the server that of the last change of owner.           *)
(***************************************************************************)
EXTENDS Integers, Sequences, SequencesExt

CONSTANTS Mode,        \* QClipboard::Clipboard and QClipboard::Selection
          MimeData,    \* the QMimeData objects of the application
          MaxTime,     \* bound: the last time of the server's clock
          MaxForeign,  \* bound: changes of owner by other clients
          MaxCalls     \* bound: calls of setMimeData() and formats()

CurrentTime == 0  \* XCB_CURRENT_TIME
NoData      == "nullptr"
NoFormats   == 0

ASSUME BoundsAssumption == MaxTime \in Nat \ {0} /\ MaxForeign \in Nat /\ MaxCalls \in Nat
ASSUME ModeAssumption == \E a, b \in Mode : a # b /\ Mode = {a, b}
ASSUME DataAssumption == NoData \notin MimeData

VARIABLES
  (* the server *)
  selectionOwner,    \* of each mode: us, other or none
  lastChange,        \* the time of the last change of owner
  epoch,             \* how many changes there were
  now,
  (* the application *)
  events,            \* events not handled yet
  time,              \* connection()->time()
  m_clientClipboard, \* the object held for each mode, or NoData
  m_timestamp,       \* the time of our ownership, or CurrentTime
  formatList,        \* the epoch whose formats are cached, or NoFormats
  doing,             \* the call the main thread is in, and its mode
  (* auxiliary *)
  handed,            \* objects given to setMimeData()
  deletions,         \* how often each was deleted
  foreign, calls

server == <<selectionOwner, lastChange, epoch, now>>
data   == <<m_clientClipboard, handed, deletions>>
counts == <<foreign, calls>>
vars   == <<server, events, time, data, m_timestamp, formatList, doing, counts>>

Idle == [call |-> "none", mode |-> CHOOSE m \in Mode : TRUE]

Init ==
  /\ selectionOwner = [m \in Mode |-> "none"] /\ lastChange = [m \in Mode |-> 0]
  /\ epoch = [m \in Mode |-> 0] /\ now = 1 /\ events = <<>> /\ time = CurrentTime
  /\ m_clientClipboard = [m \in Mode |-> NoData] /\ m_timestamp = [m \in Mode |-> CurrentTime]
  /\ formatList = [m \in Mode |-> NoFormats] /\ doing = Idle
  /\ handed = {} /\ deletions = [d \in MimeData |-> 0] /\ foreign = 0 /\ calls = 0

-----------------------------------------------------------------------------
(* The server.                                                              *)

SelectionClear(m, t) == [type |-> "clear", mode |-> m, owner |-> "other", time |-> t, seen |-> t]
XFixes(m, o, t)      == [type |-> "xfixes", mode |-> m, owner |-> o, time |-> now, seen |-> t]

\* SetSelectionOwner at time t: ignored if an owner has changed since
Granted(m, t) == lastChange[m] <= t /\ t <= now

SetOwner(m, o, t) ==
  /\ selectionOwner' = [selectionOwner EXCEPT ![m] = o]
  /\ lastChange' = [lastChange EXCEPT ![m] = t]
  /\ epoch' = [epoch EXCEPT ![m] = @ + 1]
  /\ LET lost == selectionOwner[m] = "us" /\ o # "us"
     IN events' = events \o (IF lost THEN <<SelectionClear(m, t)>> ELSE <<>>) \o <<XFixes(m, o, t)>>
  /\ UNCHANGED now

ForeignStep ==
  /\ foreign < MaxForeign /\ foreign' = foreign + 1
  /\ UNCHANGED <<time, data, m_timestamp, formatList, doing, calls>>

OtherTakes(m) ==
  /\ ForeignStep
  /\ \E t \in 1 .. now : Granted(m, t) /\ SetOwner(m, "other", t)

OtherGivesUp(m) ==
  /\ ForeignStep /\ selectionOwner[m] = "other"
  /\ \E t \in 1 .. now : Granted(m, t) /\ SetOwner(m, "none", t)

\* the owner's connection ends: the time of the last change stays
OtherCloses(m) ==
  /\ ForeignStep /\ selectionOwner[m] = "other"
  /\ SetOwner(m, "none", lastChange[m])

Tick ==
  /\ now < MaxTime /\ now' = now + 1
  /\ UNCHANGED <<selectionOwner, lastChange, epoch, events, time, data, m_timestamp, formatList,
                 doing, counts>>

-----------------------------------------------------------------------------
(* setMimeData().                                                           *)

setTime(t) == time' = IF t > time THEN t ELSE time

\* user input tells the application the time
UserInput ==
  /\ doing = Idle
  /\ \E t \in 1 .. now : t > time /\ setTime(t)
  /\ UNCHANGED <<server, events, data, m_timestamp, formatList, doing, counts>>

\* mutant of Deleted: the other mode is not looked at
DeletedAlways(m) ==
  deletions' = [d \in MimeData |-> deletions[d] + (IF m_clientClipboard[m] = d THEN 1 ELSE 0)]

\* delete m_clientClipboard[mode], unless both modes hold the same object
Deleted(m) ==
  deletions' = [d \in MimeData |->
    deletions[d] + (IF /\ m_clientClipboard[m] = d
                       /\ \E n \in Mode : m_clientClipboard[n] # d THEN 1 ELSE 0)]

\* the application hands over an object that nobody has deleted
setMimeData(d, m) ==
  /\ doing = Idle /\ calls < MaxCalls
  /\ deletions[d] = 0 /\ m_clientClipboard[m] # d
  /\ LET t == IF time = CurrentTime THEN now ELSE time
     IN /\ time' = t
        /\ m_timestamp' = [m_timestamp EXCEPT ![m] = t]
        /\ IF Granted(m, t) THEN SetOwner(m, "us", t) ELSE UNCHANGED <<server, events>>
  /\ Deleted(m) /\ handed' = handed \cup {d}
  /\ m_clientClipboard' = [m_clientClipboard EXCEPT ![m] = d]
  /\ calls' = calls + 1 /\ UNCHANGED <<formatList, doing, foreign>>

\* setMimeData(nullptr): whether there is anything to clear is asked first
clear(m) ==
  /\ doing = Idle /\ calls < MaxCalls
  /\ selectionOwner[m] # "none" /\ (selectionOwner[m] = "us" => m_clientClipboard[m] # NoData)
  /\ doing' = [call |-> "clear", mode |-> m]
  /\ calls' = calls + 1
  /\ UNCHANGED <<server, events, time, data, m_timestamp, formatList, foreign>>

ClearGoesOn(m) ==
  /\ doing = [call |-> "clear", mode |-> m]
  /\ LET t == IF time = CurrentTime THEN now ELSE time
     IN /\ time' = t
        /\ IF Granted(m, t) THEN SetOwner(m, "none", t) ELSE UNCHANGED <<server, events>>
  /\ Deleted(m) /\ UNCHANGED handed
  /\ m_clientClipboard' = [m_clientClipboard EXCEPT ![m] = NoData]
  /\ m_timestamp' = [m_timestamp EXCEPT ![m] = CurrentTime]
  /\ doing' = Idle /\ UNCHANGED <<formatList, counts>>

-----------------------------------------------------------------------------
(* The handlers.                                                            *)

\* mutant of TooOld: its time is not compared
Believed(e) == FALSE

\* generated before we gained the ownership
TooOld(e) ==
  m_timestamp[e.mode] # CurrentTime /\ e.time <= m_timestamp[e.mode]

handleSelectionClearRequest(e) ==
  /\ setTime(e.time)
  /\ IF ~TooOld(e) /\ selectionOwner[e.mode] # "none"
     THEN /\ Deleted(e.mode)
          /\ m_clientClipboard' = [m_clientClipboard EXCEPT ![e.mode] = NoData]
          /\ m_timestamp' = [m_timestamp EXCEPT ![e.mode] = CurrentTime]
     ELSE UNCHANGED <<deletions, m_clientClipboard, m_timestamp>>
  /\ UNCHANGED <<handed, formatList>>

\* mutant of FormatsReset: the object for the mode is there already and is kept as it is
KeptFormats(e) == FALSE

FormatsReset(e) == e.owner # "us" /\ e.seen > m_timestamp[e.mode]

handleXFixesSelectionRequest(e) ==
  /\ setTime(e.time)
  /\ formatList' = IF FormatsReset(e) THEN [formatList EXCEPT ![e.mode] = NoFormats] ELSE formatList
  /\ UNCHANGED <<data, m_timestamp>>

HandleEvent ==
  /\ doing = Idle /\ events # <<>>
  /\ events' = Tail(events)
  /\ \/ Head(events).type = "clear" /\ handleSelectionClearRequest(Head(events))
     \/ Head(events).type = "xfixes" /\ handleXFixesSelectionRequest(Head(events))
  /\ UNCHANGED <<server, doing, counts>>

\* waitForClipboardEvent() serves a SelectionClear wherever it is
ClearWhileWaiting ==
  /\ doing.call \in {"formats", "saving"}
  /\ \E i \in DOMAIN events :
       /\ events[i].type = "clear" /\ \A j \in 1 .. i - 1 : events[j].type # "clear"
       /\ handleSelectionClearRequest(events[i]) /\ events' = RemoveAt(events, i)
  /\ UNCHANGED <<server, doing, counts>>

-----------------------------------------------------------------------------
(* QXcbClipboardMime: the TARGETS of another owner are asked for once.      *)

formats(m) ==
  /\ doing = Idle /\ calls < MaxCalls
  /\ selectionOwner[m] = "other" /\ formatList[m] = NoFormats
  /\ doing' = [call |-> "formats", mode |-> m] /\ calls' = calls + 1
  /\ UNCHANGED <<server, events, time, data, m_timestamp, formatList, foreign>>

\* whoever owns the selection answers, or nobody does
FormatsArrive(m) ==
  /\ doing = [call |-> "formats", mode |-> m]
  /\ \/ selectionOwner[m] = "other" /\ formatList' = [formatList EXCEPT ![m] = epoch[m]]
     \/ UNCHANGED formatList
  /\ doing' = Idle
  /\ UNCHANGED <<server, events, time, data, m_timestamp, counts>>

-----------------------------------------------------------------------------
(* ~QXcbClipboard: a clipboard manager may take the contents over.          *)

Close ==
  /\ doing = Idle
  /\ \/ (\E m \in Mode : m_timestamp[m] # CurrentTime) /\ doing' = [doing EXCEPT !.call = "saving"]
     \/ doing' = [doing EXCEPT !.call = "closing"]
  /\ UNCHANGED <<server, events, time, data, m_timestamp, formatList, counts>>

Held == {m_clientClipboard[m] : m \in Mode} \ {NoData}

Destroyed ==
  /\ doing.call \in {"saving", "closing"}
  /\ doing' = [doing EXCEPT !.call = "destroyed"]
  /\ deletions' = [d \in MimeData |-> deletions[d] + (IF d \in Held THEN 1 ELSE 0)]
  /\ m_clientClipboard' = [m \in Mode |-> NoData]
  /\ UNCHANGED <<server, events, time, handed, m_timestamp, formatList, counts>>

-----------------------------------------------------------------------------

Next ==
  \/ \E m \in Mode : \/ OtherTakes(m) \/ OtherGivesUp(m) \/ OtherCloses(m)
                     \/ clear(m) \/ ClearGoesOn(m) \/ formats(m) \/ FormatsArrive(m)
                     \/ \E d \in MimeData : setMimeData(d, m)
  \/ Tick \/ UserInput \/ HandleEvent \/ ClearWhileWaiting \/ Close \/ Destroyed

Spec == Init /\ [][Next]_vars

-----------------------------------------------------------------------------
(* Properties.                                                              *)

Alive == doing.call # "destroyed"

Pending(m) == \E i \in DOMAIN events : events[i].mode = m

\* The variables have their types, and nobody knows a time to come.
TypeOK ==
  /\ selectionOwner \in [Mode -> {"us", "other", "none"}]
  /\ lastChange \in [Mode -> 0 .. now] /\ time \in 0 .. now
  /\ m_clientClipboard \in [Mode -> MimeData \cup {NoData}]
  /\ m_timestamp \in [Mode -> 0 .. time]
  /\ \A m \in Mode : formatList[m] \in 0 .. epoch[m]
  /\ doing \in [call : {"none", "clear", "formats", "saving", "closing", "destroyed"}, mode : Mode]

\* Every object handed over is held or was deleted, and that once: also when both
\* modes hold it, and when ownership is lost in the middle of a call.
MimeDataFreedOnce ==
  \A d \in MimeData :
    deletions[d] = IF d \in handed /\ d \notin Held THEN 1 ELSE 0

\* While the server sends us the requests for a selection we have the data, and the
\* time of our ownership is the server's, so that no request is refused as too old.
OwnerHasData ==
  \A m \in Mode : selectionOwner[m] = "us" /\ Alive =>
    m_clientClipboard[m] # NoData /\ m_timestamp[m] = lastChange[m]

\* Once the notifications are handled, formats that are cached are those of the
\* present owner, unless it took the selection in the very time of our own ownership.
FormatsAreCurrent ==
  \A m \in Mode : selectionOwner[m] = "other" /\ ~Pending(m) /\ formatList[m] # NoFormats =>
    formatList[m] = epoch[m] \/ lastChange[m] = m_timestamp[m]

\* The assertion of ownsMode(), between handlers and with no event left that could
\* tell better: we believe to own a selection only if the server agrees.  That
\* another client took it in the very millisecond of our ownership is let pass.
OwnsModeAssertion ==
  \A m \in Mode : doing = Idle /\ ~Pending(m) =>
    m_timestamp[m] = CurrentTime \/ selectionOwner[m] = "us" \/ lastChange[m] = m_timestamp[m]
=============================================================================
