--------------------------- MODULE OwnershipProofs ---------------------------
(***************************************************************************)
(* Proofs about SelectionOwnership for any objects, times and numbers of    *)
(* calls.                                                                   *)
(***************************************************************************)
EXTENDS SelectionOwnership, SequenceTheorems, TLAPS

Event == [type : {"clear", "xfixes"}, mode : Mode, owner : {"us", "other", "none"},
          time : Nat, seen : Nat]

Doing == [call : {"none", "clear", "formats", "saving", "closing", "destroyed"}, mode : Mode]

\* The types the rest needs; no time is in the future.
Types ==
  /\ selectionOwner \in [Mode -> {"us", "other", "none"}]
  /\ now \in Nat \ {0}
  /\ lastChange \in [Mode -> 0 .. now] /\ time \in 0 .. now
  /\ epoch \in [Mode -> Nat]
  /\ m_clientClipboard \in [Mode -> MimeData \cup {NoData}]
  /\ m_timestamp \in [Mode -> 0 .. now]
  /\ events \in Seq(Event)
  /\ \A i \in DOMAIN events : events[i].time <= now
  /\ deletions \in [MimeData -> Nat]
  /\ doing \in Doing

\* A SelectionClear on its way tells of a change that is not later than the last.
ClearsAreOld ==
  \A i \in DOMAIN events : events[i].type = "clear" => events[i].time <= lastChange[events[i].mode]

\* An owner's change of owner has a time, so that m_timestamp is not taken for none.
OwnershipHasTime == \A m \in Mode : selectionOwner[m] = "us" => lastChange[m] > 0

\* The application's time is never behind the time of an ownership.
OwnTimesAreKnown == \A m \in Mode : m_timestamp[m] <= time

ServerInv == Types /\ ClearsAreOld /\ OwnershipHasTime
DataInv   == Held \subseteq handed /\ MimeDataFreedOnce

Inv == ServerInv /\ DataInv /\ OwnerHasData /\ OwnTimesAreKnown

-----------------------------------------------------------------------------
(* The events: what is added, what is taken.                                *)

\* Of what one event is said, all are said once the queue is only changed so.
NoneButNew(new) ==
  /\ events' \in Seq(Event)
  /\ \A i \in DOMAIN events' : events'[i] \in new \/ \E j \in DOMAIN events : events'[i] = events[j]

LEMMA TailHasNoneNew ==
  ASSUME events \in Seq(Event), events # <<>>, events' = Tail(events)
  PROVE  NoneButNew({})
BY DEF NoneButNew

\* RemoveAt() keeps the events before the one removed, and those behind it one earlier.
LEMMA RemovedEvents ==
  ASSUME events \in Seq(Event), NEW i \in DOMAIN events, events' = RemoveAt(events, i)
  PROVE  /\ events' \in Seq(Event) /\ Len(events') = Len(events) - 1
         /\ \A k \in 1 .. Len(events) - 1 : events'[k] = IF k < i THEN events[k] ELSE events[k + 1]
<1> DEFINE before == SubSeq(events, 1, i - 1)
           after  == SubSeq(events, i + 1, Len(events))
<1>1. /\ before \in Seq(Event) /\ Len(before) = i - 1
      /\ \A k \in 1 .. i - 1 : before[k] = events[k]
  OBVIOUS
<1>2. /\ after \in Seq(Event) /\ Len(after) = Len(events) - i
      /\ \A k \in 1 .. Len(events) - i : after[k] = events[i + k]
  OBVIOUS
<1>3. events' = before \o after
  BY DEF RemoveAt
<1>4. i \in Nat /\ Len(events) \in Nat /\ 1 <= i /\ i <= Len(events)
  OBVIOUS
<1> HIDE DEF before, after
<1>5. Len(events') = Len(before) + Len(after)
  BY <1>1, <1>2, <1>3, ConcatProperties
<1>6. ASSUME NEW k \in 1 .. Len(events) - 1
      PROVE  events'[k] = IF k < i THEN events[k] ELSE events[k + 1]
  <2>1. events'[k] = IF k <= Len(before) THEN before[k] ELSE after[k - Len(before)]
    <3>1. k \in 1 .. Len(before) + Len(after)
      BY <1>1, <1>2, <1>4
    <3>2. (before \o after)[k] = IF k <= Len(before) THEN before[k] ELSE after[k - Len(before)]
      <4>1. before \in Seq(Event) /\ after \in Seq(Event)
        BY <1>1, <1>2
      <4>2. \A j \in 1 .. Len(before) + Len(after) :
              (before \o after)[j] = IF j <= Len(before) THEN before[j] ELSE after[j - Len(before)]
        BY <4>1, ConcatProperties, Zenon
      <4>3. QED
        BY <3>1, <4>2, Zenon
    <3>3. QED
      BY <1>3, <3>2, Zenon
  <2>2. CASE k < i
    <3>1. k \in 1 .. i - 1 /\ k <= Len(before)
      BY <1>1, <1>4, <2>2
    <3>2. QED
      BY <1>1, <2>1, <2>2, <3>1, Zenon
  <2>3. CASE ~(k < i)
    <3>1. /\ k - Len(before) \in 1 .. Len(events) - i /\ ~(k <= Len(before))
          /\ i + (k - Len(before)) = k + 1
      BY <1>1, <1>4, <2>3
    <3>2. after[k - Len(before)] = events[k + 1]
      BY <1>2, <3>1
    <3>3. QED
      BY <2>1, <2>3, <3>1, <3>2, Zenon
  <2>4. QED
    BY <2>2, <2>3
<1>7. events' \in Seq(Event)
  BY <1>1, <1>2, <1>3, ConcatProperties
<1>8. QED
  BY <1>1, <1>2, <1>4, <1>5, <1>6, <1>7

LEMMA RemoveHasNoneNew ==
  ASSUME events \in Seq(Event), NEW i \in DOMAIN events, events' = RemoveAt(events, i)
  PROVE  NoneButNew({})
<1>1. /\ events' \in Seq(Event) /\ Len(events') = Len(events) - 1 /\ Len(events) \in Nat
      /\ \A k \in 1 .. Len(events) - 1 : events'[k] = IF k < i THEN events[k] ELSE events[k + 1]
  BY RemovedEvents
<1>2. ASSUME NEW k \in DOMAIN events' PROVE \E j \in DOMAIN events : events'[k] = events[j]
  <2>1. k \in 1 .. Len(events) - 1
    BY <1>1
  <2>2. k \in DOMAIN events /\ k + 1 \in DOMAIN events
    BY <1>1, <2>1
  <2>3. QED
    BY <1>1, <2>1, <2>2
<1>3. QED
  BY <1>1, <1>2 DEF NoneButNew

LEMMA SetOwnerAddsEvents ==
  ASSUME Types, NEW m \in Mode, NEW o \in {"us", "other", "none"}, NEW t \in Nat, SetOwner(m, o, t)
  PROVE  NoneButNew({SelectionClear(m, t), XFixes(m, o, t)})
<1>1. SelectionClear(m, t) \in Event /\ XFixes(m, o, t) \in Event
  BY DEF SelectionClear, XFixes, Event, Types
<1>2. \/ events' = events \o <<SelectionClear(m, t)>> \o <<XFixes(m, o, t)>>
      \/ events' = events \o <<>> \o <<XFixes(m, o, t)>>
  BY DEF SetOwner
<1>3. events \in Seq(Event)
  BY DEF Types
<1> DEFINE c == SelectionClear(m, t)  x == XFixes(m, o, t)
<1>4. CASE events' = events \o <<c>> \o <<x>>
  BY <1>1, <1>3, <1>4 DEF NoneButNew
<1>5. CASE events' = events \o <<>> \o <<x>>
  BY <1>1, <1>3, <1>5 DEF NoneButNew
<1>6. QED
  BY <1>2, <1>4, <1>5

-----------------------------------------------------------------------------
(* The server's part of the invariant.                                      *)

\* What the server side keeps when only events are taken and the application
\* learns no time to come.
LEMMA TakingKeepsServerInv ==
  ASSUME ServerInv, NoneButNew({}), UNCHANGED server,
         time' \in 0 .. now, m_timestamp' \in [Mode -> 0 .. now],
         m_clientClipboard' \in [Mode -> MimeData \cup {NoData}],
         deletions' \in [MimeData -> Nat], doing' \in Doing
  PROVE  ServerInv'
<1>1. UNCHANGED <<selectionOwner, lastChange, epoch, now>>
  BY DEF server
<1>2. \A i \in DOMAIN events' : \E j \in DOMAIN events : events'[i] = events[j]
  BY DEF NoneButNew
<1>3. Types'
  BY <1>1, <1>2 DEF NoneButNew, Types, ServerInv, Event
<1>4. ClearsAreOld'
  BY <1>1, <1>2 DEF ClearsAreOld, ServerInv
<1>5. QED
  BY <1>1, <1>3, <1>4 DEF ServerInv, OwnershipHasTime

\* A change of owner that the server grants.  SelectionClear tells its time.
LEMMA SetOwnerKeepsServerInv ==
  ASSUME ServerInv, NEW m \in Mode, NEW o \in {"us", "other", "none"}, NEW t \in 0 .. now,
         SetOwner(m, o, t), lastChange[m] <= t, o = "us" => t > 0,
         time' \in 0 .. now, m_timestamp' \in [Mode -> 0 .. now],
         m_clientClipboard' \in [Mode -> MimeData \cup {NoData}],
         deletions' \in [MimeData -> Nat], doing' \in Doing
  PROVE  ServerInv'
<1>1. /\ now' = now /\ now \in Nat
      /\ selectionOwner' = [selectionOwner EXCEPT ![m] = o]
      /\ lastChange' = [lastChange EXCEPT ![m] = t]
      /\ epoch' = [epoch EXCEPT ![m] = @ + 1]
  BY DEF SetOwner, ServerInv, Types
<1> Types
  BY DEF ServerInv
<1> lastChange \in [Mode -> 0 .. now] /\ now \in Nat
  BY DEF Types
<1> t \in Nat /\ t <= now
  OBVIOUS
<1>2. NoneButNew({SelectionClear(m, t), XFixes(m, o, t)})
  BY SetOwnerAddsEvents
<1>3. \A n \in Mode : lastChange[n] \in Nat /\ lastChange'[n] \in Nat /\ lastChange[n] <= lastChange'[n]
  <2> TAKE n \in Mode
  <2>1. lastChange[n] \in Nat /\ lastChange'[n] = IF n = m THEN t ELSE lastChange[n]
    BY <1>1
  <2>2. QED
    BY <2>1
<1>4. \A i \in DOMAIN events' :
        \/ events'[i] = SelectionClear(m, t) \/ events'[i] = XFixes(m, o, t)
        \/ \E j \in DOMAIN events : events'[i] = events[j]
  BY <1>2 DEF NoneButNew
<1>5. \A j \in DOMAIN events :
        events[j].time \in Nat /\ events[j].mode \in Mode /\ events[j].time <= now
  <2> TAKE j \in DOMAIN events
  <2>1. events[j] \in Event /\ events[j].time <= now
    BY DEF Types
  <2>2. QED
    BY <2>1 DEF Event
<1>6. Types'
  <2>1. \A i \in DOMAIN events' : events'[i].time <= now
    BY <1>1, <1>4, <1>5 DEF SelectionClear, XFixes
  <2>2. events' \in Seq(Event)
    BY <1>2 DEF NoneButNew
  <2>3. selectionOwner' \in [Mode -> {"us", "other", "none"}] /\ epoch' \in [Mode -> Nat]
    <3>1. selectionOwner \in [Mode -> {"us", "other", "none"}] /\ epoch \in [Mode -> Nat]
      BY DEF Types
    <3>2. epoch[m] + 1 \in Nat
      BY <3>1
    <3>3. QED
      BY <1>1, <3>1, <3>2
  <2>4. lastChange' \in [Mode -> 0 .. now]
    BY <1>1
  <2>5. QED
    BY <1>1, <2>1, <2>2, <2>3, <2>4 DEF Types
<1>7. ClearsAreOld'
  <2> SUFFICES ASSUME NEW i \in DOMAIN events', events'[i].type = "clear"
               PROVE  events'[i].time <= lastChange'[events'[i].mode]
    BY DEF ClearsAreOld
  <2>1. CASE events'[i] = SelectionClear(m, t)
    <3>1. lastChange'[m] = t
      BY <1>1 DEF ServerInv, Types
    <3>2. events'[i].time = t /\ events'[i].mode = m
      BY <2>1 DEF SelectionClear
    <3>3. QED
      BY <3>1, <3>2
  <2>2. CASE events'[i] = XFixes(m, o, t)
    BY <2>2 DEF XFixes
  <2>3. CASE \E j \in DOMAIN events : events'[i] = events[j]
    <3>1. PICK j \in DOMAIN events : events'[i] = events[j]
      BY <2>3
    <3>2. events[j].time <= lastChange[events[j].mode]
      BY <3>1 DEF ClearsAreOld, ServerInv
    <3>3. QED
      BY <1>3, <1>5, <3>1, <3>2
  <2>4. QED
    BY <1>4, <2>1, <2>2, <2>3
<1>8. OwnershipHasTime'
  BY <1>1 DEF ServerInv, Types, OwnershipHasTime
<1>9. QED
  BY <1>6, <1>7, <1>8 DEF ServerInv

-----------------------------------------------------------------------------
(* The objects.                                                             *)

DataTypes ==
  /\ m_clientClipboard \in [Mode -> MimeData \cup {NoData}]
  /\ deletions \in [MimeData -> Nat]

\* One mode changes its object x for y: x is deleted unless the other has it too.
LEMMA ReplaceKeepsData ==
  ASSUME DataTypes, DataInv, NEW m \in Mode, NEW y \in MimeData \cup {NoData}, Deleted(m),
         y \in MimeData => deletions[y] = 0 /\ m_clientClipboard[m] # y,
         m_clientClipboard' = [m_clientClipboard EXCEPT ![m] = y],
         handed' = handed \cup ({y} \ {NoData})
  PROVE  DataTypes' /\ DataInv'
<1>1. PICK n \in Mode : n # m /\ Mode = {m, n}
  BY ModeAssumption
<1>2. /\ \A d \in MimeData : d \in Held <=> m_clientClipboard[m] = d \/ m_clientClipboard[n] = d
      /\ \A d \in MimeData : d \in Held' <=> y = d \/ m_clientClipboard[n] = d
  BY <1>1, DataAssumption DEF DataTypes, Held
<1>3. \A d \in MimeData :
        deletions'[d] = deletions[d] +
          (IF m_clientClipboard[m] = d /\ m_clientClipboard[n] # d THEN 1 ELSE 0)
  BY <1>1 DEF Deleted
<1>4. DataTypes'
  BY DEF DataTypes, Deleted
<1>5. Held' \subseteq handed'
  BY <1>1 DEF DataTypes, DataInv, Held
<1>6. MimeDataFreedOnce'
  <2> SUFFICES ASSUME NEW d \in MimeData
               PROVE  deletions'[d] = IF d \in handed' /\ d \notin Held' THEN 1 ELSE 0
    BY DEF MimeDataFreedOnce
  <2>1. deletions[d] = IF d \in handed /\ d \notin Held THEN 1 ELSE 0
    BY DEF DataInv, MimeDataFreedOnce
  <2>2. CASE d = y
    BY <1>2, <1>3, <2>1, <2>2
  <2>3. CASE d # y
    <3>1. d \in handed' <=> d \in handed
      BY <2>3
    <3>2. d \in Held => d \in handed
      BY DEF DataInv
    <3>3. QED
      BY <1>2, <1>3, <2>1, <2>3, <3>1, <3>2
  <2>4. QED
    BY <2>2, <2>3
<1>7. QED
  BY <1>4, <1>5, <1>6 DEF DataInv

-----------------------------------------------------------------------------
(* The steps.                                                               *)

LEMMA IdleMode == Idle \in Doing /\ Idle.call = "none"
<1>1. (CHOOSE m \in Mode : TRUE) \in Mode
  BY ModeAssumption
<1>2. QED
  BY <1>1 DEF Idle, Doing

LEMMA InvTypes ==
  ASSUME Inv
  PROVE  /\ Types /\ DataTypes
         /\ now \in Nat \ {0} /\ time \in 0 .. now /\ m_timestamp \in [Mode -> 0 .. now]
         /\ lastChange \in [Mode -> 0 .. now] /\ doing \in Doing
BY DEF Inv, ServerInv, Types, DataTypes

\* The application only learns of later times.
LEMMA LaterIsKnown ==
  ASSUME OwnTimesAreKnown, m_timestamp \in [Mode -> Nat], time \in Nat, time' \in Nat, time <= time',
         \A n \in Mode : m_timestamp'[n] \in {m_timestamp[n], CurrentTime, time'}
  PROVE  OwnTimesAreKnown'
BY DEF OwnTimesAreKnown, CurrentTime

\* A step that neither the data nor the ownership, as the server and the
\* application see it, is touched by.
LEMMA QuietStep ==
  ASSUME Inv, UNCHANGED <<server, events, data, m_timestamp>>,
         time' \in 0 .. now, time <= time', doing' \in Doing, Alive' => Alive
  PROVE  Inv'
<1>1. NoneButNew({})
  BY DEF NoneButNew, Inv, ServerInv, Types
<1>2. ServerInv'
  BY <1>1, InvTypes, TakingKeepsServerInv DEF data, DataTypes, Inv
<1>3. DataInv'
  BY DEF Inv, DataInv, Held, MimeDataFreedOnce, data
<1>4. OwnerHasData'
  BY DEF Inv, OwnerHasData, server, data
<1>5. OwnTimesAreKnown'
  BY InvTypes, LaterIsKnown DEF Inv
<1>6. QED
  BY <1>2, <1>3, <1>4, <1>5 DEF Inv

\* Another client changes the owner: we are not it.
LEMMA ForeignKeeps ==
  ASSUME Inv, NEW m \in Mode, NEW o \in {"other", "none"}, NEW t \in 0 .. now, lastChange[m] <= t,
         ForeignStep, SetOwner(m, o, t)
  PROVE  Inv'
<1>1. UNCHANGED <<time, data, m_timestamp, doing>>
  BY DEF ForeignStep
<1>2. ServerInv'
  BY <1>1, InvTypes, SetOwnerKeepsServerInv DEF data, DataTypes, Inv
<1>3. DataInv'
  BY <1>1 DEF Inv, DataInv, Held, MimeDataFreedOnce, data
<1>4. OwnerHasData'
  <2>1. /\ selectionOwner' = [selectionOwner EXCEPT ![m] = o]
        /\ lastChange' = [lastChange EXCEPT ![m] = t]
        /\ selectionOwner \in [Mode -> {"us", "other", "none"}]
        /\ lastChange \in [Mode -> 0 .. now]
    BY DEF SetOwner, Inv, ServerInv, Types
  <2>2. QED
    BY <1>1, <2>1 DEF Inv, OwnerHasData, data, Alive
<1>5. OwnTimesAreKnown'
  BY <1>1 DEF Inv, OwnTimesAreKnown
<1>6. QED
  BY <1>2, <1>3, <1>4, <1>5 DEF Inv

\* A SelectionClear: when we are the owner it is from before.
LEMMA ClearKeeps ==
  ASSUME Inv, NEW i \in DOMAIN events, events[i].type = "clear",
         handleSelectionClearRequest(events[i]), NoneButNew({}), UNCHANGED <<server, doing>>
  PROVE  Inv'
<1> DEFINE e == events[i]
<1> USE InvTypes
<1>1. e \in Event /\ e.mode \in Mode /\ e.time \in 0 .. now
  <2>1. e \in Event /\ e.time <= now
    BY DEF Types
  <2>2. QED
    BY <2>1 DEF Event
<1>2. e.time <= lastChange[e.mode]
  BY DEF Inv, ServerInv, ClearsAreOld
<1>3. time' \in 0 .. now
  BY <1>1 DEF handleSelectionClearRequest, setTime
<1>T. OwnTimesAreKnown'
  <2>1. time <= time' /\ m_timestamp \in [Mode -> Nat] /\ time' \in Nat /\ time \in Nat
    <3>1. time \in Nat /\ e.time \in Nat /\ m_timestamp \in [Mode -> Nat]
      BY <1>1
    <3>2. QED
      BY <3>1 DEF handleSelectionClearRequest, setTime
  <2>2. \A n \in Mode : m_timestamp'[n] \in {m_timestamp[n], CurrentTime, time'}
    BY DEF handleSelectionClearRequest
  <2>3. QED
    BY <2>1, <2>2, LaterIsKnown DEF Inv
<1>4. CASE UNCHANGED <<deletions, m_clientClipboard, m_timestamp>>
  <2>1. UNCHANGED data
    BY <1>4 DEF handleSelectionClearRequest, data
  <2>2. ServerInv'
    BY <1>3, <1>4, TakingKeepsServerInv DEF DataTypes, Inv
  <2>3. DataInv'
    BY <2>1 DEF Inv, DataInv, Held, MimeDataFreedOnce, data
  <2>4. OwnerHasData'
    BY <1>4 DEF Inv, OwnerHasData, server, Alive
  <2>5. QED
    BY <1>T, <2>2, <2>3, <2>4 DEF Inv
<1>5. CASE /\ ~TooOld(e) /\ Deleted(e.mode)
           /\ m_clientClipboard' = [m_clientClipboard EXCEPT ![e.mode] = NoData]
           /\ m_timestamp' = [m_timestamp EXCEPT ![e.mode] = CurrentTime]
  <2>1. DataTypes' /\ DataInv'
    BY <1>1, <1>5, ReplaceKeepsData, DataAssumption DEF handleSelectionClearRequest, Inv
  <2>2. m_timestamp' \in [Mode -> 0 .. now]
    <3>1. 0 \in 0 .. now /\ m_timestamp \in [Mode -> 0 .. now]
      OBVIOUS
    <3>2. m_timestamp' = [m_timestamp EXCEPT ![e.mode] = 0]
      BY <1>5 DEF CurrentTime
    <3> HIDE DEF e
    <3>3. QED
      BY <3>1, <3>2
  <2>3. ServerInv'
    BY <1>3, <2>1, <2>2, TakingKeepsServerInv DEF DataTypes, Inv
  <2>4. OwnerHasData'
    <3>1. selectionOwner[e.mode] = "us" /\ Alive => FALSE
      <4> SUFFICES ASSUME selectionOwner[e.mode] = "us", Alive PROVE FALSE
        OBVIOUS
      <4>1. m_timestamp[e.mode] = lastChange[e.mode] /\ lastChange[e.mode] > 0
        BY <1>1 DEF Inv, OwnerHasData, ServerInv, OwnershipHasTime
      <4>2. QED
        BY <1>1, <1>2, <1>5, <4>1 DEF TooOld, CurrentTime
    <3>2. \A n \in Mode : n # e.mode =>
            m_clientClipboard'[n] = m_clientClipboard[n] /\ m_timestamp'[n] = m_timestamp[n]
      BY <1>5 DEF DataTypes
    <3>3. QED
      BY <3>1, <3>2 DEF Inv, OwnerHasData, server, Alive
  <2>5. QED
    BY <1>T, <2>1, <2>3, <2>4 DEF Inv
<1>6. QED
  BY <1>4, <1>5 DEF handleSelectionClearRequest

LEMMA TimeOfRequest ==
  ASSUME Inv, NEW t, t = (IF time = CurrentTime THEN now ELSE time)
  PROVE  t \in 0 .. now /\ t > 0 /\ time <= t
BY InvTypes DEF CurrentTime

\* setMimeData(): the data and the time of the ownership are there when it is gained.
LEMMA setMimeDataKeeps ==
  ASSUME Inv, NEW d \in MimeData, NEW m \in Mode, setMimeData(d, m)
  PROVE  Inv'
<1> USE InvTypes
<1> DEFINE t == IF time = CurrentTime THEN now ELSE time
<1>1. t \in 0 .. now /\ t > 0 /\ time <= t
  BY TimeOfRequest
<1>2. /\ time' = t /\ m_timestamp' = [m_timestamp EXCEPT ![m] = t]
      /\ IF Granted(m, t) THEN SetOwner(m, "us", t) ELSE UNCHANGED <<server, events>>
      /\ m_clientClipboard' = [m_clientClipboard EXCEPT ![m] = d]
      /\ doing' = doing /\ doing.call = "none"
  BY IdleMode DEF setMimeData
<1> HIDE DEF t
<1>3. DataTypes' /\ DataInv'
  <2>1. deletions[d] = 0 /\ m_clientClipboard[m] # d /\ Deleted(m)
    BY DEF setMimeData
  <2>2. handed' = handed \cup ({d} \ {NoData})
    BY DataAssumption DEF setMimeData
  <2>3. QED
    BY <1>2, <2>1, <2>2, ReplaceKeepsData DEF Inv
<1>4. m_timestamp' \in [Mode -> 0 .. now] /\ time' \in 0 .. now
  BY <1>1, <1>2
<1>5. OwnTimesAreKnown'
  <2>1. m_timestamp \in [Mode -> Nat] /\ time \in Nat /\ time' \in Nat /\ time <= time'
    BY <1>1, <1>2
  <2>2. \A n \in Mode : m_timestamp'[n] \in {m_timestamp[n], CurrentTime, time'}
    BY <1>2
  <2>3. QED
    BY <2>1, <2>2, LaterIsKnown DEF Inv
<1>6. CASE Granted(m, t)
  <2>1. SetOwner(m, "us", t) /\ lastChange[m] <= t
    BY <1>2, <1>6 DEF Granted
  <2>2. ServerInv'
    BY <1>1, <1>2, <1>3, <1>4, <2>1, SetOwnerKeepsServerInv DEF DataTypes, Inv
  <2>3. /\ selectionOwner' = [selectionOwner EXCEPT ![m] = "us"]
        /\ lastChange' = [lastChange EXCEPT ![m] = t]
        /\ selectionOwner \in [Mode -> {"us", "other", "none"}]
    BY <2>1 DEF SetOwner, Types
  <2>4. OwnerHasData'
    <3> SUFFICES ASSUME NEW n \in Mode, selectionOwner'[n] = "us"
                 PROVE  m_clientClipboard'[n] # NoData /\ m_timestamp'[n] = lastChange'[n]
      BY DEF OwnerHasData
    <3>1. CASE n = m
      BY <1>2, <2>3, <3>1, DataAssumption DEF DataTypes
    <3>2. CASE n # m
      <4>1. selectionOwner[n] = "us" /\ Alive
        BY <1>2, <2>3, <3>2 DEF Alive
      <4>2. m_clientClipboard[n] # NoData /\ m_timestamp[n] = lastChange[n]
        BY <4>1 DEF Inv, OwnerHasData
      <4>3. QED
        BY <1>2, <2>3, <3>2, <4>2 DEF DataTypes
    <3>3. QED
      BY <3>1, <3>2
  <2>5. QED
    BY <1>3, <1>5, <2>2, <2>4 DEF Inv
<1>7. CASE ~Granted(m, t)
  <2>1. UNCHANGED <<server, events>> /\ UNCHANGED <<selectionOwner, lastChange>>
    BY <1>2, <1>7 DEF server
  <2>2. NoneButNew({})
    BY <2>1 DEF NoneButNew, Types
  <2>3. ServerInv'
    BY <1>2, <1>3, <1>4, <2>1, <2>2, TakingKeepsServerInv DEF DataTypes, Inv
  <2>4. ~(selectionOwner[m] = "us")
    <3> SUFFICES ASSUME selectionOwner[m] = "us" PROVE FALSE
      OBVIOUS
    <3>1. m_timestamp[m] = lastChange[m] /\ m_timestamp[m] <= time
      BY <1>2 DEF Inv, OwnerHasData, Alive, OwnTimesAreKnown
    <3>2. QED
      BY <1>1, <1>7, <3>1 DEF Granted
  <2>5. OwnerHasData'
    <3> SUFFICES ASSUME NEW n \in Mode, selectionOwner'[n] = "us"
                 PROVE  m_clientClipboard'[n] # NoData /\ m_timestamp'[n] = lastChange'[n]
      BY DEF OwnerHasData
    <3>1. selectionOwner[n] = "us" /\ Alive /\ n # m
      BY <1>2, <2>1, <2>4 DEF Alive
    <3>2. m_clientClipboard[n] # NoData /\ m_timestamp[n] = lastChange[n]
      BY <3>1 DEF Inv, OwnerHasData
    <3>3. QED
      BY <1>2, <2>1, <3>1, <3>2 DEF DataTypes
  <2>6. QED
    BY <1>3, <1>5, <2>3, <2>5 DEF Inv
<1>8. QED
  BY <1>6, <1>7

\* setMimeData(nullptr), after it asked whether there is anything to clear: the
\* server always lets an owner give its selection up, so the data goes with it.
LEMMA ClearGoesOnKeeps ==
  ASSUME Inv, NEW m \in Mode, ClearGoesOn(m)
  PROVE  Inv'
<1> USE InvTypes
<1> DEFINE t == IF time = CurrentTime THEN now ELSE time
<1>1. t \in 0 .. now /\ t > 0 /\ time <= t
  BY TimeOfRequest
<1>2. /\ time' = t /\ m_timestamp' = [m_timestamp EXCEPT ![m] = 0]
      /\ IF Granted(m, t) THEN SetOwner(m, "none", t) ELSE UNCHANGED <<server, events>>
      /\ m_clientClipboard' = [m_clientClipboard EXCEPT ![m] = NoData]
      /\ doing' = Idle /\ doing.call = "clear"
  BY DEF ClearGoesOn, CurrentTime
<1> HIDE DEF t
<1>3. DataTypes' /\ DataInv'
  <2>1. Deleted(m) /\ handed' = handed \cup ({NoData} \ {NoData})
    BY DEF ClearGoesOn
  <2>2. QED
    BY <1>2, <2>1, DataAssumption, ReplaceKeepsData DEF Inv
<1>4. m_timestamp' \in [Mode -> 0 .. now] /\ time' \in 0 .. now
  <2>1. 0 \in 0 .. now /\ m_timestamp \in [Mode -> 0 .. now]
    OBVIOUS
  <2>2. QED
    BY <1>1, <1>2, <2>1
<1>5. OwnTimesAreKnown'
  <2>1. m_timestamp \in [Mode -> Nat] /\ time \in Nat /\ time' \in Nat /\ time <= time'
    BY <1>1, <1>2
  <2>2. \A n \in Mode : m_timestamp'[n] \in {m_timestamp[n], CurrentTime, time'}
    BY <1>2 DEF CurrentTime
  <2>3. QED
    BY <2>1, <2>2, LaterIsKnown DEF Inv
<1>6. doing' \in Doing
  BY <1>2, IdleMode
<1>7. ServerInv' /\ ~(selectionOwner'[m] = "us")
      /\ \A n \in Mode : n # m => selectionOwner'[n] = selectionOwner[n] /\ lastChange'[n] = lastChange[n]
  <2>1. CASE Granted(m, t)
    <3>1. SetOwner(m, "none", t) /\ lastChange[m] <= t
      BY <1>2, <2>1 DEF Granted
    <3>2. ServerInv'
      BY <1>1, <1>3, <1>4, <1>6, <3>1, SetOwnerKeepsServerInv DEF DataTypes, Inv
    <3>3. QED
      BY <3>1, <3>2 DEF SetOwner, Types
  <2>2. CASE ~Granted(m, t)
    <3>1. UNCHANGED <<server, events>> /\ UNCHANGED <<selectionOwner, lastChange>>
      BY <1>2, <2>2 DEF server
    <3>2. NoneButNew({})
      BY <3>1 DEF NoneButNew, Types
    <3>3. ServerInv'
      BY <1>3, <1>4, <1>6, <3>1, <3>2, TakingKeepsServerInv DEF DataTypes, Inv
    <3>4. ~(selectionOwner[m] = "us")
      <4> SUFFICES ASSUME selectionOwner[m] = "us" PROVE FALSE
        OBVIOUS
      <4>1. m_timestamp[m] = lastChange[m] /\ m_timestamp[m] <= time
        BY <1>2 DEF Inv, OwnerHasData, Alive, OwnTimesAreKnown
      <4>2. QED
        BY <1>1, <2>2, <4>1 DEF Granted
    <3>5. QED
      BY <3>1, <3>3, <3>4
  <2>3. QED
    BY <2>1, <2>2
<1>8. OwnerHasData'
  <2> SUFFICES ASSUME NEW n \in Mode, selectionOwner'[n] = "us"
               PROVE  m_clientClipboard'[n] # NoData /\ m_timestamp'[n] = lastChange'[n]
    BY DEF OwnerHasData
  <2>1. selectionOwner[n] = "us" /\ Alive /\ n # m
    BY <1>2, <1>7 DEF Alive
  <2>2. m_clientClipboard[n] # NoData /\ m_timestamp[n] = lastChange[n]
    BY <2>1 DEF Inv, OwnerHasData
  <2>3. QED
    BY <1>2, <1>7, <2>1, <2>2 DEF DataTypes
<1>9. QED
  BY <1>3, <1>5, <1>7, <1>8 DEF Inv

\* An event is taken from the head of the queue.  XFixes only concerns the formats.
LEMMA HandleEventKeeps ==
  ASSUME Inv, HandleEvent
  PROVE  Inv'
<1> USE InvTypes
<1>1. events \in Seq(Event) /\ events # <<>> /\ events' = Tail(events) /\ UNCHANGED <<server, doing>>
  BY DEF HandleEvent, Types
<1>2. NoneButNew({}) /\ 1 \in DOMAIN events /\ Head(events) = events[1]
  BY <1>1, TailHasNoneNew
<1>3. CASE events[1].type = "clear" /\ handleSelectionClearRequest(events[1])
  BY <1>1, <1>2, <1>3, ClearKeeps
<1>4. CASE events[1].type = "xfixes" /\ handleXFixesSelectionRequest(events[1])
  <2>1. events[1] \in Event /\ events[1].time <= now
    BY <1>1, <1>2 DEF Types
  <2>2. events[1].time \in 0 .. now
    BY <2>1 DEF Event
  <2>3. time' \in 0 .. now /\ time <= time'
    BY <1>4, <2>2 DEF handleXFixesSelectionRequest, setTime
  <2>4. UNCHANGED <<data, m_timestamp>>
    BY <1>4 DEF handleXFixesSelectionRequest
  <2>5. ServerInv'
    BY <1>1, <1>2, <2>3, <2>4, TakingKeepsServerInv DEF data, DataTypes, Inv
  <2>6. DataInv'
    BY <2>4 DEF Inv, DataInv, Held, MimeDataFreedOnce, data
  <2>7. OwnerHasData'
    BY <1>1, <2>4 DEF Inv, OwnerHasData, server, data, Alive
  <2>8. OwnTimesAreKnown'
    BY <2>3, <2>4, LaterIsKnown DEF Inv
  <2>9. QED
    BY <2>5, <2>6, <2>7, <2>8 DEF Inv
<1>5. QED
  BY <1>2, <1>3, <1>4 DEF HandleEvent

\* A SelectionClear is served while the application waits for the clipboard.
LEMMA ClearWhileWaitingKeeps ==
  ASSUME Inv, ClearWhileWaiting
  PROVE  Inv'
<1>1. PICK i \in DOMAIN events :
        /\ events[i].type = "clear" /\ handleSelectionClearRequest(events[i])
        /\ events' = RemoveAt(events, i)
  BY DEF ClearWhileWaiting
<1>2. NoneButNew({})
  BY <1>1, RemoveHasNoneNew, InvTypes DEF Types
<1>3. UNCHANGED <<server, doing>>
  BY DEF ClearWhileWaiting
<1>4. QED
  BY <1>1, <1>2, <1>3, ClearKeeps

\* The destructor: what is still held goes, once even if both modes hold it.
LEMMA DestroyedKeeps ==
  ASSUME Inv, Destroyed
  PROVE  Inv'
<1> USE InvTypes
<1>1. /\ doing' = [doing EXCEPT !.call = "destroyed"]
      /\ deletions' = [d \in MimeData |-> deletions[d] + (IF d \in Held THEN 1 ELSE 0)]
      /\ m_clientClipboard' = [m \in Mode |-> NoData]
      /\ UNCHANGED <<server, events, time, handed, m_timestamp>>
  BY DEF Destroyed
<1>2. doing' \in Doing
  BY <1>1 DEF Doing
<1>3. DataTypes'
  BY <1>1 DEF DataTypes
<1>4. NoneButNew({})
  BY <1>1 DEF NoneButNew, Types
<1>5. ServerInv'
  BY <1>1, <1>2, <1>3, <1>4, TakingKeepsServerInv DEF DataTypes, Inv
<1>6. Held' = {}
  BY <1>1 DEF Held
<1>7. DataInv'
  <2> SUFFICES ASSUME NEW d \in MimeData
               PROVE  deletions'[d] = IF d \in handed' /\ d \notin Held' THEN 1 ELSE 0
    BY <1>6 DEF DataInv, MimeDataFreedOnce
  <2>1. deletions[d] = IF d \in handed /\ d \notin Held THEN 1 ELSE 0
    BY DEF Inv, DataInv, MimeDataFreedOnce
  <2>2. d \in Held => d \in handed
    BY DEF Inv, DataInv
  <2>3. QED
    BY <1>1, <1>6, <2>1, <2>2
<1>8. OwnerHasData'
  <2>1. ~Alive'
    BY <1>1 DEF Alive, Doing
  <2>2. QED
    BY <2>1 DEF OwnerHasData
<1>9. OwnTimesAreKnown'
  BY <1>1 DEF Inv, OwnTimesAreKnown
<1>10. QED
  BY <1>5, <1>7, <1>8, <1>9 DEF Inv

\* Time passes on the server.
LEMMA TickKeeps ==
  ASSUME Inv, Tick
  PROVE  Inv'
<1> USE InvTypes
<1>1. /\ now' = now + 1
      /\ UNCHANGED <<selectionOwner, lastChange, epoch, events, time, data, m_timestamp, doing>>
  BY DEF Tick
<1>2. Types'
  <2>1. lastChange' \in [Mode -> 0 .. now'] /\ m_timestamp' \in [Mode -> 0 .. now']
    BY <1>1
  <2>2. \A i \in DOMAIN events' : events'[i].time <= now'
    <3> TAKE i \in DOMAIN events'
    <3>1. events[i] \in Event /\ events[i].time <= now /\ events' = events
      BY <1>1 DEF Types
    <3>2. events[i].time \in Nat
      BY <3>1 DEF Event
    <3>3. QED
      BY <1>1, <3>1, <3>2
  <2>3. QED
    BY <1>1, <2>1, <2>2 DEF Types, data
<1>3. ClearsAreOld' /\ OwnershipHasTime'
  BY <1>1 DEF Inv, ServerInv, ClearsAreOld, OwnershipHasTime
<1>4. DataInv' /\ OwnerHasData' /\ OwnTimesAreKnown'
  BY <1>1 DEF Inv, DataInv, Held, MimeDataFreedOnce, data, OwnerHasData, Alive, OwnTimesAreKnown
<1>5. QED
  BY <1>2, <1>3, <1>4 DEF Inv, ServerInv

\* The rest of the application's steps touch neither the data nor the server.
LEMMA OthersKeep ==
  ASSUME Inv, UserInput \/ Close \/ \E m \in Mode : clear(m) \/ formats(m) \/ FormatsArrive(m)
  PROVE  Inv'
<1> USE InvTypes
<1>1. CASE UserInput
  <2>1. time' \in 0 .. now /\ time <= time'
    BY <1>1 DEF UserInput, setTime
  <2>2. doing' = doing /\ UNCHANGED <<server, events, data, m_timestamp>>
    BY <1>1 DEF UserInput
  <2>3. QED
    BY <2>1, <2>2, QuietStep DEF Alive
<1>2. CASE Close
  <2>1. doing' = [doing EXCEPT !.call = "saving"] \/ doing' = [doing EXCEPT !.call = "closing"]
    BY <1>2 DEF Close
  <2>2. doing.call = "none" /\ UNCHANGED <<server, events, time, data, m_timestamp>>
    BY <1>2, IdleMode DEF Close
  <2>3. doing' \in Doing /\ Alive
    BY <2>1, <2>2 DEF Doing, Alive
  <2>4. QED
    BY <2>2, <2>3, QuietStep
<1>3. ASSUME NEW m \in Mode, clear(m) \/ formats(m) \/ FormatsArrive(m)
      PROVE  Inv'
  <2>1. /\ doing' \in {[call |-> "clear", mode |-> m], [call |-> "formats", mode |-> m], Idle}
        /\ UNCHANGED <<server, events, time, data, m_timestamp>>
    BY <1>3 DEF clear, formats, FormatsArrive
  <2>2. doing' \in Doing
    BY <2>1, IdleMode DEF Doing
  <2>3. Alive
    BY <1>3, IdleMode DEF clear, formats, FormatsArrive, Alive
  <2>4. QED
    BY <2>1, <2>2, <2>3, QuietStep
<1>4. QED
  BY <1>1, <1>2, <1>3

-----------------------------------------------------------------------------
(* The invariant and what it says.                                          *)

LEMMA InitInv == Init => Inv
<1> SUFFICES ASSUME Init PROVE Inv
  OBVIOUS
<1>1. /\ selectionOwner = [m \in Mode |-> "none"] /\ lastChange = [m \in Mode |-> 0]
      /\ epoch = [m \in Mode |-> 0] /\ now = 1 /\ events = <<>> /\ time = 0
      /\ m_clientClipboard = [m \in Mode |-> NoData] /\ m_timestamp = [m \in Mode |-> 0]
      /\ doing = Idle /\ handed = {} /\ deletions = [d \in MimeData |-> 0]
  BY DEF Init, CurrentTime
<1>2. Types
  BY <1>1, IdleMode DEF Types
<1>3. ClearsAreOld /\ OwnershipHasTime /\ OwnerHasData /\ OwnTimesAreKnown
  BY <1>1 DEF ClearsAreOld, OwnershipHasTime, OwnerHasData, OwnTimesAreKnown
<1>4. Held = {}
  BY <1>1 DEF Held
<1>5. DataInv
  BY <1>1, <1>4 DEF DataInv, MimeDataFreedOnce
<1>6. QED
  BY <1>2, <1>3, <1>5 DEF Inv, ServerInv

LEMMA NextKeepsInv == Inv /\ [Next]_vars => Inv'
<1> SUFFICES ASSUME Inv, [Next]_vars PROVE Inv'
  OBVIOUS
<1> USE InvTypes
<1>1. ASSUME NEW m \in Mode, OtherTakes(m) \/ OtherGivesUp(m) PROVE Inv'
  <2>1. PICK t \in 1 .. now, o \in {"other", "none"} :
          Granted(m, t) /\ SetOwner(m, o, t)
    BY <1>1 DEF OtherTakes, OtherGivesUp
  <2>2. ForeignStep
    BY <1>1 DEF OtherTakes, OtherGivesUp
  <2>3. t \in 0 .. now /\ lastChange[m] <= t
    BY <2>1 DEF Granted
  <2>4. QED
    BY <2>1, <2>2, <2>3, ForeignKeeps
<1>2. ASSUME NEW m \in Mode, OtherCloses(m) PROVE Inv'
  <2>1. ForeignStep /\ SetOwner(m, "none", lastChange[m])
    BY <1>2 DEF OtherCloses
  <2>2. lastChange[m] \in 0 .. now /\ lastChange[m] <= lastChange[m]
    OBVIOUS
  <2>3. QED
    BY <2>1, <2>2, ForeignKeeps
<1>3. ASSUME NEW m \in Mode, ClearGoesOn(m) PROVE Inv'
  BY <1>3, ClearGoesOnKeeps
<1>4. ASSUME NEW m \in Mode, NEW d \in MimeData, setMimeData(d, m) PROVE Inv'
  BY <1>4, setMimeDataKeeps
<1>5. CASE Tick
  BY <1>5, TickKeeps
<1>6. CASE HandleEvent
  BY <1>6, HandleEventKeeps
<1>7. CASE ClearWhileWaiting
  BY <1>7, ClearWhileWaitingKeeps
<1>8. CASE Destroyed
  BY <1>8, DestroyedKeeps
<1>9. CASE UserInput \/ Close \/ \E m \in Mode : clear(m) \/ formats(m) \/ FormatsArrive(m)
  BY <1>9, OthersKeep
<1>10. CASE UNCHANGED vars
  <2>1. UNCHANGED <<server, events, time, data, m_timestamp, doing>>
    BY <1>10 DEF vars
  <2>2. QED
    BY <2>1, QuietStep DEF Alive
<1>11. QED
  BY <1>1, <1>2, <1>3, <1>4, <1>5, <1>6, <1>7, <1>8, <1>9, <1>10 DEF Next

LEMMA SpecKeepsInv == Spec => []Inv
BY InitInv, NextKeepsInv, PTL DEF Spec

\* Whenever the server sends us the requests for a selection, the application holds
\* the data for it, and the time of its ownership is the server's.
THEOREM OwnerServes == Spec => []OwnerHasData
<1>1. Inv => OwnerHasData
  BY DEF Inv
<1>2. QED
  BY <1>1, SpecKeepsInv, PTL

\* No QMimeData handed to setMimeData() is leaked or deleted twice, whichever modes
\* hold it and whoever takes the selections meanwhile.
THEOREM ObjectsFreedOnce == Spec => []MimeDataFreedOnce
<1>1. Inv => MimeDataFreedOnce
  BY DEF Inv, DataInv
<1>2. QED
  BY <1>1, SpecKeepsInv, PTL

-----------------------------------------------------------------------------
(* The cached formats.                                                      *)

\* An event on its way tells of the last change of owner, and that we do not own it.
Tells(e, m) ==
  e.type = "xfixes" /\ e.mode = m /\ e.owner # "us" /\ e.seen = lastChange[m]

Told(m) == \E i \in DOMAIN events : Tells(events[i], m)

\* Formats of an earlier owner are reset by an event to come, unless the present
\* owner took the selection in the time of our own ownership.
StaleIsTold(m) ==
  selectionOwner[m] = "other" /\ formatList[m] # NoFormats /\ formatList[m] # epoch[m]
    => Told(m) \/ lastChange[m] = m_timestamp[m]

FInv ==
  /\ formatList \in [Mode -> Nat]
  /\ \A m \in Mode : /\ m_timestamp[m] <= lastChange[m]
                     /\ selectionOwner[m] = "other" => lastChange[m] > 0
                     /\ StaleIsTold(m)

LEMMA AppendKeepsTold ==
  ASSUME events \in Seq(Event), NEW es \in Seq(Event), events' = events \o es,
         NEW m, lastChange'[m] = lastChange[m], Told(m)
  PROVE  Told(m)'
<1>1. PICK i \in DOMAIN events : Tells(events[i], m)
  BY DEF Told
<1>2. i \in DOMAIN events' /\ events'[i] = events[i]
  OBVIOUS
<1>3. QED
  BY <1>1, <1>2 DEF Told, Tells

LEMMA TailKeepsTold ==
  ASSUME events \in Seq(Event), events # <<>>, events' = Tail(events),
         NEW m, lastChange'[m] = lastChange[m], Told(m), ~Tells(Head(events), m)
  PROVE  Told(m)'
<1>1. PICK i \in DOMAIN events : Tells(events[i], m)
  BY DEF Told
<1>2. i # 1
  BY <1>1
<1>3. i - 1 \in DOMAIN events' /\ events'[i - 1] = events[i]
  BY <1>2
<1>4. QED
  BY <1>1, <1>3 DEF Told, Tells

LEMMA RemoveKeepsTold ==
  ASSUME events \in Seq(Event), NEW i \in DOMAIN events, events' = RemoveAt(events, i),
         NEW m, lastChange'[m] = lastChange[m], Told(m), ~Tells(events[i], m)
  PROVE  Told(m)'
<1>1. /\ events' \in Seq(Event) /\ Len(events') = Len(events) - 1 /\ Len(events) \in Nat
      /\ \A k \in 1 .. Len(events) - 1 : events'[k] = IF k < i THEN events[k] ELSE events[k + 1]
  BY RemovedEvents
<1>2. PICK j \in DOMAIN events : Tells(events[j], m)
  BY DEF Told
<1>3. j # i /\ i \in 1 .. Len(events) /\ j \in 1 .. Len(events)
  BY <1>2
<1>4. \E k \in DOMAIN events' : events'[k] = events[j]
  <2>1. CASE j < i
    <3>1. j \in 1 .. Len(events) - 1
      BY <1>1, <1>3, <2>1
    <3>2. events'[j] = events[j] /\ j \in DOMAIN events'
      BY <1>1, <2>1, <3>1
    <3>3. QED
      BY <3>2
  <2>2. CASE i < j
    <3>1. j - 1 \in 1 .. Len(events) - 1 /\ ~(j - 1 < i) /\ (j - 1) + 1 = j
      BY <1>1, <1>3, <2>2
    <3>2. events'[j - 1] = events[j] /\ j - 1 \in DOMAIN events'
      BY <1>1, <3>1
    <3>3. QED
      BY <3>2
  <2>3. QED
    BY <1>3, <2>1, <2>2
<1>5. QED
  BY <1>2, <1>4 DEF Told, Tells

\* A mode that the server and the application's time leave alone.
LEMMA ModeKeepsFormats ==
  ASSUME FInv, NEW m \in Mode,
         selectionOwner'[m] = selectionOwner[m], lastChange'[m] = lastChange[m],
         epoch'[m] = epoch[m], m_timestamp'[m] = m_timestamp[m],
         formatList'[m] \in {formatList[m], NoFormats, epoch[m]},
         Told(m) => Told(m)'
  PROVE  /\ m_timestamp'[m] <= lastChange'[m]
         /\ selectionOwner'[m] = "other" => lastChange'[m] > 0
         /\ StaleIsTold(m)'
BY DEF FInv, StaleIsTold

\* A change of owner tells of itself.
LEMMA SetOwnerKeepsFormats ==
  ASSUME Inv, FInv, NEW m \in Mode, NEW o \in {"us", "other", "none"}, NEW t \in 0 .. now,
         SetOwner(m, o, t), o = "other" => t > 0, formatList' = formatList,
         m_timestamp' \in [Mode -> Nat], m_timestamp'[m] <= t,
         \A n \in Mode : n # m => m_timestamp'[n] = m_timestamp[n]
  PROVE  FInv'
<1> USE InvTypes
<1>1. /\ selectionOwner' = [selectionOwner EXCEPT ![m] = o]
      /\ lastChange' = [lastChange EXCEPT ![m] = t]
      /\ epoch' = [epoch EXCEPT ![m] = @ + 1]
      /\ selectionOwner \in [Mode -> {"us", "other", "none"}] /\ epoch \in [Mode -> Nat]
      /\ events \in Seq(Event)
  BY DEF SetOwner, Types
<1> DEFINE x == XFixes(m, o, t)
           c == SelectionClear(m, t)
<1>2. x \in Event /\ c \in Event
  BY DEF XFixes, SelectionClear, Event, Types
<1>3. events' = events \o <<c>> \o <<x>> \/ events' = events \o <<>> \o <<x>>
  BY DEF SetOwner
<1>4. /\ x.type = "xfixes" /\ x.mode = m /\ x.owner = o /\ x.seen = t
  BY DEF XFixes
<1> HIDE DEF x, c
<1>5. \E es \in Seq(Event) : events' = events \o es
  <2>1. CASE events' = events \o <<c>> \o <<x>>
    <3>1. <<c>> \in Seq(Event) /\ <<x>> \in Seq(Event)
      BY <1>2
    <3>2. <<c>> \o <<x>> \in Seq(Event)
      BY <3>1
    <3>3. (events \o <<c>>) \o <<x>> = events \o (<<c>> \o <<x>>)
      BY <1>1, <3>1, ConcatAssociative
    <3>4. QED
      BY <2>1, <3>2, <3>3
  <2>2. CASE events' = events \o <<>> \o <<x>>
    <3>1. <<x>> \in Seq(Event) /\ events' = events \o <<x>>
      BY <1>1, <1>2, <2>2
    <3>2. QED
      BY <3>1
  <2>3. QED
    BY <1>3, <2>1, <2>2
<1>6. Len(events') \in DOMAIN events' /\ events'[Len(events')] = x
  BY <1>1, <1>2, <1>3
<1>7. ASSUME NEW n \in Mode
      PROVE  /\ m_timestamp'[n] <= lastChange'[n]
             /\ selectionOwner'[n] = "other" => lastChange'[n] > 0
             /\ StaleIsTold(n)'
  <2>1. CASE n = m
    <3>1. lastChange'[m] = t /\ selectionOwner'[m] = o
      BY <1>1
    <3>2. o = "other" => Told(m)'
      BY <1>4, <1>6, <3>1 DEF Told, Tells
    <3>3. QED
      BY <2>1, <3>1, <3>2 DEF StaleIsTold
  <2>2. CASE n # m
    <3>1. /\ selectionOwner'[n] = selectionOwner[n] /\ lastChange'[n] = lastChange[n]
          /\ epoch'[n] = epoch[n] /\ m_timestamp'[n] = m_timestamp[n]
          /\ formatList'[n] = formatList[n]
      BY <1>1, <2>2
    <3>2. Told(n) => Told(n)'
      BY <1>1, <1>5, <3>1, AppendKeepsTold
    <3>3. QED
      BY <3>1, <3>2, ModeKeepsFormats
  <2>3. QED
    BY <2>1, <2>2
<1>8. QED
  BY <1>7 DEF FInv

\* A step that the server and the ownership are not touched by.
LEMMA QuietKeepsFormats ==
  ASSUME Inv, FInv, UNCHANGED <<selectionOwner, lastChange, epoch, events, m_timestamp>>,
         formatList' \in [Mode -> Nat],
         \A m \in Mode : formatList'[m] \in {formatList[m], NoFormats, epoch[m]}
  PROVE  FInv'
<1>1. ASSUME NEW m \in Mode
      PROVE  /\ m_timestamp'[m] <= lastChange'[m]
             /\ selectionOwner'[m] = "other" => lastChange'[m] > 0
             /\ StaleIsTold(m)'
  <2>1. Told(m) => Told(m)'
    BY DEF Told, Tells
  <2>2. QED
    BY <2>1, ModeKeepsFormats
<1>2. QED
  BY <1>1 DEF FInv

\* A request to own that the server refuses: another owner is newer, and we are told.
LEMMA RefusedKeepsFormats ==
  ASSUME Inv, FInv, NEW m \in Mode, NEW t \in 0 .. now, t = (IF time = CurrentTime THEN now ELSE time),
         ~Granted(m, t), UNCHANGED <<server, events, formatList>>,
         NEW u \in {t, CurrentTime}, m_timestamp' = [m_timestamp EXCEPT ![m] = u]
  PROVE  FInv'
<1> USE InvTypes
<1>1. UNCHANGED <<selectionOwner, lastChange, epoch>>
  BY DEF server
<1>2. t < lastChange[m] /\ m_timestamp[m] < lastChange[m]
  <2>1. m_timestamp[m] <= time /\ m_timestamp[m] \in 0 .. now /\ lastChange[m] \in 0 .. now
    BY DEF Inv, OwnTimesAreKnown
  <2>2. t < lastChange[m]
    BY <2>1 DEF Granted
  <2>3. time <= t
    OBVIOUS
  <2>4. QED
    BY <2>1, <2>2, <2>3
<1>3. m_timestamp'[m] = u /\ u <= t /\ \A n \in Mode : n # m => m_timestamp'[n] = m_timestamp[n]
  BY DEF CurrentTime
<1>4. \A n \in Mode : Told(n) => Told(n)'
  BY <1>1 DEF Told, Tells
<1>5. ASSUME NEW n \in Mode
      PROVE  /\ m_timestamp'[n] <= lastChange'[n]
             /\ selectionOwner'[n] = "other" => lastChange'[n] > 0
             /\ StaleIsTold(n)'
  <2>1. CASE n = m
    <3>1. m_timestamp'[m] <= lastChange'[m]
      BY <1>1, <1>2, <1>3
    <3>2. selectionOwner'[m] = "other" => lastChange'[m] > 0
      BY <1>1 DEF FInv
    <3>3. StaleIsTold(m)'
      BY <1>1, <1>2, <1>4 DEF FInv, StaleIsTold
    <3>4. QED
      BY <2>1, <3>1, <3>2, <3>3
  <2>2. CASE n # m
    <3>1. m_timestamp'[n] = m_timestamp[n]
      BY <1>3, <2>2
    <3>2. QED
      BY <1>1, <1>4, <3>1, ModeKeepsFormats
  <2>3. QED
    BY <2>1, <2>2
<1>6. formatList' \in [Mode -> Nat]
  BY DEF FInv
<1>7. QED
  BY <1>5, <1>6 DEF FInv

\* A SelectionClear that is believed is not of an owner of our own time.
LEMMA ClearKeepsFormats ==
  ASSUME Inv, FInv, NEW i \in DOMAIN events, events[i].type = "clear",
         handleSelectionClearRequest(events[i]), UNCHANGED server,
         \A m \in Mode : Told(m) => Told(m)'
  PROVE  FInv'
<1> USE InvTypes
<1> DEFINE e == events[i]
<1>1. UNCHANGED <<selectionOwner, lastChange, epoch, formatList>>
  BY DEF server, handleSelectionClearRequest
<1>2. e.mode \in Mode /\ e.time \in Nat /\ e.time <= lastChange[e.mode]
  <2>1. e \in Event /\ e.time <= lastChange[e.mode]
    BY DEF Types, Inv, ServerInv, ClearsAreOld
  <2>2. QED
    BY <2>1 DEF Event
<1>3. \/ m_timestamp' = m_timestamp
      \/ ~TooOld(e) /\ m_timestamp' = [m_timestamp EXCEPT ![e.mode] = CurrentTime]
  BY DEF handleSelectionClearRequest
<1> HIDE DEF e
<1>4. CASE m_timestamp' = m_timestamp
  <2>1. ASSUME NEW m \in Mode
        PROVE  /\ m_timestamp'[m] <= lastChange'[m]
               /\ selectionOwner'[m] = "other" => lastChange'[m] > 0
               /\ StaleIsTold(m)'
    BY <1>1, <1>4, ModeKeepsFormats
  <2>2. QED
    BY <1>1, <2>1 DEF FInv
<1>5. CASE ~TooOld(e) /\ m_timestamp' = [m_timestamp EXCEPT ![e.mode] = CurrentTime]
  <2>1. ASSUME NEW m \in Mode
        PROVE  /\ m_timestamp'[m] <= lastChange'[m]
               /\ selectionOwner'[m] = "other" => lastChange'[m] > 0
               /\ StaleIsTold(m)'
    <3>1. CASE m = e.mode
      <4>1. m_timestamp'[m] = 0 /\ lastChange[m] \in 0 .. now
        BY <1>5, <3>1 DEF CurrentTime
      <4>2. m_timestamp[m] = 0 \/ m_timestamp[m] < e.time
        BY <1>2, <1>5, <3>1 DEF TooOld, CurrentTime
      <4>3. selectionOwner[m] = "other" => lastChange[m] # m_timestamp[m] /\ lastChange[m] > 0
        BY <1>2, <3>1, <4>1, <4>2 DEF FInv
      <4>4. StaleIsTold(m)'
        BY <1>1, <4>3 DEF FInv, StaleIsTold
      <4>5. QED
        BY <1>1, <4>1, <4>3, <4>4
    <3>2. CASE m # e.mode
      <4>1. m_timestamp'[m] = m_timestamp[m]
        BY <1>5, <3>2
      <4>2. QED
        BY <1>1, <4>1, ModeKeepsFormats
    <3>3. QED
      BY <3>1, <3>2
  <2>2. QED
    BY <1>1, <2>1 DEF FInv
<1>6. QED
  BY <1>3, <1>4, <1>5

LEMMA HandleEventKeepsFormats ==
  ASSUME Inv, FInv, HandleEvent
  PROVE  FInv'
<1> USE InvTypes
<1> DEFINE e == Head(events)
<1>1. events # <<>> /\ events' = Tail(events) /\ UNCHANGED server /\ events \in Seq(Event)
  BY DEF HandleEvent, Types
<1>2. UNCHANGED <<selectionOwner, lastChange, epoch>>
  BY <1>1 DEF server
<1>3. 1 \in DOMAIN events /\ e = events[1] /\ e \in Event
  BY <1>1
<1>4. \A m \in Mode : Told(m) /\ ~Tells(e, m) => Told(m)'
  BY <1>1, <1>2, TailKeepsTold
<1>5. \/ e.type = "clear" /\ handleSelectionClearRequest(e)
      \/ e.type = "xfixes" /\ handleXFixesSelectionRequest(e)
  BY DEF HandleEvent
<1> HIDE DEF e
<1>6. CASE e.type = "clear" /\ handleSelectionClearRequest(e)
  <2>1. \A m \in Mode : Told(m) => Told(m)'
    BY <1>4, <1>6 DEF Tells
  <2>2. QED
    BY <1>1, <1>3, <1>6, <2>1, ClearKeepsFormats
<1>7. CASE e.type = "xfixes" /\ handleXFixesSelectionRequest(e)
  <2>1. /\ m_timestamp' = m_timestamp
        /\ formatList' = IF FormatsReset(e) THEN [formatList EXCEPT ![e.mode] = NoFormats]
                                            ELSE formatList
    BY <1>7 DEF handleXFixesSelectionRequest
  <2>2. /\ formatList' \in [Mode -> Nat]
        /\ \A m \in Mode : formatList'[m] \in {formatList[m], NoFormats}
    BY <2>1 DEF FInv, NoFormats
  <2>3. ASSUME NEW m \in Mode
        PROVE  /\ m_timestamp'[m] <= lastChange'[m]
               /\ selectionOwner'[m] = "other" => lastChange'[m] > 0
               /\ StaleIsTold(m)'
    <3>1. CASE ~Tells(e, m)
      BY <1>2, <1>4, <2>1, <2>2, <3>1, ModeKeepsFormats
    <3>2. CASE Tells(e, m)
      <4>1. m_timestamp'[m] <= lastChange'[m] /\ (selectionOwner'[m] = "other" => lastChange'[m] > 0)
        BY <1>2, <2>1 DEF FInv
      <4>2. StaleIsTold(m)'
        <5>1. CASE FormatsReset(e)
          <6>1. formatList'[m] = NoFormats
            BY <2>1, <3>2, <5>1 DEF Tells, FInv
          <6>2. QED
            BY <6>1 DEF StaleIsTold
        <5>2. CASE ~FormatsReset(e)
          <6>1. e.mode = m /\ e.seen = lastChange[m] /\ ~(e.seen > m_timestamp[m])
            BY <3>2, <5>2 DEF Tells, FormatsReset
          <6>2. m_timestamp[m] <= lastChange[m] /\ lastChange[m] \in 0 .. now /\ m_timestamp[m] \in 0 .. now
            BY DEF FInv
          <6>3. m_timestamp[m] = lastChange[m]
            BY <6>1, <6>2
          <6>4. QED
            BY <1>2, <2>1, <6>3 DEF StaleIsTold
        <5>3. QED
          BY <5>1, <5>2
      <4>3. QED
        BY <4>1, <4>2
    <3>3. QED
      BY <3>1, <3>2
  <2>4. QED
    BY <2>2, <2>3 DEF FInv
<1>8. QED
  BY <1>5, <1>6, <1>7

LEMMA NextKeepsFormats ==
  ASSUME Inv, FInv, [Next]_vars
  PROVE  FInv'
<1> USE InvTypes
<1>1. /\ m_timestamp \in [Mode -> Nat] /\ formatList \in [Mode -> Nat] /\ epoch \in [Mode -> Nat]
      /\ \A m \in Mode : m_timestamp[m] <= lastChange[m] /\ lastChange[m] \in 0 .. now
  BY DEF FInv, Types
<1>2. ASSUME NEW m \in Mode, NEW o \in {"other", "none"}, NEW t \in 0 .. now,
             lastChange[m] <= t, o = "other" => t > 0, ForeignStep, SetOwner(m, o, t)
      PROVE  FInv'
  <2>1. UNCHANGED <<m_timestamp, formatList>>
    BY <1>2 DEF ForeignStep
  <2>2. m_timestamp' \in [Mode -> Nat] /\ m_timestamp'[m] <= t
    BY <1>1, <1>2, <2>1
  <2>3. QED
    BY <1>2, <2>1, <2>2, SetOwnerKeepsFormats
<1>3. ASSUME NEW m \in Mode, OtherTakes(m) \/ OtherGivesUp(m) PROVE FInv'
  <2>1. PICK t \in 1 .. now : Granted(m, t) /\ (SetOwner(m, "other", t) \/ SetOwner(m, "none", t))
    BY <1>3 DEF OtherTakes, OtherGivesUp
  <2>2. t \in 0 .. now /\ t > 0 /\ lastChange[m] <= t /\ ForeignStep
    BY <1>3, <2>1 DEF Granted, OtherTakes, OtherGivesUp
  <2>3. QED
    BY <1>2, <2>1, <2>2
<1>4. ASSUME NEW m \in Mode, OtherCloses(m) PROVE FInv'
  BY <1>1, <1>2, <1>4 DEF OtherCloses
<1>5. ASSUME NEW m \in Mode, NEW t \in 0 .. now, NEW u \in {t, CurrentTime}, NEW o \in {"us", "none"},
             t = (IF time = CurrentTime THEN now ELSE time),
             IF Granted(m, t) THEN SetOwner(m, o, t) ELSE UNCHANGED <<server, events>>,
             m_timestamp' = [m_timestamp EXCEPT ![m] = u], formatList' = formatList
      PROVE  FInv'
  <2>1. CASE Granted(m, t)
    <3>1. /\ m_timestamp' \in [Mode -> Nat] /\ m_timestamp'[m] <= t
          /\ \A n \in Mode : n # m => m_timestamp'[n] = m_timestamp[n]
      BY <1>1, <1>5 DEF CurrentTime
    <3>2. SetOwner(m, o, t)
      BY <1>5, <2>1
    <3>3. QED
      BY <1>5, <3>1, <3>2, SetOwnerKeepsFormats
  <2>2. CASE ~Granted(m, t)
    BY <1>5, <2>2, RefusedKeepsFormats
  <2>3. QED
    BY <2>1, <2>2
<1>6. (IF time = CurrentTime THEN now ELSE time) \in 0 .. now
  OBVIOUS
<1>7. ASSUME NEW m \in Mode, NEW d \in MimeData, setMimeData(d, m) PROVE FInv'
  BY <1>5, <1>6, <1>7 DEF setMimeData
<1>8. ASSUME NEW m \in Mode, ClearGoesOn(m) PROVE FInv'
  BY <1>5, <1>6, <1>8 DEF ClearGoesOn
<1>9. CASE HandleEvent
  BY <1>9, HandleEventKeepsFormats
<1>10. CASE ClearWhileWaiting
  <2>1. PICK i \in DOMAIN events :
          events[i].type = "clear" /\ handleSelectionClearRequest(events[i]) /\ events' = RemoveAt(events, i)
    BY <1>10 DEF ClearWhileWaiting
  <2>2. UNCHANGED server /\ UNCHANGED lastChange
    BY <1>10 DEF ClearWhileWaiting, server
  <2>3. \A m \in Mode : Told(m) => Told(m)'
    BY <2>1, <2>2, RemoveKeepsTold DEF Types, Tells
  <2>4. QED
    BY <2>1, <2>2, <2>3, ClearKeepsFormats
<1>11. ASSUME NEW m \in Mode, FormatsArrive(m) PROVE FInv'
  <2>1. UNCHANGED <<selectionOwner, lastChange, epoch, events, m_timestamp>>
    BY <1>11 DEF FormatsArrive, server
  <2>2. /\ formatList' \in [Mode -> Nat]
        /\ \A n \in Mode : formatList'[n] \in {formatList[n], NoFormats, epoch[n]}
    BY <1>1, <1>11 DEF FormatsArrive
  <2>3. QED
    BY <2>1, <2>2, QuietKeepsFormats
<1>12. CASE \/ Tick \/ UserInput \/ Close \/ Destroyed \/ UNCHANGED vars
            \/ \E m \in Mode : clear(m) \/ formats(m)
  <2>1. UNCHANGED <<selectionOwner, lastChange, epoch, events, m_timestamp, formatList>>
    BY <1>12 DEF Tick, UserInput, Close, Destroyed, clear, formats, vars, server
  <2>2. QED
    BY <1>1, <2>1, QuietKeepsFormats
<1>13. QED
  BY <1>3, <1>4, <1>7, <1>8, <1>9, <1>10, <1>11, <1>12 DEF Next

\* Once its notifications are handled, a selection's cached formats are those of its
\* present owner: setMimeData() and clear() refused by the server, notifications that
\* are ignored as older than our ownership, and a SelectionClear served in the middle
\* of a wait do not keep an earlier owner's.
THEOREM CachedFormatsAreCurrent == Spec => []FormatsAreCurrent
<1>1. Init => FInv
  BY DEF Init, FInv, StaleIsTold, NoFormats, CurrentTime
<1>2. FInv /\ Inv /\ [Next]_vars => FInv'
  BY NextKeepsFormats
<1>3. FInv => FormatsAreCurrent
  <2> SUFFICES ASSUME FInv, NEW m \in Mode, ~Pending(m), StaleIsTold(m)
               PROVE  selectionOwner[m] = "other" /\ formatList[m] # NoFormats =>
                        formatList[m] = epoch[m] \/ lastChange[m] = m_timestamp[m]
    BY DEF FInv, FormatsAreCurrent
  <2>1. ~Told(m)
    BY DEF Told, Tells, Pending
  <2>2. QED
    BY <2>1 DEF StaleIsTold
<1>4. QED
  BY <1>1, <1>2, <1>3, SpecKeepsInv, PTL DEF Spec
=============================================================================
