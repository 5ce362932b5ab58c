------------------------------ MODULE FrameSync ------------------------------
(***************************************************************************)
(* The frames of one top-level window: how QXcbWindow turns the server's   *)
(* Expose, ConfigureNotify, MapNotify and UnmapNotify events and the       *)
(* window manager's _NET_WM_SYNC_REQUEST messages into window system       *)
(* events, what the application paints on them, and when the sync counter  *)
(* tells the window manager that a frame of the new size is there.         *)
(*                                                                         *)
(* Three queues lie between a change of the window and the frame that      *)
(* answers it: the wire (sent by the server, not yet published by the      *)
(* reader), the event queue, and Qt's own queue of window system events.   *)
(* Expose events overtake the others when one of them is handled, and a    *)
(* ConfigureNotify is dropped when a later one is buffered.                *)
(*                                                                         *)
(* A window has one row of pixels, 1 .. size: a resize adds and removes    *)
(* them at the end, as the window's north-west bit gravity does.           *)
(***************************************************************************)
EXTENDS Integers, Sequences, FiniteSets

CONSTANTS MaxSize,      \* the largest size of the window
          MaxChanges,   \* bound: requests and changes of window manager, server and show()/hide()
          MaxQueue      \* bound: events on the wire and in the event queue

ASSUME FrameAssumption == MaxSize \in Nat \ {0} /\ MaxChanges \in Nat /\ MaxQueue \in Nat

VARIABLES server,       \* the window at the server
          wm,           \* the window manager
          wire,         \* events sent and not yet read by the reader thread
          queue,        \* the event queue of the connection
          window,       \* the fields of QXcbWindow
          wsi,          \* Qt's queue of window system events
          app,          \* the QWindow and what its application has still to paint
          configured    \* the newest request whose ConfigureNotify was handled (history)

vars == <<server, wm, wire, queue, window, wsi, app, configured>>

Pixels(n) == 1 .. n

Sync(v)         == [type |-> "Sync", value |-> v]
Configure(s, v) == [type |-> "Configure", size |-> s, value |-> v]
Expose(A, n)    == [type |-> "Expose", region |-> A, count |-> n]
Notify(t)       == [type |-> t]
Geometry(s)     == [type |-> "Geometry", size |-> s]
Exposure(A, on) == [type |-> "Exposure", region |-> A, exposed |-> on]

\* the one enumeration of a finite set of numbers in ascending order
Ascending(S) ==
    {f \in [1 .. Cardinality(S) -> S] : \A i, j \in 1 .. Cardinality(S) : i < j => f[i] < f[j]}

Events(t, q)  == {i \in 1 .. Len(q) : q[i].type = t}
Regions(t, q) == UNION {q[i].region : i \in Events(t, q)}

Init == /\ server = [size |-> 1, mapped |-> FALSE, damaged |-> {}, counter |-> 0, frame |-> 0]
        /\ wm = [value |-> 0, configuring |-> FALSE, changes |-> 0]
        /\ wire = <<>>
        /\ queue = <<>>
        /\ window = [m_syncState |-> "NoSyncNeeded", m_syncValue |-> 0, m_mapped |-> FALSE,
                     m_exposeRegion |-> {}, m_oldWindowSize |-> 0, geometry |-> 1]
        /\ wsi = <<>>
        /\ app = [size |-> 1, exposed |-> FALSE, dirty |-> {}]
        /\ configured = 0

-----------------------------------------------------------------------------
(* The server and the window manager.  A request says which value the      *)
(* counter must be given, and the configuration it is about follows.       *)

Send(es) == /\ Len(wire) + Len(queue) + Len(es) <= MaxQueue
            /\ wire' = wire \o es

Counted == wm.changes < MaxChanges

\* The exposed area as a group of events, one per rectangle, counted down to zero.
Exposed(A) ==
    {[i \in 1 .. Cardinality(A) |-> Expose({f[i]}, Cardinality(A) - i)] : f \in Ascending(A)}

SyncRequest ==
    /\ Counted /\ server.mapped /\ ~wm.configuring
    /\ wm' = [value |-> wm.value + 1, configuring |-> TRUE, changes |-> wm.changes + 1]
    /\ Send(<<Sync(wm.value + 1)>>)
    /\ UNCHANGED <<server, queue, window, wsi, app, configured>>

ConfigureWindow(s) ==
    LET new == IF server.mapped THEN Pixels(s) \ Pixels(server.size) ELSE {}
    IN  /\ s # server.size
        /\ wm.configuring \/ Counted
        /\ wm' = [wm EXCEPT !.configuring = FALSE,
                            !.changes = IF wm.configuring THEN @ ELSE @ + 1]
        /\ server' = [server EXCEPT !.size = s, !.damaged = (@ \cap Pixels(s)) \cup new]
        /\ \E group \in Exposed(new) : Send(<<Configure(s, wm.value)>> \o group)
        /\ UNCHANGED <<queue, window, wsi, app, configured>>

Uncover(A) ==
    /\ Counted /\ server.mapped /\ A # {}
    /\ wm' = [wm EXCEPT !.changes = @ + 1]
    /\ server' = [server EXCEPT !.damaged = @ \cup A]
    /\ \E group \in Exposed(A) : Send(group)
    /\ UNCHANGED <<queue, window, wsi, app, configured>>

MapWindow ==
    /\ Counted /\ ~server.mapped
    /\ wm' = [wm EXCEPT !.changes = @ + 1]
    /\ server' = [server EXCEPT !.mapped = TRUE, !.damaged = Pixels(server.size)]
    /\ \E group \in Exposed(Pixels(server.size)) : Send(<<Notify("Map")>> \o group)

UnmapWindow ==
    /\ Counted
    /\ wm' = [wm EXCEPT !.changes = @ + 1]
    /\ server' = [server EXCEPT !.mapped = FALSE, !.damaged = {}]
    /\ Send(IF server.mapped THEN <<Notify("Unmap")>> ELSE <<>>)

\* The window manager iconifies the window and shows it again.
Iconify   == server.mapped /\ UnmapWindow /\ UNCHANGED <<queue, window, wsi, app, configured>>
Deiconify == MapWindow /\ UNCHANGED <<queue, window, wsi, app, configured>>

Publish == /\ wire # <<>>
           /\ queue' = Append(queue, Head(wire))
           /\ wire' = Tail(wire)
           /\ UNCHANGED <<server, wm, window, wsi, app, configured>>

-----------------------------------------------------------------------------
(* QXcbWindow: what the application asks for, and the handlers.            *)

show == MapWindow /\ UNCHANGED <<queue, window, wsi, app, configured>>

hide == /\ UnmapWindow
        /\ window' = [window EXCEPT !.m_mapped = FALSE]
        /\ UNCHANGED <<queue, wsi, app, configured>>

\* QPlatformWindow events carry what isExposed() says when they are sent.
SendExposure(A, on) == wsi' = Append(wsi, Exposure(A, on))

\* the events of q that the peek leaves, in their order
Others(q) ==
    {[i \in DOMAIN f |-> q[f[i]]] : f \in Ascending({i \in 1 .. Len(q) : q[i].type # "Expose"})}

\* mutant of handleExposeEvent: what the peek removes is not added
handleExposeEvent_Drops(e, rest) ==
    LET peeked == Events("Expose", rest)
        ends   == \E i \in peeked : rest[i].count = 0
    IN  /\ queue' \in Others(rest)
        /\ IF e.count = 0 \/ ends
           THEN /\ SendExposure(window.m_exposeRegion \cup e.region, window.m_mapped)
                /\ window' = [window EXCEPT !.m_exposeRegion = {}]
           ELSE /\ window' = [window EXCEPT !.m_exposeRegion = @ \cup e.region]
                /\ UNCHANGED wsi
        /\ UNCHANGED configured

\* mutant of handleExposeEvent: the count of a removed event is not looked at
handleExposeEvent_Waits(e, rest) ==
    LET region == window.m_exposeRegion \cup e.region \cup Regions("Expose", rest)
    IN  /\ queue' \in Others(rest)
        /\ IF e.count = 0
           THEN /\ SendExposure(region, window.m_mapped)
                /\ window' = [window EXCEPT !.m_exposeRegion = {}]
           ELSE /\ window' = [window EXCEPT !.m_exposeRegion = region]
                /\ UNCHANGED wsi
        /\ UNCHANGED configured

handleExposeEvent(e, rest) ==
    LET peeked == Events("Expose", rest)
        ends   == \E i \in peeked : rest[i].count = 0
        region == window.m_exposeRegion \cup e.region \cup Regions("Expose", rest)
    IN  /\ queue' \in Others(rest)
        /\ IF e.count = 0 \/ ends
           THEN /\ SendExposure(region, window.m_mapped)
                /\ window' = [window EXCEPT !.m_exposeRegion = {}]
           ELSE /\ window' = [window EXCEPT !.m_exposeRegion = region]
                /\ UNCHANGED wsi
        /\ UNCHANGED configured

\* mutant of handleClientMessageEvent: a state that has gone on is not reset
handleClientMessageEvent_KeepsState(e, rest) ==
    /\ window' = [window EXCEPT !.m_syncValue = e.value,
                    !.m_syncState = IF @ = "NoSyncNeeded" THEN "SyncReceived" ELSE @]
    /\ queue' = rest
    /\ UNCHANGED <<wsi, configured>>

handleClientMessageEvent(e, rest) ==
    /\ window' = [window EXCEPT !.m_syncValue = e.value, !.m_syncState = "SyncReceived"]
    /\ queue' = rest
    /\ UNCHANGED <<wsi, configured>>

compressEvent(e, rest) == e.type = "Configure" /\ Events("Configure", rest) # {}

\* there is a screen for the new geometry, without which it would return at once
handleConfigureNotifyEvent(e, rest) ==
    /\ wsi' = wsi \o <<Geometry(e.size)>>
                  \o (IF window.m_oldWindowSize # 0 /\ e.size < window.m_oldWindowSize
                      THEN <<Exposure(Pixels(e.size), window.m_mapped)>> ELSE <<>>)
    /\ window' = [window EXCEPT !.m_oldWindowSize = e.size, !.geometry = e.size,
                    !.m_syncState = IF @ = "SyncReceived" THEN "SyncAndConfigureReceived" ELSE @]
    /\ configured' = e.value
    /\ queue' = rest

handleMapNotifyEvent(rest) ==
    /\ window' = [window EXCEPT !.m_mapped = TRUE]
    /\ SendExposure(Pixels(window.geometry), TRUE)
    /\ queue' = rest
    /\ UNCHANGED configured

handleUnmapNotifyEvent(rest) ==
    /\ window' = [window EXCEPT !.m_mapped = FALSE]
    /\ SendExposure({}, FALSE)
    /\ queue' = rest
    /\ UNCHANGED configured

\* One turn of processXcbEvents().
processXcbEvents ==
    /\ queue # <<>>
    /\ LET e    == Head(queue)
           rest == Tail(queue)
       IN  \/ /\ compressEvent(e, rest)
              /\ queue' = rest
              /\ UNCHANGED <<window, wsi, configured>>
           \/ e.type = "Configure" /\ ~compressEvent(e, rest) /\ handleConfigureNotifyEvent(e, rest)
           \/ e.type = "Expose" /\ handleExposeEvent(e, rest)
           \/ e.type = "Sync"   /\ handleClientMessageEvent(e, rest)
           \/ e.type = "Map"    /\ handleMapNotifyEvent(rest)
           \/ e.type = "Unmap"  /\ handleUnmapNotifyEvent(rest)
    /\ UNCHANGED <<server, wm, wire, app>>

-----------------------------------------------------------------------------
(* The application: it repaints what is exposed, and all of its window     *)
(* when it has been resized.                                               *)

Deliver ==
    /\ wsi # <<>>
    /\ wsi' = Tail(wsi)
    /\ LET e == Head(wsi)
       IN  \/ /\ e.type = "Geometry"
              /\ app' = [app EXCEPT !.size = e.size,
                                    !.dirty = IF e.size = app.size THEN @ ELSE Pixels(e.size)]
           \/ /\ e.type = "Exposure"
              /\ app' = [app EXCEPT !.exposed = e.exposed, !.dirty = @ \cup e.region]
    /\ UNCHANGED <<server, wm, wire, queue, window, configured>>

needsSync == window.m_syncState = "SyncAndConfigureReceived"

\* updateSyncRequestCounter() does something: the window manager waits, for a value.
Answers == needsSync /\ window.m_syncValue # 0

\* mutant of flush: the value is reset, the state is not
flush_KeepsState(region) ==
    LET clipped == region \cap Pixels(app.size)
    IN  IF clipped = {} THEN UNCHANGED <<server, window>>
        ELSE /\ server' = [server EXCEPT !.damaged = @ \ clipped, !.frame = app.size,
                                         !.counter = IF Answers THEN window.m_syncValue ELSE @]
             /\ window' = IF Answers THEN [window EXCEPT !.m_syncValue = 0] ELSE window

\* QXcbBackingStore::flush(): what lies outside the QWindow is clipped, and a
\* flush of nothing does not reach the counter.
flush(region) ==
    LET clipped == region \cap Pixels(app.size)
    IN  IF clipped = {} THEN UNCHANGED <<server, window>>
        ELSE /\ server' = [server EXCEPT !.damaged = @ \ clipped, !.frame = app.size,
                                         !.counter = IF Answers THEN window.m_syncValue ELSE @]
             /\ window' = IF Answers THEN [window EXCEPT !.m_syncValue = 0, !.m_syncState = "NoSyncNeeded"]
                          ELSE window

Paint == /\ app.exposed /\ app.dirty # {}
         /\ flush(app.dirty)
         /\ app' = [app EXCEPT !.dirty = {}]
         /\ UNCHANGED <<wm, wire, queue, wsi, configured>>

-----------------------------------------------------------------------------
Next == \/ SyncRequest
        \/ \E s \in 1 .. MaxSize : ConfigureWindow(s)
        \/ \E A \in SUBSET Pixels(server.size) : Uncover(A)
        \/ Iconify
        \/ Deiconify
        \/ show
        \/ hide
        \/ Publish
        \/ processXcbEvents
        \/ Deliver
        \/ Paint

\* The threads run, and an application paints what it is asked to paint.
Fairness == WF_vars(Publish) /\ WF_vars(processXcbEvents) /\ WF_vars(Deliver) /\ WF_vars(Paint)

Spec == Init /\ [][Next]_vars /\ Fairness

-----------------------------------------------------------------------------
Message ==
    [type : {"Sync"}, value : 1 .. MaxChanges]
    \cup [type : {"Configure"}, size : 1 .. MaxSize, value : 0 .. MaxChanges]
    \cup [type : {"Expose"}, region : SUBSET Pixels(MaxSize), count : 0 .. MaxSize]
    \cup [type : {"Map", "Unmap"}]

WindowSystemEvent ==
    [type : {"Geometry"}, size : 1 .. MaxSize]
    \cup [type : {"Exposure"}, region : SUBSET Pixels(MaxSize), exposed : BOOLEAN]

TypeOK ==
    /\ server \in [size : 1 .. MaxSize, mapped : BOOLEAN, damaged : SUBSET Pixels(MaxSize),
                   counter : 0 .. MaxChanges, frame : 0 .. MaxSize]
    /\ wm \in [value : 0 .. MaxChanges, configuring : BOOLEAN, changes : 0 .. MaxChanges]
    /\ wire \in Seq(Message) /\ queue \in Seq(Message)
    /\ window \in [m_syncState : {"NoSyncNeeded", "SyncReceived", "SyncAndConfigureReceived"},
                   m_syncValue : 0 .. MaxChanges, m_mapped : BOOLEAN,
                   m_exposeRegion : SUBSET Pixels(MaxSize), m_oldWindowSize : 0 .. MaxSize,
                   geometry : 1 .. MaxSize]
    /\ wsi \in Seq(WindowSystemEvent)
    /\ app \in [size : 1 .. MaxSize, exposed : BOOLEAN, dirty : SUBSET Pixels(MaxSize)]
    /\ configured \in 0 .. MaxChanges

\* The window will get another size before it rests, and is then painted whole.
ToBeResized ==
    LET sizes(t, q) == {q[i].size : i \in Events(t, q)}
    IN  ~(sizes("Configure", wire) \cup sizes("Configure", queue) \cup sizes("Geometry", wsi)
              \subseteq {app.size})

\* Every pixel the server has lost is still known of: an Expose event on its
\* way, the accumulated region, a window system event, or the application's
\* own list holds it, or a resize to come repaints everything.
\* And what is accumulated waits for the last event of its group, which comes.
DamageIsKept ==
    /\ server.mapped =>
          \/ server.damaged \subseteq Regions("Expose", wire) \cup Regions("Expose", queue)
                   \cup window.m_exposeRegion \cup Regions("Exposure", wsi) \cup app.dirty
          \/ ToBeResized
    /\ window.m_exposeRegion # {} =>
          \E q \in {wire, queue} : \E i \in Events("Expose", q) : q[i].count = 0

\* When everything has been handled, window and QWindow agree, and the frame
\* shown is whole and of the window's size.
RestIsCurrent ==
    wire = <<>> /\ queue = <<>> /\ wsi = <<>> =>
        /\ app.size = server.size
        /\ window.m_mapped = server.mapped /\ app.exposed = server.mapped
        /\ server.mapped /\ app.dirty = {} => server.damaged = {} /\ server.frame = server.size

\* The counter announces only what was asked for, in that order, and no
\* request before its ConfigureNotify was handled.
CounterIsHonest ==
    [][server'.counter # server.counter =>
            server'.counter > server.counter /\ server'.counter <= configured]_vars

\* A request whose new size has not been painted yet is answered or followed
\* by another one, unless the window is hidden first.
RequestIsAnswered ==
    (needsSync /\ server.frame # window.geometry) ~> (~needsSync \/ ~server.mapped)
=============================================================================
