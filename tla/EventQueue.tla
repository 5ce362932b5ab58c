----------------------------- MODULE EventQueue -----------------------------
(***************************************************************************)
(* QXcbEventQueue: the singly linked list that hands X events from the      *)
(* reader thread (run()) to the main thread, the pool of list nodes the two *)
(* threads recycle through atomic counters, the mutex and condition of      *)
(* waitForNewEvents(), the wake-up of the event dispatcher, and the         *)
(* hand-shake by which the destructor stops the reader.                     *)
(*                                                                          *)
(* Each thread has a program counter.  A step reads or writes one location  *)
(* that the other thread can also touch, so the interleavings are those of  *)
(* the atomics and of the node fields.  The main thread is the most general *)
(* client of the class: any public operation, in any order; EventLoop.tla   *)
(* restricts it to the dispatcher's loop.                                   *)
(***************************************************************************)
EXTENDS Integers, Sequences, FiniteSets

CONSTANTS PoolSize,     \* PoolSize, 100 in qxcbeventqueue.h
          HeapNodes,    \* the addresses operator new may return
          NullNode,     \* the null QXcbEventNode pointer
          MaxEvents,    \* bound: the events the X server sends
          Traffic       \* the sets of user input events considered

Pool  == 1 .. PoolSize
Nodes == Pool \cup HeapNodes

ASSUME PoolSizeAssumption == PoolSize \in Nat \ {0}
ASSUME NodesAssumption    == HeapNodes \cap Pool = {} /\ NullNode \notin Nodes
ASSUME MaxEventsAssumption == MaxEvents \in Nat
\* operator new does not fail: there is a node for every event
ASSUME HeapAssumption == PoolSize + Cardinality(HeapNodes) > MaxEvents

Events     == 1 .. MaxEvents        \* numbered in the order the server sends them
CloseEvent == MaxEvents + 1         \* the _QT_CLOSE_CONNECTION client message
NoEvent    == 0                     \* a null xcb_generic_event_t pointer

ASSUME TrafficAssumption == Traffic \subseteq SUBSET Events

VARIABLES
  (* the X connection *)
  userInput,      \* the events isUserInputEvent() holds of
  wire,           \* events that reached the socket and that xcb has not returned
  sent,           \* how many events the server has sent
  broken,         \* xcb_connection_has_error()
  (* the list and the pool *)
  event, next,    \* the fields of a QXcbEventNode
  heap,           \* heap nodes that are allocated now
  m_head, m_flushedTail, m_tail, m_nodesRestored, m_freeNodes, m_poolIndex,
  (* the reader thread *)
  reader,         \* its program counter
  rEvent,         \* run(): event
  rNode,          \* the node qXcbEventNodeFactory() returned
  tail,           \* run(): tail
  m_closeConnectionDetected,
  (* the main thread *)
  main,           \* its program counter
  flags,          \* the ProcessEventsFlags of the running takeFirst(flags)
  destroying,     \* the destructor is past wait()
  got,            \* takeFirst(): event
  retired,        \* dequeueNode(): node
  cursor, option, \* peek(): node, option
  m_inputEvents,
  (* both *)
  mutex,          \* who holds m_newEventsMutex
  dispatcher,     \* QCoreApplication::eventDispatcher(): none, alive, gone
  wakeUp,         \* the dispatcher's pending wake-up
  dispatcherOwnerDestructing,
  (* auxiliary: what happened, read by the properties only *)
  order,          \* every node linked, in order: event n sits at position n + 1
  headPos, flushPos,  \* positions of m_head and m_flushedTail in order
  taken,          \* events takeFirst(flags) returned, in order
  removed         \* events a peeker removed

xVars      == <<userInput, wire, sent, broken>>
readerVars == <<reader, rEvent, rNode, tail, m_closeConnectionDetected, m_freeNodes, m_poolIndex>>
callVars   == <<main, flags, destroying, got, retired, cursor, option>>
listVars   == <<event, next, heap, m_nodesRestored>>
viewVars   == <<m_head, m_flushedTail, headPos, flushPos>>
ownerVars  == <<dispatcher, wakeUp, dispatcherOwnerDestructing>>
logVars    == <<m_inputEvents, taken, removed>>
vars == <<xVars, readerVars, callVars, listVars, viewVars, ownerVars, logVars,
          m_tail, mutex, order>>

-----------------------------------------------------------------------------
(* Positions in order, for the properties.                                  *)

PublishedPos == IF reader = "publish" THEN Len(order) - 1 ELSE Len(order)

IsEmptyAt(f) == m_head = f /\ event[m_head] = NoEvent
IsEmpty      == IsEmptyAt(m_flushedTail)

-----------------------------------------------------------------------------
(* The constructor links one node, so that the list is never without one,   *)
(* and starts the reader, whose tail is m_head.                             *)

Init ==
  /\ userInput \in Traffic
  /\ wire = <<>> /\ sent = 0 /\ broken = FALSE
  /\ event = [n \in Nodes |-> NoEvent] /\ next = [n \in Nodes |-> NullNode]
  /\ heap = {}
  /\ m_head = 1 /\ m_flushedTail = 1 /\ m_tail = 1
  /\ m_nodesRestored = 0 /\ m_freeNodes = PoolSize - 1 /\ m_poolIndex = 1
  /\ reader = "wait" /\ rEvent = NoEvent /\ rNode = NullNode /\ tail = 1
  /\ m_closeConnectionDetected = FALSE
  /\ main = "idle" /\ flags = "AllEvents" /\ destroying = FALSE /\ got = NoEvent /\ retired = NullNode
  /\ cursor = NullNode /\ option = "none" /\ m_inputEvents = <<>>
  /\ mutex = "free" /\ dispatcher = "none" /\ wakeUp = FALSE
  /\ dispatcherOwnerDestructing = FALSE
  /\ order = <<1>> /\ headPos = 1 /\ flushPos = 1
  /\ taken = <<>> /\ removed = {}

-----------------------------------------------------------------------------
(* The X server and the connection.                                         *)

ServerSends ==
  /\ ~broken /\ sent < MaxEvents 
  /\ sent' = sent + 1
  /\ wire' = Append(wire, sent + 1)
  /\ UNCHANGED <<userInput, broken, readerVars, callVars, listVars, viewVars,
                 ownerVars, logVars, m_tail, mutex, order>>

ConnectionBreaks ==
  /\ ~broken
  /\ broken' = TRUE
  /\ UNCHANGED <<userInput, wire, sent, readerVars, callVars, listVars, viewVars,
                 ownerVars, logVars, m_tail, mutex, order>>

-----------------------------------------------------------------------------
(* The reader thread, run().                                                *)

xcb_wait_for_event ==
  /\ reader = "wait" /\ ~broken /\ wire # <<>>
  /\ rEvent' = Head(wire) /\ wire' = Tail(wire)
  /\ reader' = "lock"
  /\ UNCHANGED <<userInput, sent, broken, rNode, tail, m_closeConnectionDetected,
                 m_freeNodes, m_poolIndex, callVars, listVars, viewVars,
                 ownerVars, logVars, m_tail, mutex, order>>

\* xcb_wait_for_event() returns null: the connection was terminated, not by us
ReaderSeesError ==
  /\ reader = "wait" /\ broken
  /\ rEvent' = NoEvent /\ reader' = "lastWakeUp"
  /\ UNCHANGED <<xVars, rNode, tail, m_closeConnectionDetected, m_freeNodes, m_poolIndex,
                 callVars, listVars, viewVars, ownerVars, logVars, m_tail, mutex, order>>

ReaderLocks ==
  /\ reader = "lock" /\ mutex = "free"
  /\ mutex' = "reader" /\ reader' = "enqueue"
  /\ UNCHANGED <<xVars, rEvent, rNode, tail, m_closeConnectionDetected, m_freeNodes,
                 m_poolIndex, callVars, listVars, viewVars, ownerVars, logVars, m_tail, order>>

\* enqueueEvent() of the close event frees it and remembers it
isCloseConnectionEvent ==
  /\ reader = "enqueue" /\ rEvent = CloseEvent
  /\ m_closeConnectionDetected' = TRUE /\ reader' = "notify"
  /\ UNCHANGED <<xVars, rEvent, rNode, tail, m_freeNodes, m_poolIndex, callVars,
                 listVars, viewVars, ownerVars, logVars, m_tail, mutex, order>>

\* m_freeNodes after the check for nodes the main thread has released
Available == IF m_freeNodes = 0 THEN m_nodesRestored ELSE m_freeNodes

\* mutant of NextPoolIndex: the index wraps to the wrong place
PoolIndexWrapsLate == IF m_poolIndex = PoolSize THEN PoolSize ELSE m_poolIndex + 1

NextPoolIndex == IF m_poolIndex = PoolSize THEN 1 ELSE m_poolIndex + 1

InitialiseNode(n) ==
  /\ event' = [event EXCEPT ![n] = rEvent]
  /\ next'  = [next EXCEPT ![n] = NullNode]
  /\ rNode' = n

NodeFromPool ==
  /\ Available > 0
  /\ m_freeNodes' = Available - 1
  /\ m_poolIndex' = NextPoolIndex
  /\ InitialiseNode(NextPoolIndex)
  /\ UNCHANGED heap

NodeFromHeap ==
  /\ Available = 0
  /\ \E n \in HeapNodes \ heap : InitialiseNode(n) /\ heap' = heap \cup {n}
  /\ m_freeNodes' = 0 /\ UNCHANGED m_poolIndex

\* mutant of qXcbEventNodeFactory: the tail is published before it is linked
FactoryPublishes ==
  /\ reader = "enqueue" /\ rEvent # CloseEvent
  /\ m_nodesRestored' = IF m_freeNodes = 0 THEN 0 ELSE m_nodesRestored
  /\ NodeFromPool \/ NodeFromHeap
  /\ m_tail' = rNode' /\ reader' = "link"
  /\ UNCHANGED <<xVars, rEvent, tail, m_closeConnectionDetected, callVars,
                 viewVars, ownerVars, logVars, mutex, order>>

qXcbEventNodeFactory ==
  /\ reader = "enqueue" /\ rEvent # CloseEvent
  /\ m_nodesRestored' = IF m_freeNodes = 0 THEN 0 ELSE m_nodesRestored
  /\ NodeFromPool \/ NodeFromHeap
  /\ reader' = "link"
  /\ UNCHANGED <<xVars, rEvent, tail, m_closeConnectionDetected, callVars,
                 viewVars, ownerVars, logVars, m_tail, mutex, order>>

LinkNode ==
  /\ reader = "link"
  /\ next' = [next EXCEPT ![tail] = rNode]
  /\ tail' = rNode /\ order' = Append(order, rNode)
  /\ rNode' = NullNode /\ reader' = "publish"
  /\ UNCHANGED <<xVars, rEvent, m_closeConnectionDetected, m_freeNodes, m_poolIndex,
                 callVars, event, heap, m_nodesRestored, viewVars, ownerVars, logVars,
                 m_tail, mutex>>

PublishTail ==
  /\ reader = "publish"
  /\ m_tail' = tail /\ reader' = "poll"
  /\ UNCHANGED <<xVars, rEvent, rNode, tail, m_closeConnectionDetected, m_freeNodes,
                 m_poolIndex, callVars, listVars, viewVars, ownerVars, logVars, mutex, order>>

\* xcb_poll_for_queued_event() returns only what xcb has already read from the
\* socket: it may return null while wire is not empty.
xcb_poll_for_queued_event ==
  /\ reader = "poll"
  /\ \/ /\ ~broken /\ wire # <<>>
        /\ rEvent' = Head(wire) /\ wire' = Tail(wire) /\ reader' = "enqueue"
     \/ /\ rEvent' = NoEvent /\ reader' = "notify" /\ UNCHANGED wire
  /\ UNCHANGED <<userInput, sent, broken, rNode, tail, m_closeConnectionDetected, m_freeNodes,
                 m_poolIndex, callVars, listVars, viewVars, ownerVars, logVars, m_tail,
                 mutex, order>>

\* mutant of wakeOne: the mutex is released, nobody is woken
UnlockOnly ==
  /\ reader = "notify"
  /\ mutex' = "free" /\ reader' = "wakeUp"
  /\ UNCHANGED <<xVars, rEvent, rNode, tail, m_closeConnectionDetected, m_freeNodes,
                 m_poolIndex, callVars, listVars, viewVars, ownerVars, logVars, m_tail, order>>

\* m_newEventsCondition.wakeOne() and the unlock that lets the waiter run
wakeOne ==
  /\ reader = "notify"
  /\ main' = IF main = "waiting" THEN "woken" ELSE main
  /\ mutex' = "free" /\ reader' = "wakeUp"
  /\ UNCHANGED <<xVars, rEvent, rNode, tail, m_closeConnectionDetected, m_freeNodes,
                 m_poolIndex, flags, destroying, got, retired, cursor, option, listVars, viewVars,
                 ownerVars, logVars, m_tail, order>>

\* mutant of Finished: run() does not test m_closeConnectionDetected
FinishedNever == "wait"

Finished == IF m_closeConnectionDetected THEN "done" ELSE "wait"

\* mutant of wakeUpDispatcher: dispatcherOwnerDestructing is not tested
WakeUpUnguarded ==
  /\ reader \in {"wakeUp", "lastWakeUp"}
  /\ reader' = IF dispatcher = "none" THEN (IF reader = "wakeUp" THEN Finished ELSE "done")
               ELSE IF reader = "wakeUp" THEN "calling" ELSE "lastCalling"
  /\ UNCHANGED <<xVars, rEvent, rNode, tail, m_closeConnectionDetected, m_freeNodes,
                 m_poolIndex, callVars, listVars, viewVars, ownerVars, logVars, m_tail,
                 mutex, order>>

\* wakeUpDispatcher() up to the test made under qAppExiting, which stays
\* locked until DispatcherWakeUp
wakeUpDispatcher ==
  /\ reader \in {"wakeUp", "lastWakeUp"}
  /\ LET call  == ~dispatcherOwnerDestructing /\ dispatcher # "none"
         after == IF reader = "wakeUp" THEN Finished ELSE "done"
     IN reader' = IF ~call THEN after
                  ELSE IF reader = "wakeUp" THEN "calling" ELSE "lastCalling"
  /\ UNCHANGED <<xVars, rEvent, rNode, tail, m_closeConnectionDetected, m_freeNodes,
                 m_poolIndex, callVars, listVars, viewVars, ownerVars, logVars, m_tail,
                 mutex, order>>

\* QCoreApplication::eventDispatcher()->wakeUp(), then qAppExiting is released
DispatcherWakeUp ==
  /\ reader \in {"calling", "lastCalling"}
  /\ wakeUp' = TRUE
  /\ reader' = IF reader = "calling" THEN Finished ELSE "done"
  /\ UNCHANGED <<xVars, rEvent, rNode, tail, m_closeConnectionDetected, m_freeNodes,
                 m_poolIndex, callVars, listVars, viewVars, dispatcher,
                 dispatcherOwnerDestructing, logVars, m_tail, mutex, order>>

ReaderStep ==
  \/ xcb_wait_for_event \/ ReaderSeesError \/ ReaderLocks \/ isCloseConnectionEvent
  \/ qXcbEventNodeFactory \/ LinkNode \/ PublishTail \/ xcb_poll_for_queued_event
  \/ wakeOne \/ wakeUpDispatcher \/ DispatcherWakeUp

-----------------------------------------------------------------------------
(* The main thread.  Every call starts in "idle" and ends there.            *)

Flush == m_flushedTail' = m_tail /\ flushPos' = PublishedPos

flushBufferedEvents ==
  /\ main = "idle"
  /\ Flush
  /\ UNCHANGED <<xVars, readerVars, callVars, listVars, m_head, headPos, ownerVars,
                 logVars, m_tail, mutex, order>>

\* the destructor takes events in a loop
Returned == IF destroying THEN "drain" ELSE "idle"

\* mutant of TakeInputEvent: the newest parked event comes out first
TakeNewestInputEvent(fl) ==
  /\ fl = "AllEvents" /\ m_inputEvents # <<>>
  /\ taken' = Append(taken, m_inputEvents[Len(m_inputEvents)])
  /\ m_inputEvents' = SubSeq(m_inputEvents, 1, Len(m_inputEvents) - 1)
  /\ UNCHANGED removed

\* takeFirst(flags): m_inputEvents comes first, unless input is excluded
TakeInputEvent(fl) ==
  /\ fl = "AllEvents" /\ m_inputEvents # <<>>
  /\ taken' = Append(taken, Head(m_inputEvents))
  /\ m_inputEvents' = Tail(m_inputEvents)
  /\ UNCHANGED removed

takeFirst(fl) ==
  /\ main = "idle" \/ (main = "drain" /\ fl = "AllEvents")
  /\ flags' = fl
  /\ \/ TakeInputEvent(fl) /\ UNCHANGED main
     \/ /\ ~(fl = "AllEvents" /\ m_inputEvents # <<>>)
        /\ main' = "take" /\ UNCHANGED logVars
  /\ UNCHANGED <<xVars, readerVars, destroying, got, retired, cursor, option, listVars, viewVars,
                 ownerVars, m_tail, mutex, order>>

\* mutant of Park: every event is parked while input is excluded
ParkAll(e) == flags = "ExcludeUserInputEvents" /\ e # NoEvent

\* What becomes of the event e that takeFirst() took out of the list: excluded
\* user input moves to m_inputEvents and the search goes on, anything else is
\* returned to the caller, a null pointer (a cleared node) is skipped.
Park(e) == flags = "ExcludeUserInputEvents" /\ e \in userInput

Consume(e) ==
  /\ m_inputEvents' = IF Park(e) THEN Append(m_inputEvents, e) ELSE m_inputEvents
  /\ taken' = IF e = NoEvent \/ Park(e) THEN taken ELSE Append(taken, e)
  /\ UNCHANGED removed

AfterConsume(e) == IF e = NoEvent \/ Park(e) THEN "take" ELSE Returned

\* m_head = m_flushedTail: the event is taken, the node stays in the list
TakeFromLastNode ==
  /\ main = "take" /\ ~IsEmpty /\ m_head = m_flushedTail
  /\ event' = [event EXCEPT ![m_head] = NoEvent]
  /\ Consume(event[m_head])
  /\ main' = AfterConsume(event[m_head])
  /\ UNCHANGED <<xVars, readerVars, flags, destroying, got, retired, cursor, option, next, heap,
                 m_nodesRestored, viewVars, ownerVars, m_tail, mutex, order>>

\* dequeueNode() up to the new m_head
TakeNode ==
  /\ main = "take" /\ m_head # m_flushedTail
  /\ got' = event[m_head] /\ retired' = m_head
  /\ m_head' = next[m_head] /\ headPos' = headPos + 1
  /\ Consume(event[m_head])
  /\ main' = "release"
  /\ UNCHANGED <<xVars, readerVars, flags, destroying, cursor, option, listVars, m_flushedTail,
                 flushPos, ownerVars, m_tail, mutex, order>>

\* the end of dequeueNode(): delete, or one more restored node for the reader
ReleaseNode ==
  /\ main = "release"
  /\ IF retired \in heap
     THEN heap' = heap \ {retired} /\ UNCHANGED m_nodesRestored
     ELSE m_nodesRestored' = m_nodesRestored + 1 /\ UNCHANGED heap
  /\ main' = AfterConsume(got)
  /\ retired' = NullNode /\ got' = NoEvent
  /\ UNCHANGED <<xVars, readerVars, flags, destroying, cursor, option, event, next, viewVars,
                 ownerVars, logVars, m_tail, mutex, order>>

TakeReturnsNull ==
  /\ main = "take" /\ IsEmpty /\ ~destroying
  /\ main' = "idle"
  /\ UNCHANGED <<xVars, readerVars, flags, destroying, got, retired, cursor, option, listVars,
                 viewVars, ownerVars, logVars, m_tail, mutex, order>>

\* peek(option, peeker): flush, then walk the list up to m_flushedTail
peek(opt) ==
  /\ main = "idle"
  /\ Flush
  /\ IF IsEmptyAt(m_tail) THEN UNCHANGED <<main, cursor, option>>
     ELSE main' = "peek" /\ cursor' = m_head /\ option' = opt
  /\ UNCHANGED <<xVars, readerVars, flags, destroying, got, retired, listVars, m_head, headPos,
                 ownerVars, logVars, m_tail, mutex, order>>

PeekAdvance ==
  IF cursor = m_flushedTail
  THEN main' = "idle" /\ cursor' = NullNode /\ option' = "none"
  ELSE cursor' = next[cursor] /\ UNCHANGED <<main, option>>

PeekMiss ==
  /\ main = "peek"
  /\ PeekAdvance
  /\ UNCHANGED <<xVars, readerVars, flags, destroying, got, retired, listVars, viewVars, ownerVars,
                 logVars, m_tail, mutex, order>>

\* mutant of PeekMatch: the matching event is returned but not cleared
PeekMatchKeepsEvent ==
  /\ main = "peek" /\ event[cursor] # NoEvent
  /\ removed' = IF option = "PeekRetainMatch" THEN removed ELSE removed \cup {event[cursor]}
  /\ IF option = "PeekRemoveMatchContinue" THEN PeekAdvance
     ELSE main' = "idle" /\ cursor' = NullNode /\ option' = "none"
  /\ UNCHANGED <<xVars, readerVars, flags, destroying, got, retired, listVars, viewVars,
                 ownerVars, m_inputEvents, taken, m_tail, mutex, order>>

PeekMatch ==
  /\ main = "peek" /\ event[cursor] # NoEvent
  /\ IF option = "PeekRetainMatch" THEN UNCHANGED <<event, removed>>
     ELSE /\ event' = [event EXCEPT ![cursor] = NoEvent]
          /\ removed' = removed \cup {event[cursor]}
  /\ IF option = "PeekRemoveMatchContinue" THEN PeekAdvance
     ELSE main' = "idle" /\ cursor' = NullNode /\ option' = "none"
  /\ UNCHANGED <<xVars, readerVars, flags, destroying, got, retired, next, heap, m_nodesRestored,
                 viewVars, ownerVars, m_inputEvents, taken, m_tail, mutex, order>>

\* waitForNewEvents(time): the flush and the test are made under the mutex,
\* which QWaitCondition::wait() releases while it blocks.
waitForNewEvents ==
  /\ main = "idle" /\ mutex = "free"
  /\ Flush
  /\ main' = IF m_flushedTail # m_tail THEN "idle" ELSE "waiting"
  /\ UNCHANGED <<xVars, readerVars, flags, destroying, got, retired, cursor, option, listVars,
                 m_head, headPos, ownerVars, logVars, m_tail, mutex, order>>

WaitTimesOut ==
  /\ main = "waiting"
  /\ main' = "woken"
  /\ UNCHANGED <<xVars, readerVars, flags, destroying, got, retired, cursor, option, listVars,
                 viewVars, ownerVars, logVars, m_tail, mutex, order>>

WaitReturns ==
  /\ main = "woken" /\ mutex = "free"
  /\ main' = "idle"
  /\ UNCHANGED <<xVars, readerVars, flags, destroying, got, retired, cursor, option, listVars,
                 viewVars, ownerVars, logVars, m_tail, mutex, order>>

-----------------------------------------------------------------------------
(* The application around the queue: the dispatcher is created after the    *)
(* connection; at exit the post routine bars the reader from the dispatcher *)
(* before its owner deletes it, and the destructor runs after both.         *)

CreateDispatcher ==
  /\ main = "idle" /\ dispatcher = "none" /\ ~dispatcherOwnerDestructing
  /\ dispatcher' = "alive"
  /\ UNCHANGED <<xVars, readerVars, callVars, listVars, viewVars, wakeUp,
                 dispatcherOwnerDestructing, logVars, m_tail, mutex, order>>

\* the dispatcher leaves its poll() and forgets the wake-up
ConsumeWakeUp ==
  /\ main = "idle" /\ dispatcher = "alive" /\ wakeUp
  /\ wakeUp' = FALSE
  /\ UNCHANGED <<xVars, readerVars, callVars, listVars, viewVars, dispatcher,
                 dispatcherOwnerDestructing, logVars, m_tail, mutex, order>>

qAddPostRoutine ==
  /\ main = "idle" /\ dispatcher = "alive" /\ ~dispatcherOwnerDestructing
  /\ reader \notin {"calling", "lastCalling"}     \* qAppExiting
  /\ dispatcherOwnerDestructing' = TRUE
  /\ UNCHANGED <<xVars, readerVars, callVars, listVars, viewVars, dispatcher, wakeUp,
                 logVars, m_tail, mutex, order>>

DeleteDispatcher ==
  /\ main = "idle" /\ dispatcher = "alive" /\ dispatcherOwnerDestructing
  /\ dispatcher' = "gone"
  /\ UNCHANGED <<xVars, readerVars, callVars, listVars, viewVars, wakeUp,
                 dispatcherOwnerDestructing, logVars, m_tail, mutex, order>>

\* ~QXcbEventQueue(): isRunning() holds, the server is asked to echo the close
\* event to this client
sendCloseConnectionEvent ==
  /\ main = "idle" /\ dispatcher = "gone" /\ reader # "done"
  /\ wire' = IF broken THEN wire ELSE Append(wire, CloseEvent)
  /\ main' = "closing"
  /\ UNCHANGED <<userInput, sent, broken, readerVars, flags, destroying, got, retired, cursor,
                 option, listVars, viewVars, ownerVars, logVars, m_tail, mutex, order>>

\* wait() returned, or the thread was not running: flush and take what is left
DrainQueue ==
  /\ dispatcher = "gone" /\ main \in {"idle", "closing"} /\ reader = "done"
  /\ Flush
  /\ destroying' = TRUE /\ main' = "drain"
  /\ UNCHANGED <<xVars, readerVars, flags, got, retired, cursor, option, listVars, m_head, headPos,
                 ownerVars, logVars, m_tail, mutex, order>>

\* nothing is left: a deferred node from the heap is deleted
DestructorEnds ==
  /\ main = "take" /\ destroying /\ IsEmpty
  /\ heap' = heap \ {m_head}
  /\ main' = "destroyed"
  /\ UNCHANGED <<xVars, readerVars, flags, destroying, got, retired, cursor, option, event, next,
                 m_nodesRestored, viewVars, ownerVars, logVars, m_tail, mutex, order>>

FlagValues == {"AllEvents", "ExcludeUserInputEvents"}
PeekOptions == {"PeekRetainMatch", "PeekRemoveMatch", "PeekRemoveMatchContinue"}

TakeStep == TakeFromLastNode \/ TakeNode \/ ReleaseNode \/ TakeReturnsNull

ClientCall ==
  \/ flushBufferedEvents
  \/ \E fl \in FlagValues : takeFirst(fl)
  \/ \E opt \in PeekOptions : peek(opt)
  \/ waitForNewEvents

MainStep ==
  \/ ClientCall \/ TakeStep \/ PeekMiss \/ PeekMatch \/ WaitTimesOut \/ WaitReturns
  \/ CreateDispatcher \/ ConsumeWakeUp \/ qAddPostRoutine \/ DeleteDispatcher
  \/ sendCloseConnectionEvent \/ DrainQueue \/ DestructorEnds

Destroyed == main = "destroyed" /\ UNCHANGED vars

Next == ServerSends \/ ConnectionBreaks \/ ReaderStep \/ MainStep \/ Destroyed

Spec == Init /\ [][Next]_vars

-----------------------------------------------------------------------------
(* Properties.                                                              *)

Linked   == {order[p] : p \in headPos .. Len(order)}
InFlight == {rNode, retired} \ {NullNode}
Elements(s) == {s[i] : i \in DOMAIN s}
Listed == {event[order[p]] : p \in headPos .. Len(order)} \ {NoEvent}

ReaderStates == {"wait", "lock", "enqueue", "link", "publish", "poll", "notify", "wakeUp",
                 "calling", "lastWakeUp", "lastCalling", "done"}
MainStates == {"idle", "take", "release", "peek", "waiting", "woken", "closing", "drain",
               "destroyed"}

\* Every variable holds a value of its C++ type.
TypeOK ==
  /\ userInput \subseteq Events /\ wire \in Seq(Events \cup {CloseEvent})
  /\ sent \in 0 .. MaxEvents /\ broken \in BOOLEAN
  /\ event \in [Nodes -> Events \cup {NoEvent}] /\ next \in [Nodes -> Nodes \cup {NullNode}]
  /\ heap \subseteq HeapNodes
  /\ m_head \in Nodes /\ m_flushedTail \in Nodes /\ m_tail \in Nodes /\ tail \in Nodes
  /\ m_nodesRestored \in 0 .. PoolSize /\ m_freeNodes \in 0 .. PoolSize
  /\ m_poolIndex \in 1 .. PoolSize
  /\ reader \in ReaderStates /\ rEvent \in Events \cup {NoEvent, CloseEvent}
  /\ rNode \in Nodes \cup {NullNode} /\ m_closeConnectionDetected \in BOOLEAN
  /\ main \in MainStates /\ flags \in FlagValues /\ destroying \in BOOLEAN
  /\ got \in Events \cup {NoEvent} /\ retired \in Nodes \cup {NullNode}
  /\ cursor \in Nodes \cup {NullNode} /\ option \in PeekOptions \cup {"none"}
  /\ m_inputEvents \in Seq(Events) /\ mutex \in {"free", "reader"}
  /\ dispatcher \in {"none", "alive", "gone"} /\ wakeUp \in BOOLEAN
  /\ dispatcherOwnerDestructing \in BOOLEAN
  /\ order \in Seq(Nodes) /\ headPos \in Nat /\ flushPos \in Nat
  /\ taken \in Seq(Events) /\ removed \subseteq Events

\* No node is in two places: qXcbEventNodeFactory() never hands out a node that
\* is still linked or that dequeueNode() has not given back, and the heap nodes
\* allocated are exactly those in use, although the pool is refilled through
\* counters alone ("we always take and restore nodes in-order").
NodesInOnePlace ==
  /\ \A p, q \in headPos .. Len(order) : order[p] = order[q] => p = q
  /\ InFlight \cap Linked = {}
  /\ (rNode = retired => rNode = NullNode)
  /\ main # "destroyed" => heap = (Linked \cup InFlight) \cap HeapNodes

\* Pool nodes are neither lost nor counted twice: those free for the reader,
\* those restored by the main thread and those in use add up to the pool.
PoolConserved ==
  m_freeNodes + m_nodesRestored + Cardinality((Linked \cup InFlight) \cap Pool) = PoolSize

\* The main thread reads the next field of a node only once the reader has
\* finished with it: the class comment's "special care when accessing the tail
\* node", without which the list needs a lock.
NoRaceOnNext ==
  reader = "link" => /\ main = "take" /\ m_head # m_flushedTail => m_head # tail
                     /\ main = "peek" /\ cursor # m_flushedTail => cursor # tail

\* A thread blocked in waitForNewEvents() has seen everything published, or the
\* reader still holds the mutex and will signal it: no wake-up is lost between
\* its test and its wait.
NoLostSignal ==
  main = "waiting" => flushPos = PublishedPos \/ mutex = "reader"

\* wakeUpDispatcher() never calls into a dispatcher whose owner has deleted it.
DispatcherOutlivesCall ==
  reader \in {"calling", "lastCalling"} => dispatcher = "alive"

\* After the destructor no heap node is left, and every event the reader
\* published was returned by takeFirst() (which the destructor frees) or
\* removed by a peeker: none leaks.
NothingLeaks ==
  main = "destroyed" =>
    /\ heap = {}
    /\ Elements(taken) \cup removed = 1 .. (Len(order) - 1)

\* Every event the reader linked is at every moment in exactly one place, once:
\* in the list, in m_inputEvents, returned by takeFirst() or removed by a peeker.
ExactlyOnce ==
  /\ Listed \cup Elements(taken) \cup Elements(m_inputEvents) \cup removed = 1 .. (Len(order) - 1)
  /\ Listed \cap (Elements(taken) \cup Elements(m_inputEvents) \cup removed) = {}
  /\ Elements(taken) \cap (Elements(m_inputEvents) \cup removed) = {}
  /\ Elements(m_inputEvents) \cap removed = {}
  /\ \A i, j \in DOMAIN taken : taken[i] = taken[j] => i = j
  /\ \A i, j \in DOMAIN m_inputEvents : m_inputEvents[i] = m_inputEvents[j] => i = j

\* An event overtakes an earlier one only if the earlier is excluded user input
\* and the later is not: the reordering that takeFirst(flags) calls intentional.
OnlyInputIsOvertaken ==
  \A i, j \in DOMAIN taken :
    i < j /\ taken[i] > taken[j] => taken[j] \in userInput /\ taken[i] \notin userInput

KeepsNodes ==
  \A p \in headPos' .. Len(order) :
    /\ event'[order[p]] \in {event[order[p]], NoEvent}
    /\ p < Len(order) => next'[order[p]] = next[order[p]]

\* Between publication and dequeueing a node is stable: no step redirects its
\* next pointer once it has a successor, or replaces its event by another.
PublishedNodesStable == [][KeepsNodes]_vars

-----------------------------------------------------------------------------
(* The queue implements a channel of events (EventChannel.tla).             *)

\* the events among f[lo], ..., f[hi]
Remaining(f, lo, hi) ==
  LET upTo[p \in lo - 1 .. hi] ==
        IF p < lo THEN <<>> ELSE IF f[p] = NoEvent THEN upTo[p - 1] ELSE Append(upTo[p - 1], f[p])
  IN upTo[hi]

EventsAt(lo, hi) == Remaining([p \in 1 .. Len(order) |-> event[order[p]]], lo, hi)

Channel == INSTANCE EventChannel WITH
  published <- PublishedPos - 1,
  pending   <- EventsAt(headPos, PublishedPos),
  visible   <- Len(EventsAt(headPos, flushPos)),
  parked    <- m_inputEvents

\* Seen by its callers the list is a channel: events come out once, in order,
\* except for the user input a caller asked to leave behind.
ImplementsChannel == Channel!Spec
=============================================================================
