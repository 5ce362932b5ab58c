-------------------------- MODULE QueueClientProofs --------------------------
(***************************************************************************)
(* Proofs about the clients of the event queue: waitForClipboardEvent(),    *)
(* peekEventQueue() with its peekers, and processXcbEvents() with event     *)
(* compression, for every pool, heap and number of events.  Each of them    *)
(* restricts what the main thread does, so that its behaviours are          *)
(* behaviours of EventQueue and what is proved of those holds of them too:  *)
(* each proof only adds what its client knows.                              *)
(***************************************************************************)
EXTENDS ClipboardWait, PeekQueue, EventLoop, EventQueueProofs

(* What a client sees of the list.                                          *)

\* The flushed part of the list is a chain of distinct nodes, and the events in
\* it are those of their positions.
LEMMA FlushedFacts ==
  ASSUME OInv
  PROVE  /\ headPos \in Nat /\ flushPos \in Nat /\ Len(order) \in Nat
         /\ 1 <= headPos /\ headPos <= flushPos /\ flushPos <= Len(order)
         /\ m_head = order[headPos] /\ m_flushedTail = order[flushPos]
         /\ \A p \in headPos .. flushPos : p \in headPos .. Len(order)
         /\ \A p, q \in headPos .. Len(order) : order[p] = order[q] => p = q
         /\ \A p \in headPos .. Len(order) : order[p] \in Nodes /\ event[order[p]] \in {NoEvent, p - 1}
         /\ \A p \in headPos .. flushPos :
              order[p] # m_flushedTail => p + 1 \in headPos .. flushPos /\ next[order[p]] = order[p + 1]
<1>1. IInv /\ TypeOK /\ Chain
  BY DEF OInv, IInv
<1>2. /\ headPos \in Nat /\ flushPos \in Nat /\ Len(order) \in Nat
      /\ 1 <= headPos /\ headPos <= flushPos /\ flushPos <= Len(order)
      /\ \A p \in 1 .. Len(order) : order[p] \in Nodes
  BY <1>1, Bounds
<1>3. \A p \in headPos .. flushPos :
         order[p] # m_flushedTail => p + 1 \in headPos .. flushPos /\ next[order[p]] = order[p + 1]
  <2>1. TAKE p \in headPos .. flushPos
  <2>2. HAVE order[p] # m_flushedTail
  <2>3. p # flushPos /\ p \in headPos .. Len(order) - 1
    BY <1>1, <1>2, <2>2 DEF Chain
  <2> QED BY <1>1, <1>2, <2>3 DEF Chain
<1>4. \A p, q \in headPos .. Len(order) : order[p] = order[q] => p = q
  BY <1>1 DEF IInv, NodesInOnePlace
<1>5. \A p \in headPos .. Len(order) : event[order[p]] \in {NoEvent, p - 1}
  BY DEF OInv, Numbering, Placed
<1> QED BY <1>1, <1>2, <1>3, <1>4, <1>5 DEF Chain

Positions ==
  /\ headPos \in Nat /\ flushPos \in Nat /\ Len(order) \in Nat
  /\ headPos <= flushPos /\ flushPos <= Len(order)
  /\ \A p \in headPos .. flushPos : p \in headPos .. Len(order) /\ order[p] \in Nodes
  /\ \A p, q \in headPos .. Len(order) : order[p] = order[q] => p = q
  /\ \A p \in headPos .. flushPos :
       order[p] # m_flushedTail => p + 1 \in headPos .. flushPos /\ next[order[p]] = order[p + 1]

LEMMA FlushedPositions == OInv => Positions
BY FlushedFacts DEF Positions

LEMMA FlushedNext == OInv' => Positions'
BY FlushedPositions, PTL


\* The server and the reader leave what the main thread sees as it is.
Elsewhere == ServerSends \/ ConnectionBreaks \/ ReaderStep \/ UNCHANGED vars

LEMMA ElsewhereKeeps ==
  ASSUME OInv, Elsewhere
  PROVE  /\ UNCHANGED <<headPos, flushPos, m_head, m_flushedTail, cursor, option, got, flags, destroying,
                        retired, m_inputEvents, taken, removed, userInput>>
         /\ main' = main \/ (main = "waiting" /\ main' = "woken")
         /\ Len(order) <= Len(order')
         /\ \A p \in headPos .. Len(order) : order'[p] = order[p] /\ event'[order[p]] = event[order[p]]
<1>1. /\ Len(order) \in Nat /\ headPos \in Nat /\ 1 <= headPos /\ IInv
      /\ \A p \in headPos .. Len(order) : order[p] \in Nodes
  BY FlushedFacts DEF OInv
<1>2. CASE qXcbEventNodeFactory
  <2>1. PICK n \in Nodes \ Linked : InitialiseNode(n)
    BY <1>1, <1>2, FreshNode
  <2>2. \A p \in headPos .. Len(order) : event'[order[p]] = event[order[p]]
    BY <1>1, <2>1 DEF InitialiseNode, IInv, TypeOK, Linked
  <2> QED BY <1>1, <1>2, <2>2 DEF qXcbEventNodeFactory, callVars, viewVars, logVars, xVars
<1>3. CASE LinkNode
  <2>1. Len(order') = Len(order) + 1 /\ \A p \in 1 .. Len(order) : order'[p] = order[p]
    BY <1>1, <1>3, LinkedAfterLink
  <2> QED BY <1>1, <1>3, <2>1 DEF LinkNode, callVars, viewVars, logVars, xVars
<1>4. CASE wakeOne
  BY <1>1, <1>4 DEF wakeOne, listVars, viewVars, logVars, xVars
<1>5. CASE xcb_wait_for_event \/ ReaderSeesError \/ ReaderLocks \/ isCloseConnectionEvent \/ PublishTail
           \/ xcb_poll_for_queued_event \/ wakeUpDispatcher \/ DispatcherWakeUp
  BY <1>1, <1>5 DEF xcb_wait_for_event, ReaderSeesError, ReaderLocks, isCloseConnectionEvent, PublishTail,
     xcb_poll_for_queued_event, wakeUpDispatcher, DispatcherWakeUp, callVars, listVars, viewVars, logVars, xVars
<1>6. CASE ServerSends \/ ConnectionBreaks \/ UNCHANGED vars
  BY <1>1, <1>6 DEF ServerSends, ConnectionBreaks, vars, callVars, listVars, viewVars, logVars, xVars
<1> QED BY <1>2, <1>3, <1>4, <1>5, <1>6 DEF Elsewhere, ReaderStep

-----------------------------------------------------------------------------
(* waitForClipboardEvent().                                                 *)

\* The main thread peeks where the loop says so, and takes nothing.
Waiting ==
  /\ main = "peek" <=> wait \in {"awaited", "request"}
  /\ main \in {"waiting", "woken"} => wait = "again"
  /\ main \in {"idle", "peek", "waiting", "woken"}
  /\ main = "peek" => option = "PeekRemoveMatch"
  /\ taken = <<>> /\ m_inputEvents = <<>> /\ headPos = 1

\* What was removed is what was served, and the event returned.
Removals ==
  /\ served \in Seq(Requests)
  /\ result \in Awaited \cup {NoEvent} /\ (wait # "found" => result = NoEvent)
  /\ removed = Elements(served) \cup ({result} \ {NoEvent})

\* No request is passed over, neither by what was served nor by the walk.
InTurn ==
  /\ \A i, j \in DOMAIN served : i < j => served[i] < served[j]
  /\ \A s \in Elements(served), r \in Requests : r < s => r \in removed
  /\ wait = "request" =>
       \A p, q \in headPos .. flushPos : cursor = order[p] /\ q < p => event[order[q]] \notin Requests

WInv == Waiting /\ Removals /\ InTurn

\* The wait does what the queue allows.
LEMMA WaitIsQueue == WaitSpec => Spec
<1>1. WaitInit => Init
  BY DEF WaitInit
<1>2. [WaitNext]_waitAll => [Next]_vars
  BY DEF WaitNext, waitAll, WaitStep, LookForAwaited, Look, Miss, FoundAwaited, CheckOwner, LookForRequest,
     ServeRequest, Sleep, SleepTimesOut, SleepReturns, LoopOrGiveUp, TimePasses, Other, WaitOver,
     Next, MainStep, ClientCall, PeekOptions
<1> QED BY <1>1, <1>2, PTL DEF WaitSpec, Spec

LEMMA WaitInitInv == WaitInit => WInv
<1> SUFFICES ASSUME WaitInit PROVE WInv
  OBVIOUS
<1>1. served = <<>> /\ DOMAIN served = {} /\ Elements(served) = {} /\ removed = {}
  BY DEF WaitInit, Init, Elements
<1> QED BY <1>1 DEF WaitInit, Init, WInv, Waiting, Removals, InTurn

\* A step that leaves the logs and the flushed events alone.
LEMMA WaitKept ==
  ASSUME OInv, WInv, Elsewhere, UNCHANGED <<wait, result, served>>
  PROVE  WInv'
<1> USE DEF WInv
<1>1. /\ UNCHANGED <<headPos, flushPos, cursor, option, m_inputEvents, taken, removed>>
      /\ main' = main \/ (main = "waiting" /\ main' = "woken")
      /\ \A p \in headPos .. flushPos : order'[p] = order[p] /\ event'[order[p]] = event[order[p]]
  BY ElsewhereKeeps, FlushedFacts
<1>2. Waiting'
  BY <1>1 DEF Waiting
<1>3. Removals'
  BY <1>1 DEF Removals, Elements
<1>4. InTurn'
  BY <1>1 DEF InTurn, Elements
<1> QED BY <1>2, <1>3, <1>4

\* A step of the loop that removes nothing.
LEMMA WaitStepsOn ==
  ASSUME OInv, WInv, Waiting', UNCHANGED <<removed, served, result>>, wait' # "found", wait # "found",
         wait' # "request"
  PROVE  WInv'
BY DEF WInv, Removals, InTurn, Elements

\* Events are numbers, and no event is awaited and a request.
LEMMA EventNumbers ==
  /\ Requests \subseteq Events /\ Awaited \subseteq Events /\ Requests \cap Awaited = {}
  /\ Events \subseteq Nat /\ NoEvent \notin Requests \cup Awaited
BY WaitAssumption, MaxEventsAssumption DEF Events, NoEvent

\* What is linked and not removed is still in the list.
LEMMA StillListed ==
  ASSUME OInv, WInv, NEW n \in Events, n < Len(order), n \notin removed
  PROVE  n \in Listed /\ n + 1 \in headPos .. Len(order) /\ event[order[n + 1]] = n
<1>1. n \in 1 .. Len(order) - 1
  BY FlushedFacts DEF Events
<1>2. Elements(taken) = {} /\ Elements(m_inputEvents) = {}
  BY DEF WInv, Waiting, Elements
<1>3. n \in Listed
  BY <1>1, <1>2 DEF OInv, ExactlyOnce
<1> QED BY <1>3, ListedFacts DEF OInv

\* The first request of the flushed list is served, after all before it.
LEMMA ServedInTurn ==
  ASSUME OInv, WInv, OInv', ServeRequest
  PROVE  WInv'
<1> USE DEF WInv
<1>1. PICK p \in headPos .. flushPos : cursor = order[p]
  BY DEF ServeRequest, PeekMatch, OInv, IInv, Walk
<1>2. p \in headPos .. Len(order) /\ event[order[p]] = p - 1 /\ p - 1 \in Requests /\ p - 1 \in Events
  BY <1>1, FlushedFacts, EventNumbers DEF ServeRequest
<1>3. /\ wait = "request" /\ wait' = "sleep" /\ result' = result /\ main = "peek" /\ main' = "idle"
      /\ served' = Append(served, p - 1) /\ removed' = removed \cup {p - 1}
      /\ UNCHANGED <<taken, m_inputEvents, headPos>>
  BY <1>1, <1>2 DEF ServeRequest, PeekMatch, Waiting, viewVars
<1>4. /\ served \in Seq(Requests) /\ served' \in Seq(Requests) /\ DOMAIN served = 1 .. Len(served) /\ Len(served) \in Nat
      /\ DOMAIN served' = 1 .. Len(served) + 1 /\ served'[Len(served) + 1] = p - 1
      /\ \A i \in 1 .. Len(served) : served'[i] = served[i]
      /\ Elements(served)' = Elements(served) \cup {p - 1}
  <2>1. served \in Seq(Requests)
    BY DEF Removals
  <2> QED BY <1>2, <1>3, <2>1, AppendElements DEF Elements
<1>5. p - 1 \notin removed
  BY <1>2, <1>1 DEF OInv, ExactlyOnce, Listed, NoEvent, Events
<1>6. ASSUME NEW s \in Elements(served)
      PROVE  s < p - 1
  <2>1. s \in removed /\ s \in Requests /\ s \in Nat /\ p - 1 \in Nat
    <3>1. s \in removed
      BY DEF Removals
    <3>2. s \in Requests
      BY <1>4 DEF Elements
    <3> QED BY <1>2, <3>1, <3>2, EventNumbers
  <2>2. ~(p - 1 < s)
    BY <1>2, <1>5 DEF InTurn
  <2>3. s # p - 1
    BY <1>5, <2>1
  <2> QED BY <2>1, <2>2, <2>3
<1>7. ASSUME NEW r \in Requests, r < p - 1
      PROVE  r \in removed
  <2>1. r \in Events /\ r \in Nat /\ r < Len(order)
    BY <1>2, <1>7, FlushedFacts, EventNumbers
  <2>2. SUFFICES ASSUME r \notin removed PROVE FALSE
    OBVIOUS
  <2>3. r + 1 \in headPos .. Len(order) /\ event[order[r + 1]] = r
    BY <2>1, <2>2, StillListed
  <2>4. r + 1 \in headPos .. flushPos /\ r + 1 < p
    BY <1>1, <1>7, <2>1, <2>3, FlushedFacts
  <2> QED BY <1>1, <1>3, <2>3, <2>4 DEF InTurn
<1>8. Removals'
  BY <1>3, <1>4 DEF Removals
<1>9. InTurn'
  <2>1. \A i, j \in DOMAIN served' : i < j => served'[i] < served'[j]
    <3>1. TAKE i, j \in DOMAIN served'
    <3>2. HAVE i < j
    <3>3. i \in 1 .. Len(served) /\ served'[i] = served[i] /\ served[i] \in Elements(served)
      BY <1>4, <3>2 DEF Elements
    <3> QED BY <1>4, <1>6, <3>2, <3>3 DEF InTurn
  <2>2. \A s \in Elements(served)', r \in Requests : r < s => r \in removed'
    BY <1>3, <1>4, <1>7 DEF InTurn
  <2> QED BY <1>3, <2>1, <2>2 DEF InTurn
<1>10. Waiting'
  BY <1>3 DEF Waiting
<1> QED BY <1>8, <1>9, <1>10

\* The walk for a request passes only what is none.
LEMMA WalkForRequest ==
  ASSUME OInv, WInv, OInv', LookForRequest
  PROVE  WInv'
<1> USE DEF WInv
<1>1. CASE Look("requests", "request", "sleep")
  <2>1. /\ UNCHANGED <<result, served, removed, headPos, event, order, taken, m_inputEvents>>
        /\ wait = "requests" /\ wait' = IF main' = "peek" THEN "request" ELSE "sleep"
        /\ \/ main' = "idle"
           \/ main' = "peek" /\ cursor' = m_head /\ option' = "PeekRemoveMatch"
    BY <1>1 DEF Look, peek, listVars, logVars, Waiting
  <2>2. Waiting' /\ Removals'
    BY <2>1 DEF Waiting, Removals, Elements
  <2>3. main' = "peek" =>
          \A p, q \in headPos' .. flushPos' : cursor' = order'[p] /\ q < p => event'[order'[q]] \notin Requests
    <3> SUFFICES ASSUME main' = "peek", NEW p \in headPos .. flushPos', NEW q \in headPos .. flushPos',
                        cursor' = order'[p], q < p
                 PROVE  FALSE
      BY <2>1
    <3>1. cursor' = order[headPos] /\ p \in headPos .. Len(order) /\ headPos \in headPos .. Len(order)
      BY <1>1, <2>1, FlushedFacts, Bounds DEF Look, peek, Flush, OInv, IInv
    <3>2. p = headPos
      BY <2>1, <3>1, FlushedFacts
    <3> QED BY <3>2, FlushedFacts
  <2>4. InTurn'
    BY <2>1, <2>3 DEF InTurn, Elements
  <2> QED BY <2>2, <2>4
<1>2. CASE Miss("request", Requests, "sleep")
  <2>1. PICK p \in headPos .. flushPos : cursor = order[p]
    BY <1>2 DEF Miss, PeekMiss, OInv, IInv, Walk
  <2>2. /\ UNCHANGED <<result, served, removed, headPos, flushPos, event, order, taken, m_inputEvents>>
        /\ wait = "request" /\ wait' = IF main' = "idle" THEN "sleep" ELSE "request"
        /\ event[order[p]] \notin Requests
        /\ \/ main' = "idle"
           \/ main' = "peek" /\ cursor # m_flushedTail /\ cursor' = next[cursor] /\ option' = option
    BY <1>2, <2>1 DEF Miss, PeekMiss, PeekAdvance, listVars, viewVars, logVars
  <2>3. Waiting' /\ Removals'
    BY <2>2, <1>2 DEF Waiting, Removals, Elements, Miss, PeekMiss
  <2>4. main' # "idle" =>
          \A x, y \in headPos' .. flushPos' : cursor' = order'[x] /\ y < x => event'[order'[y]] \notin Requests
    <3> SUFFICES ASSUME main' # "idle", NEW x \in headPos .. flushPos, NEW y \in headPos .. flushPos,
                        cursor' = order[x], y < x
                 PROVE  event[order[y]] \notin Requests
      BY <2>2
    <3>1. p + 1 \in headPos .. flushPos /\ cursor' = order[p + 1]
      BY <2>1, <2>2, FlushedFacts
    <3>2. x = p + 1
      BY <3>1, FlushedFacts
    <3>3. y = p \/ y < p
      BY <3>2, FlushedFacts
    <3> QED BY <2>1, <2>2, <3>3 DEF InTurn
  <2>5. InTurn'
    BY <2>2, <2>4 DEF InTurn, Elements
  <2> QED BY <2>3, <2>5
<1> QED BY <1>1, <1>2 DEF LookForRequest

LEMMA WaitInvStep ==
  ASSUME OInv, OInv', WInv, [WaitNext]_waitAll
  PROVE  WInv'
<1> USE DEF WInv
<1>1. CASE LookForAwaited
  <2>1. /\ UNCHANGED <<result, served, removed, headPos, taken, m_inputEvents>>
        /\ wait' \in {"awaited", "manager"} /\ wait \in {"begin", "awaited"}
    BY <1>1 DEF LookForAwaited, Look, Miss, peek, PeekMiss, viewVars, logVars
  <2>2. Waiting'
    BY <1>1 DEF LookForAwaited, Look, Miss, peek, PeekMiss, PeekAdvance, viewVars, logVars, Waiting
  <2> QED BY <2>1, <2>2, WaitStepsOn
<1>2. CASE FoundAwaited
  <2>1. event[cursor] \in Awaited /\ event[cursor] # NoEvent /\ wait = "awaited" /\ main = "peek"
    BY <1>2 DEF FoundAwaited, PeekMatch
  <2>2. /\ result' = event[cursor] /\ wait' = "found" /\ main' = "idle" /\ served' = served
        /\ removed' = removed \cup {event[cursor]} /\ UNCHANGED <<headPos, taken, m_inputEvents>>
    BY <1>2, <2>1 DEF FoundAwaited, PeekMatch, Waiting, viewVars
  <2>3. Waiting' /\ Removals'
    BY <2>1, <2>2 DEF Waiting, Removals, Elements
  <2>4. InTurn'
    BY <2>2 DEF InTurn, Elements
  <2> QED BY <2>3, <2>4
<1>3. CASE CheckOwner
  <2>1. /\ UNCHANGED <<result, served, removed, headPos, taken, m_inputEvents, main, option>>
        /\ wait' \in {"requests", "noOwner"} /\ wait = "manager"
    BY <1>3 DEF CheckOwner, vars, viewVars, logVars, callVars
  <2>2. Waiting'
    BY <2>1 DEF Waiting
  <2> QED BY <2>1, <2>2, WaitStepsOn
<1>4. CASE LookForRequest
  BY <1>4, WalkForRequest
<1>5. CASE ServeRequest
  BY <1>5, ServedInTurn
<1>6. CASE Sleep \/ SleepTimesOut \/ SleepReturns
  <2>1. /\ UNCHANGED <<result, served, removed, headPos, taken, m_inputEvents>>
        /\ wait' = "again" /\ wait \in {"sleep", "again"}
    BY <1>6 DEF Sleep, SleepTimesOut, SleepReturns, waitForNewEvents, WaitTimesOut, WaitReturns, waitVars,
       vars, viewVars, logVars
  <2>2. Waiting'
    BY <1>6, <2>1 DEF Sleep, SleepTimesOut, SleepReturns, waitForNewEvents, WaitTimesOut, WaitReturns, vars,
       callVars, Waiting
  <2> QED BY <2>1, <2>2, WaitStepsOn
<1>7. CASE LoopOrGiveUp
  <2>1. /\ UNCHANGED <<result, served, removed, headPos, taken, m_inputEvents, main, option>>
        /\ wait' \in {"begin", "timeout"} /\ wait = "again" /\ main = "idle"
    BY <1>7 DEF LoopOrGiveUp, vars, viewVars, logVars, callVars
  <2>2. Waiting'
    BY <2>1 DEF Waiting
  <2> QED BY <2>1, <2>2, WaitStepsOn
<1>8. CASE TimePasses \/ Other \/ WaitOver \/ UNCHANGED waitAll
  <2>1. Elsewhere /\ UNCHANGED <<wait, result, served>>
    BY <1>8 DEF TimePasses, Other, WaitOver, waitAll, waitVars, Elsewhere
  <2> QED BY <2>1, WaitKept
<1> QED BY <1>1, <1>2, <1>3, <1>4, <1>5, <1>6, <1>7, <1>8 DEF WaitNext, WaitStep

LEMMA WaitInvariance == WaitSpec => [](OInv /\ WInv)
<1>1. WaitInit => WInv
  BY WaitInitInv
<1>2. OInv /\ OInv' /\ WInv /\ [WaitNext]_waitAll => WInv'
  BY WaitInvStep
<1>3. WaitSpec => []OInv
  BY WaitIsQueue, OrderInvariance, PTL
<1> QED BY <1>1, <1>2, <1>3, PTL DEF WaitSpec

\* Selection requests and clears served during the wait are served in the
\* order the server sent them, each once.
THEOREM RequestsAreServedInOrder == WaitSpec => []ServedInOrder
<1>1. WInv => ServedInOrder
  BY DEF WInv, InTurn, Removals, ServedInOrder, Elements
<1> QED BY <1>1, WaitInvariance, PTL

\* The awaited event is neither served nor lost: it stays in the list until the
\* wait returns it, and only one is taken out.
THEOREM AwaitedStaysOrIsReturned == WaitSpec => []AwaitedIsKept
<1>1. OInv /\ WInv => AwaitedIsKept
  <2> SUFFICES ASSUME OInv, WInv PROVE AwaitedIsKept
    OBVIOUS
  <2>1. Elements(served) \cap Awaited = {} /\ NoEvent \notin Awaited
    <3>1. served \in Seq(Requests) /\ DOMAIN served = 1 .. Len(served)
      BY DEF WInv, Removals
    <3>2. \A s \in Elements(served) : s \in Requests
      BY <3>1 DEF Elements
    <3> QED BY <3>2, EventNumbers
  <2>2. removed \cap Awaited = {result} \ {NoEvent}
    BY <2>1 DEF WInv, Removals
  <2>3. ASSUME NEW n \in Awaited, n < Len(order), n # result
        PROVE  \E p \in headPos .. Len(order) : event[order[p]] = n
    <3>1. n \in Events /\ n \notin removed
      BY <2>2, <2>3, WaitAssumption
    <3> QED BY <2>3, <3>1, StillListed
  <2> QED BY <2>2, <2>3 DEF AwaitedIsKept
<1> QED BY <1>1, WaitInvariance, PTL

-----------------------------------------------------------------------------
(* peekEventQueue(), with no call of it from a peeker.                      *)

Frame == [id : Int, start : Nodes, node : Nodes, pc : {"visit", "callback", "advance"}]

Numbers ==
  /\ frames \in Seq(Frame) /\ Len(frames) <= 1
  /\ m_peekerToNode \in [Ids -> Nodes \cup {NullNode}]
  /\ m_peekerIdSource \in 0 .. MaxPeekers /\ Ids \subseteq 0 .. m_peekerIdSource - 1
  /\ seen \in [0 .. MaxPeekers - 1 -> SUBSET Events]

\* While m_queueModified is not set, the node of the loop is in the list.  Only
\* in its callback is anything else done.
Walking ==
  /\ main \in {"idle", "take", "release"} /\ ~destroying
  /\ In("visit") => ~m_queueModified
  /\ In("visit") \/ In("advance") => main = "idle"
  /\ frames # <<>> /\ ~m_queueModified => Flushed(Top.node)

\* The peeker was called with what comes before the node, and with the node.
SeenBefore(node, id) ==
  \A p, q \in headPos .. flushPos :
    node = order[p] /\ q < p => event[order[q]] \in seen[id] \cup {NoEvent}
SeenTo(node, id) ==
  \A p, q \in headPos .. flushPos :
    node = order[p] /\ q <= p => event[order[q]] \in seen[id] \cup {NoEvent}

\* What the cache skips, and what the loop has passed, was seen by the peeker.
Called ==
  ~IdsInCallback =>
    /\ ~m_peekerIndexCacheDirty => \A id \in Ids : SeenTo(m_peekerToNode[id], id)
    /\ frames # <<>> /\ Top.id # NoPeeker =>
         /\ Top.id \in Ids
         /\ ~m_queueModified => /\ SeenBefore(Top.node, Top.id)
                                /\ Top.pc # "visit" => SeenTo(Top.node, Top.id)

PInv == Numbers /\ Walking /\ Called /\ CacheValid

\* A peek does what the queue allows.
LEMMA PeekIsQueue == PeekSpec => Spec
<1>1. PeekInit => Init
  BY DEF PeekInit
<1>2. [PeekNext]_peekAll => [Next]_vars
  <2> SUFFICES ASSUME [PeekNext]_peekAll PROVE [Next]_vars
    OBVIOUS
  <2>1. ASSUME NEW id \in Ids \cup {NoPeeker}, NEW useCache \in BOOLEAN, peekEventQueue(id, useCache)
        PROVE  flushBufferedEvents
    BY <2>1 DEF peekEventQueue, Calling, flushBufferedEvents
  <2> QED BY <2>1 DEF PeekNext, peekAll, generatePeekerId, removePeekerId, Visit, PeekerMatches, PeekerDeclines,
       Advance, ProcessEvents, TakeModifies, TakeEnds, Next, MainStep, ClientCall, TakeStep, FlagValues
<1> QED BY <1>1, <1>2, PTL DEF PeekSpec, Spec

\* The call under way is the only one.
LEMMA TheFrame ==
  ASSUME Numbers, frames # <<>>
  PROVE  /\ Len(frames) = 1 /\ Top = frames[1] /\ Top \in Frame /\ SubSeq(frames, 1, Len(frames) - 1) = <<>>
         /\ Top = [id |-> Top.id, start |-> Top.start, node |-> Top.node, pc |-> Top.pc]
         /\ Top.node \in Nodes
<1>1. frames \in Seq(Frame) /\ Len(frames) = 1
  <2>1. frames \in Seq(Frame)
    BY DEF Numbers
  <2>2. Len(frames) <= 1
    BY DEF Numbers
  <2>3. Len(frames) \in Nat
    BY <2>1
  <2>4. Len(frames) # 0
    BY <2>1, EmptySeq
  <2>5. Len(frames) = 1
    <3> HIDE DEF Numbers
    <3>1. \A n \in Nat : n <= 1 /\ n # 0 => n = 1
      OBVIOUS
    <3> QED BY <2>2, <2>3, <2>4, <3>1, Zenon
  <2> QED BY <2>1, <2>5
<1>2. Top = frames[1] /\ Top \in Frame
  BY <1>1 DEF Top
<1>3. SubSeq(frames, 1, Len(frames) - 1) = <<>>
  BY <1>1
<1>4. Top = [id |-> Top.id, start |-> Top.start, node |-> Top.node, pc |-> Top.pc] /\ Top.node \in Nodes
  BY <1>2 DEF Frame
<1> QED BY <1>1, <1>2, <1>3, <1>4

LEMMA ReplacedFrame ==
  ASSUME NEW s \in Seq(Frame), Len(s) = 1, NEW f \in Frame
  PROVE  /\ [s EXCEPT ![1] = f] \in Seq(Frame) /\ Len([s EXCEPT ![1] = f]) = 1
         /\ [s EXCEPT ![1] = f][1] = f
BY ExceptSeq

LEMMA TheFrameAt ==
  ASSUME Numbers, frames # <<>>, NEW pc \in {"visit", "callback", "advance"}, At(pc)
  PROVE  /\ frames' \in Seq(Frame) /\ Len(frames') = 1 /\ frames' # <<>>
         /\ Top' = [Top EXCEPT !.pc = pc]
<1>1. Len(frames) = 1 /\ Top = frames[1] /\ Top \in Frame /\ frames \in Seq(Frame)
  BY TheFrame DEF Numbers
<1>2. [Top EXCEPT !.pc = pc] \in Frame
  BY <1>1 DEF Frame
<1>3. frames' = [frames EXCEPT ![1] = [Top EXCEPT !.pc = pc]]
  BY <1>1 DEF At
<1> QED BY <1>1, <1>2, <1>3 DEF Top

\* The list may grow, and more of it be flushed.
SameList ==
  /\ headPos' = headPos /\ flushPos <= flushPos'
  /\ Len(order) <= Len(order')
  /\ \A p \in headPos .. Len(order) : order'[p] = order[p] /\ event'[order[p]] = event[order[p]]

\* A node that is flushed stays so, at its position, and what was seen was seen.
LEMMA SeenStays ==
  ASSUME OInv, OInv', SameList, NEW node, Flushed(node)
  PROVE  /\ Flushed(node)'
         /\ \A id : seen[id] \subseteq seen'[id] /\ SeenBefore(node, id) => SeenBefore(node, id)'
         /\ \A id : seen[id] \subseteq seen'[id] /\ SeenTo(node, id) => SeenTo(node, id)'
<1>1. PICK p0 \in headPos .. flushPos : order[p0] = node
  BY DEF Flushed
<1>2. /\ headPos \in Nat /\ flushPos \in Nat /\ flushPos' \in Nat /\ flushPos' <= Len(order') /\ Len(order') \in Nat
      /\ Len(order) \in Nat /\ flushPos <= Len(order)
      /\ \A p, q \in headPos' .. Len(order') : order'[p] = order'[q] => p = q
  BY FlushedFacts, FlushedNext DEF Positions
<1>3. \A p \in headPos' .. flushPos' : node = order'[p] => p = p0
  BY <1>1, <1>2 DEF SameList
<1>4. Flushed(node)'
  BY <1>1, <1>2 DEF SameList, Flushed
<1>5. \A q \in headPos' .. flushPos' : q <= p0 => q \in headPos .. flushPos /\ event'[order'[q]] = event[order[q]]
  BY <1>1, <1>2 DEF SameList
<1>6. ASSUME NEW id, seen[id] \subseteq seen'[id], SeenBefore(node, id)
      PROVE  SeenBefore(node, id)'
  BY <1>1, <1>2, <1>3, <1>5, <1>6 DEF SeenBefore, SameList
<1>7. ASSUME NEW id, seen[id] \subseteq seen'[id], SeenTo(node, id)
      PROVE  SeenTo(node, id)'
  BY <1>1, <1>2, <1>3, <1>5, <1>7 DEF SeenTo, SameList
<1> QED BY <1>4, <1>6, <1>7

\* The cache remains what it is while the list only grows.
LEMMA CacheStays ==
  ASSUME OInv, OInv', PInv, SameList, \A id \in Ids : seen[id] \subseteq seen'[id],
         UNCHANGED <<m_peekerToNode, m_peekerIndexCacheDirty>>
  PROVE  /\ CacheValid'
         /\ ~IdsInCallback /\ ~m_peekerIndexCacheDirty' => \A id \in Ids' : SeenTo(m_peekerToNode[id], id)'
<1> SUFFICES ASSUME ~m_peekerIndexCacheDirty, NEW id \in Ids
             PROVE  /\ m_peekerToNode[id] = NullNode \/ Flushed(m_peekerToNode[id])'
                    /\ ~IdsInCallback => SeenTo(m_peekerToNode[id], id)'
  BY DEF CacheValid, Ids
<1>1. SUFFICES ASSUME NEW node, node = m_peekerToNode[id]
               PROVE  /\ node = NullNode \/ Flushed(node)'
                      /\ ~IdsInCallback => SeenTo(node, id)'
  BY DEF SeenTo, Flushed
<1>2. (node = NullNode \/ Flushed(node)) /\ (~IdsInCallback => SeenTo(node, id))
  BY <1>1 DEF PInv, CacheValid, Called
<1>3. CASE node = NullNode
  <2>1. SeenTo(node, id)'
    BY <1>3, FlushedNext, NodesAssumption DEF SeenTo, Positions
  <2> QED BY <1>3, <2>1
<1>4. CASE Flushed(node)
  BY <1>2, <1>4, SeenStays
<1> QED BY <1>2, <1>3, <1>4

\* A step that leaves the calls and the caches alone, and the list but for its end.
LEMMA PeekKept ==
  ASSUME OInv, OInv', PInv, SameList,
         UNCHANGED <<m_peekerToNode, m_peekerIdSource, m_peekerIndexCacheDirty, m_queueModified, frames, seen,
                     destroying>>,
         main' \in {"idle", "take", "release"}, In("visit") \/ In("advance") => main' = "idle"
  PROVE  PInv'
<1> USE DEF PInv
<1>1. Numbers'
  BY DEF Numbers, Ids
<1>2. /\ CacheValid'
      /\ ~IdsInCallback /\ ~m_peekerIndexCacheDirty' => \A id \in Ids' : SeenTo(m_peekerToNode[id], id)'
  BY CacheStays
<1>3. CASE frames = <<>>
  BY <1>1, <1>2, <1>3 DEF Walking, Called, In, Ids
<1>4. CASE frames # <<>>
  <2>1. PICK node, id : node = Top.node /\ id = Top.id
    OBVIOUS
  <2>2. Top' = Top /\ In("visit")' = In("visit") /\ In("advance")' = In("advance") /\ frames' = frames
    BY DEF Top, In
  <2>3. ~m_queueModified => Flushed(node)' /\ (SeenBefore(node, id) => SeenBefore(node, id)')
                            /\ (SeenTo(node, id) => SeenTo(node, id)')
    BY <1>4, <2>1, SeenStays DEF Walking
  <2>4. Walking'
    BY <2>1, <2>2, <2>3 DEF Walking, Flushed
  <2>5. Called'
    <3> SUFFICES ASSUME ~IdsInCallback PROVE Called'
      BY DEF Called
    <3>1. id # NoPeeker => /\ id \in Ids'
                           /\ ~m_queueModified => SeenBefore(node, id)' /\ (Top.pc # "visit" => SeenTo(node, id)')
      BY <1>4, <2>1, <2>3 DEF Called, Ids
    <3> QED BY <1>2, <2>1, <2>2, <3>1 DEF Called, SeenBefore, SeenTo
  <2> QED BY <1>1, <1>2, <2>4, <2>5
<1> QED BY <1>3, <1>4

LEMMA ElsewherePeeks ==
  ASSUME OInv, OInv', PInv, Elsewhere, UNCHANGED peekVars
  PROVE  PInv'
<1>1. /\ headPos' = headPos /\ flushPos' = flushPos /\ main' = main /\ destroying' = destroying
      /\ Len(order) <= Len(order')
      /\ \A p \in headPos .. Len(order) : order'[p] = order[p] /\ event'[order[p]] = event[order[p]]
  BY ElsewhereKeeps DEF PInv, Walking
<1>2. SameList
  BY <1>1, FlushedFacts DEF SameList
<1> QED BY <1>1, <1>2, PeekKept DEF peekVars, cacheVars, PInv, Walking

\* The events the client processes: the queue may be modified only in a callback
\* or between calls, and then nothing is known of the nodes.
LEMMA ProcessingPeeks ==
  ASSUME OInv, OInv', PInv, ProcessEvents \/ TakeEnds
  PROVE  PInv'
<1>1. /\ UNCHANGED <<headPos, order, event, destroying>> /\ UNCHANGED peekVars
      /\ flushPos' = flushPos \/ flushPos' = PublishedPos
      /\ main' \in {"idle", "take", "release"} /\ ~In("visit") /\ ~In("advance")
  <2>1. CASE ProcessEvents
    BY <2>1 DEF ProcessEvents, Calling, flushBufferedEvents, Flush, takeFirst, listVars, viewVars, callVars, In
  <2>2. CASE ReleaseNode /\ UNCHANGED peekVars
    BY <2>2 DEF ReleaseNode, viewVars, PInv, Walking, AfterConsume, Returned, In
  <2>3. CASE TakeReturnsNull /\ UNCHANGED peekVars
    BY <2>3 DEF TakeReturnsNull, viewVars, listVars, PInv, Walking, In
  <2> QED BY <2>1, <2>2, <2>3 DEF TakeEnds
<1>2. SameList
  BY <1>1, FlushedFacts, Bounds DEF SameList, OInv, IInv, Chain
<1> QED BY <1>1, <1>2, PeekKept DEF peekVars, cacheVars

LEMMA TakingPeeks ==
  ASSUME OInv, OInv', PInv, TakeModifies
  PROVE  PInv'
<1>1. /\ m_queueModified' /\ m_peekerIndexCacheDirty' /\ main = "take"
      /\ UNCHANGED <<m_peekerToNode, m_peekerIdSource, frames, seen>>
      /\ main' \in {"idle", "take", "release"} /\ destroying' = destroying
  BY DEF TakeModifies, TakeFromLastNode, TakeNode, AfterConsume, Returned, PInv, Walking
<1>2. Numbers' /\ CacheValid'
  BY <1>1 DEF PInv, Numbers, Ids, CacheValid
<1>3. ~In("visit")' /\ ~In("advance")'
  BY <1>1 DEF PInv, Walking, In, Top
<1>4. Walking'
  BY <1>1, <1>3 DEF PInv, Walking
<1>5. Called'
  BY <1>1 DEF PInv, Called, Top, Ids
<1> QED BY <1>2, <1>4, <1>5 DEF PInv

\* Ids come and go between calls only, or the cache is no matter.
LEMMA IdsPeek ==
  ASSUME OInv, OInv', PInv, generatePeekerId \/ \E id \in Ids : removePeekerId(id)
  PROVE  PInv'
<1> USE DEF PInv
<1>1. /\ UNCHANGED vars /\ UNCHANGED <<m_queueModified, frames>>
      /\ frames = <<>> \/ IdsInCallback
  BY DEF generatePeekerId, removePeekerId, ManagesIds
<1>2. UNCHANGED <<headPos, flushPos, order, event, main, destroying>>
  BY <1>1 DEF vars, viewVars, listVars, callVars
<1>3. Walking'
  BY <1>1, <1>2 DEF Walking, In, Top, Flushed
<1>4. CASE generatePeekerId
  <2>1. /\ m_peekerIdSource < MaxPeekers /\ m_peekerIdSource' = m_peekerIdSource + 1
        /\ Ids' = Ids \cup {m_peekerIdSource} /\ m_peekerIdSource \notin Ids
        /\ m_peekerToNode' \in [Ids' -> Nodes \cup {NullNode}]
        /\ \A id \in Ids : m_peekerToNode'[id] = m_peekerToNode[id]
        /\ m_peekerToNode'[m_peekerIdSource] = NullNode
        /\ m_peekerIndexCacheDirty' = m_peekerIndexCacheDirty
        /\ seen' = [seen EXCEPT ![m_peekerIdSource] = {}]
    BY <1>4, PeekAssumption DEF generatePeekerId, Numbers, Ids
  <2>2. Numbers'
    BY <1>1, <2>1, PeekAssumption DEF Numbers
  <2>3. \A id \in Ids : seen'[id] = seen[id]
    BY <2>1, PeekAssumption DEF Numbers
  <2>4. CacheValid'
    BY <1>2, <2>1 DEF CacheValid, Flushed
  <2>5. Called'
    <3> SUFFICES ASSUME ~IdsInCallback, ~m_peekerIndexCacheDirty, NEW id \in Ids'
                 PROVE  SeenTo(m_peekerToNode[id], id)'
      BY <1>1, <2>1 DEF Called
    <3>1. CASE id \in Ids
      BY <1>2, <2>1, <2>3, <3>1 DEF Called, SeenTo
    <3>2. CASE id = m_peekerIdSource
      <4>1. \A p \in headPos .. flushPos : order[p] # NullNode
        BY FlushedFacts, NodesAssumption
      <4> QED BY <1>2, <2>1, <3>2, <4>1 DEF SeenTo
    <3> QED BY <2>1, <3>1, <3>2
  <2> QED BY <1>3, <2>2, <2>4, <2>5
<1>5. ASSUME NEW id \in Ids, removePeekerId(id)
      PROVE  PInv'
  <2>1. /\ Ids' = Ids \ {id} /\ m_peekerToNode' \in [Ids' -> Nodes \cup {NullNode}]
        /\ \A i \in Ids' : i \in Ids /\ m_peekerToNode'[i] = m_peekerToNode[i]
        /\ seen' = seen
        /\ \/ Ids' = {} /\ m_peekerIdSource' = 0
           \/ UNCHANGED <<m_peekerIdSource, m_peekerIndexCacheDirty>>
    BY <1>5 DEF removePeekerId, Numbers, Ids
  <2>2. Numbers'
    BY <1>1, <2>1, PeekAssumption DEF Numbers
  <2>3. CacheValid'
    BY <1>2, <2>1 DEF CacheValid, Flushed
  <2>4. Called'
    BY <1>1, <1>2, <2>1 DEF Called, SeenTo
  <2> QED BY <1>3, <2>2, <2>3, <2>4
<1> QED BY <1>4, <1>5

\* A call starts at the head, or behind what the cache says was seen.
LEMMA StartPeeks ==
  ASSUME OInv, OInv', PInv, MaxDepth = 1,
         NEW id \in Ids \cup {NoPeeker}, NEW useCache \in BOOLEAN, peekEventQueue(id, useCache)
  PROVE  PInv'
<1> USE DEF PInv
<1>0. PICK start : start = StartNode(id, useCache, m_tail)
  OBVIOUS
<1> DEFINE frame == [id |-> id, start |-> start, node |-> start, pc |-> "visit"]
<1>1. /\ UNCHANGED <<headPos, order, event, next, m_head, main, destroying, m_peekerIdSource, seen>>
      /\ main = "idle" /\ m_flushedTail' = m_tail /\ flushPos' = PublishedPos
      /\ useCache => id # NoPeeker
      /\ m_peekerToNode' = ResetCache(id)
      /\ m_peekerIndexCacheDirty' = (m_peekerIndexCacheDirty /\ id = NoPeeker)
      /\ IF start = NullNode THEN UNCHANGED <<frames, m_queueModified>>
         ELSE frames' = Append(frames, frame) /\ m_queueModified' = FALSE
  BY <1>0 DEF peekEventQueue, Calling, Flush, listVars, callVars
<1>2. frames = <<>>
  BY TheFrame, EmptySeq DEF peekEventQueue, Numbers
<1>3. SameList
  BY <1>1, FlushedFacts, Bounds DEF SameList, OInv, IInv, Chain
<1>4. Ids' = Ids /\ ResetCache(id) \in [Ids -> Nodes \cup {NullNode}]
      /\ \A i \in Ids : ResetCache(id)[i] = NullNode \/ (~m_peekerIndexCacheDirty' /\ ~m_peekerIndexCacheDirty
                                                       /\ ResetCache(id)[i] = m_peekerToNode[i])
                        \/ m_peekerIndexCacheDirty'
  BY <1>1 DEF ResetCache, Ids, Numbers
<1>5. \A n : \A i : n = NullNode => SeenTo(n, i)'
  BY FlushedNext, NodesAssumption DEF SeenTo, Positions
<1>6. CacheValid' /\ (~IdsInCallback /\ ~m_peekerIndexCacheDirty' => \A i \in Ids' : SeenTo(m_peekerToNode[i], i)')
  <2> SUFFICES ASSUME ~m_peekerIndexCacheDirty', NEW i \in Ids, NEW node, node = ResetCache(id)[i]
               PROVE  /\ node = NullNode \/ Flushed(node)'
                      /\ ~IdsInCallback => SeenTo(node, i)'
    BY <1>1, <1>4 DEF CacheValid, SeenTo, Flushed
  <2>1. CASE node = NullNode
    BY <1>5, <2>1
  <2>2. CASE node # NullNode
    <3>1. ~m_peekerIndexCacheDirty /\ node = m_peekerToNode[i]
      BY <1>4, <2>2
    <3>2. Flushed(node) /\ (~IdsInCallback => SeenTo(node, i))
      BY <2>2, <3>1 DEF CacheValid, Called
    <3> QED BY <1>1, <1>3, <3>2, SeenStays
  <2> QED BY <2>1, <2>2
<1>7. CASE start = NullNode
  <2>1. Numbers'
    BY <1>1, <1>4, <1>7 DEF Numbers
  <2>2. Walking' /\ Called'
    BY <1>1, <1>2, <1>6, <1>7 DEF Walking, Called, In
  <2> QED BY <1>6, <2>1, <2>2
<1>8. CASE start # NullNode
  <2>1. \E p \in headPos' .. flushPos' :
           /\ start = order'[p]
           /\ ~IdsInCallback /\ id # NoPeeker =>
                \A q \in headPos' .. flushPos' : q < p => event'[order'[q]] \in seen'[id] \cup {NoEvent}
    <3>1. CASE start = m_head
      BY <1>1, <3>1, FlushedFacts, FlushedNext DEF Positions
    <3>2. CASE start # m_head
      <4>1. PICK node : /\ node = ResetCache(id)[id] /\ useCache /\ id # NoPeeker /\ id \in Ids
                        /\ node # NullNode /\ node # m_tail /\ start = next[node]
        BY <1>0, <1>1, <1>8, <3>2 DEF StartNode
      <4>2. ~m_peekerIndexCacheDirty' /\ m_peekerToNode'[id] = node
        BY <1>1, <4>1
      <4>3. Flushed(node)' /\ (~IdsInCallback => SeenTo(node, id)')
        BY <1>4, <1>6, <4>1, <4>2 DEF CacheValid, Flushed, SeenTo
      <4>4. PICK p \in headPos' .. flushPos' : order'[p] = node
        BY <4>3 DEF Flushed
      <4>5. p + 1 \in headPos' .. flushPos' /\ order'[p + 1] = start
        BY <1>1, <4>1, <4>4, FlushedNext DEF Positions
      <4>6. ~IdsInCallback => \A q \in headPos' .. flushPos' : q < p + 1 => event'[order'[q]] \in seen'[id] \cup {NoEvent}
        BY <4>3, <4>4, FlushedNext DEF SeenTo, Positions
      <4> QED BY <4>5, <4>6
    <3> QED BY <3>1, <3>2
  <2>2. start \in Nodes /\ frame \in Frame
    <3>1. start \in Nodes
      BY <2>1, FlushedNext DEF Positions
    <3>2. id \in Int
      BY PeekAssumption DEF NoPeeker, Numbers
    <3> QED BY <3>1, <3>2 DEF Frame
  <2>3. frames' = <<frame>> /\ frames' # <<>> /\ Len(frames') = 1 /\ Top' = frame /\ frames' \in Seq(Frame)
    <3> HIDE DEF frame
    <3>1. frames' = <<frame>>
      BY <1>1, <1>2, <1>8
    <3> QED BY <2>2, <3>1 DEF Top
  <2>4. Numbers'
    BY <1>1, <1>4, <2>3 DEF Numbers
  <2>5. Flushed(start)' /\ (~IdsInCallback /\ id # NoPeeker => SeenBefore(start, id)')
    <3>1. PICK p \in headPos' .. flushPos' :
             /\ start = order'[p]
             /\ ~IdsInCallback /\ id # NoPeeker =>
                  \A q \in headPos' .. flushPos' : q < p => event'[order'[q]] \in seen'[id] \cup {NoEvent}
      BY <2>1
    <3>2. \A x \in headPos' .. flushPos' : start = order'[x] => x = p
      BY <3>1, FlushedNext DEF Positions
    <3> QED BY <3>1, <3>2 DEF Flushed, SeenBefore
  <2>6. Walking'
    BY <1>1, <1>8, <2>3, <2>5 DEF Walking, In, Flushed
  <2>7. Called'
    BY <1>1, <1>4, <1>6, <1>8, <2>3, <2>5 DEF Called, SeenBefore
  <2> QED BY <1>6, <2>4, <2>6, <2>7
<1> QED BY <1>7, <1>8

\* A call goes on at a node that is in the list and was reached in order, or it
\* does not stay.
LEMMA FrameStep ==
  ASSUME OInv, PInv, frames # <<>>, UNCHANGED <<vars, m_peekerIndexCacheDirty, m_peekerIdSource, m_queueModified, m_peekerToNode>>,
         frames' \in Seq(Frame), Len(frames') = 1, Top'.id = Top.id,
         main = "idle", In("visit")' => ~m_queueModified,
         seen' \in [0 .. MaxPeekers - 1 -> SUBSET Events], \A id \in Ids : seen[id] \subseteq seen'[id],
         NEW node, node = Top'.node,
         ~m_queueModified => Flushed(node),
         ~m_queueModified /\ ~IdsInCallback /\ Top.id # NoPeeker =>
            /\ SeenBefore(node, Top.id)'
            /\ Top'.pc # "visit" => SeenTo(node, Top.id)'
  PROVE  PInv'
<1> USE DEF PInv
<1>1. UNCHANGED <<headPos, flushPos, order, event, main, destroying>> /\ Ids' = Ids
  BY DEF vars, viewVars, listVars, callVars, Ids
<1>2. Numbers'
  BY <1>1 DEF Numbers
<1>3. Walking'
  BY <1>1 DEF Walking, Flushed
<1>4. CacheValid'
  BY <1>1 DEF CacheValid, Flushed
<1>5. Called'
  <2> SUFFICES ASSUME ~IdsInCallback PROVE Called'
    BY DEF Called
  <2>1. ~m_peekerIndexCacheDirty => \A id \in Ids : SeenTo(m_peekerToNode[id], id)'
    BY <1>1 DEF Called, SeenTo
  <2>2. Top.id # NoPeeker => Top.id \in Ids
    BY DEF Called
  <2> QED BY <1>1, <2>1, <2>2 DEF Called, SeenBefore, SeenTo
<1> QED BY <1>2, <1>3, <1>4, <1>5

\* The call returns, and may keep the index of its node.
LEMMA ReturnPeeks ==
  ASSUME OInv, PInv, frames # <<>>, UNCHANGED <<vars, m_peekerIndexCacheDirty, m_peekerIdSource, m_queueModified, seen>>,
         Top.pc # "visit", Return(Top.node)
  PROVE  PInv'
<1> USE DEF PInv
<1>1. UNCHANGED <<headPos, flushPos, order, event, main, destroying>>
  BY DEF vars, viewVars, listVars, callVars
<1>2. frames' = <<>> /\ Top.node \in Nodes
  BY TheFrame DEF Return
<1>3. PICK node, id : node = Top.node /\ id = Top.id
  OBVIOUS
<1>4. /\ m_peekerToNode' \in [Ids -> Nodes \cup {NullNode}] /\ Ids' = Ids
      /\ \A i \in Ids : \/ m_peekerToNode'[i] = m_peekerToNode[i]
                        \/ i = id /\ m_peekerToNode'[i] = node /\ ~m_queueModified
  BY <1>2, <1>3 DEF Return, KeepIndex, Numbers, Ids
<1>5. Numbers' /\ Walking'
  BY <1>1, <1>2, <1>4 DEF Numbers, Walking, In
<1>6. ~m_queueModified => Flushed(node) /\ (~IdsInCallback /\ id # NoPeeker => SeenTo(node, id))
  BY <1>3 DEF Walking, Called
<1>7. CacheValid'
  BY <1>1, <1>4, <1>6 DEF CacheValid, Flushed
<1>8. Called'
  <2> SUFFICES ASSUME ~IdsInCallback, ~m_peekerIndexCacheDirty, NEW i \in Ids
               PROVE  SeenTo(m_peekerToNode[i], i)'
    BY <1>2, <1>4 DEF Called
  <2>1. CASE m_peekerToNode'[i] = m_peekerToNode[i]
    BY <1>1, <2>1 DEF Called, SeenTo
  <2>2. CASE i = id /\ m_peekerToNode'[i] = node /\ ~m_queueModified
    <3>1. i # NoPeeker
      BY PeekAssumption DEF Numbers, NoPeeker
    <3> QED BY <1>1, <1>6, <2>2, <3>1 DEF SeenTo
  <2> QED BY <1>4, <2>1, <2>2
<1> QED BY <1>5, <1>7, <1>8

LEMMA VisitPeeks ==
  ASSUME OInv, PInv, Visit
  PROVE  PInv'
<1> USE DEF PInv
<1>1. frames # <<>> /\ Top.pc = "visit" /\ main = "idle" /\ ~m_queueModified
      /\ UNCHANGED <<vars, m_peekerIndexCacheDirty, m_peekerIdSource, m_queueModified, m_peekerToNode>>
      /\ UNCHANGED <<event, order, headPos, flushPos>>
  BY DEF Visit, In, Walking, cacheVars, vars, listVars, viewVars
<1>2. PICK node, id : node = Top.node /\ id = Top.id
  OBVIOUS
<1>3. PICK p \in headPos .. flushPos : order[p] = node
  BY <1>1, <1>2 DEF Walking, Flushed
<1>4. event[node] \in Events \cup {NoEvent} /\ node \in Nodes
  BY <1>3, FlushedFacts DEF OInv, IInv, TypeOK
<1>5. PICK pc \in {"advance", "callback"} : At(pc)
  BY DEF Visit
<1>6. /\ frames' \in Seq(Frame) /\ Len(frames') = 1 /\ Top'.id = id /\ Top'.pc = pc /\ Top'.node = node
  <2>1. Top' = [Top EXCEPT !.pc = pc] /\ frames' \in Seq(Frame) /\ Len(frames') = 1
    BY <1>1, <1>5, TheFrameAt
  <2> QED BY <1>1, <1>2, <2>1, TheFrame
<1>7. /\ seen' \in [0 .. MaxPeekers - 1 -> SUBSET Events] /\ \A i \in Ids : seen[i] \subseteq seen'[i]
      /\ id \in Ids => event[node] \in seen'[id] \cup {NoEvent}
  <2>1. CASE seen' = seen /\ (event[node] = NoEvent \/ id = NoPeeker)
    BY <2>1, PeekAssumption DEF Numbers, NoPeeker
  <2>2. CASE event[node] # NoEvent /\ seen' = [seen EXCEPT ![id] = @ \cup {event[node]}]
    <3>1. \A i \in Ids : i \in 0 .. MaxPeekers - 1
      BY PeekAssumption DEF Numbers
    <3> QED BY <1>4, <2>2, <3>1 DEF Numbers
  <2> QED BY <1>2, <2>1, <2>2 DEF Visit
<1>8. ~IdsInCallback /\ id # NoPeeker => SeenBefore(node, id)' /\ SeenTo(node, id)'
  <2> SUFFICES ASSUME ~IdsInCallback, id # NoPeeker PROVE SeenBefore(node, id)' /\ SeenTo(node, id)'
    OBVIOUS
  <2>1. id \in Ids /\ SeenBefore(node, id)
    BY <1>1, <1>2 DEF Called
  <2>2. SeenBefore(node, id)'
    BY <1>1, <1>7, <2>1 DEF SeenBefore
  <2>3. \A x, y \in headPos .. flushPos : y <= x <=> y < x \/ y = x
    BY FlushedFacts
  <2> QED BY <1>1, <1>7, <2>1, <2>2, <2>3 DEF SeenBefore, SeenTo
<1>9. In("visit")' => ~m_queueModified
  BY <1>1
<1> QED BY <1>1, <1>2, <1>6, <1>7, <1>8, <1>9, FrameStep DEF Walking

LEMMA DeclinePeeks ==
  ASSUME OInv, PInv, PeekerDeclines
  PROVE  PInv'
<1> USE DEF PInv
<1>1. frames # <<>> /\ Top.pc = "callback" /\ main = "idle" /\ At("advance")
      /\ UNCHANGED <<vars, m_peekerIndexCacheDirty, m_peekerIdSource, m_queueModified, m_peekerToNode, seen>>
      /\ UNCHANGED <<event, order, headPos, flushPos>>
  BY DEF PeekerDeclines, In, cacheVars, vars, listVars, viewVars
<1>2. PICK node, id : node = Top.node /\ id = Top.id
  OBVIOUS
<1>3. /\ frames' \in Seq(Frame) /\ Len(frames') = 1 /\ Top'.id = id /\ Top'.pc = "advance" /\ Top'.node = node
  <2>1. Top' = [Top EXCEPT !.pc = "advance"] /\ frames' \in Seq(Frame) /\ Len(frames') = 1
    BY <1>1, TheFrameAt
  <2> QED BY <1>1, <1>2, <2>1, TheFrame
<1>4. ~m_queueModified /\ ~IdsInCallback /\ id # NoPeeker => SeenBefore(node, id)' /\ SeenTo(node, id)'
  BY <1>1, <1>2 DEF Called, SeenBefore, SeenTo
<1>5. ~In("visit")' /\ (~m_queueModified => Flushed(node))
  BY <1>1, <1>2, <1>3 DEF In, Walking
<1>6. seen' \in [0 .. MaxPeekers - 1 -> SUBSET Events]
  BY <1>1 DEF Numbers
<1> QED BY <1>1, <1>2, <1>3, <1>4, <1>5, <1>6, FrameStep

\* The next node of a list that was not modified is in the list; of one that
\* was, the loop does not use what it reads.
LEMMA AdvancePeeks ==
  ASSUME OInv, PInv, Advance
  PROVE  PInv'
<1> USE DEF PInv
<1>1. frames # <<>> /\ Top.pc = "advance" /\ main = "idle"
      /\ UNCHANGED <<vars, m_peekerIndexCacheDirty, m_peekerIdSource, m_queueModified, seen>>
      /\ UNCHANGED <<event, order, headPos, flushPos>>
  BY DEF Advance, In, Walking, vars, listVars, viewVars
<1>2. CASE Top.node = m_flushedTail
  BY <1>1, <1>2, ReturnPeeks DEF Advance
<1>3. CASE Top.node # m_flushedTail /\ m_queueModified
  <2>1. \E n : Return(n) /\ ~KeepIndex(Top.node) /\ ~KeepIndex(n)
    BY <1>3 DEF Advance, GoOn, KeepIndex
  <2>2. Return(Top.node)
    BY <2>1 DEF Return
  <2> QED BY <1>1, <2>2, ReturnPeeks
<1>4. CASE Top.node # m_flushedTail /\ ~m_queueModified
  <2>1. PICK node, id : node = Top.node /\ id = Top.id
    OBVIOUS
  <2>2. PICK p \in headPos .. flushPos : order[p] = node
    BY <1>1, <1>4, <2>1 DEF Walking, Flushed
  <2>3. p + 1 \in headPos .. flushPos /\ next[node] = order[p + 1] /\ order[p + 1] \in Nodes
    BY <1>4, <2>1, <2>2, FlushedFacts
  <2>4. node \in Pool \cup heap
    BY <2>2, FlushedFacts DEF OInv, IInv, NodesInOnePlace, Linked, Nodes, Walking
  <2>5. PICK to : to = order[p + 1]
    OBVIOUS
  <2>6. m_peekerToNode' = m_peekerToNode
        /\ frames' = [frames EXCEPT ![Len(frames)].node = to, ![Len(frames)].pc = "visit"]
    BY <1>4, <2>1, <2>3, <2>4, <2>5 DEF Advance, GoOn
  <2>7. frames' \in Seq(Frame) /\ Len(frames') = 1 /\ Top'.id = id /\ Top'.pc = "visit" /\ Top'.node = to
    <3>1. Len(frames) = 1 /\ Top = frames[1] /\ Top \in Frame /\ frames \in Seq(Frame)
      BY <1>1, TheFrame DEF Numbers
    <3>2. [Top EXCEPT !.node = to, !.pc = "visit"] \in Frame
      BY <2>3, <2>5, <3>1 DEF Frame
    <3>3. frames' = [frames EXCEPT ![1] = [Top EXCEPT !.node = to, !.pc = "visit"]]
      BY <2>6, <3>1
    <3>4. frames' \in Seq(Frame) /\ Len(frames') = 1 /\ Top' = [Top EXCEPT !.node = to, !.pc = "visit"]
      <4>1. PICK f : f = [Top EXCEPT !.node = to, !.pc = "visit"]
        OBVIOUS
      <4>2. frames' \in Seq(Frame) /\ Len(frames') = 1 /\ frames'[1] = f
        BY <3>1, <3>2, <3>3, <4>1, ReplacedFrame
      <4>3. Top' = frames'[1]
        BY <4>2 DEF Top
      <4> QED BY <4>1, <4>2, <4>3
    <3> QED BY <2>1, <3>1, <3>4 DEF Frame
  <2>8. Flushed(to)
    BY <2>3, <2>5 DEF Flushed
  <2>9. ~IdsInCallback /\ id # NoPeeker => SeenBefore(to, id)'
    <3>1. SUFFICES ASSUME ~IdsInCallback, id # NoPeeker, NEW x \in headPos .. flushPos, NEW y \in headPos .. flushPos,
                          to = order[x], y < x
                   PROVE  event[order[y]] \in seen[id] \cup {NoEvent}
      BY <1>1 DEF SeenBefore
    <3>2. x = p + 1 /\ y <= p
      <4>1. x = p + 1
        BY <2>3, <2>5, <3>1, FlushedFacts
      <4> QED BY <3>1, <4>1, FlushedFacts
    <3>3. SeenTo(node, id)
      BY <1>1, <1>4, <2>1, <3>1 DEF Called
    <3> QED BY <2>2, <3>2, <3>3 DEF SeenTo
  <2>10. seen' \in [0 .. MaxPeekers - 1 -> SUBSET Events]
    BY <1>1 DEF Numbers
  <2> QED BY <1>1, <1>4, <2>1, <2>6, <2>7, <2>8, <2>9, <2>10, FrameStep
<1> QED BY <1>2, <1>3, <1>4

LEMMA PeekInitInv == PeekInit => PInv
<1> SUFFICES ASSUME PeekInit PROVE PInv
  OBVIOUS
<1>1. frames = <<>> /\ Ids = {} /\ Len(frames) = 0 /\ main = "idle" /\ ~destroying
  BY DEF PeekInit, Init, Ids
<1>2. Numbers
  BY <1>1, PeekAssumption DEF PeekInit, Numbers
<1> QED BY <1>1, <1>2 DEF PInv, Walking, Called, CacheValid, In

LEMMA PeekInvStep ==
  ASSUME MaxDepth = 1, OInv, OInv', PInv, [PeekNext]_peekAll
  PROVE  PInv'
<1>1. CASE PeekerMatches
  <2>1. frames # <<>> /\ Top.pc = "callback"
    BY <1>1 DEF PeekerMatches, In
  <2> QED BY <1>1, <2>1, ReturnPeeks DEF PeekerMatches
<1>2. CASE (ServerSends \/ ReaderStep) /\ UNCHANGED peekVars
  BY <1>2, ElsewherePeeks DEF Elsewhere
<1>3. CASE UNCHANGED peekAll
  BY <1>3, ElsewherePeeks DEF Elsewhere, peekAll
<1> QED BY <1>1, <1>2, <1>3, IdsPeek, StartPeeks, VisitPeeks, DeclinePeeks, AdvancePeeks, ProcessingPeeks,
           TakingPeeks DEF PeekNext

LEMMA PeekInvariance ==
  ASSUME MaxDepth = 1
  PROVE  PeekSpec => [](OInv /\ PInv)
<1>1. PeekInit => PInv
  BY PeekInitInv
<1>2. OInv /\ OInv' /\ PInv /\ [PeekNext]_peekAll => PInv'
  BY PeekInvStep
<1>3. PeekSpec => []OInv
  BY PeekIsQueue, OrderInvariance, PTL
<1> QED BY <1>1, <1>2, <1>3, PTL DEF PeekSpec

\* A peeker is called only with the event of a node in the list, although it
\* may dequeue nodes by processing events; provided that it does not peek.
THEOREM OnlyListedNodesAreVisited ==
  ASSUME MaxDepth = 1
  PROVE  PeekSpec => []VisitsFlushedNodes
<1>1. PInv => VisitsFlushedNodes
  BY DEF PInv, Walking, VisitsFlushedNodes, In
<1> QED BY <1>1, PeekInvariance, PTL

\* The index a cached peek will start from points into the list.
THEOREM CachePointsIntoList ==
  ASSUME MaxDepth = 1
  PROVE  PeekSpec => []CacheValid
<1>1. PInv => CacheValid
  BY DEF PInv
<1> QED BY <1>1, PeekInvariance, PTL

\* A cached peek skips only what its peeker was called with; provided, besides,
\* that no peeker removes or generates ids.
THEOREM NothingIsSkipped ==
  ASSUME MaxDepth = 1, IdsInCallback = FALSE
  PROVE  PeekSpec => []CachedPeekSkipsNothing
<1>1. OInv /\ PInv => CachedPeekSkipsNothing
  <2> SUFFICES ASSUME OInv, PInv, ~m_peekerIndexCacheDirty, NEW id \in Ids, NEW p \in headPos .. flushPos,
                      m_peekerToNode[id] = order[p], NEW q \in headPos .. p
               PROVE  event[order[q]] \in seen[id] \cup {NoEvent}
    BY DEF CachedPeekSkipsNothing
  <2>1. q \in headPos .. flushPos /\ q <= p
    BY FlushedFacts
  <2> QED BY <2>1 DEF PInv, Called, SeenTo
<1> QED BY <1>1, PeekInvariance, PTL

-----------------------------------------------------------------------------
(* processXcbEvents() and compressEvent().                                  *)

\* An event in hand was taken; a peek for compression is made for one of a
\* compressible kind, and removes nothing.
InHandIsTaken ==
  /\ loop \in {"handle", "compress", "dispatch", "handler"} => taken # <<>>
  /\ main = "release" /\ AfterConsume(got) # "take" => taken # <<>>
  /\ loop = "compress" => main = "peek" /\ option = "PeekRetainMatch" /\ Compressible

\* What compression dropped had been taken, and was of a compressible kind.
Dropped == dropped \subseteq Elements(taken) /\ \A e \in dropped : KindOf[e] \in CompressibleKinds

LInv == KindOf \in Kindings /\ InHandIsTaken /\ Dropped /\ CompressionKeepsLast

\* processEvents() passes flags that takeFirst(flags) knows.
LEMMA PassIsFlags == LoopSpec => [](pass \in FlagValues)
<1>1. LoopInit => pass \in FlagValues
  BY DEF LoopInit, FlagValues
<1>2. pass \in FlagValues /\ [LoopNext]_loopAll => (pass \in FlagValues)'
  BY DEF LoopNext, loopAll, loopVars, LoopStep, PollWoken, processXcbEvents, ExitOnError, TakeCall, TakeGoesOn,
     PassEnds, handleXcbError, compressEvent, CompressHit, CompressMiss, HandlerPeeks, HandlerWaits, handleXcbEvent,
     PollOther, HandlerCall, Quit, Shutdown, Environment, LoopEnded
<1> QED BY <1>1, <1>2, PTL DEF LoopSpec

\* The loop does what the queue allows.
LEMMA LoopIsQueue == LoopSpec => Spec
<1>1. LoopInit => Init
  BY DEF LoopInit
<1>2. pass \in FlagValues /\ [LoopNext]_loopAll => [Next]_vars
  <2> SUFFICES ASSUME pass \in FlagValues, [LoopNext]_loopAll PROVE [Next]_vars
    OBVIOUS
  <2>1. CASE LoopStep
    BY <2>1 DEF LoopStep, PollWoken, processXcbEvents, ExitOnError, TakeCall, TakeGoesOn, PassEnds, handleXcbError,
       compressEvent, CompressHit, CompressMiss, HandlerPeeks, HandlerWaits, handleXcbEvent, Next, MainStep,
       ClientCall, TakeStep, PeekOptions
  <2>2. CASE PollOther \/ HandlerCall \/ Quit \/ Shutdown \/ Environment \/ LoopEnded \/ UNCHANGED loopAll
    BY <2>2 DEF PollOther, HandlerCall, Quit, Shutdown, Environment, LoopEnded, loopAll, Next, MainStep, ClientCall,
       PeekOptions, FlagValues
  <2> QED BY <2>1, <2>2 DEF LoopNext
<1> QED BY <1>1, <1>2, PassIsFlags, PTL DEF LoopSpec, Spec

\* What was taken remains taken, and what was linked linked.
LEMMA TakenGrows ==
  ASSUME OInv, [Next]_vars
  PROVE  /\ Elements(taken) \subseteq Elements(taken)' /\ (taken # <<>> => taken' # <<>>)
         /\ Len(order) <= Len(order')
<1>1. taken \in Seq(Events) /\ m_inputEvents \in Seq(Events) /\ Len(order) \in Nat /\ IInv
  BY LogTypes
<1>2. taken' = taken \/ \E e \in Events : taken' = Append(taken, e)
  <2>1. CASE ServerSends \/ ConnectionBreaks \/ UNCHANGED vars \/ qXcbEventNodeFactory \/ LinkNode \/ PublishTail
    BY <2>1 DEF ServerSends, ConnectionBreaks, vars, qXcbEventNodeFactory, LinkNode, PublishTail, logVars
  <2>2. CASE QuietReader
    BY <2>2 DEF QuietReader, xcb_wait_for_event, ReaderSeesError, ReaderLocks, isCloseConnectionEvent,
       xcb_poll_for_queued_event, wakeOne, wakeUpDispatcher, DispatcherWakeUp, logVars
  <2>3. ASSUME NEW fl \in FlagValues, takeFirst(fl) PROVE taken' = taken \/ \E e \in Events : taken' = Append(taken, e)
    <3>1. m_inputEvents # <<>> => Head(m_inputEvents) \in Events
      BY <1>1, HeadTailProperties
    <3> QED BY <2>3, <3>1 DEF takeFirst, TakeInputEvent, logVars
  <2>4. CASE QuietMain /\ ~(\E fl \in FlagValues : takeFirst(fl))
    BY <2>4 DEF QuietMain, TakeReturnsNull, WaitTimesOut, WaitReturns, CreateDispatcher, ConsumeWakeUp,
       qAddPostRoutine, DeleteDispatcher, sendCloseConnectionEvent, logVars
  <2>5. CASE Flushing \/ ReleaseNode \/ PeekMiss \/ PeekMatch \/ DestructorEnds
    BY <2>5 DEF Flushing, flushBufferedEvents, peek, waitForNewEvents, DrainQueue, ReleaseNode, PeekMiss, PeekMatch,
       DestructorEnds, logVars
  <2>6. CASE TakeFromLastNode \/ TakeNode
    <3>1. event[m_head] \in Events \cup {NoEvent}
      BY <1>1 DEF IInv, TypeOK
    <3> QED BY <2>6, <3>1 DEF TakeFromLastNode, TakeNode, Consume
  <2> QED BY <2>1, <2>2, <2>3, <2>4, <2>5, <2>6, NextCases
<1>3. Elements(taken) \subseteq Elements(taken)' /\ (taken # <<>> => taken' # <<>>)
  <2>1. CASE taken' = taken
    BY <2>1 DEF Elements
  <2>2. ASSUME NEW e \in Events, taken' = Append(taken, e)
        PROVE  Elements(taken) \subseteq Elements(taken)' /\ taken' # <<>>
    <3>1. Elements(Append(taken, e)) = Elements(taken) \cup {e} /\ Append(taken, e)[Len(taken) + 1] = e
          /\ DOMAIN Append(taken, e) = 1 .. Len(taken) + 1 /\ Len(taken) \in Nat
      BY <1>1, AppendElements
    <3>2. Elements(taken)' = Elements(Append(taken, e))
      BY <2>2 DEF Elements
    <3>3. taken' # <<>>
      BY <2>2, <3>1
    <3> QED BY <3>1, <3>2, <3>3
  <2> QED BY <1>2, <2>1, <2>2
<1>4. Len(order) <= Len(order')
  <2>1. CASE LinkNode
    BY <1>1, <2>1, LinkedAfterLink
  <2>2. ASSUME order' = order PROVE Len(order) <= Len(order')
    BY <1>1, <2>2
  <2> QED BY <1>1, <2>1, <2>2, NextCases, QuietUnchanged, ListedUnchanged
          DEF Untouching, TakeFromLastNode, TakeNode, PeekMatch
<1> QED BY <1>3, <1>4

\* takeFirst() returns what it took.
LEMMA ReturnedIsTaken ==
  ASSUME OInv, [Next]_vars, main = "release" /\ AfterConsume(got) # "take" => taken # <<>>
  PROVE  /\ main' = "release" /\ (AfterConsume(got) # "take")' => taken' # <<>>
         /\ (TakeFromLastNode \/ TakeNode \/ ReleaseNode) /\ main' = "idle" => taken' # <<>>
         /\ \A fl : takeFirst(fl) /\ main' = "idle" => taken' # <<>>
<1>1. taken \in Seq(Events) /\ m_inputEvents \in Seq(Events) /\ \A e : Append(taken, e) # <<>>
  <2>1. taken \in Seq(Events) /\ m_inputEvents \in Seq(Events)
    BY LogTypes
  <2> QED BY <2>1
<1>2. ASSUME NEW e, Consume(e), AfterConsume(e) # "take"
      PROVE  taken' # <<>>
  BY <1>1, <1>2 DEF Consume, AfterConsume
<1>3. (TakeFromLastNode \/ TakeNode \/ ReleaseNode) /\ main' = "idle" => taken' # <<>>
  BY <1>2, TakenGrows DEF TakeFromLastNode, TakeNode, ReleaseNode
<1>4. \A fl : takeFirst(fl) /\ main' = "idle" => taken' # <<>>
  BY <1>1 DEF takeFirst, TakeInputEvent
<1>5. CASE TakeNode
  <2>1. Consume(got') /\ flags' = flags /\ userInput' = userInput /\ destroying' = destroying
    BY <1>5 DEF TakeNode, xVars
  <2>2. (AfterConsume(got) # "take")' => AfterConsume(got') # "take"
    BY <2>1 DEF AfterConsume, Park, Returned
  <2> QED BY <1>2, <1>3, <1>4, <2>1, <2>2
<1>6. ASSUME ~TakeNode, main' = "release"
      PROVE  main = "release" /\ got' = got /\ flags' = flags
  BY <1>6, NextCases DEF ServerSends, ConnectionBreaks, vars, qXcbEventNodeFactory, LinkNode, PublishTail, callVars,
     QuietReader, xcb_wait_for_event, ReaderSeesError, ReaderLocks, isCloseConnectionEvent,
     xcb_poll_for_queued_event, wakeOne, wakeUpDispatcher, DispatcherWakeUp,
     QuietMain, takeFirst, TakeReturnsNull, WaitTimesOut, WaitReturns, CreateDispatcher,
     ConsumeWakeUp, qAddPostRoutine, DeleteDispatcher, sendCloseConnectionEvent,
     Flushing, flushBufferedEvents, peek, waitForNewEvents, DrainQueue, TakeFromLastNode, ReleaseNode, PeekMiss,
     PeekMatch, PeekAdvance, DestructorEnds, AfterConsume, Returned
<1>7. CASE ~TakeNode
  <2>1. main' = "release" /\ (AfterConsume(got) # "take")' => main = "release" /\ AfterConsume(got) # "take"
    BY <1>6, <1>7, UserInputIsFixed DEF AfterConsume, Park, Returned
  <2> QED BY <1>3, <1>4, <2>1, TakenGrows
<1> QED BY <1>5, <1>7

LEMMA LoopControl ==
  ASSUME OInv, InHandIsTaken, pass \in FlagValues, [LoopNext]_loopAll, [Next]_vars
  PROVE  InHandIsTaken'
<1>1. main' = "release" /\ (AfterConsume(got) # "take")' => taken' # <<>>
  BY ReturnedIsTaken DEF InHandIsTaken
<1>2. taken # <<>> => taken' # <<>>
  BY TakenGrows
<1>3. KindOf' = KindOf
  BY DEF LoopNext, loopAll
<1>4. ASSUME loop' \in {"poll", "process", "take", "taking", "exited", "quit"}
      PROVE  InHandIsTaken'
  BY <1>1, <1>4 DEF InHandIsTaken
<1>5. CASE TakeCall
  <2>1. loop' = "handle" /\ main' = "idle" => taken' # <<>>
    BY <1>5, ReturnedIsTaken DEF TakeCall, InHandIsTaken
  <2>2. loop' = IF main' = "idle" THEN "handle" ELSE "taking"
    BY <1>5 DEF TakeCall
  <2> QED BY <1>1, <2>1, <2>2 DEF InHandIsTaken
<1>6. CASE TakeGoesOn
  <2>1. main' = "idle" => taken' # <<>>
    BY <1>6, ReturnedIsTaken DEF TakeGoesOn, InHandIsTaken
  <2>2. loop' = IF main' = "idle" THEN "handle" ELSE "taking"
    BY <1>6 DEF TakeGoesOn
  <2> QED BY <1>1, <2>1, <2>2 DEF InHandIsTaken
<1>7. CASE compressEvent
  <2>1. /\ loop = "handle" /\ loop' \in {"compress", "dispatch"}
        /\ loop' = "compress" => main' = "peek" /\ option' = "PeekRetainMatch"
        /\ Compressible /\ taken' = taken /\ KindOf' = KindOf
    BY <1>7, <1>3 DEF compressEvent, peek, logVars
  <2> QED BY <1>1, <1>2, <2>1 DEF InHandIsTaken, Compressible, InHand
<1>8. CASE CompressMiss
  <2>1. /\ loop = "compress" /\ loop' \in {"compress", "dispatch"}
        /\ loop' = "compress" => main' = "peek" /\ option' = "PeekRetainMatch"
        /\ Compressible /\ taken' = taken /\ KindOf' = KindOf
    BY <1>8, <1>3 DEF CompressMiss, PeekMiss, PeekAdvance, InHandIsTaken, logVars
  <2> QED BY <1>1, <1>2, <2>1 DEF InHandIsTaken, Compressible, InHand
<1>9. CASE HandlerCall \/ HandlerPeeks \/ HandlerWaits
  <2>1. loop \in {"dispatch", "handler"} /\ loop' = "handler"
    BY <1>9 DEF HandlerCall, HandlerPeeks, HandlerWaits, loopVars
  <2> QED BY <1>1, <1>2, <2>1 DEF InHandIsTaken
<1>10. CASE Environment \/ LoopEnded \/ UNCHANGED loopAll
  <2>1. Elsewhere \/ CreateDispatcher
    BY <1>10 DEF Environment, LoopEnded, loopAll, Elsewhere
  <2>2. option' = option /\ (main = "peek" => main' = "peek") /\ taken' = taken /\ KindOf' = KindOf
    BY <2>1, <1>3, ElsewhereKeeps DEF CreateDispatcher, callVars, logVars
  <2>3. loop' = loop
    BY <1>10 DEF Environment, LoopEnded, loopAll, loopVars
  <2> QED BY <1>1, <1>2, <2>2, <2>3 DEF InHandIsTaken, Compressible, InHand
<1>11. CASE PollWoken \/ processXcbEvents \/ ExitOnError \/ PassEnds \/ handleXcbError \/ CompressHit \/ handleXcbEvent
            \/ PollOther \/ Quit \/ Shutdown
  BY <1>4, <1>11 DEF PollWoken, processXcbEvents, ExitOnError, PassEnds, handleXcbError, CompressHit, handleXcbEvent,
     PollOther, Quit, Shutdown, loopVars
<1> QED BY <1>5, <1>6, <1>7, <1>8, <1>9, <1>10, <1>11 DEF LoopNext, LoopStep

\* A step that neither drops nor removes an event.
LEMMA NothingDropped ==
  ASSUME OInv, OInv', LInv, [Next]_vars, UNCHANGED <<KindOf, dropped, removed>>
  PROVE  Dropped' /\ CompressionKeepsLast'
<1>1. Dropped'
  BY TakenGrows DEF LInv, Dropped
<1>2. CompressionKeepsLast'
  <2>1. Len(order) \in Nat /\ Len(order') \in Nat /\ Len(order) <= Len(order')
    <3>1. Len(order) \in Nat
      BY FlushedFacts
    <3> QED BY <3>1, TakenGrows, FlushedNext DEF Positions
  <2> QED BY <2>1, MaxEventsAssumption DEF LInv, CompressionKeepsLast, Events
<1> QED BY <1>1, <1>2

\* The event dropped is followed by the one the peek has found.
LEMMA DroppedForLater ==
  ASSUME OInv, OInv', LInv, [Next]_vars, CompressHit, UNCHANGED KindOf
  PROVE  Dropped' /\ CompressionKeepsLast'
<1>1. PICK p \in headPos .. flushPos : cursor = order[p]
  BY DEF CompressHit, PeekMatch, OInv, IInv, Walk
<1>2. p \in headPos .. Len(order) /\ event[order[p]] = p - 1 /\ p - 1 # NoEvent /\ KindOf[p - 1] = KindOf[InHand]
  BY <1>1, FlushedFacts DEF CompressHit, SameKind
<1>3. /\ dropped' = dropped \cup {InHand} /\ taken # <<>> /\ KindOf[InHand] \in CompressibleKinds
      /\ UNCHANGED <<removed, taken, order>>
  BY DEF CompressHit, PeekMatch, LInv, InHandIsTaken, Compressible
<1>4. taken \in Seq(Events) /\ InHand \in Elements(taken) /\ InHand \in Events
  <2>1. taken \in Seq(Events)
    BY LogTypes
  <2>2. Len(taken) \in DOMAIN taken
    BY <1>3, <2>1
  <2> QED BY <2>1, <2>2 DEF InHand, Elements
<1>5. p - 1 \in Listed
  BY <1>1, <1>2 DEF Listed
<1>6. p - 1 \in Events /\ p - 1 \notin Elements(taken) \cup removed /\ p - 1 < Len(order)
  <2>1. p - 1 \in 1 .. Len(order) - 1 /\ p - 1 \notin Elements(taken) \cup removed
    BY <1>5 DEF OInv, ExactlyOnce
  <2>2. p - 1 \in Events
    <3>1. order[p] \in Nodes /\ event \in [Nodes -> Events \cup {NoEvent}]
      BY <1>2, FlushedFacts DEF OInv, IInv, TypeOK
    <3>2. event[order[p]] \in Events \cup {NoEvent}
      BY <3>1
    <3> QED BY <1>2, <3>2
  <2> QED BY <2>1, <2>2, FlushedFacts
<1>7. InHand < p - 1
  <2>1. /\ InHand < headPos /\ (InHand = headPos - 1 => event[order[headPos]] = NoEvent)
        /\ headPos <= p /\ headPos \in Nat /\ p \in Nat /\ InHand \in Nat
    BY <1>1, <1>4, FlushedFacts, MaxEventsAssumption DEF OInv, Passed, Events
  <2>2. InHand # p - 1
    BY <1>4, <1>6
  <2> QED BY <2>1, <2>2
<1>8. Dropped'
  BY <1>3, <1>4 DEF LInv, Dropped, Elements
<1>9. CompressionKeepsLast'
  <2> SUFFICES ASSUME NEW e \in dropped'
               PROVE  \E f \in Events : /\ f > e /\ f < Len(order) /\ KindOf[f] = KindOf[e]
                                        /\ f \notin dropped' \cup removed
    BY <1>3 DEF CompressionKeepsLast
  <2>1. p - 1 \notin dropped' /\ dropped \subseteq Events
    BY <1>3, <1>4, <1>6, <1>8, LogTypes DEF Dropped, Elements, LInv
  <2>2. CASE e = InHand
    BY <1>2, <1>3, <1>6, <1>7, <2>1, <2>2
  <2>3. CASE e \in dropped
    <3>1. PICK f \in Events : f > e /\ f < Len(order) /\ KindOf[f] = KindOf[e] /\ f \notin dropped \cup removed
      BY <2>3 DEF LInv, CompressionKeepsLast
    <3>2. CASE f = InHand
      <4>1. p - 1 > e
        BY <1>4, <1>6, <1>7, <2>1, <2>3, <3>1, <3>2, MaxEventsAssumption DEF Events
      <4> QED BY <1>2, <1>3, <1>6, <2>1, <3>1, <3>2, <4>1
    <3>3. CASE f # InHand
      BY <1>3, <3>1, <3>3
    <3> QED BY <3>2, <3>3
  <2> QED BY <1>3, <2>2, <2>3
<1> QED BY <1>8, <1>9

\* A handler's peeker removes nothing that compression has kept.
LEMMA HandlerRemoves ==
  ASSUME OInv, OInv', LInv, [Next]_vars, HandlerPeeks, UNCHANGED KindOf
  PROVE  Dropped' /\ CompressionKeepsLast'
<1>1. dropped' = dropped /\ UNCHANGED <<order, taken>>
  BY DEF HandlerPeeks, PeekMatch, PeekMiss, loopVars, logVars
<1>2. Dropped'
  BY <1>1 DEF LInv, Dropped, Elements
<1>3. \A f \in removed' \ removed : KindOf[f] \in PeekedKinds
  BY DEF HandlerPeeks, PeekMatch, PeekMiss, logVars
<1>4. CompressionKeepsLast'
  <2> SUFFICES ASSUME NEW e \in dropped
               PROVE  \E f \in Events : /\ f > e /\ f < Len(order) /\ KindOf[f] = KindOf[e]
                                        /\ f \notin dropped \cup removed'
    BY <1>1 DEF CompressionKeepsLast
  <2>1. PICK f \in Events : f > e /\ f < Len(order) /\ KindOf[f] = KindOf[e] /\ f \notin dropped \cup removed
    BY DEF LInv, CompressionKeepsLast
  <2>2. KindOf[f] \in CompressibleKinds
    BY <2>1 DEF LInv, Dropped
  <2>3. f \notin removed'
    BY <1>3, <2>1, <2>2, KindAssumption
  <2> QED BY <2>1, <2>3
<1> QED BY <1>2, <1>4

\* Every other step leaves both logs as they are.
LEMMA OtherSteps ==
  ASSUME OInv, [LoopNext]_loopAll, ~CompressHit, ~HandlerPeeks
  PROVE  UNCHANGED <<dropped, removed>>
<1>1. CASE LoopStep
  BY <1>1 DEF LoopStep, PollWoken, ConsumeWakeUp, processXcbEvents, flushBufferedEvents, ExitOnError, TakeCall,
     TakeInputEvent, takeFirst, TakeGoesOn, TakeFromLastNode, TakeNode, ReleaseNode, Consume, PassEnds, TakeReturnsNull,
     handleXcbError, compressEvent, peek, CompressMiss, PeekMiss, HandlerWaits, WaitTimesOut, WaitReturns,
     handleXcbEvent, loopVars, logVars, vars
<1>2. CASE PollOther \/ HandlerCall \/ Quit \/ LoopEnded \/ UNCHANGED loopAll
  BY <1>2 DEF PollOther, HandlerCall, waitForNewEvents, peek, Quit, qAddPostRoutine, LoopEnded, loopAll, loopVars,
     logVars, vars
<1>3. CASE Shutdown
  BY <1>3 DEF Shutdown, DeleteDispatcher, sendCloseConnectionEvent, DrainQueue, TakeStep, TakeFromLastNode, TakeNode,
     ReleaseNode, Consume, TakeReturnsNull, DestructorEnds, takeFirst, TakeInputEvent, loopVars, logVars
<1>4. CASE Environment
  <2>1. Elsewhere \/ CreateDispatcher
    BY <1>4 DEF Environment, Elsewhere
  <2>2. dropped' = dropped
    BY <1>4 DEF Environment, loopVars
  <2> QED BY <2>1, <2>2, ElsewhereKeeps DEF CreateDispatcher, logVars
<1> QED BY <1>1, <1>2, <1>3, <1>4 DEF LoopNext

LEMMA LoopInitInv == LoopInit => LInv
<1> SUFFICES ASSUME LoopInit PROVE LInv
  OBVIOUS
<1>1. /\ KindOf \in Kindings /\ loop = "poll" /\ main = "idle" /\ dropped = {}
  BY DEF LoopInit, Init
<1> QED BY <1>1 DEF LInv, InHandIsTaken, Dropped, CompressionKeepsLast

LEMMA LoopInvStep ==
  ASSUME OInv, OInv', LInv, pass \in FlagValues, [LoopNext]_loopAll, [Next]_vars
  PROVE  LInv'
<1>1. KindOf' = KindOf
  BY DEF LoopNext, loopAll
<1>2. InHandIsTaken'
  BY LoopControl DEF LInv
<1>3. Dropped' /\ CompressionKeepsLast'
  BY <1>1, DroppedForLater, HandlerRemoves, OtherSteps, NothingDropped
<1> QED BY <1>1, <1>2, <1>3 DEF LInv

LEMMA LoopInvariance == LoopSpec => [](OInv /\ LInv)
<1>1. LoopSpec => []OInv /\ [](pass \in FlagValues) /\ [][Next]_vars
  BY LoopIsQueue, OrderInvariance, PassIsFlags, PTL DEF Spec
<1>2. OInv /\ OInv' /\ LInv /\ pass \in FlagValues /\ [LoopNext]_loopAll /\ [Next]_vars => LInv'
  BY LoopInvStep
<1> QED BY <1>1, <1>2, LoopInitInv, PTL DEF LoopSpec

\* Compression never loses the last state: each event compressEvent() discards
\* is followed by one of its kind that is handled or still to come, whatever the
\* reader adds, the handlers wait for or their peekers remove meanwhile.
THEOREM CompressionLosesNothing == LoopSpec => []CompressionKeepsLast
<1>1. LInv => CompressionKeepsLast
  BY DEF LInv
<1> QED BY <1>1, LoopInvariance, PTL
=============================================================================
