-------------------------- MODULE EventQueueProofs --------------------------
(***************************************************************************)
(* Proofs about EventQueue for every pool size, heap, number of events and  *)
(* choice of user input.  The heart of the invariant is Ring: the pool is a *)
(* ring in which the nodes in use are the ones handed out last, and the     *)
(* list holds them in that order.  It is what makes it enough to count the  *)
(* nodes that are free.  Then, what becomes of each event.                  *)
(***************************************************************************)
EXTENDS EventQueue, SequenceTheorems, FiniteSetTheorems, WellFoundedInduction, TLAPS

\* how many pool nodes are in use, and how long ago node n was handed out
Used == PoolSize - m_freeNodes - m_nodesRestored
Rank(n) == IF n <= m_poolIndex THEN m_poolIndex - n ELSE m_poolIndex - n + PoolSize

\* The program counters, the mutex and the nodes in flight agree.
Control ==
  /\ reader = "link" <=> rNode # NullNode
  /\ main = "release" <=> retired # NullNode
  /\ reader \in {"enqueue", "link", "publish", "poll", "notify"} <=> mutex = "reader"
  /\ reader \in {"lock", "enqueue"} => rEvent # NoEvent
  /\ destroying => reader = "done"
  /\ main \in {"drain", "destroyed"} => destroying

\* The list is order from headPos on, and the four pointers stand in it.
Chain ==
  /\ 1 <= headPos /\ headPos <= flushPos /\ flushPos <= PublishedPos
  /\ m_head = order[headPos] /\ m_flushedTail = order[flushPos]
  /\ m_tail = order[PublishedPos] /\ tail = order[Len(order)]
  /\ \A p \in headPos .. Len(order) - 1 : next[order[p]] = order[p + 1]

\* peek() stands at a flushed node.
Walk == main = "peek" => \E p \in headPos .. flushPos : cursor = order[p]

\* The ring of pool nodes.
Ring ==
  /\ 0 <= Used
  /\ \A n \in Pool : Rank(n) < Used <=> n \in Linked \cup InFlight
  /\ \A p, q \in headPos .. Len(order) :
       p < q /\ order[p] \in Pool /\ order[q] \in Pool => Rank(order[p]) > Rank(order[q])
  /\ rNode \in Pool => \A n \in (Linked \cup {retired}) \cap Pool : Rank(n) > Rank(rNode)
  /\ retired \in Pool => \A n \in Linked \cap Pool : Rank(n) < Rank(retired)

\* The dispatcher outlives the reader's interest in it.
Bars ==
  /\ dispatcher = "gone" => dispatcherOwnerDestructing
  /\ reader \in {"calling", "lastCalling"} => ~dispatcherOwnerDestructing /\ dispatcher = "alive"

IInv == TypeOK /\ Control /\ Chain /\ Walk /\ NodesInOnePlace /\ Ring /\ Bars /\ NoLostSignal

-----------------------------------------------------------------------------
\* The actions by what they do to the list.
QuietReader ==
  \/ xcb_wait_for_event \/ ReaderSeesError \/ ReaderLocks \/ isCloseConnectionEvent
  \/ xcb_poll_for_queued_event \/ wakeOne \/ wakeUpDispatcher \/ DispatcherWakeUp

QuietMain ==
  \/ (\E fl \in FlagValues : takeFirst(fl)) \/ TakeReturnsNull
  \/ WaitTimesOut \/ WaitReturns \/ CreateDispatcher \/ ConsumeWakeUp \/ qAddPostRoutine
  \/ DeleteDispatcher \/ sendCloseConnectionEvent

Flushing ==
  \/ flushBufferedEvents \/ (\E opt \in PeekOptions : peek(opt)) \/ waitForNewEvents \/ DrainQueue

listShape == <<order, headPos, flushPos, m_head, m_flushedTail, m_tail, tail, next>>
useShape  == <<rNode, retired, heap, m_freeNodes, m_nodesRestored, m_poolIndex>>

\* Every step is one of these, grouped by what it changes.
LEMMA NextCases ==
  ASSUME [Next]_vars
  PROVE  \/ ServerSends \/ ConnectionBreaks \/ QuietReader \/ QuietMain \/ UNCHANGED vars
         \/ Flushing \/ qXcbEventNodeFactory \/ LinkNode \/ PublishTail
         \/ TakeFromLastNode \/ TakeNode \/ ReleaseNode \/ PeekMiss \/ PeekMatch \/ DestructorEnds
BY DEF Next, ReaderStep, MainStep, ClientCall, TakeStep, Destroyed, QuietReader, QuietMain, Flushing

\* The quiet steps change neither the list nor who uses which node.
LEMMA QuietUnchanged ==
  ASSUME ServerSends \/ ConnectionBreaks \/ QuietReader \/ QuietMain \/ UNCHANGED vars
  PROVE  UNCHANGED <<listShape, useShape>> /\ (reader' = "publish" <=> reader = "publish")
         /\ (reader' = "link" <=> reader = "link") /\ (main' = "peek" <=> main = "peek") /\ cursor' = cursor
         /\ (main' = "destroyed" <=> main = "destroyed")
<1>1. CASE ServerSends
  BY <1>1 DEF ServerSends, readerVars, callVars, listVars, viewVars, listShape, useShape
<1>2. CASE ConnectionBreaks
  BY <1>2 DEF ConnectionBreaks, readerVars, callVars, listVars, viewVars, listShape, useShape
<1>3. CASE QuietReader
  BY <1>3 DEF QuietReader, xcb_wait_for_event, ReaderSeesError, ReaderLocks, isCloseConnectionEvent,
              xcb_poll_for_queued_event, wakeOne, wakeUpDispatcher, DispatcherWakeUp, Finished,
              readerVars, callVars, listVars, viewVars, listShape, useShape
<1>4. CASE QuietMain
  BY <1>4 DEF QuietMain, takeFirst, TakeReturnsNull, WaitTimesOut, WaitReturns, CreateDispatcher,
              ConsumeWakeUp, qAddPostRoutine, DeleteDispatcher, sendCloseConnectionEvent,
              readerVars, callVars, listVars, viewVars, listShape, useShape
<1>5. CASE UNCHANGED vars
  BY <1>5 DEF vars, readerVars, callVars, listVars, viewVars, listShape, useShape
<1>6. QED
  BY <1>1, <1>2, <1>3, <1>4, <1>5

\* The positions of the list heads are positions of order.
LEMMA Bounds ==
  ASSUME TypeOK, Chain
  PROVE  /\ order \in Seq(Nodes) /\ Len(order) \in Nat
         /\ headPos \in Nat /\ flushPos \in Nat /\ PublishedPos \in Nat
         /\ 1 <= headPos /\ headPos <= flushPos /\ flushPos <= PublishedPos
         /\ PublishedPos <= Len(order)
         /\ next \in [Nodes -> Nodes \cup {NullNode}]
         /\ \A p \in 1 .. Len(order) : order[p] \in Nodes
BY DEF TypeOK, Chain, PublishedPos

-----------------------------------------------------------------------------
\* The pool as a ring: the nodes in use are the Used last ones handed out.
LEMMA RankFacts ==
  ASSUME TypeOK
  PROVE  /\ PoolSize \in Nat \ {0} /\ Used \in Int
         /\ \A n \in Pool : Rank(n) \in 0 .. PoolSize - 1
         /\ \A m, n \in Pool : Rank(m) = Rank(n) => m = n
         /\ \A k \in 0 .. PoolSize - 1 : \E n \in Pool : Rank(n) = k
<1>1. PoolSize \in Nat \ {0} /\ m_poolIndex \in 1 .. PoolSize /\ m_freeNodes \in Nat /\ m_nodesRestored \in Nat
  BY PoolSizeAssumption DEF TypeOK
<1>2. \A n \in Pool : Rank(n) \in 0 .. PoolSize - 1
  BY <1>1 DEF Rank, Pool
<1>3. \A m, n \in Pool : Rank(m) = Rank(n) => m = n
  BY <1>1 DEF Rank, Pool
<1>4. ASSUME NEW k \in 0 .. PoolSize - 1
      PROVE  \E n \in Pool : Rank(n) = k
  <2>1. CASE k < m_poolIndex
    <3>1. m_poolIndex - k \in Pool /\ Rank(m_poolIndex - k) = k
      BY <1>1, <2>1 DEF Rank, Pool
    <3>2. QED
      BY <3>1
  <2>2. CASE k >= m_poolIndex
    <3>1. m_poolIndex - k + PoolSize \in Pool /\ Rank(m_poolIndex - k + PoolSize) = k
      BY <1>1, <2>2 DEF Rank, Pool
    <3>2. QED
      BY <3>1
  <2>3. QED
    BY <1>1, <2>1, <2>2
<1>5. QED
  BY <1>1, <1>2, <1>3, <1>4 DEF Used

\* qXcbEventNodeFactory() returns a node that nobody uses.
LEMMA PoolNodeIsFree ==
  ASSUME IInv, NodeFromPool
  PROVE  NextPoolIndex \in Pool \ (Linked \cup InFlight)
<1>1. Rank(NextPoolIndex) = PoolSize - 1 /\ NextPoolIndex \in Pool
  BY PoolSizeAssumption DEF IInv, TypeOK, NextPoolIndex, Rank, Pool
<1>2. Used < PoolSize
  BY RankFacts, PoolSizeAssumption DEF IInv, TypeOK, NodeFromPool, Available, Used
<1>3. QED
  BY <1>1, <1>2, RankFacts DEF IInv, Ring

\* qXcbEventNodeFactory() returns a node that is neither linked nor in flight,
\* from the pool or from the heap.
LEMMA FreshNode ==
  ASSUME IInv, qXcbEventNodeFactory
  PROVE  /\ reader = "enqueue" /\ rNode = NullNode /\ main # "destroyed" /\ main' = main
         /\ UNCHANGED <<order, headPos, flushPos, retired>>
         /\ \E n \in Nodes \ (Linked \cup InFlight) :
              InitialiseNode(n) /\ heap' = IF n \in Pool THEN heap ELSE heap \cup {n}
<1>1. reader = "enqueue" /\ rNode = NullNode /\ main # "destroyed" /\ main' = main
      /\ UNCHANGED <<order, headPos, flushPos, retired>>
  BY DEF qXcbEventNodeFactory, IInv, Control, callVars, viewVars
<1>2. CASE NodeFromPool
  BY <1>1, <1>2, PoolNodeIsFree DEF NodeFromPool, Nodes
<1>3. CASE NodeFromHeap
  <2>1. PICK n \in HeapNodes \ heap : InitialiseNode(n) /\ heap' = heap \cup {n}
    BY <1>3 DEF NodeFromHeap
  <2>2. n \in Nodes \ (Linked \cup InFlight) /\ n \notin Pool
    BY <1>1, <2>1, NodesAssumption DEF IInv, NodesInOnePlace, Nodes
  <2>3. QED
    BY <1>1, <2>1, <2>2
<1>4. QED
  BY <1>1, <1>2, <1>3 DEF qXcbEventNodeFactory

\* Linking the reader's node adds it to the list.
LEMMA LinkedAfterLink ==
  ASSUME IInv, LinkNode
  PROVE  /\ rNode \in Nodes /\ rNode' = NullNode /\ headPos' = headPos
         /\ UNCHANGED <<retired, heap, main, m_freeNodes, m_nodesRestored, m_poolIndex>>
         /\ Len(order') = Len(order) + 1 /\ order'[Len(order) + 1] = rNode
         /\ \A p \in 1 .. Len(order) : order'[p] = order[p]
         /\ Linked' = Linked \cup {rNode}
<1>1. /\ rNode \in Nodes /\ rNode' = NullNode /\ headPos' = headPos
      /\ UNCHANGED <<retired, heap, main, m_freeNodes, m_nodesRestored, m_poolIndex>>
  BY DEF IInv, LinkNode, Control, TypeOK, viewVars, callVars
<1>2. /\ order' = Append(order, rNode) /\ Len(order') = Len(order) + 1
      /\ order'[Len(order) + 1] = rNode
      /\ \A p \in 1 .. Len(order) : order'[p] = order[p]
  BY <1>1 DEF LinkNode, IInv, TypeOK
<1>3. headPos \in Nat /\ Len(order) \in Nat /\ 1 <= headPos /\ headPos <= Len(order)
  BY Bounds DEF IInv
<1>4. headPos .. Len(order') = (headPos .. Len(order)) \cup {Len(order) + 1}
  BY <1>2, <1>3
<1>5. \A p \in headPos .. Len(order) : order'[p] = order[p]
  BY <1>2, <1>3
<1>6. Linked' = Linked \cup {rNode}
  <2>1. ASSUME NEW p \in headPos .. Len(order)
        PROVE  order[p] \in Linked'
    BY <1>1, <1>4, <1>5 DEF Linked
  <2>2. rNode \in Linked'
    BY <1>1, <1>2, <1>4 DEF Linked
  <2>3. ASSUME NEW p \in headPos' .. Len(order')
        PROVE  order'[p] \in Linked \cup {rNode}
    BY <1>1, <1>2, <1>4, <1>5 DEF Linked
  <2>4. QED
    BY <2>1, <2>2, <2>3 DEF Linked
<1>7. QED
  BY <1>1, <1>2, <1>6

\* dequeueNode() takes the first node, and only it, out of the list.
LEMMA LinkedAfterTake ==
  ASSUME IInv, TakeNode
  PROVE  /\ retired = NullNode /\ main # "destroyed" /\ main' = "release"
         /\ headPos + 1 <= Len(order) /\ headPos' = headPos + 1
         /\ retired' = order[headPos] /\ order[headPos] \in Nodes
         /\ UNCHANGED <<order, rNode, heap, m_freeNodes, m_nodesRestored, m_poolIndex>>
         /\ Linked = Linked' \cup {order[headPos]} /\ order[headPos] \notin Linked'
<1>1. /\ retired = NullNode /\ main # "destroyed" /\ main' = "release"
      /\ headPos' = headPos + 1 /\ retired' = order[headPos]
      /\ UNCHANGED <<order, rNode, heap, m_freeNodes, m_nodesRestored, m_poolIndex>>
  BY DEF IInv, Control, Chain, TakeNode, readerVars, listVars
<1>2. headPos \in Nat /\ Len(order) \in Nat /\ 1 <= headPos /\ headPos + 1 <= Len(order)
      /\ order[headPos] \in Nodes
  <2>1. headPos # flushPos
    BY DEF IInv, TakeNode, Chain
  <2>2. QED
    BY <2>1, Bounds DEF IInv
<1>3. headPos .. Len(order) = (headPos' .. Len(order)) \cup {headPos}
  BY <1>1, <1>2
<1>4. Linked = Linked' \cup {order[headPos]}
  BY <1>1, <1>3 DEF Linked
<1>5. order[headPos] \notin Linked'
  <2>1. ASSUME NEW p \in headPos' .. Len(order), order[p] = order[headPos]
        PROVE  FALSE
    <3>1. p \in headPos .. Len(order) /\ headPos \in headPos .. Len(order) /\ p # headPos
      BY <1>1, <1>2
    <3>2. QED
      BY <2>1, <3>1 DEF IInv, NodesInOnePlace
  <2>2. QED
    BY <1>1, <2>1 DEF Linked
<1>6. QED
  BY <1>1, <1>2, <1>4, <1>5

-----------------------------------------------------------------------------
\* What every step preserves of the list.
LEMMA ChainStep ==
  ASSUME IInv, [Next]_vars
  PROVE  Chain'
<1> USE DEF IInv
<1>1. ASSUME UNCHANGED listShape, reader' = "publish" <=> reader = "publish"
      PROVE  Chain'
  BY <1>1 DEF Chain, listShape, PublishedPos
<1>2. ASSUME Flush, UNCHANGED <<order, headPos, m_head, m_tail, tail, next, reader>>
      PROVE  Chain'
  BY <1>2 DEF Chain, Flush, PublishedPos, TypeOK
<1>3. CASE Flushing
  BY <1>3, <1>2 DEF Flushing, flushBufferedEvents, peek, waitForNewEvents, DrainQueue, readerVars, listVars
<1>4. CASE qXcbEventNodeFactory
  <2>1. PICK n \in Nodes \ Linked : InitialiseNode(n)
    BY <1>4, FreshNode
  <2>2. QED
    BY <1>4, <2>1 DEF qXcbEventNodeFactory, Chain, PublishedPos, InitialiseNode, Linked, viewVars, TypeOK
<1>5. CASE LinkNode
  <2>1. /\ order' = Append(order, rNode) /\ Len(order') = Len(order) + 1
        /\ order'[Len(order) + 1] = rNode
        /\ \A p \in 1 .. Len(order) : order'[p] = order[p]
    BY <1>5 DEF LinkNode, TypeOK, Control
  <2>2. /\ next' = [next EXCEPT ![tail] = rNode] /\ tail' = rNode
        /\ UNCHANGED <<headPos, flushPos, m_head, m_flushedTail, m_tail>>
        /\ reader = "link" /\ reader' = "publish"
    BY <1>5 DEF LinkNode, viewVars
  <2>3. \A p \in headPos .. Len(order) - 1 : order[p] # tail
    BY Bounds DEF Chain, NodesInOnePlace
  <2>4. \A p \in headPos' .. Len(order') - 1 : next'[order'[p]] = order'[p + 1]
    <3>1. TAKE p \in headPos' .. Len(order') - 1
    <3>2. p \in headPos .. Len(order) /\ p \in 1 .. Len(order)
      BY <2>1, <2>2, Bounds
    <3>3. CASE p = Len(order)
      BY <2>1, <2>2, <3>2, <3>3, Bounds DEF Chain
    <3>4. CASE p # Len(order)
      <4>1. p \in headPos .. Len(order) - 1 /\ p + 1 \in 1 .. Len(order)
        BY <3>2, <3>4, Bounds
      <4>2. next'[order[p]] = next[order[p]]
        BY <2>2, <2>3, <3>2, <4>1, Bounds
      <4>3. QED
        BY <2>1, <3>2, <4>1, <4>2 DEF Chain
    <3>5. QED
      BY <3>3, <3>4
  <2>5. QED
    BY <2>1, <2>2, <2>4, Bounds DEF Chain, PublishedPos
<1>6. CASE PublishTail
  BY <1>6, Bounds DEF PublishTail, Chain, PublishedPos, viewVars, listVars
<1>7. CASE TakeNode
  <2>1. headPos < flushPos
    BY <1>7, Bounds DEF TakeNode, Chain
  <2>2. m_head' = order[headPos + 1]
    BY <1>7, <2>1, Bounds DEF TakeNode, Chain
  <2>3. QED
    BY <1>7, <2>1, <2>2, Bounds DEF TakeNode, Chain, PublishedPos, readerVars, listVars
<1>8. CASE TakeFromLastNode \/ ReleaseNode \/ PeekMiss \/ PeekMatch \/ DestructorEnds
  BY <1>8, <1>1 DEF TakeFromLastNode, ReleaseNode, PeekMiss, PeekMatch, DestructorEnds, listShape,
              readerVars, listVars, viewVars
<1>9. QED
  BY NextCases, QuietUnchanged, <1>1, <1>3, <1>4, <1>5, <1>6, <1>7, <1>8

-----------------------------------------------------------------------------
\* No step puts a node in two places.
LEMMA DistinctStep ==
  ASSUME IInv, [Next]_vars
  PROVE  NodesInOnePlace'
<1> USE DEF IInv
<1>1. ASSUME UNCHANGED <<order, headPos, rNode, retired, heap>>, main' = "destroyed" <=> main = "destroyed"
      PROVE  NodesInOnePlace'
  BY <1>1 DEF NodesInOnePlace, Linked, InFlight
<1>2. CASE qXcbEventNodeFactory
  <2>1. PICK n \in Nodes \ (Linked \cup InFlight) :
               InitialiseNode(n) /\ heap' = IF n \in Pool THEN heap ELSE heap \cup {n}
    BY <1>2, FreshNode
  <2>2. Linked' = Linked /\ InFlight' = InFlight \cup {n} /\ rNode' = n /\ n # NullNode /\ retired' = retired
    BY <1>2, <2>1, FreshNode, NodesAssumption DEF Linked, InFlight, InitialiseNode
  <2>3. heap' = (Linked' \cup InFlight') \cap HeapNodes
    BY <1>2, <2>1, <2>2, FreshNode, NodesAssumption DEF NodesInOnePlace, Nodes
  <2>4. QED
    BY <1>2, <2>1, <2>2, <2>3, FreshNode DEF NodesInOnePlace, InFlight
<1>3. CASE LinkNode
  <2>1. rNode \notin Linked /\ rNode # NullNode /\ rNode # retired
    BY <1>3, LinkedAfterLink, NodesAssumption DEF NodesInOnePlace, InFlight
  <2>2. InFlight' = InFlight \ {rNode}
    BY <1>3, <2>1, LinkedAfterLink DEF InFlight
  <2>3. ASSUME NEW p \in headPos .. Len(order) + 1, NEW q \in headPos .. Len(order) + 1, order'[p] = order'[q]
        PROVE  p = q
    <3>1. \A r \in headPos .. Len(order) + 1 : r \in headPos .. Len(order) \/ r = Len(order) + 1
      BY Bounds
    <3>2. \A r \in headPos .. Len(order) : order'[r] = order[r] /\ order[r] \in Linked
      BY <1>3, LinkedAfterLink, Bounds DEF Linked
    <3>3. QED
      BY <1>3, <2>1, <2>3, <3>1, <3>2, LinkedAfterLink DEF NodesInOnePlace
  <2>4. QED
    BY <1>3, <2>1, <2>2, <2>3, LinkedAfterLink DEF NodesInOnePlace, InFlight
<1>4. CASE TakeNode
  <2>1. InFlight' = InFlight \cup {order[headPos]} /\ order[headPos] # NullNode
        /\ order[headPos] \in Linked
    BY <1>4, LinkedAfterTake, NodesAssumption DEF InFlight
  <2>2. rNode # order[headPos] /\ rNode \notin Linked'
    <3>1. Linked \subseteq Nodes
      BY Bounds DEF Linked
    <3>2. rNode \notin Linked
      BY <3>1, NodesAssumption DEF NodesInOnePlace, InFlight
    <3>3. QED
      BY <1>4, <2>1, <3>2, LinkedAfterTake
  <2>3. \A p \in headPos' .. Len(order') : p \in headPos .. Len(order)
    BY <1>4, LinkedAfterTake, Bounds
  <2>4. QED
    BY <1>4, <2>1, <2>2, <2>3, LinkedAfterTake DEF NodesInOnePlace, InFlight
<1>5. CASE ReleaseNode
  <2>1. /\ UNCHANGED <<order, headPos, rNode>> /\ retired' = NullNode /\ main = "release"
        /\ retired # NullNode
        /\ heap' = heap \ {retired}
    BY <1>5 DEF ReleaseNode, readerVars, viewVars, Control
  <2>2. Linked' = Linked /\ InFlight' = InFlight \ {retired} /\ retired \notin Linked
    BY <2>1 DEF Linked, InFlight, NodesInOnePlace
  <2>3. QED
    BY <2>1, <2>2 DEF NodesInOnePlace, InFlight
<1>6. CASE DestructorEnds
  BY <1>6 DEF DestructorEnds, readerVars, viewVars, NodesInOnePlace, Linked, InFlight
<1>7. CASE Flushing \/ PublishTail \/ TakeFromLastNode \/ PeekMiss \/ PeekMatch
  BY <1>7, <1>1 DEF Flushing, flushBufferedEvents, peek, waitForNewEvents, DrainQueue, PublishTail, TakeFromLastNode,
       PeekMiss, PeekMatch, PeekAdvance, AfterConsume, Returned, readerVars, listVars, viewVars, callVars
<1>8. QED
  BY NextCases, QuietUnchanged, <1>1, <1>2, <1>3, <1>4, <1>5, <1>6, <1>7 DEF listShape, useShape

\* The nodes in use stay the Used last ones of the ring, oldest first: the reader
\* takes and the main thread restores in the same order.
LEMMA RingStep ==
  ASSUME IInv, [Next]_vars
  PROVE  Ring'
<1> USE DEF IInv
<1>1. ASSUME UNCHANGED <<order, headPos, useShape>>
      PROVE  Ring'
  BY <1>1 DEF Ring, Linked, InFlight, Used, Rank, useShape
<1>2. CASE qXcbEventNodeFactory
  <2>1. PICK n \in Nodes \ (Linked \cup InFlight) :
               InitialiseNode(n) /\ heap' = IF n \in Pool THEN heap ELSE heap \cup {n}
    BY <1>2, FreshNode
  <2>2. Linked' = Linked /\ InFlight' = InFlight \cup {n} /\ rNode' = n /\ n # NullNode
        /\ UNCHANGED <<order, headPos, retired>>
    BY <1>2, <2>1, FreshNode, NodesAssumption DEF Linked, InFlight, InitialiseNode
  <2>3. CASE NodeFromPool
    <3>1. n = NextPoolIndex /\ n \in Pool
      BY <2>2, <2>3, PoolNodeIsFree DEF NodeFromPool, InitialiseNode
    <3>2. Rank(n)' = 0 /\ \A m \in Pool \ {n} : Rank(m)' = Rank(m) + 1
      BY <2>3, <3>1, PoolSizeAssumption DEF NodeFromPool, NextPoolIndex, Rank, Pool, TypeOK
    <3>3. Used' = Used + 1 /\ Used \in Int
      BY <1>2, <2>3, PoolSizeAssumption DEF qXcbEventNodeFactory, NodeFromPool, Available, Used, TypeOK
    <3>4. \A m \in Pool : Rank(m) \in Nat
      BY RankFacts
    <3>5. QED
      <4>1. 0 <= Used'
        BY <3>3 DEF Ring
      <4>2. \A m \in Pool : Rank(m)' < Used' <=> m \in Linked' \cup InFlight'
        BY <2>2, <3>1, <3>2, <3>3, <3>4 DEF Ring
      <4>3. \A m \in Pool : m \in Linked => m # n /\ Rank(m)' = Rank(m) + 1
        BY <2>1, <3>2
      <4>4. \A p \in headPos .. Len(order) : order[p] \in Linked
        BY DEF Linked
      <4>5. \A p, q \in headPos .. Len(order) :
               p < q /\ order[p] \in Pool /\ order[q] \in Pool => Rank(order[p])' > Rank(order[q])'
        BY <2>2, <4>3, <4>4, <3>4 DEF Ring
      <4>6. \A m \in (Linked \cup {retired}) \cap Pool : Rank(m)' > Rank(n)'
        BY <2>1, <2>2, <3>1, <3>2, <3>4, NodesAssumption DEF InFlight, Nodes
      <4>7. retired \in Pool => \A m \in Linked \cap Pool : Rank(m)' < Rank(retired)'
        <5>1. retired \in Pool => retired # n /\ Rank(retired)' = Rank(retired) + 1
          BY <2>1, <2>2, <3>2, NodesAssumption DEF InFlight, Nodes
        <5>2. QED
          BY <3>4, <4>3, <5>1 DEF Ring
      <4>8. QED
        BY <2>2, <4>1, <4>2, <4>5, <4>6, <4>7 DEF Ring
  <2>4. CASE NodeFromHeap
    <3>1. n \notin Pool
      BY <2>2, <2>4, NodesAssumption DEF NodeFromHeap, InitialiseNode
    <3>2. Used' = Used /\ m_poolIndex' = m_poolIndex
      BY <1>2, <2>4, PoolSizeAssumption DEF qXcbEventNodeFactory, NodeFromHeap, Available, Used, TypeOK
    <3>3. \A m : Rank(m)' = Rank(m)
      BY <3>2 DEF Rank
    <3>4. QED
      BY <2>2, <3>1, <3>2, <3>3 DEF Ring
  <2>5. QED
    BY <1>2, <2>3, <2>4 DEF qXcbEventNodeFactory
<1>3. CASE LinkNode
  <2>1. \A n : Rank(n)' = Rank(n)
    BY <1>3, LinkedAfterLink DEF Rank
  <2>2. Used' = Used /\ retired' = retired /\ rNode' = NullNode /\ NullNode \notin Pool
    BY <1>3, LinkedAfterLink, NodesAssumption DEF Used, Nodes
  <2>3. Linked' \cup InFlight' = Linked \cup InFlight
    BY <1>3, <2>2, LinkedAfterLink, NodesAssumption DEF InFlight
  <2>4. \A r \in headPos' .. Len(order') :
           \/ r \in headPos .. Len(order) /\ order'[r] = order[r] /\ order[r] \in Linked
           \/ r = Len(order) + 1 /\ order'[r] = rNode
    BY <1>3, LinkedAfterLink, Bounds DEF Linked
  <2>5. \A p, q \in headPos' .. Len(order') :
           p < q /\ order'[p] \in Pool /\ order'[q] \in Pool => Rank(order'[p]) > Rank(order'[q])
    <3>1. TAKE p \in headPos' .. Len(order'), q \in headPos' .. Len(order')
    <3>2. HAVE p < q /\ order'[p] \in Pool /\ order'[q] \in Pool
    <3>3. p \in headPos .. Len(order) /\ order'[p] = order[p] /\ order[p] \in Linked
      BY <1>3, <2>4, <3>2, LinkedAfterLink, Bounds
    <3>4. QED
      BY <2>4, <3>2, <3>3 DEF Ring
  <2>6. retired \in Pool => \A n \in Linked' \cap Pool : Rank(n) < Rank(retired)
    BY <1>3, RankFacts, LinkedAfterLink DEF Ring
  <2>7. QED
    BY <2>1, <2>2, <2>3, <2>5, <2>6 DEF Ring
<1>4. CASE TakeNode
  <2>1. /\ (\A n : Rank(n)' = Rank(n)) /\ Used' = Used /\ rNode' = rNode /\ order' = order
        /\ retired' = order[headPos] /\ retired = NullNode /\ headPos' = headPos + 1
    BY <1>4, LinkedAfterTake DEF Rank, Used
  <2>2. Linked' \cup InFlight' = Linked \cup InFlight
    BY <1>4, <2>1, LinkedAfterTake, NodesAssumption DEF InFlight
  <2>3. \A r \in headPos' .. Len(order') : r \in headPos .. Len(order) /\ headPos < r
    BY <2>1, Bounds
  <2>4. retired' \in Pool => \A n \in Linked' \cap Pool : Rank(n) < Rank(retired')
    <3>1. SUFFICES ASSUME order[headPos] \in Pool, NEW r \in headPos' .. Len(order'), order[r] \in Pool
                   PROVE  Rank(order[r]) < Rank(order[headPos])
      BY <2>1 DEF Linked
    <3>2. headPos \in headPos .. Len(order)
      BY Bounds
    <3>3. QED
      BY <2>3, <3>1, <3>2, RankFacts DEF Ring
  <2>5. rNode \in Pool => \A n \in (Linked' \cup {retired'}) \cap Pool : Rank(n) > Rank(rNode)
    BY <1>4, <2>1, LinkedAfterTake DEF Ring
  <2>6. QED
    BY <2>1, <2>2, <2>3, <2>4, <2>5 DEF Ring
<1>5. CASE ReleaseNode
  <2>1. /\ UNCHANGED <<order, headPos, rNode, m_freeNodes, m_poolIndex>>
        /\ retired' = NullNode /\ retired \in Nodes /\ retired # NullNode
        /\ Linked' = Linked /\ InFlight' = InFlight \ {retired}
        /\ m_nodesRestored' = IF retired \in heap THEN m_nodesRestored ELSE m_nodesRestored + 1
    BY <1>5 DEF ReleaseNode, readerVars, viewVars, Control, TypeOK, Linked, InFlight, NodesInOnePlace
  <2>2. retired \in heap <=> retired \notin Pool
    <3>1. main # "destroyed" /\ retired \in InFlight
      BY <1>5, <2>1 DEF ReleaseNode, InFlight
    <3>2. QED
      BY <2>1, <3>1, NodesAssumption DEF NodesInOnePlace, Nodes
  <2>3. retired \notin Linked /\ retired # rNode
    BY <2>1 DEF NodesInOnePlace, InFlight
  <2>4. \A n : Rank(n)' = Rank(n)
    BY <2>1 DEF Rank
  <2>5. NullNode \notin Pool
    BY NodesAssumption DEF Nodes
  <2>6. Used' = IF retired \in Pool THEN Used - 1 ELSE Used
    BY <2>1, <2>2, PoolSizeAssumption DEF Used, TypeOK
  <2>7. CASE retired \notin Pool
    BY <2>1, <2>4, <2>5, <2>6, <2>7 DEF Ring
  <2>8. CASE retired \in Pool
    <3>1. retired \in Linked \cup InFlight
      BY <2>1 DEF InFlight
    <3>2. \A n \in Pool : n \in Linked \cup InFlight /\ n # retired => Rank(n) < Rank(retired)
      BY <2>1, <2>3, <2>8, RankFacts DEF Ring, InFlight
    <3>3. Rank(retired) = Used - 1
      <4>1. Rank(retired) < Used /\ Rank(retired) \in 0 .. PoolSize - 1 /\ Used \in Int
        BY <2>8, <3>1, RankFacts DEF Ring
      <4>2. CASE Rank(retired) < Used - 1
        <5>1. Rank(retired) + 1 \in 0 .. PoolSize - 1
          BY <4>1, <4>2, RankFacts, PoolSizeAssumption DEF Used, TypeOK
        <5>2. PICK n \in Pool : Rank(n) = Rank(retired) + 1
          BY <5>1, RankFacts
        <5>3. n \in Linked \cup InFlight /\ n # retired
          BY <4>1, <4>2, <5>2 DEF Ring
        <5>4. QED
          BY <3>2, <4>1, <5>2, <5>3
      <4>3. QED
        BY <4>1, <4>2
    <3>4. 0 <= Used'
      BY <2>6, <2>8, <3>3, RankFacts
    <3>5. \A n \in Pool : Rank(n) < Used' <=> n \in Linked' \cup InFlight'
      <4>1. TAKE n \in Pool
      <4>2. Rank(n) \in Nat /\ Used \in Int /\ (Rank(n) = Rank(retired) => n = retired)
        BY <2>8, RankFacts
      <4>3. QED
        BY <2>1, <2>3, <2>6, <2>8, <3>3, <4>2 DEF Ring
    <3>6. QED
      BY <2>1, <2>4, <2>5, <3>4, <3>5 DEF Ring
  <2>9. QED
    BY <2>7, <2>8
<1>6. CASE Flushing \/ PublishTail \/ TakeFromLastNode \/ PeekMiss \/ PeekMatch
  <2>1. UNCHANGED <<order, headPos, useShape>>
    <3>1. CASE Flushing
      BY <3>1 DEF Flushing, flushBufferedEvents, peek, waitForNewEvents, DrainQueue,
           readerVars, callVars, listVars, viewVars, useShape
    <3>2. CASE PublishTail \/ TakeFromLastNode \/ PeekMiss \/ PeekMatch
      BY <3>2 DEF PublishTail, TakeFromLastNode, PeekMiss, PeekMatch, readerVars, listVars, callVars,
           viewVars, useShape
    <3>3. QED
      BY <1>6, <3>1, <3>2
  <2>2. QED
    BY <1>1, <2>1
<1>7. CASE DestructorEnds
  BY <1>7 DEF DestructorEnds, readerVars, viewVars, Ring, Linked, InFlight, Used, Rank
<1>8. QED
  BY NextCases, QuietUnchanged, <1>1, <1>2, <1>3, <1>4, <1>5, <1>6, <1>7 DEF listShape

-----------------------------------------------------------------------------
\* The program counters agree with the mutex, the nodes in flight and the
\* destructor.
LEMMA ControlStep ==
  ASSUME IInv, [Next]_vars
  PROVE  Control'
<1> USE DEF IInv
<1>1. CASE ServerSends \/ ConnectionBreaks \/ UNCHANGED vars
  BY <1>1 DEF Control, ServerSends, ConnectionBreaks, vars, readerVars, callVars
<1>2. CASE xcb_wait_for_event \/ ReaderSeesError \/ ReaderLocks \/ isCloseConnectionEvent
           \/ xcb_poll_for_queued_event
  <2>1. wire # <<>> => Head(wire) # NoEvent
    BY MaxEventsAssumption DEF TypeOK, Events, CloseEvent, NoEvent
  <2>2. QED
    BY <1>2, <2>1 DEF Control, xcb_wait_for_event, ReaderSeesError, ReaderLocks, isCloseConnectionEvent,
        xcb_poll_for_queued_event, callVars
<1>3. CASE wakeOne \/ wakeUpDispatcher \/ DispatcherWakeUp \/ PublishTail
  BY <1>3 DEF Control, wakeOne, wakeUpDispatcher, DispatcherWakeUp, PublishTail, Finished, callVars
<1>4. CASE qXcbEventNodeFactory
  BY <1>4, FreshNode, NodesAssumption DEF qXcbEventNodeFactory, InitialiseNode, Control, callVars
<1>5. CASE LinkNode
  BY <1>5 DEF LinkNode, Control, callVars
<1>6. CASE QuietMain
  BY <1>6 DEF QuietMain, takeFirst, TakeReturnsNull, WaitTimesOut, WaitReturns, CreateDispatcher,
              ConsumeWakeUp, qAddPostRoutine, DeleteDispatcher, sendCloseConnectionEvent,
              readerVars, callVars, Control
<1>7. CASE Flushing
  BY <1>7 DEF Flushing, flushBufferedEvents, peek, waitForNewEvents, DrainQueue, readerVars, callVars, Control
<1>8. CASE TakeNode
  BY <1>8, LinkedAfterTake, NodesAssumption DEF TakeNode, readerVars, Control
<1>9. CASE TakeFromLastNode \/ ReleaseNode \/ DestructorEnds
  BY <1>9 DEF TakeFromLastNode, ReleaseNode, DestructorEnds, AfterConsume, Returned, readerVars, Control
<1>10. CASE PeekMiss \/ PeekMatch
  BY <1>10 DEF PeekMiss, PeekMatch, PeekAdvance, readerVars, Control
<1>11. QED
  BY NextCases, <1>1, <1>2, <1>3, <1>4, <1>5, <1>6, <1>7, <1>8, <1>9, <1>10 DEF QuietReader

\* peek() stays between m_head and m_flushedTail.
LEMMA WalkStep ==
  ASSUME IInv, [Next]_vars
  PROVE  Walk'
<1> USE DEF IInv
<1>1. ASSUME UNCHANGED <<headPos, flushPos, cursor>>, main' = "peek" <=> main = "peek",
             \A p \in headPos .. flushPos : order'[p] = order[p]
      PROVE  Walk'
  BY <1>1 DEF Walk
<1>2. ASSUME main' # "peek"
      PROVE  Walk'
  BY <1>2 DEF Walk
<1>3. ASSUME NEW opt \in PeekOptions, peek(opt)
      PROVE  Walk'
  BY <1>3, Bounds DEF peek, Flush, Walk, Chain
<1>4. ASSUME main = "peek", PeekAdvance, UNCHANGED <<order, headPos, flushPos>>
      PROVE  Walk'
  <2>1. CASE cursor = m_flushedTail
    BY <1>4, <2>1 DEF PeekAdvance, Walk
  <2>2. CASE cursor # m_flushedTail
    <3>1. PICK p \in headPos .. flushPos : cursor = order[p]
      BY <1>4 DEF Walk
    <3>2. p \in headPos .. Len(order) - 1 /\ p + 1 \in headPos .. flushPos
      BY <2>2, <3>1, Bounds DEF Chain
    <3>3. cursor' = order'[p + 1]
      BY <1>4, <2>2, <3>1, <3>2 DEF PeekAdvance, Chain
    <3>4. QED
      BY <1>4, <3>2, <3>3 DEF Walk
  <2>3. QED
    BY <2>1, <2>2
<1>5. CASE PeekMiss \/ PeekMatch
  BY <1>2, <1>4, <1>5 DEF PeekMiss, PeekMatch, viewVars
<1>6. CASE flushBufferedEvents \/ waitForNewEvents \/ DrainQueue
  BY <1>6, <1>2 DEF flushBufferedEvents, waitForNewEvents, DrainQueue, callVars
<1>7. CASE qXcbEventNodeFactory \/ PublishTail
  BY <1>7, <1>1 DEF qXcbEventNodeFactory, PublishTail, callVars, viewVars
<1>8. CASE LinkNode
  <2>1. \A p \in headPos .. flushPos : order'[p] = order[p]
    BY <1>8, LinkedAfterLink, Bounds
  <2>2. QED
    BY <1>8, <1>1, <2>1 DEF LinkNode, callVars, viewVars
<1>9. CASE TakeFromLastNode \/ TakeNode \/ ReleaseNode \/ DestructorEnds
  BY <1>9, <1>2 DEF TakeFromLastNode, TakeNode, ReleaseNode, DestructorEnds, AfterConsume, Returned
<1>10. QED
  BY NextCases, QuietUnchanged, <1>1, <1>3, <1>5, <1>6, <1>7, <1>8, <1>9 DEF Flushing, listShape

\* The dispatcher is deleted only after the reader is barred from it.
LEMMA BarsStep ==
  ASSUME IInv, [Next]_vars
  PROVE  Bars'
<1> USE DEF IInv
<1>1. CASE QuietReader
  BY <1>1 DEF QuietReader, xcb_wait_for_event, ReaderSeesError, ReaderLocks, isCloseConnectionEvent,
     xcb_poll_for_queued_event, wakeOne, wakeUpDispatcher, DispatcherWakeUp, Finished, ownerVars, Bars, TypeOK
<1>2. CASE QuietMain
  BY <1>2 DEF QuietMain, takeFirst, TakeReturnsNull, WaitTimesOut, WaitReturns, CreateDispatcher,
     ConsumeWakeUp, qAddPostRoutine, DeleteDispatcher, sendCloseConnectionEvent, readerVars, ownerVars, Bars
<1>3. CASE qXcbEventNodeFactory \/ LinkNode \/ PublishTail
  BY <1>3 DEF qXcbEventNodeFactory, LinkNode, PublishTail, ownerVars, Bars
<1>4. ASSUME UNCHANGED <<reader, ownerVars>>
      PROVE  Bars'
  BY <1>4 DEF ownerVars, Bars
<1>5. CASE ServerSends \/ ConnectionBreaks \/ UNCHANGED vars \/ Flushing
  BY <1>5, <1>4 DEF ServerSends, ConnectionBreaks, vars, Flushing, flushBufferedEvents, peek, waitForNewEvents,
     DrainQueue, readerVars
<1>6. CASE TakeFromLastNode \/ TakeNode \/ ReleaseNode \/ PeekMiss \/ PeekMatch \/ DestructorEnds
  BY <1>6, <1>4 DEF TakeFromLastNode, TakeNode, ReleaseNode, PeekMiss, PeekMatch, DestructorEnds, readerVars
<1>7. QED
  BY NextCases, <1>1, <1>2, <1>3, <1>5, <1>6

\* Nothing is published behind a thread that waits, unless the reader still
\* holds the mutex.
LEMMA SignalStep ==
  ASSUME IInv, [Next]_vars
  PROVE  NoLostSignal'
<1> USE DEF IInv
<1>1. ASSUME main' # "waiting"
      PROVE  NoLostSignal'
  BY <1>1 DEF NoLostSignal
<1>2. CASE waitForNewEvents
  BY <1>2 DEF waitForNewEvents, Flush, NoLostSignal, PublishedPos, readerVars
<1>3. ASSUME main' = main, mutex' = mutex, UNCHANGED <<flushPos, order>>, reader' = "publish" <=> reader = "publish"
      PROVE  NoLostSignal'
  BY <1>3 DEF NoLostSignal, PublishedPos
<1>4. ASSUME main' = main, mutex' = "reader"
      PROVE  NoLostSignal'
  BY <1>4 DEF NoLostSignal
<1>5. CASE qXcbEventNodeFactory \/ LinkNode \/ PublishTail \/ xcb_poll_for_queued_event
           \/ isCloseConnectionEvent \/ ReaderLocks
  BY <1>5, <1>4 DEF qXcbEventNodeFactory, LinkNode, PublishTail, xcb_poll_for_queued_event,
     isCloseConnectionEvent, ReaderLocks, callVars, Control
<1>6. CASE wakeOne
  BY <1>6, <1>1 DEF wakeOne
<1>7. CASE ServerSends \/ ConnectionBreaks \/ UNCHANGED vars \/ xcb_wait_for_event \/ ReaderSeesError
           \/ wakeUpDispatcher \/ DispatcherWakeUp
  BY <1>7, <1>3 DEF ServerSends, ConnectionBreaks, vars, xcb_wait_for_event, ReaderSeesError,
     wakeUpDispatcher, DispatcherWakeUp, Finished, readerVars, callVars, viewVars
<1>8. CASE (QuietMain \/ Flushing) /\ ~waitForNewEvents
  BY <1>8, <1>1 DEF QuietMain, takeFirst, TakeReturnsNull, WaitTimesOut, WaitReturns, CreateDispatcher,
     ConsumeWakeUp, qAddPostRoutine, DeleteDispatcher, sendCloseConnectionEvent, callVars,
     Flushing, flushBufferedEvents, peek, DrainQueue
<1>9. CASE TakeFromLastNode \/ TakeNode \/ ReleaseNode \/ PeekMiss \/ PeekMatch \/ DestructorEnds
  BY <1>9, <1>1 DEF TakeFromLastNode, TakeNode, ReleaseNode, PeekMiss, PeekMatch, DestructorEnds,
     PeekAdvance, AfterConsume, Returned
<1>10. QED
  BY NextCases, <1>2, <1>5, <1>6, <1>7, <1>8, <1>9 DEF QuietReader, Flushing

-----------------------------------------------------------------------------
\* Every step keeps every variable in its type.
LEMMA TypeStep ==
  ASSUME IInv, [Next]_vars
  PROVE  TypeOK'
<1> USE DEF IInv
<1>1. /\ userInput' \subseteq Events /\ wire' \in Seq(Events \cup {CloseEvent})
      /\ sent' \in 0 .. MaxEvents /\ broken' \in BOOLEAN
  <2>0. /\ userInput \subseteq Events /\ wire \in Seq(Events \cup {CloseEvent})
        /\ sent \in 0 .. MaxEvents /\ broken \in BOOLEAN
    BY DEF TypeOK
  <2>1. CASE ServerSends \/ ConnectionBreaks \/ UNCHANGED vars
    <3>1. sent < MaxEvents => sent + 1 \in Events /\ sent + 1 \in 0 .. MaxEvents
      BY <2>0, MaxEventsAssumption DEF Events
    <3>2. CASE ServerSends
      <4>1. Append(wire, sent + 1) \in Seq(Events \cup {CloseEvent})
        BY <2>0, <3>1, <3>2, AppendProperties DEF ServerSends
      <4>2. QED
        BY <2>0, <3>1, <3>2, <4>1 DEF ServerSends
    <3>3. CASE ConnectionBreaks \/ UNCHANGED vars
      BY <2>0, <3>3 DEF ConnectionBreaks, vars, xVars
    <3>4. QED
      BY <2>1, <3>2, <3>3
  <2>2. CASE QuietReader
    <3>1. wire # <<>> => Tail(wire) \in Seq(Events \cup {CloseEvent})
      BY <2>0, HeadTailProperties
    <3>2. QED
      BY <2>2, <2>0, <3>1 DEF QuietReader, xcb_wait_for_event, ReaderSeesError, ReaderLocks, isCloseConnectionEvent,
     xcb_poll_for_queued_event, wakeOne, wakeUpDispatcher, DispatcherWakeUp, Finished, xVars
  <2>3. CASE qXcbEventNodeFactory \/ LinkNode \/ PublishTail
    BY <2>3, <2>0 DEF qXcbEventNodeFactory, LinkNode, PublishTail,
     xVars
  <2>4. CASE QuietMain
    <3>1. Append(wire, CloseEvent) \in Seq(Events \cup {CloseEvent})
      BY <2>0, AppendProperties
    <3>2. QED
      BY <2>4, <2>0, <3>1 DEF QuietMain, takeFirst, TakeReturnsNull, WaitTimesOut, WaitReturns, CreateDispatcher,
     ConsumeWakeUp, qAddPostRoutine, DeleteDispatcher, sendCloseConnectionEvent, xVars
  <2>5. CASE Flushing
    BY <2>5, <2>0 DEF Flushing, flushBufferedEvents, peek, waitForNewEvents, DrainQueue,
     xVars
  <2>6. CASE TakeFromLastNode \/ TakeNode \/ ReleaseNode \/ PeekMiss \/ PeekMatch \/ DestructorEnds
    BY <2>6, <2>0 DEF TakeFromLastNode, TakeNode, ReleaseNode, PeekMiss, PeekMatch, DestructorEnds,
     xVars
  <2>7. QED
    BY NextCases, <2>1, <2>2, <2>3, <2>4, <2>5, <2>6
<1>2. /\ reader' \in ReaderStates /\ rEvent' \in Events \cup {NoEvent, CloseEvent}
      /\ m_closeConnectionDetected' \in BOOLEAN /\ mutex' \in {"free", "reader"}
  <2>0. /\ reader \in ReaderStates /\ rEvent \in Events \cup {NoEvent, CloseEvent}
        /\ m_closeConnectionDetected \in BOOLEAN /\ mutex \in {"free", "reader"}
        /\ wire \in Seq(Events \cup {CloseEvent})
    BY DEF TypeOK
  <2>1. CASE ServerSends \/ ConnectionBreaks \/ UNCHANGED vars
    BY <2>1, <2>0 DEF ServerSends, ConnectionBreaks, vars,
     ReaderStates, readerVars
  <2>2. CASE QuietReader
    <3>1. wire # <<>> => Head(wire) \in Events \cup {NoEvent, CloseEvent}
      BY <2>0, HeadTailProperties
    <3>2. QED
      BY <2>2, <2>0, <3>1 DEF QuietReader, xcb_wait_for_event, ReaderSeesError, ReaderLocks, isCloseConnectionEvent,
     xcb_poll_for_queued_event, wakeOne, wakeUpDispatcher, DispatcherWakeUp, Finished, readerVars, ReaderStates
  <2>3. CASE qXcbEventNodeFactory \/ LinkNode \/ PublishTail
    BY <2>3, <2>0 DEF qXcbEventNodeFactory, LinkNode, PublishTail,
     ReaderStates, readerVars
  <2>4. CASE QuietMain
    BY <2>4, <2>0 DEF QuietMain, takeFirst, TakeReturnsNull, WaitTimesOut, WaitReturns, CreateDispatcher,
     ConsumeWakeUp, qAddPostRoutine, DeleteDispatcher, sendCloseConnectionEvent,
     ReaderStates, readerVars
  <2>5. CASE Flushing
    BY <2>5, <2>0 DEF Flushing, flushBufferedEvents, peek, waitForNewEvents, DrainQueue,
     ReaderStates, readerVars
  <2>6. CASE TakeFromLastNode \/ TakeNode \/ ReleaseNode \/ PeekMiss \/ PeekMatch \/ DestructorEnds
    BY <2>6, <2>0 DEF TakeFromLastNode, TakeNode, ReleaseNode, PeekMiss, PeekMatch, DestructorEnds,
     ReaderStates, readerVars
  <2>7. QED
    BY NextCases, <2>1, <2>2, <2>3, <2>4, <2>5, <2>6
<1>3. /\ event' \in [Nodes -> Events \cup {NoEvent}] /\ next' \in [Nodes -> Nodes \cup {NullNode}]
      /\ order' \in Seq(Nodes)
  <2>0. /\ event \in [Nodes -> Events \cup {NoEvent}] /\ next \in [Nodes -> Nodes \cup {NullNode}]
        /\ order \in Seq(Nodes)
    BY DEF TypeOK
  <2>1. CASE ServerSends \/ ConnectionBreaks \/ UNCHANGED vars
    BY <2>1, <2>0 DEF ServerSends, ConnectionBreaks, vars,
     listVars
  <2>2. CASE QuietReader
    BY <2>2, <2>0 DEF QuietReader, xcb_wait_for_event, ReaderSeesError, ReaderLocks, isCloseConnectionEvent,
     xcb_poll_for_queued_event, wakeOne, wakeUpDispatcher, DispatcherWakeUp, Finished,
     listVars
  <2>3. CASE qXcbEventNodeFactory \/ LinkNode \/ PublishTail
    <3>1. CASE qXcbEventNodeFactory
      <4>1. rEvent \in Events \cup {NoEvent}
        BY <3>1 DEF qXcbEventNodeFactory, TypeOK
      <4>2. PICK n \in Nodes : InitialiseNode(n) /\ order' = order
        BY <3>1, FreshNode
      <4>3. QED
        BY <2>0, <4>1, <4>2 DEF InitialiseNode
    <3>2. CASE LinkNode
      <4>1. rNode \in Nodes
        BY <3>2, LinkedAfterLink
      <4>2. Append(order, rNode) \in Seq(Nodes)
        BY <2>0, <4>1, AppendProperties
      <4>3. QED
        BY <2>0, <3>2, <4>1, <4>2 DEF LinkNode
    <3>3. CASE PublishTail
      BY <2>0, <3>3 DEF PublishTail, listVars
    <3>4. QED
      BY <2>3, <3>1, <3>2, <3>3
  <2>4. CASE QuietMain
    BY <2>4, <2>0 DEF QuietMain, takeFirst, TakeReturnsNull, WaitTimesOut, WaitReturns, CreateDispatcher,
     ConsumeWakeUp, qAddPostRoutine, DeleteDispatcher, sendCloseConnectionEvent,
     listVars
  <2>5. CASE Flushing
    BY <2>5, <2>0 DEF Flushing, flushBufferedEvents, peek, waitForNewEvents, DrainQueue,
     listVars
  <2>6. CASE TakeFromLastNode \/ TakeNode \/ ReleaseNode \/ PeekMiss \/ PeekMatch \/ DestructorEnds
    BY <2>6, <2>0 DEF TakeFromLastNode, TakeNode, ReleaseNode, PeekMiss, PeekMatch, DestructorEnds,
     listVars
  <2>7. QED
    BY NextCases, <2>1, <2>2, <2>3, <2>4, <2>5, <2>6
<1>4. /\ heap' \subseteq HeapNodes
      /\ rNode' \in Nodes \cup {NullNode} /\ retired' \in Nodes \cup {NullNode}
      /\ cursor' \in Nodes \cup {NullNode} /\ got' \in Events \cup {NoEvent}
  <2>0. /\ heap \subseteq HeapNodes /\ m_head \in Nodes
        /\ rNode \in Nodes \cup {NullNode} /\ retired \in Nodes \cup {NullNode}
        /\ cursor \in Nodes \cup {NullNode} /\ got \in Events \cup {NoEvent}
        /\ event \in [Nodes -> Events \cup {NoEvent}] /\ next \in [Nodes -> Nodes \cup {NullNode}]
    BY DEF TypeOK
  <2>1. CASE ServerSends \/ ConnectionBreaks \/ UNCHANGED vars
    BY <2>1, <2>0 DEF ServerSends, ConnectionBreaks, vars,
     PeekAdvance, callVars, listVars, readerVars
  <2>2. CASE QuietReader
    BY <2>2, <2>0 DEF QuietReader, xcb_wait_for_event, ReaderSeesError, ReaderLocks, isCloseConnectionEvent,
     xcb_poll_for_queued_event, wakeOne, wakeUpDispatcher, DispatcherWakeUp, Finished,
     PeekAdvance, callVars, listVars, readerVars
  <2>3. CASE qXcbEventNodeFactory \/ LinkNode \/ PublishTail
    <3>1. CASE qXcbEventNodeFactory
      BY <2>0, <3>1, FreshNode DEF InitialiseNode, Nodes, qXcbEventNodeFactory, callVars
    <3>2. CASE LinkNode \/ PublishTail
      BY <2>0, <3>2 DEF LinkNode, PublishTail, listVars, callVars
    <3>3. QED
      BY <2>3, <3>1, <3>2
  <2>4. CASE QuietMain
    BY <2>4, <2>0 DEF QuietMain, takeFirst, TakeReturnsNull, WaitTimesOut, WaitReturns, CreateDispatcher,
     ConsumeWakeUp, qAddPostRoutine, DeleteDispatcher, sendCloseConnectionEvent,
     PeekAdvance, callVars, listVars, readerVars
  <2>5. CASE Flushing
    BY <2>5, <2>0 DEF Flushing, flushBufferedEvents, peek, waitForNewEvents, DrainQueue,
     PeekAdvance, callVars, listVars, readerVars
  <2>6. CASE TakeFromLastNode \/ TakeNode \/ ReleaseNode \/ PeekMiss \/ PeekMatch \/ DestructorEnds
    <3>1. CASE TakeFromLastNode \/ TakeNode \/ ReleaseNode \/ DestructorEnds
      BY <2>0, <3>1 DEF TakeFromLastNode, TakeNode, ReleaseNode, DestructorEnds, listVars, readerVars
    <3>2. CASE PeekMiss \/ PeekMatch
      <4>1. cursor \in Nodes
        BY <3>2, Bounds DEF PeekMiss, PeekMatch, Walk
      <4>2. cursor' \in Nodes \cup {NullNode}
        BY <2>0, <3>2, <4>1 DEF PeekMiss, PeekMatch, PeekAdvance
      <4>3. QED
        BY <2>0, <3>2, <4>2 DEF PeekMiss, PeekMatch, listVars, readerVars
    <3>3. QED
      BY <2>6, <3>1, <3>2
  <2>7. QED
    BY NextCases, <2>1, <2>2, <2>3, <2>4, <2>5, <2>6
<1>5. /\ m_head' \in Nodes /\ m_flushedTail' \in Nodes /\ m_tail' \in Nodes /\ tail' \in Nodes
      /\ headPos' \in Nat /\ flushPos' \in Nat
  <2>1. headPos' \in {headPos, headPos + 1} /\ flushPos' \in {flushPos, PublishedPos}
    BY NextCases, QuietUnchanged DEF listShape, Flush, viewVars, qXcbEventNodeFactory, LinkNode, PublishTail,
       Flushing, flushBufferedEvents, peek, waitForNewEvents, DrainQueue,
       TakeFromLastNode, TakeNode, ReleaseNode, PeekMiss, PeekMatch, DestructorEnds
  <2>2. headPos' \in Nat /\ flushPos' \in Nat
    BY <2>1, Bounds
  <2>3. order' \in Seq(Nodes)
    BY <1>3
  <2>4. 1 <= headPos' /\ headPos' <= flushPos' /\ flushPos' <= PublishedPos'
    BY ChainStep DEF Chain
  <2>5. Len(order') \in Nat /\ PublishedPos' \in 1 .. Len(order')
    BY <2>2, <2>3, <2>4 DEF PublishedPos
  <2>6. \A p \in 1 .. Len(order') : order'[p] \in Nodes
    BY <2>3
  <2>7. headPos' \in 1 .. Len(order') /\ flushPos' \in 1 .. Len(order') /\ Len(order') \in 1 .. Len(order')
    BY <2>2, <2>4, <2>5
  <2>8. /\ m_head' = order'[headPos'] /\ m_flushedTail' = order'[flushPos']
        /\ m_tail' = order'[PublishedPos'] /\ tail' = order'[Len(order')]
    BY ChainStep DEF Chain
  <2>9. QED
    BY <2>2, <2>5, <2>6, <2>7, <2>8
<1>6. m_nodesRestored' \in 0 .. PoolSize /\ m_freeNodes' \in 0 .. PoolSize /\ m_poolIndex' \in 1 .. PoolSize
  <2>1. m_nodesRestored' \in Nat /\ m_freeNodes' \in Nat /\ m_poolIndex' \in 1 .. PoolSize
    <3>1. CASE qXcbEventNodeFactory
      BY <3>1, PoolSizeAssumption DEF qXcbEventNodeFactory, NodeFromPool, NodeFromHeap, Available, NextPoolIndex, TypeOK
    <3>2. m_nodesRestored \in Nat /\ m_freeNodes \in Nat /\ m_poolIndex \in 1 .. PoolSize
      BY DEF TypeOK
    <3>3. CASE Flushing \/ LinkNode \/ PublishTail
      BY <3>2, <3>3 DEF Flushing, flushBufferedEvents, peek, waitForNewEvents, DrainQueue, LinkNode, PublishTail,
         readerVars, listVars
    <3>4. CASE TakeFromLastNode \/ TakeNode \/ ReleaseNode \/ PeekMiss \/ PeekMatch \/ DestructorEnds
      BY <3>2, <3>4 DEF TakeFromLastNode, TakeNode, ReleaseNode, PeekMiss, PeekMatch, DestructorEnds,
         readerVars, listVars
    <3>5. QED
      BY NextCases, QuietUnchanged, <3>1, <3>2, <3>3, <3>4 DEF useShape
  <2>2. 0 <= PoolSize - m_freeNodes' - m_nodesRestored'
    BY RingStep DEF Ring, Used
  <2>3. QED
    <3>1. PoolSize \in Nat
      BY PoolSizeAssumption
    <3>2. ASSUME NEW a \in Nat, NEW b \in Nat, NEW c \in Nat, 0 <= c - a - b
          PROVE  a \in 0 .. c /\ b \in 0 .. c
      BY <3>2
    <3>3. QED
      BY <2>1, <2>2, <3>1, <3>2
<1>7. /\ main' \in MainStates /\ flags' \in FlagValues /\ destroying' \in BOOLEAN
      /\ option' \in PeekOptions \cup {"none"}
      /\ dispatcher' \in {"none", "alive", "gone"} /\ wakeUp' \in BOOLEAN
      /\ dispatcherOwnerDestructing' \in BOOLEAN
  <2>0. /\ main \in MainStates /\ flags \in FlagValues /\ destroying \in BOOLEAN
        /\ option \in PeekOptions \cup {"none"}
        /\ dispatcher \in {"none", "alive", "gone"} /\ wakeUp \in BOOLEAN
        /\ dispatcherOwnerDestructing \in BOOLEAN
    BY DEF TypeOK
  <2>1. CASE ServerSends \/ ConnectionBreaks \/ UNCHANGED vars
    BY <2>1, <2>0 DEF ServerSends, ConnectionBreaks, vars,
     AfterConsume, Returned, PeekAdvance, MainStates, callVars, ownerVars
  <2>2. CASE QuietReader
    BY <2>2, <2>0 DEF QuietReader, xcb_wait_for_event, ReaderSeesError, ReaderLocks, isCloseConnectionEvent,
     xcb_poll_for_queued_event, wakeOne, wakeUpDispatcher, DispatcherWakeUp, Finished,
     AfterConsume, Returned, PeekAdvance, MainStates, callVars, ownerVars
  <2>3. CASE qXcbEventNodeFactory \/ LinkNode \/ PublishTail
    BY <2>3, <2>0 DEF qXcbEventNodeFactory, LinkNode, PublishTail,
     AfterConsume, Returned, PeekAdvance, MainStates, callVars, ownerVars
  <2>4. CASE QuietMain
    BY <2>4, <2>0 DEF QuietMain, takeFirst, TakeReturnsNull, WaitTimesOut, WaitReturns, CreateDispatcher,
     ConsumeWakeUp, qAddPostRoutine, DeleteDispatcher, sendCloseConnectionEvent,
     AfterConsume, Returned, PeekAdvance, MainStates, callVars, ownerVars
  <2>5. CASE Flushing
    BY <2>5, <2>0 DEF Flushing, flushBufferedEvents, peek, waitForNewEvents, DrainQueue,
     AfterConsume, Returned, PeekAdvance, MainStates, callVars, ownerVars
  <2>6. CASE TakeFromLastNode \/ TakeNode \/ ReleaseNode \/ PeekMiss \/ PeekMatch \/ DestructorEnds
    BY <2>6, <2>0 DEF TakeFromLastNode, TakeNode, ReleaseNode, PeekMiss, PeekMatch, DestructorEnds,
     AfterConsume, Returned, PeekAdvance, MainStates, callVars, ownerVars
  <2>7. QED
    BY NextCases, <2>1, <2>2, <2>3, <2>4, <2>5, <2>6
<1>8. /\ m_inputEvents' \in Seq(Events) /\ taken' \in Seq(Events) /\ removed' \subseteq Events
  <2>0. /\ m_inputEvents \in Seq(Events) /\ taken \in Seq(Events) /\ removed \subseteq Events
        /\ event \in [Nodes -> Events \cup {NoEvent}] /\ m_head \in Nodes /\ userInput \subseteq Events
    BY DEF TypeOK
  <2>1. CASE ServerSends \/ ConnectionBreaks \/ UNCHANGED vars
    BY <2>1, <2>0 DEF ServerSends, ConnectionBreaks, vars,
     logVars
  <2>2. CASE QuietReader
    BY <2>2, <2>0 DEF QuietReader, xcb_wait_for_event, ReaderSeesError, ReaderLocks, isCloseConnectionEvent,
     xcb_poll_for_queued_event, wakeOne, wakeUpDispatcher, DispatcherWakeUp, Finished,
     logVars
  <2>3. CASE qXcbEventNodeFactory \/ LinkNode \/ PublishTail
    BY <2>3, <2>0 DEF qXcbEventNodeFactory, LinkNode, PublishTail,
     logVars
  <2>4. CASE QuietMain
    <3>1. m_inputEvents # <<>> => /\ Tail(m_inputEvents) \in Seq(Events)
                                   /\ Append(taken, Head(m_inputEvents)) \in Seq(Events)
      BY <2>0, HeadTailProperties, AppendProperties
    <3>2. QED
      BY <2>4, <2>0, <3>1 DEF QuietMain, takeFirst, TakeReturnsNull, WaitTimesOut, WaitReturns, CreateDispatcher,
     ConsumeWakeUp, qAddPostRoutine, DeleteDispatcher, sendCloseConnectionEvent, TakeInputEvent, logVars
  <2>5. CASE Flushing
    BY <2>5, <2>0 DEF Flushing, flushBufferedEvents, peek, waitForNewEvents, DrainQueue,
     logVars
  <2>6. CASE TakeFromLastNode \/ TakeNode \/ ReleaseNode \/ PeekMiss \/ PeekMatch \/ DestructorEnds
    <3>1. ASSUME NEW e \in Events \cup {NoEvent}, Consume(e)
          PROVE  m_inputEvents' \in Seq(Events) /\ taken' \in Seq(Events) /\ removed' \subseteq Events
      <4>1. e # NoEvent => Append(taken, e) \in Seq(Events) /\ Append(m_inputEvents, e) \in Seq(Events)
        BY <2>0, AppendProperties
      <4>2. Park(e) => e # NoEvent
        BY <2>0, MaxEventsAssumption DEF Park, Events, NoEvent
      <4>3. QED
        BY <2>0, <3>1, <4>1, <4>2 DEF Consume
    <3>2. CASE TakeFromLastNode \/ TakeNode
      BY <2>0, <3>1, <3>2 DEF TakeFromLastNode, TakeNode
    <3>3. CASE ReleaseNode \/ PeekMiss \/ DestructorEnds
      BY <2>0, <3>3 DEF ReleaseNode, PeekMiss, DestructorEnds, logVars
    <3>4. CASE PeekMatch
      <4>1. cursor \in Nodes
        BY <3>4, Bounds DEF PeekMatch, Walk
      <4>2. QED
        BY <2>0, <3>4, <4>1 DEF PeekMatch
    <3>5. QED
      BY <2>6, <3>2, <3>3, <3>4
  <2>7. QED
    BY NextCases, <2>1, <2>2, <2>3, <2>4, <2>5, <2>6
<1>9. QED
  BY <1>1, <1>2, <1>3, <1>4, <1>5, <1>6, <1>7, <1>8 DEF TypeOK

-----------------------------------------------------------------------------
\* The constructor establishes the invariant.
LEMMA InitInv == Init => IInv
<1> SUFFICES ASSUME Init PROVE IInv
  OBVIOUS
<1>1. 1 \in Pool /\ 1 \in Nodes /\ NullNode \notin Nodes
  BY PoolSizeAssumption, NodesAssumption DEF Pool, Nodes
<1>2. TypeOK
  <2>1. userInput \subseteq Events
    BY TrafficAssumption DEF Init
  <2>2. <<>> \in Seq(Events) /\ <<>> \in Seq(Events \cup {CloseEvent}) /\ <<1>> \in Seq(Nodes)
    BY <1>1
  <2>3. PoolSize - 1 \in 0 .. PoolSize /\ 1 \in 1 .. PoolSize /\ 0 \in 0 .. MaxEvents /\ 0 \in 0 .. PoolSize
    BY PoolSizeAssumption, MaxEventsAssumption
  <2>4. QED
    BY <1>1, <2>1, <2>2, <2>3 DEF Init, TypeOK, ReaderStates, MainStates, FlagValues
<1>3. Control /\ Chain /\ Walk /\ Bars /\ NoLostSignal
  BY DEF Init, Control, Chain, Walk, Bars, NoLostSignal, PublishedPos
<1>4. Linked = {1} /\ InFlight = {}
  BY DEF Init, Linked, InFlight
<1>5. NodesInOnePlace
  BY <1>1, <1>4, NodesAssumption DEF Init, NodesInOnePlace
<1>6. Used = 1 /\ \A n \in Pool : Rank(n) < 1 <=> n = 1
  BY PoolSizeAssumption DEF Init, Used, Rank, Pool
<1>7. Ring
  BY <1>1, <1>4, <1>6 DEF Ring, Init, Nodes
<1>8. QED
  BY <1>2, <1>3, <1>5, <1>7 DEF IInv

\* IInv is inductive.
THEOREM Invariance == Spec => []IInv
<1>1. Init => IInv
  BY InitInv
<1>2. IInv /\ [Next]_vars => IInv'
  BY ChainStep, DistinctStep, RingStep, ControlStep, WalkStep, BarsStep, SignalStep, TypeStep DEF IInv
<1>3. QED
  BY <1>1, <1>2, PTL DEF Spec

-----------------------------------------------------------------------------
\* Every variable holds a value of its C++ type; the counters of the pool stay
\* between 0 and PoolSize.
THEOREM TypeCorrect == Spec => []TypeOK
<1>1. IInv => TypeOK
  BY DEF IInv
<1>2. QED
  BY <1>1, Invariance, PTL

\* The factory never hands out a node in use, whatever the size of the pool.
THEOREM NodesAreInOnePlace == Spec => []NodesInOnePlace
<1>1. IInv => NodesInOnePlace
  BY DEF IInv
<1>2. QED
  BY <1>1, Invariance, PTL

\* No wake-up is lost between the test and the wait of waitForNewEvents().
THEOREM NoSignalIsLost == Spec => []NoLostSignal
<1>1. IInv => NoLostSignal
  BY DEF IInv
<1>2. QED
  BY <1>1, Invariance, PTL

\* wakeUpDispatcher() calls into a live dispatcher only.
THEOREM DispatcherIsAlive == Spec => []DispatcherOutlivesCall
<1>1. IInv => DispatcherOutlivesCall
  BY DEF IInv, Bars, DispatcherOutlivesCall
<1>2. QED
  BY <1>1, Invariance, PTL

\* The main thread never reads the next field the reader is about to write.
THEOREM NextIsNotRaced == Spec => []NoRaceOnNext
<1>1. IInv => NoRaceOnNext
  <2> SUFFICES ASSUME IInv, reader = "link"
               PROVE  /\ main = "take" /\ m_head # m_flushedTail => m_head # tail
                      /\ main = "peek" /\ cursor # m_flushedTail => cursor # tail
    BY DEF NoRaceOnNext
  <2>1. ASSUME NEW p \in headPos .. flushPos, order[p] # m_flushedTail
        PROVE  order[p] # tail
    <3>1. p \in headPos .. Len(order) /\ Len(order) \in headPos .. Len(order) /\ p # Len(order)
      BY <2>1, Bounds DEF IInv, Chain
    <3>2. QED
      BY <3>1 DEF IInv, NodesInOnePlace, Chain
  <2>2. m_head # m_flushedTail => m_head # tail
    BY <2>1, Bounds DEF IInv, Chain
  <2>3. QED
    BY <2>1, <2>2 DEF IInv, Walk
<1>2. QED
  BY <1>1, Invariance, PTL

\* No pool node is lost or counted twice: Rank is a bijection from the pool
\* nodes in use to 0 .. Used - 1.
THEOREM PoolIsConserved == Spec => []PoolConserved
<1>1. IInv => PoolConserved
  <2> SUFFICES ASSUME IInv PROVE PoolConserved
    OBVIOUS
  <2> DEFINE S == (Linked \cup InFlight) \cap Pool
             T == 0 .. Used - 1
             f == [n \in S |-> Rank(n)]
  <2>1. TypeOK /\ Ring
    BY DEF IInv
  <2>2. \A n \in Pool : Rank(n) \in 0 .. PoolSize - 1 /\ (n \in S <=> Rank(n) < Used)
    BY <2>1, RankFacts DEF Ring
  <2>3. Used \in Nat /\ Used <= PoolSize
    BY <2>1, RankFacts, PoolSizeAssumption DEF Ring, Used, TypeOK
  <2>4. f \in Bijection(S, T)
    <3>1. \A n \in S : f[n] \in T
      BY <2>2, <2>3
    <3>2. \A m, n \in S : f[m] = f[n] => m = n
      BY <2>1, RankFacts
    <3>3. \A k \in T : \E n \in S : f[n] = k
      <4>1. TAKE k \in T
      <4>2. k \in 0 .. PoolSize - 1 /\ k < Used
        BY <2>3, PoolSizeAssumption
      <4>3. PICK n \in Pool : Rank(n) = k
        BY <2>1, <4>2, RankFacts
      <4>4. QED
        BY <2>2, <4>2, <4>3
    <3>4. QED
      BY <3>1, <3>2, <3>3 DEF Bijection, Injection, Surjection, IsInjective
  <2>5. IsFiniteSet(T) /\ Cardinality(T) = Used
    BY <2>3, FS_Interval
  <2>6. Cardinality(S) = Cardinality(T)
    <3>1. f \in Injection(S, T) /\ f \in Surjection(S, T)
      BY <2>4 DEF Bijection
    <3>2. QED
      BY <2>5, <3>1, FS_Injection
  <2>7. QED
    BY <2>1, <2>3, <2>5, <2>6, PoolSizeAssumption DEF PoolConserved, Used, TypeOK
<1>2. QED
  BY <1>1, Invariance, PTL

\* No step redirects the next pointer of a linked node that has a successor, or
\* replaces its event by another.
LEMMA StableStep ==
  ASSUME IInv, [Next]_vars, NEW p \in headPos' .. Len(order)
  PROVE  /\ p \in headPos .. Len(order)
         /\ event'[order[p]] \in {event[order[p]], NoEvent}
         /\ p < Len(order) => next'[order[p]] = next[order[p]]
<1> USE DEF IInv
<1>1. p \in headPos .. Len(order) /\ order[p] \in Nodes /\ order[p] \in Linked
      /\ (p < Len(order) => order[p] # tail)
  <2>1. headPos' \in {headPos, headPos + 1}
    BY NextCases, QuietUnchanged, LinkedAfterLink, LinkedAfterTake, FreshNode
       DEF listShape, viewVars, qXcbEventNodeFactory, PublishTail, Flushing, flushBufferedEvents, peek,
           waitForNewEvents, DrainQueue, TakeFromLastNode, ReleaseNode, PeekMiss, PeekMatch, DestructorEnds
  <2>2. p \in headPos .. Len(order) /\ p \in 1 .. Len(order) /\ Len(order) \in headPos .. Len(order)
    BY <2>1, Bounds
  <2>3. QED
    BY <2>2, Bounds DEF Linked, Chain, NodesInOnePlace
<1>2. ASSUME event' = event, next' = next
      PROVE  /\ event'[order[p]] \in {event[order[p]], NoEvent}
             /\ p < Len(order) => next'[order[p]] = next[order[p]]
  BY <1>2
<1>3. CASE qXcbEventNodeFactory
  <2>1. PICK n \in Nodes \ Linked : InitialiseNode(n)
    BY <1>3, FreshNode
  <2>2. QED
    BY <1>1, <2>1 DEF InitialiseNode, TypeOK
<1>4. CASE LinkNode
  BY <1>1, <1>4 DEF LinkNode, TypeOK
<1>5. CASE TakeFromLastNode \/ PeekMatch
  BY <1>1, <1>5 DEF TakeFromLastNode, PeekMatch, TypeOK
<1>6. CASE ServerSends \/ ConnectionBreaks \/ QuietReader \/ QuietMain \/ UNCHANGED vars
  <2>1. event' = event /\ next' = next
    BY <1>6 DEF ServerSends, ConnectionBreaks, vars, QuietReader, xcb_wait_for_event, ReaderSeesError, ReaderLocks,
       isCloseConnectionEvent, xcb_poll_for_queued_event, wakeOne, wakeUpDispatcher, DispatcherWakeUp,
       QuietMain, takeFirst, TakeReturnsNull, WaitTimesOut, WaitReturns, CreateDispatcher,
       ConsumeWakeUp, qAddPostRoutine, DeleteDispatcher, sendCloseConnectionEvent, listVars
  <2>2. QED
    BY <1>1, <1>2, <2>1
<1>7. CASE Flushing \/ PublishTail \/ TakeNode \/ ReleaseNode \/ PeekMiss \/ DestructorEnds
  <2>1. event' = event /\ next' = next
    BY <1>7 DEF Flushing, flushBufferedEvents, peek, waitForNewEvents, DrainQueue, PublishTail, TakeNode,
       ReleaseNode, PeekMiss, DestructorEnds, listVars
  <2>2. QED
    BY <1>1, <1>2, <2>1
<1>8. QED
  BY NextCases, <1>1, <1>3, <1>4, <1>5, <1>6, <1>7

\* A published node keeps its successor, and its event until it is cleared.
THEOREM NodesAreStable == Spec => PublishedNodesStable
<1>1. IInv /\ [Next]_vars => [KeepsNodes]_vars
  BY StableStep DEF KeepsNodes
<1>2. QED
  BY <1>1, Invariance, PTL DEF Spec, PublishedNodesStable
-----------------------------------------------------------------------------
(* What becomes of each event: the reader links the events in the order the *)
(* server sends them, and each of them is in exactly one place until the    *)
(* destructor has returned or freed it.                                     *)

\* the reader holds an event that it has not linked yet
Holding == \/ reader \in {"lock", "enqueue"} /\ rEvent # CloseEvent
           \/ reader = "link"

\* the number of the next event the wire brings
Coming == IF Holding THEN Len(order) + 1 ELSE Len(order)

Unclosed(i) == \A j \in 1 .. i : wire[j] # CloseEvent

\* Events are linked in the order of their numbers: event n at position n + 1,
Placed == \A p \in headPos .. Len(order) : event[order[p]] \in {NoEvent, p - 1}

\* the reader holds the next one,
Held ==
  /\ reader \in {"lock", "enqueue"} /\ rEvent # CloseEvent => rEvent = Len(order)
  /\ reader = "link" => event[rNode] = Len(order)

\* and the wire brings those that follow.
Wired ==
  rEvent # CloseEvent =>
    /\ \A i \in 1 .. Len(wire) : Unclosed(i) => wire[i] = Coming + i - 1
    /\ Unclosed(Len(wire)) => sent = Coming + Len(wire) - 1

Numbering == Placed /\ Held /\ Wired

\* The close event comes from the destructor, and the reader ends with it.
Closing ==
  /\ main # "closing" /\ ~destroying => rEvent # CloseEvent /\ Unclosed(Len(wire))
  /\ reader \in {"wait", "link", "publish", "poll"} => rEvent # CloseEvent
  /\ rEvent = CloseEvent => reader \in {"lock", "enqueue"} \/ m_closeConnectionDetected

\* takeFirst(AllEvents) looks at the list only when m_inputEvents is empty.
Admitted ==
  /\ main \in {"take", "release"} /\ flags = "AllEvents" => m_inputEvents = <<>>
  /\ destroying => main \in {"drain", "take", "release", "destroyed"}
  /\ destroying /\ main \in {"take", "release"} => flags = "AllEvents"

\* What was taken or parked comes before what is still in the list.
Passed ==
  \A e \in Elements(taken) \cup Elements(m_inputEvents) :
    e < headPos /\ (e = headPos - 1 => event[order[headPos]] = NoEvent)

\* m_inputEvents holds user input in order, and no user input overtook it.
Parked ==
  /\ \A i \in DOMAIN m_inputEvents : m_inputEvents[i] \in userInput
  /\ \A i, j \in DOMAIN m_inputEvents : i < j => m_inputEvents[i] < m_inputEvents[j]
  /\ \A e \in Elements(taken), f \in Elements(m_inputEvents) : e > f => e \notin userInput

\* The destructor sees the whole list.
Drained == destroying => flushPos = Len(order)

OInv == /\ IInv /\ Numbering /\ Closing /\ Admitted /\ ExactlyOnce /\ Passed /\ Parked
        /\ Drained /\ OnlyInputIsOvertaken /\ NothingLeaks

-----------------------------------------------------------------------------
(* Sequences.                                                               *)

Injective(s) == \A i, j \in DOMAIN s : s[i] = s[j] => i = j

\* What Append does to the elements of a sequence.
LEMMA AppendElements ==
  ASSUME NEW S, NEW s \in Seq(S), NEW e \in S
  PROVE  /\ Append(s, e) \in Seq(S) /\ DOMAIN s = 1 .. Len(s) /\ Len(s) \in Nat
         /\ Len(Append(s, e)) = Len(s) + 1 /\ DOMAIN Append(s, e) = 1 .. Len(s) + 1
         /\ Append(s, e)[Len(s) + 1] = e /\ \A i \in 1 .. Len(s) : Append(s, e)[i] = s[i]
         /\ Elements(Append(s, e)) = Elements(s) \cup {e}
         /\ Injective(s) /\ e \notin Elements(s) => Injective(Append(s, e))
<1> DEFINE t == Append(s, e)
<1>1. /\ t \in Seq(S) /\ DOMAIN s = 1 .. Len(s) /\ Len(s) \in Nat
      /\ Len(t) = Len(s) + 1 /\ DOMAIN t = 1 .. Len(s) + 1
      /\ t[Len(s) + 1] = e /\ \A i \in 1 .. Len(s) : t[i] = s[i]
  BY AppendProperties, LenProperties
<1>2. Elements(t) = Elements(s) \cup {e}
  <2>1. \A x \in Elements(t) : x \in Elements(s) \cup {e}
    BY <1>1 DEF Elements
  <2>2. \A x \in Elements(s) : x \in Elements(t)
    BY <1>1 DEF Elements
  <2>3. e \in Elements(t)
    BY <1>1 DEF Elements
  <2>4. QED
    BY <2>1, <2>2, <2>3
<1>3. Injective(s) /\ e \notin Elements(s) => Injective(t)
  BY <1>1 DEF Injective, Elements
<1>4. QED
  BY <1>1, <1>2, <1>3

\* What Tail does to the elements of a sequence.
LEMMA TailElements ==
  ASSUME NEW S, NEW s \in Seq(S), s # <<>>
  PROVE  /\ Head(s) = s[1] /\ 1 \in DOMAIN s /\ DOMAIN s = 1 .. Len(s) /\ Len(s) \in Nat
         /\ Tail(s) \in Seq(S) /\ Len(Tail(s)) = Len(s) - 1 /\ DOMAIN Tail(s) = 1 .. Len(s) - 1
         /\ \A i \in 1 .. Len(s) - 1 : Tail(s)[i] = s[i + 1]
         /\ Elements(s) = Elements(Tail(s)) \cup {Head(s)}
         /\ Injective(s) => Injective(Tail(s)) /\ Head(s) \notin Elements(Tail(s))
<1> DEFINE t == Tail(s)
<1>1. /\ Head(s) = s[1] /\ 1 \in DOMAIN s /\ DOMAIN s = 1 .. Len(s) /\ Len(s) \in Nat \ {0}
      /\ t \in Seq(S) /\ Len(t) = Len(s) - 1 /\ DOMAIN t = 1 .. Len(s) - 1
      /\ \A i \in 1 .. Len(s) - 1 : t[i] = s[i + 1]
  <2>1. t \in Seq(S) /\ Len(s) \in Nat \ {0} /\ DOMAIN s = 1 .. Len(s) /\ Head(s) = s[1]
    BY HeadTailProperties, LenProperties, EmptySeq
  <2>2. Len(t) = Len(s) - 1 /\ \A i \in 1 .. Len(s) - 1 : t[i] = s[i + 1]
    BY HeadTailProperties, <2>1
  <2>3. DOMAIN t = 1 .. Len(s) - 1
    BY <2>1, <2>2, LenProperties
  <2>4. QED
    BY <2>1, <2>2, <2>3
<1>2. Elements(s) = Elements(t) \cup {Head(s)}
  <2>1. \A x \in Elements(t) : x \in Elements(s)
    BY <1>1 DEF Elements
  <2>2. Head(s) \in Elements(s)
    BY <1>1 DEF Elements
  <2>3. ASSUME NEW i \in 1 .. Len(s)
        PROVE  s[i] \in Elements(t) \cup {Head(s)}
    <3>1. CASE i = 1
      BY <1>1, <3>1
    <3>2. CASE i # 1
      <4>1. i - 1 \in 1 .. Len(s) - 1 /\ t[i - 1] = s[(i - 1) + 1] /\ (i - 1) + 1 = i
        BY <1>1, <3>2
      <4>2. QED
        BY <1>1, <4>1 DEF Elements
    <3>3. QED
      BY <3>1, <3>2
  <2>4. QED
    BY <1>1, <2>1, <2>2, <2>3 DEF Elements
<1>3. Injective(s) => Injective(t) /\ Head(s) \notin Elements(t)
  BY <1>1 DEF Injective, Elements
<1>4. QED
  BY <1>1, <1>2, <1>3

-----------------------------------------------------------------------------
(* The events in the list.                                                  *)

\* An event in the list is the one of its position, so no two nodes hold the
\* same, and clearing a node takes exactly its event out of Listed.
LEMMA ListedFacts ==
  ASSUME IInv, Numbering
  PROVE  /\ \A p \in headPos .. Len(order) : event[order[p]] = NoEvent \/ event[order[p]] = p - 1
         /\ NoEvent \notin Listed
         /\ \A e \in Listed : e + 1 \in headPos .. Len(order) /\ event[order[e + 1]] = e
         /\ \A p \in headPos .. Len(order) : event[order[p]] # NoEvent => event[order[p]] \in Listed
<1>1. Len(order) \in Nat /\ headPos \in Nat /\ 1 <= headPos
  BY Bounds DEF IInv
<1>2. \A p \in headPos .. Len(order) : event[order[p]] = NoEvent \/ event[order[p]] = p - 1
  BY DEF Numbering, Placed
<1>3. \A e \in Listed : e + 1 \in headPos .. Len(order) /\ event[order[e + 1]] = e
  <2>1. TAKE e \in Listed
  <2>2. PICK p \in headPos .. Len(order) : e = event[order[p]] /\ e # NoEvent
    BY DEF Listed
  <2>3. e = p - 1 /\ e + 1 = p
    BY <1>1, <1>2, <2>2
  <2>4. QED
    BY <2>2, <2>3
<1>4. QED
  BY <1>2, <1>3 DEF Listed

\* Clearing the node at position q.
LEMMA ListedAfterClear ==
  ASSUME IInv, Numbering, NEW q \in headPos .. Len(order),
         event' = [event EXCEPT ![order[q]] = NoEvent], order' = order, headPos' = headPos
  PROVE  Listed' = Listed \ {event[order[q]]}
<1>1. event \in [Nodes -> Events \cup {NoEvent}] /\ \A p \in headPos .. Len(order) : order[p] \in Nodes
  BY Bounds DEF IInv, TypeOK
<1>2. \A p \in headPos .. Len(order) : p # q => event'[order[p]] = event[order[p]]
  BY <1>1 DEF IInv, NodesInOnePlace
<1>3. event'[order[q]] = NoEvent
  BY <1>1
<1>4. \A p \in headPos .. Len(order) :
         p # q /\ event[order[p]] # NoEvent => event[order[p]] # event[order[q]]
  BY Bounds DEF IInv, Numbering, Placed, NoEvent
<1>5. \A e \in Listed' : e \in Listed \ {event[order[q]]}
  BY <1>2, <1>3, <1>4 DEF Listed
<1>6. \A e \in Listed \ {event[order[q]]} : e \in Listed'
  BY <1>2 DEF Listed
<1>7. QED
  BY <1>5, <1>6

\* Taking the first node out.
LEMMA ListedAfterTake ==
  ASSUME IInv, Numbering, TakeNode
  PROVE  Listed' = Listed \ {event[order[headPos]]}
<1>1. event' = event /\ order' = order /\ headPos' = headPos + 1 /\ headPos + 1 <= Len(order)
  BY LinkedAfterTake DEF TakeNode, listVars
<1>2. headPos \in Nat /\ Len(order) \in Nat
  BY Bounds DEF IInv
<1>3. headPos .. Len(order) = {headPos} \cup (headPos + 1 .. Len(order))
  BY <1>1, <1>2
<1>4. \A p \in headPos + 1 .. Len(order) :
         event[order[p]] # NoEvent => event[order[p]] # event[order[headPos]]
  BY <1>1, <1>2, <1>3, ListedFacts DEF NoEvent
<1>5. Listed = (Listed' \cup {event[order[headPos]]}) \ {NoEvent}
  BY <1>1, <1>3 DEF Listed
<1>6. event[order[headPos]] \notin Listed' /\ NoEvent \notin Listed'
  BY <1>1, <1>4 DEF Listed
<1>7. QED
  BY <1>5, <1>6

\* Linking a node adds the event it was given.
LEMMA ListedAfterLink ==
  ASSUME IInv, Numbering, LinkNode
  PROVE  Listed' = Listed \cup {Len(order)} /\ Len(order) \in Events
<1>1. event' = event /\ event[rNode] = Len(order) /\ Len(order) \in Nat /\ headPos \in Nat
      /\ headPos' = headPos /\ 1 <= headPos /\ headPos <= Len(order)
  BY LinkedAfterLink, Bounds DEF LinkNode, Numbering, Held, IInv
<1>2. headPos .. Len(order') = (headPos .. Len(order)) \cup {Len(order) + 1}
  BY <1>1, LinkedAfterLink
<1>3. \A p \in headPos .. Len(order) : order'[p] = order[p]
  BY <1>1, LinkedAfterLink
<1>4. order'[Len(order) + 1] = rNode /\ Len(order) # NoEvent /\ event[rNode] \in Events \cup {NoEvent}
  BY <1>1, LinkedAfterLink DEF NoEvent, IInv, TypeOK
<1>5. \A e \in Listed' : e \in Listed \cup {Len(order)}
  BY <1>1, <1>2, <1>3, <1>4 DEF Listed
<1>6. \A e \in Listed \cup {Len(order)} : e \in Listed'
  BY <1>1, <1>2, <1>3, <1>4 DEF Listed
<1>7. QED
  BY <1>1, <1>4, <1>5, <1>6

\* The other steps leave the events in the list alone.
Untouching ==
  \/ ServerSends \/ ConnectionBreaks \/ QuietReader \/ QuietMain \/ UNCHANGED vars
  \/ Flushing \/ qXcbEventNodeFactory \/ PublishTail \/ ReleaseNode \/ PeekMiss \/ DestructorEnds

\* The other steps leave the events in the list alone.
LEMMA ListedUnchanged ==
  ASSUME IInv, Untouching
  PROVE  /\ order' = order /\ headPos' = headPos
         /\ \A p \in headPos .. Len(order) : event'[order[p]] = event[order[p]]
         /\ Listed' = Listed
<1>1. CASE qXcbEventNodeFactory
  <2>1. PICK n \in Nodes \ Linked : InitialiseNode(n)
    BY <1>1, FreshNode
  <2>2. \A p \in headPos .. Len(order) : order[p] \in Nodes /\ order[p] # n
    BY <2>1, Bounds DEF IInv, Linked
  <2>3. \A p \in headPos .. Len(order) : event'[order[p]] = event[order[p]]
    BY <2>1, <2>2 DEF InitialiseNode, IInv, TypeOK
  <2>4. QED
    BY <1>1, <2>3, FreshNode DEF Listed
<1>2. CASE ServerSends \/ ConnectionBreaks \/ QuietReader \/ QuietMain \/ UNCHANGED vars
  <2>1. order' = order /\ headPos' = headPos
    BY <1>2, QuietUnchanged DEF listShape
  <2>2. event' = event
    BY <1>2 DEF ServerSends, ConnectionBreaks, vars, QuietReader, xcb_wait_for_event, ReaderSeesError, ReaderLocks,
       isCloseConnectionEvent, xcb_poll_for_queued_event, wakeOne, wakeUpDispatcher, DispatcherWakeUp,
       QuietMain, takeFirst, TakeReturnsNull, WaitTimesOut, WaitReturns, CreateDispatcher,
       ConsumeWakeUp, qAddPostRoutine, DeleteDispatcher, sendCloseConnectionEvent, listVars
  <2>3. QED
    BY <2>1, <2>2 DEF Listed
<1>3. CASE Flushing \/ PublishTail \/ ReleaseNode \/ PeekMiss \/ DestructorEnds
  <2>1. event' = event /\ order' = order /\ headPos' = headPos
    BY <1>3 DEF Flushing, flushBufferedEvents, peek, waitForNewEvents, DrainQueue, PublishTail,
       ReleaseNode, PeekMiss, DestructorEnds, listVars, viewVars
  <2>2. QED
    BY <2>1 DEF Listed
<1>4. QED
  BY <1>1, <1>2, <1>3 DEF Untouching

-----------------------------------------------------------------------------
(* What comes from the wire.                                                *)

\* the part that does not speak of the callers
WireInv == IInv /\ Numbering /\ Closing /\ Admitted /\ Drained

\* The event the reader gets is the next one, or the close event.
LEMMA HeadFacts ==
  ASSUME WireInv, wire # <<>>, rEvent # CloseEvent, ~Holding
  PROVE  /\ Head(wire) = wire[1] /\ Len(wire) \in Nat \ {0} /\ Len(Tail(wire)) = Len(wire) - 1
         /\ \A i \in 1 .. Len(wire) - 1 : Tail(wire)[i] = wire[i + 1]
         /\ Head(wire) # CloseEvent => Head(wire) = Len(order)
         /\ Head(wire) # CloseEvent =>
              /\ \A i \in 1 .. Len(wire) - 1 :
                   (\A j \in 1 .. i : Tail(wire)[j] # CloseEvent) =>
                     Unclosed(i + 1) /\ Tail(wire)[i] = Len(order) + i
              /\ (\A j \in 1 .. Len(wire) - 1 : Tail(wire)[j] # CloseEvent) =>
                     sent = Len(order) + Len(wire) - 1
<1>1. wire \in Seq(Events \cup {CloseEvent}) /\ Len(order) \in Nat
  BY Bounds DEF WireInv, IInv, TypeOK
<1>2. /\ Head(wire) = wire[1] /\ Len(wire) \in Nat \ {0} /\ Len(Tail(wire)) = Len(wire) - 1
      /\ \A i \in 1 .. Len(wire) - 1 : Tail(wire)[i] = wire[i + 1]
  BY <1>1, HeadTailProperties, LenProperties, EmptySeq
<1>3. /\ \A i \in 1 .. Len(wire) : Unclosed(i) => wire[i] = Len(order) + i - 1
      /\ Unclosed(Len(wire)) => sent = Len(order) + Len(wire) - 1
  BY DEF WireInv, Numbering, Wired, Coming
<1>4. Head(wire) # CloseEvent => Head(wire) = Len(order)
  <2>1. 1 \in 1 .. Len(wire) /\ (wire[1] # CloseEvent => Unclosed(1))
    BY <1>2 DEF Unclosed
  <2>2. QED
    BY <1>1, <1>2, <1>3, <2>1
<1>5. ASSUME Head(wire) # CloseEvent, NEW i \in 0 .. Len(wire) - 1,
             \A j \in 1 .. i : Tail(wire)[j] # CloseEvent
      PROVE  Unclosed(i + 1)
  <2>1. SUFFICES ASSUME NEW j \in 1 .. i + 1
                 PROVE  wire[j] # CloseEvent
    BY DEF Unclosed
  <2>2. CASE j = 1
    BY <1>2, <1>5, <2>2
  <2>3. CASE j # 1
    <3>1. j - 1 \in 1 .. i /\ j - 1 \in 1 .. Len(wire) - 1 /\ (j - 1) + 1 = j
      BY <1>2, <2>3
    <3>2. QED
      BY <1>2, <1>5, <3>1
  <2>4. QED
    BY <2>2, <2>3
<1>6. ASSUME Head(wire) # CloseEvent, NEW i \in 1 .. Len(wire) - 1,
             \A j \in 1 .. i : Tail(wire)[j] # CloseEvent
      PROVE  Unclosed(i + 1) /\ Tail(wire)[i] = Len(order) + i
  <2>1. Unclosed(i + 1)
    BY <1>2, <1>5, <1>6
  <2>2. i + 1 \in 1 .. Len(wire)
    BY <1>2
  <2>3. QED
    BY <1>1, <1>2, <1>3, <2>1, <2>2
<1>7. ASSUME Head(wire) # CloseEvent, \A j \in 1 .. Len(wire) - 1 : Tail(wire)[j] # CloseEvent
      PROVE  sent = Len(order) + Len(wire) - 1
  <2>1. Len(wire) - 1 \in 0 .. Len(wire) - 1 /\ (Len(wire) - 1) + 1 = Len(wire)
    BY <1>2
  <2>2. Unclosed(Len(wire))
    BY <1>5, <1>7, <2>1
  <2>3. QED
    BY <1>3, <2>2
<1>8. QED
  BY <1>2, <1>4, <1>6, <1>7

\* The wire with one event more.
LEMMA AppendFacts ==
  ASSUME WireInv, NEW e \in Events \cup {CloseEvent}
  PROVE  /\ wire \in Seq(Events \cup {CloseEvent}) /\ Len(wire) \in Nat
         /\ Len(Append(wire, e)) = Len(wire) + 1 /\ Append(wire, e)[Len(wire) + 1] = e
         /\ \A i \in 1 .. Len(wire) : Append(wire, e)[i] = wire[i]
         /\ \A i \in 0 .. Len(wire) : (\A j \in 1 .. i : Append(wire, e)[j] # CloseEvent) <=> Unclosed(i)
         /\ (\A j \in 1 .. Len(wire) + 1 : Append(wire, e)[j] # CloseEvent)
              <=> Unclosed(Len(wire)) /\ e # CloseEvent
<1>1. /\ wire \in Seq(Events \cup {CloseEvent}) /\ Len(wire) \in Nat
      /\ Len(Append(wire, e)) = Len(wire) + 1 /\ Append(wire, e)[Len(wire) + 1] = e
      /\ \A i \in 1 .. Len(wire) : Append(wire, e)[i] = wire[i]
  BY AppendProperties, LenProperties DEF WireInv, IInv, TypeOK
<1>2. \A i \in 0 .. Len(wire) : (\A j \in 1 .. i : Append(wire, e)[j] # CloseEvent) <=> Unclosed(i)
  BY <1>1 DEF Unclosed
<1>3. \A j \in 1 .. Len(wire) + 1 : j \in 1 .. Len(wire) \/ j = Len(wire) + 1
  BY <1>1
<1>4. (\A j \in 1 .. Len(wire) + 1 : Append(wire, e)[j] # CloseEvent) <=> Unclosed(Len(wire)) /\ e # CloseEvent
  BY <1>1, <1>3 DEF Unclosed
<1>5. QED
  BY <1>1, <1>2, <1>4

\* A linked node keeps the event of its position.
LEMMA PlacedStep ==
  ASSUME WireInv, [Next]_vars
  PROVE  Placed'
<1> USE DEF WireInv
<1>1. ASSUME NEW p \in headPos' .. Len(order), order'[p] = order[p]
      PROVE  event'[order'[p]] \in {NoEvent, p - 1}
  BY <1>1, StableStep DEF Numbering, Placed
<1>2. CASE LinkNode
  <2>1. headPos' .. Len(order') \subseteq (headPos' .. Len(order)) \cup {Len(order) + 1}
    BY <1>2, LinkedAfterLink, Bounds DEF IInv
  <2>2. \A p \in headPos' .. Len(order) : order'[p] = order[p]
    BY <1>2, LinkedAfterLink, Bounds DEF IInv
  <2>3. event'[order'[Len(order) + 1]] = (Len(order) + 1) - 1
    BY <1>2, LinkedAfterLink, Bounds DEF LinkNode, Numbering, Held, IInv
  <2>4. QED
    BY <1>1, <2>1, <2>2, <2>3 DEF Placed
<1>3. CASE order' = order
  BY <1>1, <1>3 DEF Placed
<1>4. QED
  BY NextCases, QuietUnchanged, FreshNode, <1>2, <1>3 DEF listShape, Flushing, flushBufferedEvents, peek,
     waitForNewEvents, DrainQueue, PublishTail, TakeFromLastNode, TakeNode, ReleaseNode, PeekMiss, PeekMatch,
     DestructorEnds

\* The reader holds the next event.
LEMMA HeldStep ==
  ASSUME WireInv, [Next]_vars
  PROVE  Held'
<1> USE DEF WireInv
<1>1. CASE xcb_wait_for_event \/ xcb_poll_for_queued_event
  <2>1. reader \in {"wait", "poll"} /\ order' = order /\ reader' # "link"
    BY <1>1 DEF xcb_wait_for_event, xcb_poll_for_queued_event
  <2>2. rEvent # CloseEvent /\ ~Holding
    BY <2>1 DEF Closing, Holding
  <2>3. CASE wire # <<>> /\ rEvent' = Head(wire)
    BY <2>1, <2>2, <2>3, HeadFacts DEF Held
  <2>4. CASE reader' = "notify"
    BY <2>4 DEF Held
  <2>5. QED
    BY <1>1, <2>3, <2>4 DEF xcb_wait_for_event, xcb_poll_for_queued_event
<1>2. CASE qXcbEventNodeFactory
  <2>1. PICK n \in Nodes : InitialiseNode(n)
    BY <1>2, FreshNode DEF WireInv
  <2>2. event'[rNode'] = rEvent /\ rEvent = Len(order) /\ order' = order /\ reader' = "link"
    BY <1>2, <2>1, FreshNode DEF InitialiseNode, Numbering, Held, qXcbEventNodeFactory, IInv, TypeOK
  <2>3. QED
    BY <2>2 DEF Held
<1>3. CASE reader' \notin {"lock", "enqueue", "link"}
  BY <1>3 DEF Held
<1>4. CASE ReaderLocks
  BY <1>4 DEF ReaderLocks, Held, Numbering
<1>5. CASE ReaderSeesError \/ isCloseConnectionEvent \/ LinkNode \/ PublishTail \/ wakeOne
           \/ wakeUpDispatcher \/ DispatcherWakeUp
  BY <1>3, <1>5 DEF ReaderSeesError, isCloseConnectionEvent, LinkNode, PublishTail, wakeOne,
     wakeUpDispatcher, DispatcherWakeUp, Finished
<1>6. ASSUME UNCHANGED <<reader, rEvent, order, rNode>>, reader = "link" => event'[rNode] = event[rNode]
      PROVE  Held'
  BY <1>6 DEF Held, Numbering
<1>7. ASSUME readerVars' = readerVars, event' = event, order' = order
      PROVE  Held'
  BY <1>6, <1>7 DEF readerVars
<1>8. CASE ServerSends \/ ConnectionBreaks \/ QuietMain \/ UNCHANGED vars
  <2>1. readerVars' = readerVars /\ event' = event /\ order' = order
    BY <1>8 DEF ServerSends, ConnectionBreaks, vars, listVars, QuietMain, takeFirst,
     TakeReturnsNull, WaitTimesOut, WaitReturns, CreateDispatcher, ConsumeWakeUp, qAddPostRoutine,
     DeleteDispatcher, sendCloseConnectionEvent
  <2>2. QED
    BY <1>7, <2>1
<1>9. CASE Flushing \/ TakeNode \/ ReleaseNode \/ PeekMiss \/ DestructorEnds
  <2>1. readerVars' = readerVars /\ event' = event /\ order' = order
    BY <1>9 DEF Flushing, flushBufferedEvents, peek, waitForNewEvents, DrainQueue, TakeNode, ReleaseNode,
     PeekMiss, DestructorEnds, listVars
  <2>2. QED
    BY <1>7, <2>1
<1>10. CASE TakeFromLastNode \/ PeekMatch
  <2>1. UNCHANGED <<reader, rEvent, order, rNode>>
    BY <1>10 DEF TakeFromLastNode, PeekMatch, readerVars
  <2>2. ASSUME reader = "link"
        PROVE  event'[rNode] = event[rNode]
    <3>1. rNode \notin Linked /\ rNode \in Nodes
      BY <2>2, NodesAssumption DEF IInv, TypeOK, Control, NodesInOnePlace, InFlight
    <3>2. m_head \in Linked /\ (main = "peek" => cursor \in Linked)
      BY Bounds DEF IInv, Chain, Walk, Linked
    <3>3. QED
      BY <1>10, <3>1, <3>2 DEF TakeFromLastNode, PeekMatch, IInv, TypeOK
  <2>3. QED
    BY <1>6, <2>1, <2>2
<1>11. QED
  BY NextCases, <1>1, <1>2, <1>4, <1>5, <1>8, <1>9, <1>10 DEF QuietReader

\* The wire continues what the reader holds.
LEMMA WiredStep ==
  ASSUME WireInv, [Next]_vars
  PROVE  Wired'
<1> USE DEF WireInv
<1>1. ASSUME UNCHANGED <<wire, sent>>, rEvent' # CloseEvent => rEvent # CloseEvent /\ Coming' = Coming
      PROVE  Wired'
  BY <1>1 DEF Wired, Numbering, Unclosed
<1>2. CASE xcb_wait_for_event \/ xcb_poll_for_queued_event
  <2>1. reader \in {"wait", "poll"} /\ order' = order /\ sent' = sent
    BY <1>2 DEF xcb_wait_for_event, xcb_poll_for_queued_event
  <2>2. rEvent # CloseEvent /\ ~Holding
    BY <2>1 DEF Closing, Holding
  <2>3. CASE wire # <<>> /\ rEvent' = Head(wire) /\ wire' = Tail(wire) /\ reader' \in {"lock", "enqueue"}
    <3>1. rEvent' # CloseEvent => Coming' = Len(order) + 1
      BY <2>1, <2>3 DEF Coming, Holding
    <3>2. Len(order) \in Nat
      BY Bounds DEF IInv
    <3>3. Len(wire) \in Nat \ {0} /\ Len(wire') = Len(wire) - 1
      BY <2>2, <2>3, HeadFacts
    <3>4. ASSUME rEvent' # CloseEvent, NEW i \in 1 .. Len(wire'), \A j \in 1 .. i : wire'[j] # CloseEvent
          PROVE  wire'[i] = Coming' + i - 1
      BY <2>2, <2>3, <3>1, <3>2, <3>3, <3>4, HeadFacts
    <3>5. ASSUME rEvent' # CloseEvent, \A j \in 1 .. Len(wire') : wire'[j] # CloseEvent
          PROVE  sent' = Coming' + Len(wire') - 1
      BY <2>1, <2>2, <2>3, <3>1, <3>2, <3>3, <3>5, HeadFacts
    <3>6. QED
      BY <3>4, <3>5 DEF Wired, Unclosed
  <2>4. CASE wire' = wire /\ reader' = "notify"
    BY <1>1, <2>1, <2>2, <2>4 DEF Coming, Holding
  <2>5. QED
    BY <1>2, <2>3, <2>4 DEF xcb_wait_for_event, xcb_poll_for_queued_event
<1>3. CASE ServerSends
  <2>1. sent + 1 \in Events \cup {CloseEvent} /\ sent + 1 # CloseEvent /\ sent \in Nat
    BY <1>3, MaxEventsAssumption DEF ServerSends, Events, CloseEvent, IInv, TypeOK
  <2>2. UNCHANGED <<rEvent, Coming>> /\ sent' = sent + 1 /\ wire' = Append(wire, sent + 1)
    BY <1>3 DEF ServerSends, readerVars, Coming, Holding
  <2>3. Len(order) \in Nat /\ Coming \in Nat
    BY Bounds DEF IInv, Coming
  <2>4. QED
    BY <2>1, <2>2, <2>3, AppendFacts DEF Wired, Unclosed, Numbering
<1>4. CASE sendCloseConnectionEvent
  <2>1. CASE wire' = wire
    BY <1>1, <1>4, <2>1 DEF sendCloseConnectionEvent, readerVars, Coming, Holding
  <2>2. CASE wire' = Append(wire, CloseEvent)
    <3>1. UNCHANGED <<rEvent, Coming, sent>>
      BY <1>4 DEF sendCloseConnectionEvent, readerVars, Coming, Holding
    <3>2. QED
      BY <2>2, <3>1, AppendFacts DEF Wired, Unclosed, Numbering
  <2>3. QED
    BY <1>4, <2>1, <2>2 DEF sendCloseConnectionEvent
<1>5. CASE LinkNode
  <2>1. Coming = Len(order) + 1 /\ Coming' = Len(order')
    BY <1>5 DEF LinkNode, Coming, Holding
  <2>2. QED
    BY <1>1, <1>5, <2>1, LinkedAfterLink DEF LinkNode, xVars
<1>6. CASE QuietReader /\ ~xcb_wait_for_event /\ ~xcb_poll_for_queued_event
  BY <1>1, <1>6 DEF QuietReader, ReaderSeesError, ReaderLocks, isCloseConnectionEvent, wakeOne,
     wakeUpDispatcher, DispatcherWakeUp, Finished, xVars, Coming, Holding, Closing
<1>7. CASE qXcbEventNodeFactory \/ PublishTail
  BY <1>1, <1>7 DEF qXcbEventNodeFactory, PublishTail, xVars, readerVars, Coming, Holding
<1>8. ASSUME readerVars' = readerVars, xVars' = xVars, order' = order
      PROVE  Wired'
  BY <1>1, <1>8 DEF readerVars, xVars, Coming, Holding
<1>9. CASE ConnectionBreaks \/ UNCHANGED vars
  BY <1>1, <1>9 DEF ConnectionBreaks, vars, xVars, readerVars, Coming, Holding
<1>10. CASE QuietMain /\ ~sendCloseConnectionEvent
  <2>1. readerVars' = readerVars /\ xVars' = xVars /\ order' = order
    BY <1>10 DEF QuietMain, takeFirst, TakeReturnsNull, WaitTimesOut, WaitReturns, CreateDispatcher,
       ConsumeWakeUp, qAddPostRoutine, DeleteDispatcher
  <2>2. QED
    BY <1>8, <2>1
<1>11. CASE \/ Flushing \/ TakeFromLastNode \/ TakeNode \/ ReleaseNode \/ PeekMiss \/ PeekMatch
            \/ DestructorEnds
  <2>1. readerVars' = readerVars /\ xVars' = xVars /\ order' = order
    BY <1>11 DEF Flushing, flushBufferedEvents, peek, waitForNewEvents, DrainQueue, TakeFromLastNode,
       TakeNode, ReleaseNode, PeekMiss, PeekMatch, DestructorEnds
  <2>2. QED
    BY <1>8, <2>1
<1>12. QED
  BY NextCases, <1>2, <1>3, <1>4, <1>5, <1>6, <1>7, <1>9, <1>10, <1>11 DEF QuietReader, QuietMain

\* Only the destructor brings in the close event, and it is the reader's last.
LEMMA ClosingStep ==
  ASSUME WireInv, [Next]_vars
  PROVE  Closing'
<1> USE DEF WireInv
<1>1. ASSUME UNCHANGED <<wire, readerVars>>, main' # "closing" /\ ~destroying' => main # "closing" /\ ~destroying
      PROVE  Closing'
  BY <1>1 DEF Closing, Unclosed, readerVars
<1>2. CASE xcb_wait_for_event \/ xcb_poll_for_queued_event
  <2>1. /\ reader \in {"wait", "poll"} /\ rEvent # CloseEvent /\ ~Holding
        /\ reader' \notin {"wait", "link", "publish", "poll"}
        /\ UNCHANGED <<main, destroying, m_closeConnectionDetected>>
    BY <1>2 DEF xcb_wait_for_event, xcb_poll_for_queued_event, Closing, Holding, callVars
  <2>2. CASE wire # <<>> /\ rEvent' = Head(wire) /\ wire' = Tail(wire) /\ reader' \in {"lock", "enqueue"}
    <3>1. \A j \in 1 .. Len(wire') : wire'[j] = wire[j + 1] /\ j + 1 \in 1 .. Len(wire)
      BY <2>1, <2>2, HeadFacts
    <3>2. rEvent' = wire[1] /\ 1 \in 1 .. Len(wire)
      BY <2>1, <2>2, HeadFacts
    <3>3. main # "closing" /\ ~destroying => \A j \in 1 .. Len(wire) : wire[j] # CloseEvent
      BY DEF Closing, Unclosed
    <3>4. QED
      BY <2>1, <2>2, <3>1, <3>2, <3>3 DEF Closing, Unclosed
  <2>3. CASE wire' = wire /\ reader' = "notify" /\ rEvent' = NoEvent
    <3>1. NoEvent # CloseEvent
      BY MaxEventsAssumption DEF NoEvent, CloseEvent
    <3>2. QED
      BY <2>1, <2>3, <3>1 DEF Closing, Unclosed
  <2>4. QED
    BY <1>2, <2>2, <2>3 DEF xcb_wait_for_event, xcb_poll_for_queued_event
<1>3. CASE ServerSends
  <2>1. sent + 1 \in Events \cup {CloseEvent} /\ sent + 1 # CloseEvent
    BY <1>3, MaxEventsAssumption DEF ServerSends, Events, CloseEvent, IInv, TypeOK
  <2>2. UNCHANGED <<readerVars, main, destroying>> /\ wire' = Append(wire, sent + 1)
    BY <1>3 DEF ServerSends, callVars
  <2>3. QED
    BY <2>1, <2>2, AppendFacts DEF Closing, Unclosed, readerVars
<1>4. CASE sendCloseConnectionEvent
  BY <1>4 DEF sendCloseConnectionEvent, Closing, readerVars
<1>5. CASE ReaderSeesError \/ ReaderLocks \/ isCloseConnectionEvent \/ wakeOne \/ wakeUpDispatcher
           \/ DispatcherWakeUp
  <2>1. wire' = wire /\ destroying' = destroying /\ (main' = "closing" <=> main = "closing")
    BY <1>5 DEF ReaderSeesError, ReaderLocks, isCloseConnectionEvent, wakeOne, wakeUpDispatcher,
       DispatcherWakeUp, callVars, xVars
  <2>2. CASE ReaderSeesError \/ ReaderLocks \/ isCloseConnectionEvent
    BY <2>1, <2>2, MaxEventsAssumption DEF ReaderSeesError, ReaderLocks, isCloseConnectionEvent, Closing,
       Unclosed, NoEvent, CloseEvent
  <2>3. CASE wakeOne \/ wakeUpDispatcher \/ DispatcherWakeUp
    BY <2>1, <2>3 DEF wakeOne, wakeUpDispatcher, DispatcherWakeUp, Finished, Closing, Unclosed
  <2>4. QED
    BY <1>5, <2>2, <2>3
<1>6. CASE qXcbEventNodeFactory \/ LinkNode \/ PublishTail
  BY <1>6 DEF qXcbEventNodeFactory, LinkNode, PublishTail, Closing, Unclosed, callVars, xVars
<1>7. CASE ConnectionBreaks \/ UNCHANGED vars
  BY <1>1, <1>7 DEF ConnectionBreaks, vars, xVars, callVars
<1>8. CASE QuietMain /\ ~sendCloseConnectionEvent
  BY <1>1, <1>8 DEF QuietMain, takeFirst, TakeReturnsNull, WaitTimesOut, WaitReturns, CreateDispatcher,
     ConsumeWakeUp, qAddPostRoutine, DeleteDispatcher, xVars, callVars
<1>9. CASE Flushing
  BY <1>1, <1>9 DEF Flushing, flushBufferedEvents, peek, waitForNewEvents, DrainQueue, xVars, callVars
<1>10. CASE TakeFromLastNode \/ TakeNode \/ ReleaseNode \/ PeekMiss \/ PeekMatch \/ DestructorEnds
  BY <1>1, <1>10 DEF TakeFromLastNode, TakeNode, ReleaseNode, PeekMiss, PeekMatch, DestructorEnds,
     PeekAdvance, AfterConsume, Returned, xVars, callVars
<1>11. QED
  BY NextCases, <1>2, <1>3, <1>4, <1>5, <1>6, <1>7, <1>8, <1>9, <1>10 DEF QuietReader, QuietMain

\* The part of the queue that takeFirst() and the destructor decide on.
LEMMA AdmittedStep ==
  ASSUME WireInv, [Next]_vars
  PROVE  Admitted'
<1> USE DEF WireInv
<1>1. ASSUME UNCHANGED <<flags, destroying, m_inputEvents>>,
             main' # main => main \in {"waiting"} /\ main' = "woken"
      PROVE  Admitted'
  BY <1>1 DEF Admitted
<1>2. CASE ServerSends \/ ConnectionBreaks \/ UNCHANGED vars \/ qXcbEventNodeFactory \/ LinkNode \/ PublishTail
  BY <1>1, <1>2 DEF ServerSends, ConnectionBreaks, vars, qXcbEventNodeFactory, LinkNode, PublishTail, callVars,
     logVars
<1>3. CASE QuietReader
  BY <1>1, <1>3 DEF QuietReader, xcb_wait_for_event, ReaderSeesError, ReaderLocks,
     isCloseConnectionEvent, xcb_poll_for_queued_event, wakeOne, wakeUpDispatcher, DispatcherWakeUp,
     callVars, logVars
<1>4. CASE \E fl \in FlagValues : takeFirst(fl)
  BY <1>4 DEF takeFirst, TakeInputEvent, logVars, FlagValues, Admitted
<1>5. CASE TakeReturnsNull \/ WaitTimesOut \/ WaitReturns \/ CreateDispatcher \/ ConsumeWakeUp
           \/ qAddPostRoutine \/ DeleteDispatcher \/ sendCloseConnectionEvent
  BY <1>5 DEF TakeReturnsNull, WaitTimesOut, WaitReturns, CreateDispatcher, ConsumeWakeUp, qAddPostRoutine,
     DeleteDispatcher, sendCloseConnectionEvent, callVars, logVars, Admitted
<1>6. CASE Flushing
  BY <1>6 DEF Flushing, flushBufferedEvents, peek, waitForNewEvents, DrainQueue, callVars, logVars, Admitted
<1>7. CASE TakeFromLastNode \/ TakeNode
  BY <1>7 DEF TakeFromLastNode, TakeNode, Consume, Park, AfterConsume, Returned, Admitted
<1>8. CASE ReleaseNode \/ PeekMiss \/ PeekMatch \/ DestructorEnds
  BY <1>8 DEF ReleaseNode, PeekMiss, PeekMatch, DestructorEnds, PeekAdvance, AfterConsume, Returned, logVars,
     Admitted
<1>9. QED
  BY NextCases, <1>2, <1>3, <1>4, <1>5, <1>6, <1>7, <1>8 DEF QuietMain

\* Nothing is linked after the destructor has flushed.
LEMMA DrainedStep ==
  ASSUME WireInv, [Next]_vars
  PROVE  Drained'
<1> USE DEF WireInv
<1>1. CASE UNCHANGED <<destroying, order, flushPos>>
  BY <1>1 DEF Drained
<1>2. CASE Flushing
  BY <1>2 DEF Flushing, flushBufferedEvents, peek, waitForNewEvents, DrainQueue, Flush, PublishedPos, callVars,
     Drained, Admitted
<1>3. CASE LinkNode
  BY <1>3 DEF LinkNode, Drained, IInv, Control, callVars
<1>4. CASE ServerSends \/ ConnectionBreaks \/ QuietReader \/ QuietMain \/ UNCHANGED vars
  <2>1. destroying' = destroying
    BY <1>4 DEF ServerSends, ConnectionBreaks, vars, QuietReader, xcb_wait_for_event, ReaderSeesError, ReaderLocks,
       isCloseConnectionEvent, xcb_poll_for_queued_event, wakeOne, wakeUpDispatcher, DispatcherWakeUp,
       QuietMain, takeFirst, TakeReturnsNull, WaitTimesOut, WaitReturns, CreateDispatcher, ConsumeWakeUp,
       qAddPostRoutine, DeleteDispatcher, sendCloseConnectionEvent, callVars
  <2>2. QED
    BY <1>1, <1>4, <2>1, QuietUnchanged DEF listShape
<1>5. CASE qXcbEventNodeFactory \/ PublishTail \/ TakeFromLastNode \/ TakeNode \/ ReleaseNode \/ PeekMiss
           \/ PeekMatch \/ DestructorEnds
  BY <1>1, <1>5 DEF qXcbEventNodeFactory, PublishTail, TakeFromLastNode, TakeNode, ReleaseNode, PeekMiss,
     PeekMatch, DestructorEnds, viewVars, callVars
<1>6. QED
  BY NextCases, <1>2, <1>3, <1>4, <1>5

-----------------------------------------------------------------------------
(* What becomes of the events.                                              *)

Fate == ExactlyOnce /\ Passed /\ Parked /\ OnlyInputIsOvertaken

\* What the lemmas below need of the invariant.
LEMMA LogTypes ==
  ASSUME OInv
  PROVE  /\ taken \in Seq(Events) /\ m_inputEvents \in Seq(Events) /\ removed \subseteq Events
         /\ userInput \subseteq Events /\ Events \subseteq Nat \ {0} /\ NoEvent \notin Events
         /\ headPos \in Nat /\ Len(order) \in Nat /\ 1 <= headPos /\ headPos <= Len(order)
         /\ headPos \in headPos .. Len(order) /\ WireInv /\ Fate /\ IInv /\ Numbering
         /\ event[order[headPos]] \in {NoEvent, headPos - 1} /\ Injective(taken) /\ Injective(m_inputEvents)
<1>1. /\ taken \in Seq(Events) /\ m_inputEvents \in Seq(Events) /\ removed \subseteq Events
      /\ userInput \subseteq Events /\ WireInv /\ Fate /\ IInv /\ Numbering
  BY DEF OInv, WireInv, Fate, IInv, TypeOK
<1>2. Events \subseteq Nat \ {0} /\ NoEvent \notin Events
  BY MaxEventsAssumption DEF Events, NoEvent
<1>3. /\ headPos \in Nat /\ Len(order) \in Nat /\ 1 <= headPos /\ headPos <= Len(order)
      /\ headPos \in headPos .. Len(order)
  BY <1>1, Bounds DEF IInv
<1>4. event[order[headPos]] \in {NoEvent, headPos - 1}
  BY <1>1, <1>3 DEF Numbering, Placed
<1>5. Injective(taken) /\ Injective(m_inputEvents)
  BY <1>1 DEF Fate, ExactlyOnce, Injective
<1>6. QED
  BY <1>1, <1>2, <1>3, <1>4, <1>5

\* Which events are user input does not change.
LEMMA UserInputIsFixed ==
  ASSUME [Next]_vars
  PROVE  userInput' = userInput
<1>1. CASE ServerSends \/ ConnectionBreaks \/ QuietReader \/ QuietMain \/ UNCHANGED vars
  BY <1>1 DEF ServerSends, ConnectionBreaks, vars, xVars, QuietReader, xcb_wait_for_event, ReaderSeesError,
     ReaderLocks, isCloseConnectionEvent, xcb_poll_for_queued_event, wakeOne, wakeUpDispatcher, DispatcherWakeUp,
     QuietMain, takeFirst, TakeReturnsNull, WaitTimesOut, WaitReturns, CreateDispatcher,
     ConsumeWakeUp, qAddPostRoutine, DeleteDispatcher, sendCloseConnectionEvent
<1>2. CASE Flushing \/ qXcbEventNodeFactory \/ LinkNode \/ PublishTail \/ TakeFromLastNode \/ TakeNode
           \/ ReleaseNode \/ PeekMiss \/ PeekMatch \/ DestructorEnds
  BY <1>2 DEF Flushing, flushBufferedEvents, peek, waitForNewEvents, DrainQueue, qXcbEventNodeFactory, LinkNode,
     PublishTail, TakeFromLastNode, TakeNode, ReleaseNode, PeekMiss, PeekMatch, DestructorEnds, xVars
<1>3. QED
  BY NextCases, <1>1, <1>2

\* A step that neither takes, parks nor removes an event.
LEMMA FateKept ==
  ASSUME OInv, [Next]_vars, logVars' = logVars, headPos' = headPos,
         \/ Listed' = Listed /\ order' = order
         \/ LinkNode
  PROVE  Fate'
<1>1. taken' = taken /\ m_inputEvents' = m_inputEvents /\ removed' = removed /\ userInput' = userInput
  BY UserInputIsFixed DEF logVars
<1>2. Parked' /\ OnlyInputIsOvertaken'
  BY <1>1, LogTypes DEF Fate, Parked, OnlyInputIsOvertaken, Elements
<1>3. Elements(taken)' = Elements(taken) /\ Elements(m_inputEvents)' = Elements(m_inputEvents)
  BY <1>1 DEF Elements
<1>4. Passed'
  <2>1. order'[headPos] = order[headPos]
    BY LogTypes, LinkedAfterLink
  <2>2. event[order[headPos]] = NoEvent => event'[order[headPos]] = NoEvent
    BY LogTypes, StableStep
  <2>3. QED
    BY <1>3, <2>1, <2>2, LogTypes DEF Fate, Passed
<1>5. CASE Listed' = Listed /\ order' = order
  <2>1. ExactlyOnce'
    BY <1>1, <1>3, <1>5, LogTypes DEF Fate, ExactlyOnce
  <2>2. QED
    BY <1>2, <1>4, <2>1 DEF Fate
<1>6. CASE LinkNode
  <2>1. Listed' = Listed \cup {Len(order)} /\ Len(order') = Len(order) + 1
    BY <1>6, LogTypes, ListedAfterLink, LinkedAfterLink
  <2>2. 1 .. (Len(order') - 1) = (1 .. (Len(order) - 1)) \cup {Len(order)} /\ Len(order) \notin 1 .. (Len(order) - 1)
    BY <2>1, LogTypes
  <2>3. ExactlyOnce'
    BY <1>1, <1>3, <2>1, <2>2, LogTypes DEF Fate, ExactlyOnce
  <2>4. QED
    BY <1>2, <1>4, <2>3 DEF Fate
<1>7. QED
  BY <1>5, <1>6

\* takeFirst(AllEvents) hands out the oldest parked event.
LEMMA FateOfInput ==
  ASSUME OInv, m_inputEvents # <<>>, order' = order, headPos' = headPos, Listed' = Listed,
         event'[order[headPos]] = event[order[headPos]], userInput' = userInput,
         taken' = Append(taken, Head(m_inputEvents)), m_inputEvents' = Tail(m_inputEvents), removed' = removed
  PROVE  Fate'
<1> DEFINE e == Head(m_inputEvents)
<1>1. /\ e = m_inputEvents[1] /\ 1 \in DOMAIN m_inputEvents /\ e \in Events
      /\ Elements(m_inputEvents) = Elements(m_inputEvents') \cup {e}
      /\ Injective(m_inputEvents') /\ e \notin Elements(m_inputEvents')
      /\ Len(m_inputEvents) \in Nat /\ DOMAIN m_inputEvents = 1 .. Len(m_inputEvents)
      /\ DOMAIN m_inputEvents' = 1 .. Len(m_inputEvents) - 1
      /\ \A i \in 1 .. Len(m_inputEvents) - 1 : m_inputEvents'[i] = m_inputEvents[i + 1]
  <2>1. m_inputEvents \in Seq(Events) /\ Injective(m_inputEvents)
    BY LogTypes
  <2>2. /\ e = m_inputEvents[1] /\ 1 \in DOMAIN m_inputEvents
        /\ Elements(m_inputEvents) = Elements(Tail(m_inputEvents)) \cup {e}
        /\ Injective(Tail(m_inputEvents)) /\ e \notin Elements(Tail(m_inputEvents))
        /\ Len(m_inputEvents) \in Nat /\ DOMAIN m_inputEvents = 1 .. Len(m_inputEvents)
        /\ DOMAIN Tail(m_inputEvents) = 1 .. Len(m_inputEvents) - 1
        /\ \A i \in 1 .. Len(m_inputEvents) - 1 : Tail(m_inputEvents)[i] = m_inputEvents[i + 1]
    BY <2>1, TailElements
  <2>3. e \in Events
    BY <2>1, <2>2
  <2>4. QED
    BY <2>2, <2>3
<1>2. e \notin Elements(taken)
  BY <1>1, LogTypes DEF Fate, ExactlyOnce
<1>3. /\ DOMAIN taken = 1 .. Len(taken) /\ Len(taken) \in Nat /\ DOMAIN taken' = 1 .. Len(taken) + 1
      /\ taken'[Len(taken) + 1] = e /\ \A i \in 1 .. Len(taken) : taken'[i] = taken[i]
      /\ Elements(taken') = Elements(taken) \cup {e} /\ Injective(taken')
  BY <1>1, <1>2, LogTypes, AppendElements
<1>4. ExactlyOnce'
  <2>1. /\ Listed' \cup Elements(taken') \cup Elements(m_inputEvents') \cup removed' = 1 .. (Len(order') - 1)
        /\ Listed' \cap (Elements(taken') \cup Elements(m_inputEvents') \cup removed') = {}
        /\ Elements(taken') \cap (Elements(m_inputEvents') \cup removed') = {}
        /\ Elements(m_inputEvents') \cap removed' = {}
    BY <1>1, <1>2, <1>3, LogTypes DEF Fate, ExactlyOnce
  <2>2. QED
    BY <1>1, <1>3, <2>1 DEF ExactlyOnce, Injective, Elements
<1>5. Passed'
  <2>1. Elements(taken') \cup Elements(m_inputEvents') = Elements(taken) \cup Elements(m_inputEvents)
    BY <1>1, <1>3
  <2>2. QED
    BY <2>1, LogTypes DEF Fate, Passed, Elements
<1>6. Parked'
  <2>1. \A i \in DOMAIN m_inputEvents' : i + 1 \in DOMAIN m_inputEvents /\ m_inputEvents'[i] = m_inputEvents[i + 1]
    BY <1>1
  <2>2. \A i \in DOMAIN m_inputEvents' : m_inputEvents'[i] \in userInput'
    BY <2>1, LogTypes DEF Fate, Parked
  <2>3. \A i, j \in DOMAIN m_inputEvents' : i < j => m_inputEvents'[i] < m_inputEvents'[j]
    <3>1. TAKE i, j \in DOMAIN m_inputEvents'
    <3>2. HAVE i < j
    <3>3. i + 1 < j + 1
      BY <1>1, <3>2
    <3>4. QED
      BY <2>1, <3>3, LogTypes DEF Fate, Parked
  <2>4. \A f \in Elements(m_inputEvents') : e < f /\ f \in Elements(m_inputEvents) /\ f \in Nat
    <3>1. TAKE f \in Elements(m_inputEvents')
    <3>2. PICK i \in DOMAIN m_inputEvents' : f = m_inputEvents'[i]
      BY DEF Elements
    <3>3. 1 < i + 1 /\ i + 1 \in DOMAIN m_inputEvents /\ f = m_inputEvents[i + 1]
      BY <1>1, <3>2
    <3>4. QED
      <4>1. m_inputEvents[1] < m_inputEvents[i + 1]
        BY <1>1, <3>3, LogTypes DEF Fate, Parked
      <4>2. f \in Elements(m_inputEvents) /\ f \in Events
        BY <3>3, LogTypes DEF Elements
      <4>3. QED
        BY <1>1, <3>3, <4>1, <4>2, LogTypes
  <2>5. \A g \in Elements(taken'), f \in Elements(m_inputEvents') : g > f => g \notin userInput'
    <3>1. TAKE g \in Elements(taken'), f \in Elements(m_inputEvents')
    <3>2. CASE g = e
      <4>1. e < f /\ f \in Nat /\ e \in Nat
        BY <1>1, <2>4, LogTypes
      <4>2. QED
        BY <3>2, <4>1
    <3>3. CASE g \in Elements(taken)
      BY <2>4, <3>3, LogTypes DEF Fate, Parked
    <3>4. QED
      BY <1>3, <3>2, <3>3
  <2>6. QED
    BY <2>2, <2>3, <2>5 DEF Parked, Elements
<1>7. OnlyInputIsOvertaken'
  <2>1. e \in userInput /\ \A i \in DOMAIN taken : taken[i] > e => taken[i] \notin userInput
    <3>1. Parked
      BY LogTypes DEF Fate
    <3> QED BY <1>1, <3>1 DEF Parked, Elements
  <2>2. SUFFICES ASSUME NEW i \in DOMAIN taken', NEW j \in DOMAIN taken', i < j, taken'[i] > taken'[j]
                 PROVE  taken'[j] \in userInput /\ taken'[i] \notin userInput
    BY DEF OnlyInputIsOvertaken
  <2>3. i \in DOMAIN taken /\ taken'[i] = taken[i]
    BY <1>3, <2>2
  <2>4. CASE j \in DOMAIN taken
    BY <1>3, <2>2, <2>3, <2>4, LogTypes DEF Fate, OnlyInputIsOvertaken
  <2>5. CASE j = Len(taken) + 1
    BY <1>3, <2>1, <2>2, <2>3, <2>5
  <2>6. QED
    BY <1>3, <2>4, <2>5
<1>8. QED
  BY <1>4, <1>5, <1>6, <1>7 DEF Fate

\* takeFirst(flags) takes the first event of the list: what it took or parked
\* before is older.
LEMMA FateOfHead ==
  ASSUME OInv, main = "take", order' = order, userInput' = userInput,
         Consume(event[order[headPos]]), Listed' = Listed \ {event[order[headPos]]},
         \/ headPos' = headPos /\ event'[order[headPos]] = NoEvent
         \/ headPos' = headPos + 1
  PROVE  Fate'
<1> DEFINE e == event[order[headPos]]
           older == Elements(taken) \cup Elements(m_inputEvents)
<1>1. /\ removed' = removed
      /\ e \in {NoEvent, headPos - 1} /\ (e # NoEvent => e \in Listed)
      /\ e \in Events \cup {NoEvent} /\ NoEvent \notin Listed
  <2>1. e \in {NoEvent, headPos - 1} /\ (e # NoEvent => e \in Listed) /\ NoEvent \notin Listed
    BY LogTypes, ListedFacts
  <2>2. order[headPos] \in Nodes
    BY LogTypes, Bounds DEF IInv
  <2>3. QED
    BY <2>1, <2>2, LogTypes DEF Consume, IInv, TypeOK
<1>2. e # NoEvent => \A g \in older : g < e
  <2>1. \A g \in older : g < headPos /\ (g = headPos - 1 => e = NoEvent) /\ g \in Nat
    BY LogTypes DEF Fate, Passed, Elements
  <2>2. QED
    BY <1>1, <2>1, LogTypes
<1>3. ASSUME older' \subseteq older \cup {e}, NoEvent \notin older'
      PROVE  Passed'
  <2>1. \A g \in older : g < headPos /\ (g = headPos - 1 => e = NoEvent) /\ g \in Nat
    BY LogTypes DEF Fate, Passed, Elements
  <2>2. ASSUME NEW g \in older'
        PROVE  g < headPos' /\ (g = headPos' - 1 => event'[order'[headPos']] = NoEvent)
    <3>1. g \in Nat /\ g < headPos
      <4>1. CASE g \in older
        BY <2>1, <4>1
      <4>2. CASE g = e
        BY <1>1, <1>3, <2>2, <4>2, LogTypes
      <4>3. QED
        BY <1>3, <2>2, <4>1, <4>2
    <3>2. QED
      BY <3>1, LogTypes
  <2>3. QED
    BY <2>2 DEF Passed
<1>4. CASE e = NoEvent
  <2>1. taken' = taken /\ m_inputEvents' = m_inputEvents /\ Listed' = Listed
    BY <1>1, <1>4, LogTypes DEF Consume, Park
  <2>2. older' = older
    BY <2>1 DEF Elements
  <2>3. NoEvent \notin older
    BY LogTypes DEF Elements
  <2>4. Passed'
    BY <1>3, <2>2, <2>3
  <2>5. ExactlyOnce' /\ Parked' /\ OnlyInputIsOvertaken'
    <3>1. ExactlyOnce'
      <4>1. Elements(taken)' = Elements(taken) /\ Elements(m_inputEvents)' = Elements(m_inputEvents)
        BY <2>1 DEF Elements
      <4>2. QED
        BY <1>1, <2>1, <4>1, LogTypes DEF Fate, ExactlyOnce
    <3>2. Parked'
      BY <2>1, LogTypes DEF Fate, Parked, Elements
    <3>3. OnlyInputIsOvertaken'
      BY <2>1, LogTypes DEF Fate, OnlyInputIsOvertaken
    <3>4. QED
      BY <3>1, <3>2, <3>3
  <2>6. QED
    BY <2>4, <2>5 DEF Fate
<1>5. CASE e # NoEvent /\ Park(e)
  <2>1. /\ taken' = taken /\ m_inputEvents' = Append(m_inputEvents, e) /\ e \in userInput
        /\ e \in Events /\ e \notin Elements(m_inputEvents)
    BY <1>1, <1>5, LogTypes DEF Consume, Park, Fate, ExactlyOnce
  <2>2. /\ DOMAIN m_inputEvents = 1 .. Len(m_inputEvents) /\ Len(m_inputEvents) \in Nat
        /\ DOMAIN m_inputEvents' = 1 .. Len(m_inputEvents) + 1
        /\ m_inputEvents'[Len(m_inputEvents) + 1] = e
        /\ \A i \in 1 .. Len(m_inputEvents) : m_inputEvents'[i] = m_inputEvents[i]
        /\ Elements(m_inputEvents') = Elements(m_inputEvents) \cup {e} /\ Injective(m_inputEvents')
    BY <2>1, LogTypes, AppendElements
  <2>3. Elements(taken') = Elements(taken)
    BY <2>1 DEF Elements
  <2>4. ExactlyOnce'
    <3>1. /\ Listed' \cup Elements(taken') \cup Elements(m_inputEvents') \cup removed' = 1 .. (Len(order') - 1)
          /\ Listed' \cap (Elements(taken') \cup Elements(m_inputEvents') \cup removed') = {}
          /\ Elements(taken') \cap (Elements(m_inputEvents') \cup removed') = {}
          /\ Elements(m_inputEvents') \cap removed' = {}
      BY <1>1, <1>5, <2>2, <2>3, LogTypes DEF Fate, ExactlyOnce
    <3>2. QED
      BY <2>1, <2>2, <3>1, LogTypes DEF ExactlyOnce, Injective, Elements
  <2>5. Passed'
    BY <1>1, <1>3, <1>5, <2>1, <2>2, <2>3, LogTypes DEF Elements
  <2>6. Parked'
    <3>1. \A i \in DOMAIN m_inputEvents' : m_inputEvents'[i] \in userInput
      BY <2>1, <2>2, LogTypes DEF Fate, Parked
    <3>2. \A i, j \in DOMAIN m_inputEvents' : i < j => m_inputEvents'[i] < m_inputEvents'[j]
      <4>1. TAKE i, j \in DOMAIN m_inputEvents'
      <4>2. HAVE i < j
      <4>3. i \in DOMAIN m_inputEvents /\ m_inputEvents'[i] = m_inputEvents[i]
        BY <2>2, <4>2
      <4>4. CASE j = Len(m_inputEvents) + 1
        BY <1>2, <1>5, <2>2, <4>3, <4>4 DEF Elements
      <4>5. CASE j \in DOMAIN m_inputEvents
        BY <2>2, <4>2, <4>3, <4>5, LogTypes DEF Fate, Parked
      <4>6. QED
        BY <2>2, <4>4, <4>5
    <3>3. \A g \in Elements(taken'), f \in Elements(m_inputEvents') : g > f => g \notin userInput
      <4>1. TAKE g \in Elements(taken'), f \in Elements(m_inputEvents')
      <4>2. g \in Elements(taken) /\ g < e /\ g \in Nat /\ e \in Nat
        <5>1. g \in Elements(taken)
          BY <2>3
        <5>2. Elements(taken) \subseteq Events
          BY LogTypes DEF Elements
        <5>3. QED
          BY <1>2, <1>5, <2>1, <5>1, <5>2, LogTypes
      <4>3. QED
        BY <2>2, <4>2, LogTypes DEF Fate, Parked
    <3>4. QED
      BY <3>1, <3>2, <3>3 DEF Parked, Elements
  <2>7. OnlyInputIsOvertaken'
    BY <2>1, LogTypes DEF Fate, OnlyInputIsOvertaken
  <2>8. QED
    BY <2>4, <2>5, <2>6, <2>7 DEF Fate
<1>6. CASE e # NoEvent /\ ~Park(e)
  <2>1. /\ m_inputEvents' = m_inputEvents /\ taken' = Append(taken, e)
        /\ e \in Events /\ e \notin Elements(taken)
    BY <1>1, <1>6, LogTypes DEF Consume, Park, Fate, ExactlyOnce
  <2>2. /\ DOMAIN taken = 1 .. Len(taken) /\ Len(taken) \in Nat
        /\ DOMAIN taken' = 1 .. Len(taken) + 1
        /\ taken'[Len(taken) + 1] = e
        /\ \A i \in 1 .. Len(taken) : taken'[i] = taken[i]
        /\ Elements(taken') = Elements(taken) \cup {e} /\ Injective(taken')
    BY <2>1, LogTypes, AppendElements
  <2>3. Elements(m_inputEvents') = Elements(m_inputEvents)
    BY <2>1 DEF Elements
  <2>4. ExactlyOnce'
    <3>1. /\ Listed' \cup Elements(taken') \cup Elements(m_inputEvents') \cup removed' = 1 .. (Len(order') - 1)
          /\ Listed' \cap (Elements(taken') \cup Elements(m_inputEvents') \cup removed') = {}
          /\ Elements(taken') \cap (Elements(m_inputEvents') \cup removed') = {}
          /\ Elements(m_inputEvents') \cap removed' = {}
      BY <1>1, <1>6, <2>2, <2>3, LogTypes DEF Fate, ExactlyOnce
    <3>2. QED
      BY <2>1, <2>2, <3>1, LogTypes DEF ExactlyOnce, Injective, Elements
  <2>5. Passed'
    BY <1>1, <1>3, <1>6, <2>1, <2>2, <2>3, LogTypes DEF Elements
  <2>6. Parked'
    <3>1. m_inputEvents # <<>> => e \notin userInput
      BY <1>6, LogTypes DEF Park, WireInv, Admitted, OInv, FlagValues, IInv, TypeOK
    <3>2. \A g \in Elements(taken'), f \in Elements(m_inputEvents') : g > f => g \notin userInput
      <4>1. TAKE g \in Elements(taken'), f \in Elements(m_inputEvents')
      <4>2. CASE g = e
        BY <2>1, <3>1, <4>2, EmptySeq, LogTypes DEF Elements
      <4>3. CASE g \in Elements(taken)
        BY <2>3, <4>3, LogTypes DEF Fate, Parked
      <4>4. QED
        BY <2>2, <4>2, <4>3
    <3>3. QED
      BY <2>1, <3>2, LogTypes DEF Fate, Parked
  <2>7. OnlyInputIsOvertaken'
    <3>1. SUFFICES ASSUME NEW i \in DOMAIN taken', NEW j \in DOMAIN taken', i < j, taken'[i] > taken'[j]
                   PROVE  taken'[j] \in userInput /\ taken'[i] \notin userInput
      BY DEF OnlyInputIsOvertaken
    <3>2. i \in DOMAIN taken /\ taken'[i] = taken[i]
      BY <2>2, <3>1
    <3>3. CASE j \in DOMAIN taken
      BY <2>2, <3>1, <3>2, <3>3, LogTypes DEF Fate, OnlyInputIsOvertaken
    <3>4. CASE j = Len(taken) + 1
      <4>1. taken[i] < e /\ taken'[j] = e
        BY <1>2, <1>6, <2>2, <3>2, <3>4 DEF Elements
      <4>2. taken[i] \in Nat /\ e \in Nat
        BY <2>1, <3>2, LogTypes
      <4>3. QED
        BY <3>1, <3>2, <4>1, <4>2
    <3>5. QED
      BY <2>2, <3>3, <3>4
  <2>8. QED
    BY <2>4, <2>5, <2>6, <2>7 DEF Fate
<1>7. QED
  BY <1>4, <1>5, <1>6

\* peek() clears the node it stands at, or leaves it.
LEMMA FateOfPeek ==
  ASSUME OInv, [Next]_vars, PeekMatch
  PROVE  Fate'
<1>1. taken' = taken /\ m_inputEvents' = m_inputEvents /\ order' = order /\ headPos' = headPos
      /\ main = "peek" /\ event[cursor] # NoEvent
  BY DEF PeekMatch, viewVars
<1>2. CASE option = "PeekRetainMatch"
  <2>1. event' = event /\ logVars' = logVars
    BY <1>2 DEF PeekMatch, logVars
  <2>2. QED
    BY <1>1, <2>1, FateKept DEF Listed
<1>3. CASE option # "PeekRetainMatch"
  <2>1. PICK q \in headPos .. flushPos : cursor = order[q]
    BY <1>1, LogTypes DEF IInv, Walk
  <2>2. q \in headPos .. Len(order)
    BY <2>1, LogTypes, Bounds DEF IInv
  <2>3. event' = [event EXCEPT ![order[q]] = NoEvent] /\ removed' = removed \cup {event[order[q]]}
    BY <1>3, <2>1 DEF PeekMatch
  <2>4. Listed' = Listed \ {event[order[q]]} /\ event[order[q]] \in Listed
    BY <1>1, <2>1, <2>2, <2>3, LogTypes, ListedAfterClear, ListedFacts
  <2>5. Elements(taken)' = Elements(taken) /\ Elements(m_inputEvents)' = Elements(m_inputEvents)
    BY <1>1 DEF Elements
  <2>6. ExactlyOnce'
    BY <1>1, <2>3, <2>4, <2>5, LogTypes DEF Fate, ExactlyOnce
  <2>7. Passed'
    <3>1. event[order[headPos]] = NoEvent => event'[order[headPos]] = NoEvent
      BY <1>1, LogTypes, StableStep
    <3>2. QED
      BY <1>1, <2>5, <3>1, LogTypes DEF Fate, Passed
  <2>8. Parked' /\ OnlyInputIsOvertaken'
    <3>1. UNCHANGED <<taken, m_inputEvents, userInput>>
      BY <1>1, UserInputIsFixed
    <3>2. Parked' /\ OnlyInputIsOvertaken'
      BY <2>5, <3>1, LogTypes DEF Fate, Parked, OnlyInputIsOvertaken
    <3>3. QED
      BY <3>2
  <2>9. QED
    BY <2>6, <2>7, <2>8 DEF Fate
<1>4. QED
  BY <1>2, <1>3

\* Every step keeps every event in one place and in order.
LEMMA FateStep ==
  ASSUME OInv, [Next]_vars
  PROVE  Fate'
<1> USE LogTypes
<1>1. ASSUME NEW fl \in FlagValues, takeFirst(fl), TakeInputEvent(fl)
      PROVE  Fate'
  <2>1. Untouching
    BY <1>1 DEF Untouching, QuietMain
  <2>2. m_inputEvents # <<>> /\ taken' = Append(taken, Head(m_inputEvents)) /\ m_inputEvents' = Tail(m_inputEvents)
        /\ removed' = removed
    BY <1>1 DEF TakeInputEvent
  <2>3. order' = order /\ headPos' = headPos /\ Listed' = Listed /\ event'[order[headPos]] = event[order[headPos]]
    BY <2>1, ListedUnchanged
  <2>4. QED
    BY <2>2, <2>3, UserInputIsFixed, FateOfInput
<1>2. CASE TakeFromLastNode
  <2>1. m_head = order[headPos] /\ m_head \in Nodes /\ event \in [Nodes -> Events \cup {NoEvent}]
    BY DEF IInv, Chain, TypeOK
  <2>2. /\ main = "take" /\ order' = order /\ headPos' = headPos
        /\ event' = [event EXCEPT ![order[headPos]] = NoEvent] /\ Consume(event[order[headPos]])
    BY <1>2, <2>1 DEF TakeFromLastNode, viewVars
  <2>3. Listed' = Listed \ {event[order[headPos]]} /\ event'[order[headPos]] = NoEvent
    BY <2>1, <2>2, ListedAfterClear
  <2>4. QED
    BY <2>2, <2>3, UserInputIsFixed, FateOfHead
<1>3. CASE TakeNode
  <2>1. /\ main = "take" /\ order' = order /\ headPos' = headPos + 1 /\ Consume(event[order[headPos]])
    BY <1>3 DEF TakeNode, IInv, Chain
  <2>2. Listed' = Listed \ {event[order[headPos]]}
    BY <1>3, ListedAfterTake
  <2>3. QED
    BY <2>1, <2>2, UserInputIsFixed, FateOfHead
<1>4. CASE LinkNode
  <2>1. logVars' = logVars /\ headPos' = headPos
    BY <1>4 DEF LinkNode, viewVars
  <2>2. QED
    BY <1>4, <2>1, FateKept
<1>5. CASE PeekMatch
  BY <1>5, FateOfPeek
<1>6. ASSUME Untouching, ~(\E fl \in FlagValues : takeFirst(fl) /\ TakeInputEvent(fl))
      PROVE  Fate'
  <2>1. CASE ServerSends \/ ConnectionBreaks \/ QuietReader \/ QuietMain \/ UNCHANGED vars
    <3>1. logVars' = logVars
      BY <1>6, <2>1 DEF ServerSends, ConnectionBreaks, vars, QuietReader, xcb_wait_for_event, ReaderSeesError,
         ReaderLocks, isCloseConnectionEvent, xcb_poll_for_queued_event, wakeOne, wakeUpDispatcher,
         DispatcherWakeUp, QuietMain, takeFirst, TakeReturnsNull, WaitTimesOut, WaitReturns, CreateDispatcher,
         ConsumeWakeUp, qAddPostRoutine, DeleteDispatcher, sendCloseConnectionEvent
    <3>2. QED
      BY <1>6, <3>1, ListedUnchanged, FateKept
  <2>2. CASE Flushing \/ qXcbEventNodeFactory \/ PublishTail \/ ReleaseNode \/ PeekMiss \/ DestructorEnds
    <3>1. logVars' = logVars
      BY <2>2 DEF Flushing, flushBufferedEvents, peek, waitForNewEvents, DrainQueue, qXcbEventNodeFactory,
         PublishTail, ReleaseNode, PeekMiss, DestructorEnds
    <3>2. QED
      BY <1>6, <3>1, ListedUnchanged, FateKept
  <2>3. QED
    BY <1>6, <2>1, <2>2 DEF Untouching
<1>7. QED
  BY NextCases, <1>1, <1>2, <1>3, <1>4, <1>5, <1>6 DEF Untouching

\* The destructor ends with the list empty but for the node it deletes, and
\* nothing but the X server moves after it.
LEMMA LeakStep ==
  ASSUME OInv, [Next]_vars, ExactlyOnce'
  PROVE  NothingLeaks'
<1> USE LogTypes
<1>1. CASE DestructorEnds
  <2>1. /\ main = "take" /\ destroying /\ m_head = m_flushedTail /\ event[m_head] = NoEvent
        /\ heap' = heap \ {m_head} /\ UNCHANGED <<event, order, headPos, logVars>>
    BY <1>1 DEF DestructorEnds, IsEmpty, IsEmptyAt, viewVars
  <2>2. headPos = Len(order) /\ m_head = order[headPos]
    <3>1. flushPos = Len(order) /\ m_head = order[headPos] /\ m_flushedTail = order[flushPos]
      BY <2>1 DEF WireInv, Drained, IInv, Chain
    <3>2. Len(order) \in headPos .. Len(order)
      OBVIOUS
    <3>3. headPos = Len(order)
      BY <2>1, <3>1, <3>2 DEF IInv, NodesInOnePlace
    <3>4. QED
      BY <3>1, <3>3
  <2>3. Linked = {m_head} /\ Listed = {}
    BY <2>1, <2>2 DEF Linked, Listed
  <2>4. InFlight = {}
    BY <2>1 DEF InFlight, IInv, Control
  <2>5. heap' = {}
    BY <2>1, <2>3, <2>4 DEF IInv, NodesInOnePlace
  <2>6. m_inputEvents' = <<>> /\ Elements(m_inputEvents') = {}
    BY <2>1 DEF WireInv, Admitted, logVars, Elements
  <2>7. Listed' = {}
    BY <2>1, <2>3 DEF Listed
  <2>8. QED
    BY <2>5, <2>6, <2>7 DEF ExactlyOnce, NothingLeaks
<1>2. CASE main' # "destroyed"
  BY <1>2 DEF NothingLeaks
<1>3. ASSUME main = "destroyed", UNCHANGED <<heap, taken, removed, order>>
      PROVE  NothingLeaks'
  BY <1>3 DEF NothingLeaks, OInv, Elements
<1>4. CASE ServerSends \/ ConnectionBreaks \/ UNCHANGED vars
  BY <1>2, <1>3, <1>4 DEF ServerSends, ConnectionBreaks, vars, callVars, listVars, logVars
<1>5. CASE QuietReader \/ qXcbEventNodeFactory \/ LinkNode \/ PublishTail
  <2>1. reader # "done" /\ (main' = "destroyed" => main = "destroyed")
    BY <1>5 DEF QuietReader, xcb_wait_for_event, ReaderSeesError, ReaderLocks, isCloseConnectionEvent,
       xcb_poll_for_queued_event, wakeOne, wakeUpDispatcher, DispatcherWakeUp, qXcbEventNodeFactory, LinkNode,
       PublishTail, callVars
  <2>2. main # "destroyed"
    BY <2>1 DEF IInv, Control
  <2>3. QED
    BY <1>2, <2>1, <2>2
<1>6. CASE QuietMain \/ Flushing
  BY <1>2, <1>6 DEF QuietMain, takeFirst, TakeReturnsNull, WaitTimesOut, WaitReturns, CreateDispatcher,
     ConsumeWakeUp, qAddPostRoutine, DeleteDispatcher, sendCloseConnectionEvent, callVars,
     Flushing, flushBufferedEvents, peek, waitForNewEvents, DrainQueue
<1>7. CASE TakeFromLastNode \/ TakeNode \/ ReleaseNode \/ PeekMiss \/ PeekMatch
  BY <1>2, <1>7 DEF TakeFromLastNode, TakeNode, ReleaseNode, PeekMiss, PeekMatch, PeekAdvance, AfterConsume,
     Returned
<1>8. QED
  BY NextCases, <1>1, <1>4, <1>5, <1>6, <1>7

\* The constructor establishes the invariant: no event yet.
LEMMA InitOrder == Init => OInv
<1> SUFFICES ASSUME Init PROVE OInv
  OBVIOUS
<1>1. IInv
  BY InitInv
<1>2. order = <<1>> /\ headPos = 1 /\ flushPos = 1 /\ Len(order) = 1 /\ order[1] = 1
  BY DEF Init
<1>3. event[1] = NoEvent /\ \A p \in 1 .. 1 : p = 1
  BY PoolSizeAssumption DEF Init, Nodes, Pool
<1>4. Elements(taken) = {} /\ Elements(m_inputEvents) = {} /\ DOMAIN taken = {} /\ DOMAIN m_inputEvents = {}
      /\ removed = {} /\ m_inputEvents = <<>>
  BY DEF Init, Elements
<1>5. Listed = {}
  BY <1>2, <1>3 DEF Listed
<1>6. Numbering
  BY <1>2, <1>3 DEF Init, Numbering, Placed, Held, Wired, Coming, Holding, Unclosed
<1>7. Closing /\ Admitted /\ Drained
  BY MaxEventsAssumption DEF Init, Closing, Admitted, Drained, Unclosed, NoEvent, CloseEvent
<1>8. ExactlyOnce
  BY <1>2, <1>4, <1>5 DEF ExactlyOnce
<1>9. Passed /\ Parked /\ OnlyInputIsOvertaken /\ NothingLeaks
  BY <1>4 DEF Init, Passed, Parked, OnlyInputIsOvertaken, NothingLeaks
<1>10. QED
  BY <1>1, <1>6, <1>7, <1>8, <1>9 DEF OInv

-----------------------------------------------------------------------------
\* OInv is inductive.
THEOREM OrderInvariance == Spec => []OInv
<1>1. Init => OInv
  BY InitOrder
<1>2. OInv /\ [Next]_vars => OInv'
  <2> SUFFICES ASSUME OInv, [Next]_vars
               PROVE  OInv'
    OBVIOUS
  <2>1. WireInv /\ IInv
    BY DEF OInv, WireInv
  <2>2. IInv'
    BY <2>1, ChainStep, DistinctStep, RingStep, ControlStep, WalkStep, BarsStep, SignalStep, TypeStep DEF IInv
  <2>3. Numbering' /\ Closing' /\ Admitted' /\ Drained'
    BY <2>1, PlacedStep, HeldStep, WiredStep, ClosingStep, AdmittedStep, DrainedStep DEF Numbering
  <2>4. Fate' /\ NothingLeaks'
    BY FateStep, LeakStep DEF Fate
  <2>5. QED
    BY <2>2, <2>3, <2>4 DEF OInv, Fate
<1>3. QED
  BY <1>1, <1>2, PTL DEF Spec

\* Every event the reader links is in exactly one place, once.
THEOREM EventsAreInOnePlace == Spec => []ExactlyOnce
<1>1. OInv => ExactlyOnce
  BY DEF OInv
<1>2. QED
  BY <1>1, OrderInvariance, PTL

\* takeFirst(flags) returns the events in the order the server sent them, but
\* for excluded user input.
THEOREM EventsComeInOrder == Spec => []OnlyInputIsOvertaken
<1>1. OInv => OnlyInputIsOvertaken
  BY DEF OInv
<1>2. QED
  BY <1>1, OrderInvariance, PTL

\* The destructor leaves no node allocated and no event unfreed.
THEOREM DestructorLeaksNothing == Spec => []NothingLeaks
<1>1. OInv => NothingLeaks
  BY DEF OInv
<1>2. QED
  BY <1>1, OrderInvariance, PTL
-----------------------------------------------------------------------------
(* The list as the channel of EventChannel.tla.  Remaining() is recursive: *)
(* the order of the natural numbers gives induction along the list.        *)

LEMMA Least ==
  ASSUME NEW S \in SUBSET Nat, S # {}
  PROVE  \E k \in S : \A j \in S : k <= j
<1>1. PICK k \in S : \A j \in S : <<j, k>> \notin OpToRel(<, Nat)
  BY WFMin, NatLessThanWellFounded, Zenon
<1>2. \A j \in S : ~ (j < k)
  BY <1>1, Zenon DEF OpToRel
<1> QED BY <1>2

\* A set that holds a number, and with a number the next, holds those up to n.
LEMMA UpTo ==
  ASSUME NEW m \in Nat, NEW n \in Nat, m <= n, NEW S, m \in S, \A i \in m + 1 .. n : i - 1 \in S => i \in S
  PROVE  n \in S
<1> DEFINE T == {i \in m .. n : i \notin S}
<1>1. ASSUME T # {} PROVE FALSE
  <2>1. T \in SUBSET Nat
    OBVIOUS
  <2>2. PICK k \in T : \A j \in T : k <= j
    <3> HIDE DEF T
    <3> QED BY <1>1, <2>1, Least
  <2>3. k \in m + 1 .. n /\ k \notin S
    BY <2>2
  <2>4. k - 1 \in m .. n /\ k - 1 \notin T
    BY <2>2, <2>3
  <2> QED BY <2>3, <2>4
<1> QED BY <1>1

\* up: what remains of f at lo .. p, for each p up to hi
Selects(up, f, lo, hi) ==
  up = [p \in lo - 1 .. hi |->
          IF p < lo THEN <<>> ELSE IF f[p] = NoEvent THEN up[p - 1] ELSE Append(up[p - 1], f[p])]

LEMMA SelectsExists ==
  ASSUME NEW f, NEW lo \in Nat \ {0}, NEW hi \in Nat, lo - 1 <= hi
  PROVE  \E up : Selects(up, f, lo, hi)
<1> DEFINE S == {k \in Nat : \E up : Selects(up, f, lo, k)}
<1>1. lo - 1 \in S
  <2> DEFINE up == [p \in lo - 1 .. lo - 1 |-> <<>>]
  <2>1. Selects(up, f, lo, lo - 1)
    BY DEF Selects
  <2> QED BY <2>1
<1>2. ASSUME NEW k \in lo .. hi, k - 1 \in S PROVE k \in S
  <2>1. PICK before : Selects(before, f, lo, k - 1)
    BY <1>2
  <2> DEFINE now(p) == IF f[p] = NoEvent THEN before[p - 1] ELSE Append(before[p - 1], f[p])
             up == [p \in lo - 1 .. k |-> IF p = k THEN now(k) ELSE before[p]]
  <2>2. \A p \in lo - 1 .. k - 1 : before[p] = IF p < lo THEN <<>> ELSE now(p)
    BY <2>1 DEF Selects
  <2>3. \A p \in lo - 1 .. k : up[p] =
          IF p < lo THEN <<>> ELSE IF f[p] = NoEvent THEN up[p - 1] ELSE Append(up[p - 1], f[p])
    <3> SUFFICES ASSUME NEW p \in lo - 1 .. k
                 PROVE  up[p] = IF p < lo THEN <<>>
                                ELSE IF f[p] = NoEvent THEN up[p - 1] ELSE Append(up[p - 1], f[p])
      OBVIOUS
    <3>1. p >= lo => up[p - 1] = before[p - 1]
      OBVIOUS
    <3>2. up[p] = IF p = k THEN now(k) ELSE before[p]
      OBVIOUS
    <3> HIDE DEF up
    <3> QED BY <1>2, <2>2, <3>1, <3>2
  <2>4. up = [p \in lo - 1 .. k |-> up[p]]
    OBVIOUS
  <2> HIDE DEF up
  <2>5. Selects(up, f, lo, k)
    BY <2>3, <2>4 DEF Selects
  <2>6. k \in Nat
    BY <1>2
  <2> QED BY <2>5, <2>6
<1> HIDE DEF S
<1>3. lo - 1 \in Nat /\ (lo - 1) + 1 .. hi = lo .. hi
  OBVIOUS
<1>4. hi \in S
  BY <1>1, <1>2, <1>3, UpTo
<1> QED BY <1>4 DEF S

LEMMA RemainingIs ==
  ASSUME NEW f, NEW lo \in Nat \ {0}, NEW hi \in Nat, lo - 1 <= hi
  PROVE  \E up : Selects(up, f, lo, hi) /\ Remaining(f, lo, hi) = up[hi]
<1> DEFINE up == CHOOSE u : Selects(u, f, lo, hi)
<1>1. Selects(up, f, lo, hi)
  BY SelectsExists, Zenon
<1>2. Remaining(f, lo, hi) = up[hi]
  BY DEF Remaining, Selects
<1> QED BY <1>1, <1>2

LEMMA RemainingStep ==
  ASSUME NEW f, NEW lo \in Nat \ {0}
  PROVE  /\ Remaining(f, lo, lo - 1) = <<>>
         /\ \A hi \in Nat : lo <= hi =>
              Remaining(f, lo, hi) =
                IF f[hi] = NoEvent THEN Remaining(f, lo, hi - 1) ELSE Append(Remaining(f, lo, hi - 1), f[hi])
<1>1. Remaining(f, lo, lo - 1) = <<>>
  <2>1. lo - 1 \in Nat
    OBVIOUS
  <2>2. PICK up : Selects(up, f, lo, lo - 1) /\ Remaining(f, lo, lo - 1) = up[lo - 1]
    BY <2>1, RemainingIs
  <2> QED BY <2>2 DEF Selects
<1>2. ASSUME NEW hi \in Nat, lo <= hi
      PROVE  Remaining(f, lo, hi) =
               IF f[hi] = NoEvent THEN Remaining(f, lo, hi - 1) ELSE Append(Remaining(f, lo, hi - 1), f[hi])
  <2>1. PICK up : Selects(up, f, lo, hi) /\ Remaining(f, lo, hi) = up[hi]
    BY <1>2, RemainingIs
  <2>2. hi - 1 \in Nat /\ lo - 1 <= hi - 1
    BY <1>2
  <2>3. PICK before : Selects(before, f, lo, hi - 1) /\ Remaining(f, lo, hi - 1) = before[hi - 1]
    BY <2>2, RemainingIs
  <2> DEFINE S == {p \in lo - 1 .. hi - 1 : up[p] = before[p]}
  <2>4. \A p \in lo - 1 .. hi : up[p] =
          IF p < lo THEN <<>> ELSE IF f[p] = NoEvent THEN up[p - 1] ELSE Append(up[p - 1], f[p])
    BY <2>1 DEF Selects
  <2>5. \A p \in lo - 1 .. hi - 1 : before[p] =
          IF p < lo THEN <<>> ELSE IF f[p] = NoEvent THEN before[p - 1] ELSE Append(before[p - 1], f[p])
    BY <2>3 DEF Selects
  <2>6. lo - 1 \in S
    BY <1>2, <2>4, <2>5
  <2>7. \A p \in lo .. hi - 1 : p - 1 \in S => p \in S
    BY <1>2, <2>4, <2>5
  <2>8. hi - 1 \in S
    <3> HIDE DEF S
    <3>1. lo - 1 \in Nat /\ (lo - 1) + 1 .. hi - 1 = lo .. hi - 1
      BY <1>2
    <3> QED BY <2>2, <2>6, <2>7, <3>1, UpTo
  <2>9. up[hi] = IF f[hi] = NoEvent THEN up[hi - 1] ELSE Append(up[hi - 1], f[hi])
    BY <1>2, <2>4
  <2> QED BY <2>1, <2>3, <2>8, <2>9
<1> QED BY <1>1, <1>2

LEMMA RemainingTyped ==
  ASSUME NEW f, NEW lo \in Nat \ {0}, NEW hi \in Nat, lo - 1 <= hi,
         \A p \in lo .. hi : f[p] \in Events \cup {NoEvent}
  PROVE  Remaining(f, lo, hi) \in Seq(Events)
<1> DEFINE S == {k \in Nat : Remaining(f, lo, k) \in Seq(Events)}
<1>1. lo - 1 \in S
  <2>1. lo - 1 \in Nat /\ <<>> \in Seq(Events)
    OBVIOUS
  <2> QED BY <2>1, RemainingStep
<1>2. ASSUME NEW k \in lo .. hi, k - 1 \in S PROVE k \in S
  <2>1. k \in Nat /\ lo <= k /\ f[k] \in Events \cup {NoEvent} /\ Remaining(f, lo, k - 1) \in Seq(Events)
    BY <1>2
  <2>2. Remaining(f, lo, k) =
          IF f[k] = NoEvent THEN Remaining(f, lo, k - 1) ELSE Append(Remaining(f, lo, k - 1), f[k])
    BY <2>1, RemainingStep
  <2> QED BY <2>1, <2>2
<1> HIDE DEF S
<1>3. lo - 1 \in Nat /\ (lo - 1) + 1 .. hi = lo .. hi
  OBVIOUS
<1>4. hi \in S
  BY <1>1, <1>2, <1>3, UpTo
<1> QED BY <1>4 DEF S

\* Only what is at these positions counts.
LEMMA RemainingSame ==
  ASSUME NEW f, NEW g, NEW lo \in Nat \ {0}, NEW hi \in Nat, lo - 1 <= hi, \A p \in lo .. hi : f[p] = g[p]
  PROVE  Remaining(f, lo, hi) = Remaining(g, lo, hi)
<1> DEFINE S == {k \in Nat : Remaining(f, lo, k) = Remaining(g, lo, k)}
<1>1. lo - 1 \in S
  <2>1. lo - 1 \in Nat
    OBVIOUS
  <2> QED BY <2>1, RemainingStep
<1>2. ASSUME NEW k \in lo .. hi, k - 1 \in S PROVE k \in S
  <2>1. k \in Nat /\ lo <= k /\ f[k] = g[k] /\ Remaining(f, lo, k - 1) = Remaining(g, lo, k - 1)
    BY <1>2
  <2>2. \A h \in {f, g} : Remaining(h, lo, k) =
          IF h[k] = NoEvent THEN Remaining(h, lo, k - 1) ELSE Append(Remaining(h, lo, k - 1), h[k])
    BY <2>1, RemainingStep
  <2> QED BY <2>1, <2>2
<1> HIDE DEF S
<1>3. lo - 1 \in Nat /\ (lo - 1) + 1 .. hi = lo .. hi
  OBVIOUS
<1>4. hi \in S
  BY <1>1, <1>2, <1>3, UpTo
<1> QED BY <1>4 DEF S

\* f[lo], ..., f[hi] are positions of the list, emptied or not
Span(f, lo, hi) ==
  lo \in Nat \ {0} /\ hi \in Nat /\ \A p \in lo .. hi : f[p] \in Events \cup {NoEvent}

\* and they are cut between m and n
Cut(f, lo, m, n, hi) ==
  Span(f, lo, hi) /\ m \in Nat /\ n = m + 1 /\ lo <= n /\ m <= hi

LEMMA RemainingSplits ==
  ASSUME NEW f, NEW lo, NEW m, NEW n, NEW hi, Cut(f, lo, m, n, hi)
  PROVE  Remaining(f, lo, hi) = Remaining(f, lo, m) \o Remaining(f, n, hi)
<1> /\ lo \in Nat \ {0} /\ hi \in Nat /\ \A p \in lo .. hi : f[p] \in Events \cup {NoEvent}
    /\ m \in Nat /\ n = m + 1 /\ lo <= n /\ m <= hi
  BY DEF Span, Cut
<1> DEFINE S == {k \in Nat : Remaining(f, lo, k) = Remaining(f, lo, m) \o Remaining(f, m + 1, k)}
<1>0. m + 1 \in Nat \ {0} /\ (m + 1) - 1 = m /\ Remaining(f, lo, m) \in Seq(Events)
  <2>1. \A p \in lo .. m : f[p] \in Events \cup {NoEvent}
    OBVIOUS
  <2>2. Remaining(f, lo, m) \in Seq(Events)
    BY <2>1, RemainingTyped
  <2> QED BY <2>2
<1>1. m \in S
  <2>1. Remaining(f, m + 1, m) = <<>>
    BY <1>0, RemainingStep
  <2> QED BY <1>0, <2>1, ConcatEmptySeq
<1>2. ASSUME NEW k \in m + 1 .. hi, k - 1 \in S PROVE k \in S
  <2> PICK s, t : s = Remaining(f, lo, m) /\ t = Remaining(f, m + 1, k - 1)
    OBVIOUS
  <2>1. /\ k \in Nat /\ k - 1 \in Nat /\ lo <= k /\ m + 1 <= k /\ f[k] \in Events \cup {NoEvent}
        /\ Remaining(f, lo, k - 1) = s \o t
    BY <1>2
  <2>2. s \in Seq(Events) /\ t \in Seq(Events)
    <3>1. \A p \in m + 1 .. k - 1 : f[p] \in Events \cup {NoEvent}
      BY <2>1
    <3>2. (m + 1) - 1 <= k - 1
      BY <2>1
    <3> QED BY <1>0, <2>1, <3>1, <3>2, RemainingTyped
  <2>3. Remaining(f, lo, k) = IF f[k] = NoEvent THEN s \o t ELSE Append(s \o t, f[k])
    BY <2>1, RemainingStep
  <2>4. Remaining(f, m + 1, k) = IF f[k] = NoEvent THEN t ELSE Append(t, f[k])
    BY <1>0, <2>1, RemainingStep
  <2>5. ASSUME NEW x \in Events PROVE Append(s \o t, x) = s \o Append(t, x)
    <3> PICK u : u = <<x>>
      OBVIOUS
    <3>1. s \o t \in Seq(Events) /\ u \in Seq(Events)
      BY <2>2, <2>5, ConcatProperties
    <3>2. Append(s \o t, x) = (s \o t) \o u /\ Append(t, x) = t \o u
      BY <2>2, <2>5, <3>1, AppendIsConcat
    <3>3. (s \o t) \o u = s \o (t \o u)
      BY <2>2, <3>1, ConcatAssociative
    <3> QED BY <3>2, <3>3
  <2>6. Remaining(f, lo, k) = s \o Remaining(f, m + 1, k)
    BY <2>1, <2>3, <2>4, <2>5
  <2> QED BY <2>1, <2>6
<1> HIDE DEF S
<1>4. hi \in S
  BY <1>1, <1>2, UpTo
<1> QED BY <1>4 DEF S

\* The list around position p.
LEMMA RemainingAround ==
  ASSUME NEW f, NEW lo \in Nat \ {0}, NEW hi \in Nat, NEW p \in lo .. hi,
         \A q \in lo .. hi : f[q] \in Events \cup {NoEvent}
  PROVE  LET s == Remaining(f, lo, p - 1)
             t == Remaining(f, p + 1, hi)
         IN /\ s \in Seq(Events) /\ t \in Seq(Events)
            /\ f[p] = NoEvent => Remaining(f, lo, hi) = s \o t
            /\ f[p] # NoEvent => f[p] \in Events /\ Remaining(f, lo, hi) = s \o (<<f[p]>> \o t)
<1> PICK s, t : s = Remaining(f, lo, p - 1) /\ t = Remaining(f, p + 1, hi)
  OBVIOUS
<1>1. /\ p \in Nat \ {0} /\ p - 1 \in Nat /\ p + 1 \in Nat \ {0} /\ lo - 1 <= p - 1 /\ p - 1 <= hi
      /\ (p + 1) - 1 = p /\ (p - 1) + 1 = p /\ p <= hi /\ p - 1 <= p /\ p <= p
  OBVIOUS
<1>2. s \in Seq(Events) /\ t \in Seq(Events)
  <2>1. \A q \in lo .. p - 1 : f[q] \in Events \cup {NoEvent}
    OBVIOUS
  <2>2. \A q \in p + 1 .. hi : f[q] \in Events \cup {NoEvent}
    OBVIOUS
  <2>3. s \in Seq(Events)
    BY <1>1, <2>1, RemainingTyped
  <2>4. t \in Seq(Events)
    BY <1>1, <2>2, RemainingTyped
  <2> QED BY <2>3, <2>4
<1>3. Remaining(f, lo, hi) = s \o Remaining(f, p, hi)
  <2>1. PICK m : m = p - 1
    OBVIOUS
  <2>2. Cut(f, lo, m, p, hi)
    BY <1>1, <2>1 DEF Span, Cut
  <2>3. Remaining(f, lo, hi) = Remaining(f, lo, m) \o Remaining(f, p, hi)
    BY <2>2, RemainingSplits
  <2> QED BY <2>1, <2>3
<1>4. Remaining(f, p, hi) = Remaining(f, p, p) \o t
  <2>1. PICK n : n = p + 1
    OBVIOUS
  <2>2. Span(f, p, hi)
    BY <1>1 DEF Span
  <2>3. Cut(f, p, p, n, hi)
    BY <1>1, <2>1, <2>2 DEF Cut
  <2>4. Remaining(f, p, hi) = Remaining(f, p, p) \o Remaining(f, n, hi)
    BY <2>3, RemainingSplits
  <2> QED BY <2>1, <2>4
<1>5. Remaining(f, p, p) = IF f[p] = NoEvent THEN <<>> ELSE <<f[p]>>
  <2>1. Remaining(f, p, p - 1) = <<>>
    BY <1>1, RemainingStep
  <2>2. Append(<<>>, f[p]) = <<f[p]>>
    OBVIOUS
  <2>3. Remaining(f, p, p) = IF f[p] = NoEvent THEN <<>> ELSE Append(<<>>, f[p])
    BY <1>1, <2>1, RemainingStep
  <2> QED BY <2>2, <2>3
<1>6. CASE f[p] = NoEvent
  BY <1>2, <1>3, <1>4, <1>5, <1>6, ConcatEmptySeq
<1>7. CASE f[p] # NoEvent
  BY <1>2, <1>3, <1>4, <1>5, <1>7
<1> QED BY <1>2, <1>6, <1>7

LEMMA Around ==
  ASSUME NEW s \in Seq(Events), NEW t \in Seq(Events), NEW x \in Events,
         NEW q, q = s \o (<<x>> \o t), NEW i, i = Len(s) + 1, NEW h, h = Len(s), NEW j, j = Len(s) + 2
  PROVE  /\ Len(q) \in Nat /\ Len(q) = Len(s) + 1 + Len(t) /\ Len(s \o t) = Len(q) - 1
         /\ i \in 1 .. Len(q) /\ q[i] = x
         /\ SubSeq(q, 1, h) = s /\ SubSeq(q, j, Len(q)) = t
         /\ s = <<>> => Head(q) = x /\ Tail(q) = t /\ s \o t = t
<1> PICK u : u = <<x>> \o t
  OBVIOUS
<1>0. q = s \o u
  OBVIOUS
<1>1. <<x>> \in Seq(Events) /\ Len(<<x>>) = 1 /\ <<x>>[1] = x
  OBVIOUS
<1>2. /\ u \in Seq(Events) /\ Len(u) = 1 + Len(t) /\ u[1] = x
      /\ \A k \in 1 .. Len(t) : u[k + 1] = t[k]
  BY <1>1, ConcatProperties
<1>3. /\ q \in Seq(Events) /\ Len(q) = Len(s) + Len(u)
      /\ \A k \in 1 .. Len(s) : q[k] = s[k]
      /\ \A k \in 1 .. Len(u) : q[k + Len(s)] = u[k]
  BY <1>0, <1>2, ConcatProperties
<1>4. Len(s) \in Nat /\ Len(t) \in Nat /\ i \in Nat /\ Len(q) = Len(s) + 1 + Len(t)
  BY <1>2, <1>3, LenProperties
<1>5. q[i] = x
  <2>1. 1 \in 1 .. Len(u)
    BY <1>2, <1>4
  <2> QED BY <1>2, <1>3, <1>4, <2>1
<1>6. SubSeq(q, 1, h) = s
  <2>1. h = Len(s) /\ Len(s) <= Len(q)
    BY <1>4
  <2>2. SubSeq(q, 1, Len(s)) = s
    <3>1. SubSeq(q, 1, Len(s)) \in Seq(Events) /\ Len(SubSeq(q, 1, Len(s))) = Len(s)
          /\ \A k \in 1 .. Len(s) : SubSeq(q, 1, Len(s))[k] = q[k]
      BY <1>3, <1>4, <2>1
    <3> QED BY <1>3, <3>1, SeqEqual
  <2> QED BY <2>1, <2>2
<1>7. SubSeq(q, j, Len(q)) = t
  <2> PICK r : r = SubSeq(q, j, Len(q))
    OBVIOUS
  <2>1. r \in Seq(Events) /\ Len(r) = Len(t) /\ \A k \in 1 .. Len(t) : r[k] = q[i + k]
    <3>1. j \in Int /\ j = i + 1 /\ Len(q) \in Int /\ \A k \in j .. Len(q) : q[k] \in Events
      BY <1>3, <1>4
    <3>2. /\ r \in Seq(Events) /\ Len(r) = IF j <= Len(q) THEN Len(q) - j + 1 ELSE 0
          /\ \A k \in 1 .. Len(q) - j + 1 : r[k] = q[j + k - 1]
      BY <3>1, SubSeqProperties
    <3> QED BY <1>4, <3>1, <3>2
  <2>2. \A k \in 1 .. Len(t) : q[i + k] = t[k]
    <3> SUFFICES ASSUME NEW k \in 1 .. Len(t) PROVE q[i + k] = t[k]
      OBVIOUS
    <3>1. k + 1 \in 1 .. Len(u) /\ (k + 1) + Len(s) = i + k
      BY <1>2, <1>4
    <3> QED BY <1>2, <1>3, <3>1
  <2> QED BY <2>1, <2>2, SeqEqual
<1>8. s \o t \in Seq(Events) /\ Len(s \o t) = Len(s) + Len(t)
  BY ConcatProperties
<1>9. ASSUME s = <<>> PROVE Head(q) = x /\ Tail(q) = t /\ s \o t = t
  <2>1. q = u /\ s \o t = t
    BY <1>0, <1>2, <1>9, ConcatEmptySeq
  <2>2. u # <<>> /\ Head(u) = x /\ Tail(u) \in Seq(Events) /\ Len(Tail(u)) = Len(t)
        /\ \A k \in 1 .. Len(t) : Tail(u)[k] = u[k + 1]
    BY <1>2, <1>4, HeadTailProperties
  <2>3. Tail(u) = t
    BY <1>2, <2>2, SeqEqual
  <2> QED BY <2>1, <2>2, <2>3
<1>10. i \in 1 .. Len(q) /\ Len(s \o t) = Len(q) - 1 /\ Len(q) \in Nat
  BY <1>4, <1>8
<1> QED BY <1>4, <1>5, <1>6, <1>7, <1>8, <1>9, <1>10

\* The first of the list.
LEMMA RemainingHead ==
  ASSUME NEW f, NEW lo, NEW hi, Span(f, lo, hi), lo <= hi
  PROVE  LET r == Remaining(f, lo, hi)
             t == Remaining(f, lo + 1, hi)
         IN /\ Len(r) \in Nat
            /\ f[lo] = NoEvent => r = t
            /\ f[lo] # NoEvent => f[lo] \in Events /\ Head(r) = f[lo] /\ Tail(r) = t /\ Len(t) = Len(r) - 1 /\ 0 < Len(r)
<1> lo \in Nat \ {0} /\ hi \in Nat /\ \A p \in lo .. hi : f[p] \in Events \cup {NoEvent}
  BY DEF Span
<1> PICK r, t : r = Remaining(f, lo, hi) /\ t = Remaining(f, lo + 1, hi)
  OBVIOUS
<1>1. lo \in lo .. hi /\ Remaining(f, lo, lo - 1) = <<>>
  BY RemainingStep
<1>2. /\ t \in Seq(Events) /\ <<>> \in Seq(Events)
      /\ f[lo] = NoEvent => r = <<>> \o t
      /\ f[lo] # NoEvent => f[lo] \in Events /\ r = <<>> \o (<<f[lo]>> \o t)
  <2> PICK p \in lo .. hi : p = lo
    BY <1>1
  <2>1. LET s == Remaining(f, lo, p - 1)
            u == Remaining(f, p + 1, hi)
        IN /\ s \in Seq(Events) /\ u \in Seq(Events)
           /\ f[p] = NoEvent => r = s \o u
           /\ f[p] # NoEvent => f[p] \in Events /\ r = s \o (<<f[p]>> \o u)
    BY RemainingAround
  <2> QED BY <1>1, <2>1
<1>3. CASE f[lo] = NoEvent
  BY <1>2, <1>3, ConcatEmptySeq, LenProperties
<1>4. CASE f[lo] # NoEvent
  <2> PICK x \in Events : x = f[lo]
    BY <1>2, <1>4
  <2> PICK s, i : s = <<>> /\ i = Len(s) + 1
    OBVIOUS
  <2>1. r = s \o (<<x>> \o t) /\ s \in Seq(Events)
    BY <1>2, <1>4
  <2>2. Len(r) \in Nat /\ Head(r) = x /\ Tail(r) = t /\ Len(s \o t) = Len(r) - 1 /\ s \o t = t /\ i \in 1 .. Len(r)
    BY <1>2, <2>1, Around
  <2> QED BY <1>4, <2>2
<1> QED BY <1>3, <1>4

\* g is f without its event at p
Clears(f, g, lo, hi, p) ==
  /\ lo \in Nat \ {0} /\ hi \in Nat /\ p \in lo .. hi
  /\ \A q \in lo .. hi : f[q] \in Events \cup {NoEvent}
  /\ f[p] # NoEvent /\ g[p] = NoEvent
  /\ \A q \in lo .. hi : q # p => g[q] = f[q]

\* s is r without its i-th member x
Loses(r, s, i, x) ==
  /\ Len(r) \in Nat /\ i \in 1 .. Len(r) /\ r[i] = x /\ Len(s) = Len(r) - 1
  /\ s = SubSeq(r, 1, i - 1) \o SubSeq(r, i + 1, Len(r))

\* One event less.
LEMMA RemainingCleared ==
  ASSUME NEW f, NEW g, NEW lo, NEW hi, NEW p, Clears(f, g, lo, hi, p)
  PROVE  Loses(Remaining(f, lo, hi), Remaining(g, lo, hi), Len(Remaining(f, lo, p - 1)) + 1, f[p])
<1>0. /\ lo \in Nat \ {0} /\ hi \in Nat /\ p \in lo .. hi
      /\ \A q \in lo .. hi : f[q] \in Events \cup {NoEvent}
      /\ f[p] # NoEvent /\ g[p] = NoEvent
      /\ \A q \in lo .. hi : q # p => g[q] = f[q]
  BY DEF Clears
<1> USE <1>0
<1> PICK s, t, r : s = Remaining(f, lo, p - 1) /\ t = Remaining(f, p + 1, hi) /\ r = Remaining(f, lo, hi)
  OBVIOUS
<1> PICK i, h, j : i = Len(s) + 1 /\ h = i - 1 /\ j = i + 1
  OBVIOUS
<1>1. s \in Seq(Events) /\ t \in Seq(Events) /\ f[p] \in Events /\ r = s \o (<<f[p]>> \o t)
  BY RemainingAround
<1>2. Remaining(g, lo, hi) = s \o t
  <2>1. \A q \in lo .. hi : g[q] \in Events \cup {NoEvent}
    OBVIOUS
  <2>2. Remaining(g, lo, hi) = Remaining(g, lo, p - 1) \o Remaining(g, p + 1, hi)
    BY <2>1, RemainingAround
  <2>3. p - 1 \in Nat /\ lo - 1 <= p - 1 /\ p + 1 \in Nat \ {0} /\ (p + 1) - 1 <= hi
    OBVIOUS
  <2>4. Remaining(g, lo, p - 1) = s
    <3>1. \A q \in lo .. p - 1 : g[q] = f[q]
      OBVIOUS
    <3> QED BY <2>3, <3>1, RemainingSame
  <2>5. Remaining(g, p + 1, hi) = t
    <3>1. \A q \in p + 1 .. hi : g[q] = f[q]
      OBVIOUS
    <3> QED BY <2>3, <3>1, RemainingSame
  <2> QED BY <2>2, <2>4, <2>5
<1>3. PICK x \in Events : x = f[p]
  BY <1>1
<1>4. i = Len(s) + 1
  OBVIOUS
<1>5. r = s \o (<<x>> \o t)
  BY <1>1, <1>3
<1>6. /\ Len(r) \in Nat /\ Len(s \o t) = Len(r) - 1 /\ i \in 1 .. Len(r) /\ r[i] = x
      /\ SubSeq(r, 1, h) \o SubSeq(r, j, Len(r)) = s \o t
  <2>1. s \in Seq(Events) /\ t \in Seq(Events)
    BY <1>1
  <2>2. Len(r) \in Nat /\ Len(s \o t) = Len(r) - 1
    BY <1>4, <1>5, <2>1, Around
  <2>3. i \in 1 .. Len(r) /\ r[i] = x
    BY <1>4, <1>5, <2>1, Around
  <2>4. SubSeq(r, 1, h) \o SubSeq(r, j, Len(r)) = s \o t
    <3>1. h = Len(s) /\ j = Len(s) + 2
      BY <1>4, <2>1
    <3>2. SubSeq(r, 1, h) = s /\ SubSeq(r, j, Len(r)) = t
      BY <1>4, <1>5, <2>1, <3>1, Around
    <3> QED BY <3>2
  <2> QED BY <2>2, <2>3, <2>4
<1> QED BY <1>2, <1>3, <1>4, <1>6 DEF Loses

-----------------------------------------------------------------------------
(* Each step of the queue is one of the channel or none.                    *)

\* what is at each position, and what of it a caller has still to take
Ev      == [p \in 1 .. Len(order) |-> event[order[p]]]
Pending == Remaining(Ev, headPos, PublishedPos)
Shown   == Remaining(Ev, headPos, flushPos)

\* The last event linked is there when its node is published.
Fresh == reader = "publish" => event[order[Len(order)]] = Len(order) - 1

LEMMA FreshStep ==
  ASSUME OInv, Fresh, [Next]_vars PROVE Fresh'
<1> IInv /\ Numbering
  BY DEF OInv
<1> SUFFICES ASSUME reader' = "publish" PROVE event'[order'[Len(order')]] = Len(order') - 1
  BY DEF Fresh
<1>1. /\ order \in Seq(Nodes) /\ Len(order) \in Nat /\ headPos <= Len(order) /\ Len(order) \in headPos .. Len(order)
      /\ headPos \in Nat /\ 1 <= headPos /\ event \in [Nodes -> Events \cup {NoEvent}] /\ rNode \in Nodes \cup {NullNode}
  BY Bounds DEF IInv, TypeOK
<1>2. CASE LinkNode
  <2>1. /\ reader = "link" /\ rNode \in Nodes /\ order' = Append(order, rNode) /\ event' = event
    BY <1>1, <1>2 DEF LinkNode, IInv, Control
  <2>2. event[rNode] = Len(order)
    BY <2>1 DEF Numbering, Held
  <2> QED BY <1>1, <2>1, <2>2, AppendProperties
<1>3. ASSUME ~LinkNode PROVE reader = "publish" /\ order' = order
  <2>1. reader = "publish"
    BY <1>3 DEF Next, ServerSends, ConnectionBreaks, ReaderStep, xcb_wait_for_event, ReaderSeesError, ReaderLocks,
       isCloseConnectionEvent, qXcbEventNodeFactory, PublishTail, xcb_poll_for_queued_event, wakeOne, wakeUpDispatcher,
       DispatcherWakeUp, Finished, MainStep, ClientCall, flushBufferedEvents, takeFirst, peek, waitForNewEvents,
       TakeStep, TakeFromLastNode, TakeNode, ReleaseNode, TakeReturnsNull, PeekMiss, PeekMatch, WaitTimesOut, WaitReturns,
       CreateDispatcher, ConsumeWakeUp, qAddPostRoutine, DeleteDispatcher, sendCloseConnectionEvent, DrainQueue,
       DestructorEnds, Destroyed, vars, readerVars
  <2>2. order' = order
    BY <1>3 DEF Next, ServerSends, ConnectionBreaks, ReaderStep, xcb_wait_for_event, ReaderSeesError, ReaderLocks,
       isCloseConnectionEvent, qXcbEventNodeFactory, PublishTail, xcb_poll_for_queued_event, wakeOne, wakeUpDispatcher,
       DispatcherWakeUp, MainStep, ClientCall, flushBufferedEvents, takeFirst, peek, waitForNewEvents,
       TakeStep, TakeFromLastNode, TakeNode, ReleaseNode, TakeReturnsNull, PeekMiss, PeekMatch, WaitTimesOut, WaitReturns,
       CreateDispatcher, ConsumeWakeUp, qAddPostRoutine, DeleteDispatcher, sendCloseConnectionEvent, DrainQueue,
       DestructorEnds, Destroyed, vars
  <2> QED BY <2>1, <2>2
<1>4. ASSUME ~LinkNode PROVE event'[order[Len(order)]] = event[order[Len(order)]]
  <2>1. PublishedPos = Len(order) - 1 /\ flushPos < Len(order) /\ headPos <= flushPos /\ flushPos \in Nat
    BY <1>1, <1>3, <1>4, Bounds DEF IInv, PublishedPos
  <2>2. \A p \in headPos .. flushPos : order[p] # order[Len(order)] /\ order[p] \in Nodes
    BY <1>1, <2>1, Bounds DEF IInv, NodesInOnePlace
  <2>3. CASE Untouching
    BY <1>1, <2>3, ListedUnchanged
  <2>4. CASE TakeFromLastNode
    <3>1. m_head # order[Len(order)] /\ m_head \in Nodes
      <4>1. headPos \in headPos .. flushPos /\ m_head = order[headPos]
        BY <1>1, <2>1 DEF IInv, Chain
      <4> QED BY <2>2, <4>1
    <3> QED BY <1>1, <2>4, <3>1 DEF TakeFromLastNode
  <2>5. CASE TakeNode
    BY <2>5 DEF TakeNode, listVars
  <2>6. CASE PeekMatch
    <3>1. cursor # order[Len(order)]
      BY <2>2, <2>6 DEF IInv, Walk, PeekMatch
    <3>2. event' = event \/ event' = [event EXCEPT ![cursor] = NoEvent]
      BY <2>6 DEF PeekMatch
    <3>3. order[Len(order)] \in Nodes
      BY <1>1
    <3> QED BY <1>1, <3>1, <3>2, <3>3
  <2> QED BY <1>4, <2>3, <2>4, <2>5, <2>6, NextCases DEF Untouching
<1> QED BY <1>2, <1>3, <1>4 DEF Fresh

LEMMA ViewIs ==
  ASSUME OInv
  PROVE  /\ headPos \in Nat \ {0} /\ flushPos \in Nat /\ PublishedPos \in Nat /\ Len(order) \in Nat
         /\ headPos <= flushPos /\ flushPos <= PublishedPos /\ PublishedPos <= Len(order) /\ headPos <= PublishedPos
         /\ \A p \in headPos .. Len(order) : Ev[p] = event[order[p]] /\ Ev[p] \in Events \cup {NoEvent}
         /\ \A p \in headPos .. PublishedPos : Ev[p] = event[order[p]] /\ Ev[p] \in Events \cup {NoEvent}
         /\ \A p \in headPos .. flushPos : Ev[p] = event[order[p]] /\ Ev[p] \in Events \cup {NoEvent}
<1>1. TypeOK /\ Chain
  BY DEF OInv, IInv
<1>2. /\ headPos \in Nat \ {0} /\ flushPos \in Nat /\ PublishedPos \in Nat /\ Len(order) \in Nat
      /\ headPos <= flushPos /\ flushPos <= PublishedPos /\ PublishedPos <= Len(order)
      /\ \A p \in 1 .. Len(order) : order[p] \in Nodes
  BY <1>1, Bounds
<1>3. \A p \in 1 .. Len(order) : Ev[p] = event[order[p]] /\ Ev[p] \in Events \cup {NoEvent}
  <2>1. event \in [Nodes -> Events \cup {NoEvent}]
    BY <1>1 DEF TypeOK
  <2> QED BY <1>2, <2>1 DEF Ev
<1> QED BY <1>2, <1>3

\* What is published stays as it is.
LEMMA ViewStays ==
  ASSUME OInv, OInv', headPos' = headPos, PublishedPos' = PublishedPos,
         \A p \in headPos .. PublishedPos : order'[p] = order[p] /\ event'[order[p]] = event[order[p]]
  PROVE  /\ Pending' = Pending
         /\ flushPos' = flushPos => Shown' = Shown
         /\ flushPos' = PublishedPos => Shown' = Pending
<1>1. /\ headPos \in Nat \ {0} /\ flushPos \in Nat /\ PublishedPos \in Nat
      /\ headPos <= flushPos /\ flushPos <= PublishedPos
      /\ \A p \in headPos .. PublishedPos : Ev[p] = event[order[p]]
  BY ViewIs
<1>2. \A p \in headPos .. PublishedPos : Ev'[p] = event'[order'[p]]
  <2>1. order' \in Seq(Nodes) /\ PublishedPos' <= Len(order') /\ Len(order') \in Nat
    <3>1. order' \in Seq(Nodes) /\ Len(order') \in Nat
      BY LenProperties DEF OInv, IInv, TypeOK
    <3> QED BY <3>1 DEF PublishedPos
  <2> QED BY <1>1, <2>1 DEF Ev
<1>3. ASSUME NEW hi \in Nat, headPos - 1 <= hi, hi <= PublishedPos
      PROVE  Remaining(Ev', headPos, hi) = Remaining(Ev, headPos, hi)
  <2>1. \A p \in headPos .. hi : Ev'[p] = Ev[p]
    BY <1>1, <1>2, <1>3
  <2> QED BY <1>1, <1>3, <2>1, RemainingSame
<1>4. headPos - 1 <= flushPos /\ headPos - 1 <= PublishedPos /\ PublishedPos <= PublishedPos
  BY <1>1
<1> QED BY <1>1, <1>3, <1>4 DEF Pending, Shown

\* What the mapping makes of the queue.
LEMMA ChannelIs ==
  /\ EventsAt(headPos, PublishedPos) = Pending /\ EventsAt(headPos, flushPos) = Shown
  /\ EventsAt(headPos, PublishedPos)' = Pending' /\ EventsAt(headPos, flushPos)' = Shown'
<1>1. EventsAt(headPos, PublishedPos) = Pending /\ EventsAt(headPos, flushPos) = Shown
  BY DEF EventsAt, Pending, Shown, Ev
<1>2. EventsAt(headPos, PublishedPos)' = Pending' /\ EventsAt(headPos, flushPos)' = Shown'
  BY DEF EventsAt, Pending, Shown, Ev
<1> QED BY <1>1, <1>2

\* A step that leaves the list alone.
LEMMA ListUntouched ==
  ASSUME OInv, OInv', Untouching, headPos' = headPos, order' = order, (reader' = "publish" <=> reader = "publish")
  PROVE  PublishedPos' = PublishedPos /\ Pending' = Pending /\ (flushPos' = flushPos => Shown' = Shown)
<1>1. PublishedPos' = PublishedPos
  BY DEF PublishedPos
<1>2. \A p \in headPos .. PublishedPos : order'[p] = order[p] /\ event'[order[p]] = event[order[p]]
  BY ListedUnchanged, ViewIs DEF OInv
<1> QED BY <1>1, <1>2, ViewStays

LEMMA ViewUntouched ==
  ASSUME OInv, OInv', Untouching, headPos' = headPos, flushPos' = flushPos, order' = order,
         (reader' = "publish" <=> reader = "publish"), UNCHANGED <<userInput, m_inputEvents, taken, removed>>
  PROVE  UNCHANGED Channel!vars
<1>1. PublishedPos' = PublishedPos /\ Pending' = Pending /\ Shown' = Shown
  BY ListUntouched
<1> QED BY <1>1, ChannelIs DEF Channel!vars

\* Neither the node being filled nor the pointers of a call are part of the channel.
LEMMA QuietIsStutter ==
  ASSUME OInv, OInv',
         \/ ServerSends \/ ConnectionBreaks \/ QuietReader \/ (QuietMain /\ UNCHANGED logVars) \/ UNCHANGED vars
         \/ qXcbEventNodeFactory \/ ReleaseNode \/ PeekMiss \/ DestructorEnds
  PROVE  UNCHANGED Channel!vars
<1> IInv
  BY DEF OInv
<1>1. CASE ServerSends \/ ConnectionBreaks \/ QuietReader \/ (QuietMain /\ UNCHANGED logVars) \/ UNCHANGED vars
  <2>1. /\ headPos' = headPos /\ flushPos' = flushPos /\ order' = order
        /\ (reader' = "publish" <=> reader = "publish")
    BY <1>1, QuietUnchanged DEF listShape
  <2>2. Untouching
    BY <1>1 DEF Untouching
  <2>3. UNCHANGED <<userInput, m_inputEvents, taken, removed>>
    BY <1>1 DEF ServerSends, ConnectionBreaks, vars, xVars, logVars, QuietReader, xcb_wait_for_event, ReaderSeesError,
       ReaderLocks, isCloseConnectionEvent, xcb_poll_for_queued_event, wakeOne, wakeUpDispatcher, DispatcherWakeUp,
       QuietMain, takeFirst, TakeReturnsNull, WaitTimesOut, WaitReturns, CreateDispatcher,
       ConsumeWakeUp, qAddPostRoutine, DeleteDispatcher, sendCloseConnectionEvent
  <2> QED BY <2>1, <2>2, <2>3, ViewUntouched
<1>2. CASE qXcbEventNodeFactory \/ ReleaseNode \/ PeekMiss \/ DestructorEnds
  <2>1. /\ headPos' = headPos /\ flushPos' = flushPos /\ order' = order
        /\ (reader' = "publish" <=> reader = "publish") /\ UNCHANGED <<userInput, m_inputEvents, taken, removed>>
    BY <1>2 DEF qXcbEventNodeFactory, ReleaseNode, PeekMiss, DestructorEnds, viewVars, readerVars, logVars, xVars
  <2>2. Untouching
    BY <1>2 DEF Untouching
  <2> QED BY <2>1, <2>2, ViewUntouched
<1> QED BY <1>1, <1>2

LEMMA InputIsTakenFirst ==
  ASSUME OInv, OInv', NEW fl, takeFirst(fl), TakeInputEvent(fl)
  PROVE  Channel!TakeParked
<1>1. QuietMain
  <2>1. fl \in FlagValues
    BY DEF TakeInputEvent, FlagValues
  <2> QED BY <2>1 DEF QuietMain
<1>2. /\ headPos' = headPos /\ flushPos' = flushPos /\ order' = order
      /\ (reader' = "publish" <=> reader = "publish") /\ userInput' = userInput
  BY <1>1, QuietUnchanged DEF listShape, takeFirst, xVars
<1>3. Untouching
  BY <1>1 DEF Untouching
<1>4. Pending' = Pending /\ Shown' = Shown /\ PublishedPos' = PublishedPos
  BY <1>2, <1>3, ListUntouched
<1> QED BY <1>2, <1>4, ChannelIs DEF TakeInputEvent, Channel!TakeParked

LEMMA FlushReveals ==
  ASSUME OInv, OInv', Flushing
  PROVE  Channel!Reveal
<1>1. /\ headPos' = headPos /\ flushPos' = PublishedPos /\ order' = order /\ reader' = reader /\ event' = event
      /\ UNCHANGED <<userInput, m_inputEvents, taken, removed>>
  BY DEF Flushing, flushBufferedEvents, peek, waitForNewEvents, DrainQueue, Flush, readerVars, listVars, xVars, logVars
<1>2. PublishedPos' = PublishedPos
  BY <1>1 DEF PublishedPos
<1>3. Pending' = Pending /\ Shown' = Pending
  BY <1>1, <1>2, ViewStays
<1> QED BY <1>1, <1>2, <1>3, ChannelIs DEF Channel!Reveal

LEMMA LinkIsStutter ==
  ASSUME OInv, OInv', LinkNode
  PROVE  UNCHANGED Channel!vars
<1>1. /\ headPos' = headPos /\ flushPos' = flushPos /\ event' = event /\ order' = Append(order, rNode)
      /\ reader = "link" /\ reader' = "publish" /\ UNCHANGED <<userInput, m_inputEvents, taken, removed>>
  BY DEF LinkNode, viewVars, xVars, logVars
<1>2. order \in Seq(Nodes) /\ rNode \in Nodes
  BY <1>1 DEF OInv, IInv, TypeOK, Control
<1>3. Len(order') = Len(order) + 1 /\ \A p \in 1 .. Len(order) : order'[p] = order[p]
  BY <1>1, <1>2, AppendProperties
<1>4. PublishedPos' = PublishedPos
  BY <1>1, <1>2, <1>3 DEF PublishedPos
<1>5. \A p \in headPos .. PublishedPos : order'[p] = order[p]
  BY <1>3, ViewIs
<1>6. Pending' = Pending /\ Shown' = Shown
  BY <1>1, <1>4, <1>5, ViewStays
<1> QED BY <1>1, <1>4, <1>6, ChannelIs DEF Channel!vars

\* The event published is the next.
LEMMA PublishPublishes ==
  ASSUME OInv, OInv', Fresh, PublishTail
  PROVE  Channel!Publish
<1>1. /\ reader = "publish" /\ reader' = "poll" /\ order' = order /\ event' = event
      /\ headPos' = headPos /\ flushPos' = flushPos /\ UNCHANGED <<userInput, m_inputEvents, taken, removed>>
  BY DEF PublishTail, viewVars, listVars, xVars, logVars
<1>2. /\ headPos \in Nat \ {0} /\ flushPos \in Nat /\ PublishedPos \in Nat /\ Len(order) \in Nat
      /\ headPos <= flushPos /\ flushPos <= PublishedPos /\ headPos <= PublishedPos
      /\ \A p \in headPos .. Len(order) : Ev[p] = event[order[p]] /\ Ev[p] \in Events \cup {NoEvent}
  BY ViewIs
<1>3. PublishedPos = Len(order) - 1 /\ PublishedPos' = Len(order) /\ Ev' = Ev
  BY <1>1 DEF PublishedPos, Ev
<1>4. Ev[Len(order)] = Len(order) - 1
  BY <1>1, <1>2, <1>3 DEF Fresh
<1>5. Ev[Len(order)] \in Events /\ Ev[Len(order)] # NoEvent
  BY <1>2, <1>3, <1>4 DEF NoEvent
<1>6. Pending' = Append(Pending, Len(order) - 1)
  <2>1. Remaining(Ev, headPos, Len(order)) = Append(Remaining(Ev, headPos, Len(order) - 1), Ev[Len(order)])
    <3>1. headPos <= Len(order)
      BY <1>2, <1>3
    <3>2. \A hi \in Nat : headPos <= hi => Remaining(Ev, headPos, hi) =
            IF Ev[hi] = NoEvent THEN Remaining(Ev, headPos, hi - 1) ELSE Append(Remaining(Ev, headPos, hi - 1), Ev[hi])
      BY <1>2, RemainingStep
    <3> QED BY <1>2, <1>5, <3>1, <3>2
  <2> QED BY <1>1, <1>3, <1>4, <2>1 DEF Pending
<1>7. Shown' = Shown
  BY <1>1, <1>3 DEF Shown
<1>8. PublishedPos - 1 < MaxEvents /\ PublishedPos' - 1 = PublishedPos - 1 + 1 /\ PublishedPos' - 1 = Len(order) - 1
  BY <1>2, <1>3, <1>4, <1>5, MaxEventsAssumption DEF Events
<1> QED BY <1>1, <1>6, <1>7, <1>8, ChannelIs DEF Channel!Publish

\* The event at the head leaves the list: with its node, or from a node that stays.
LEMMA HeadLeaves ==
  ASSUME OInv, OInv', TakeNode \/ TakeFromLastNode
  PROVE  /\ event[m_head] = Ev[headPos] /\ PublishedPos' = PublishedPos
         /\ event[m_head] = NoEvent => Pending' = Pending /\ Shown' = Shown
         /\ event[m_head] # NoEvent =>
              /\ Head(Pending) = event[m_head] /\ Pending' = Tail(Pending)
              /\ Len(Shown) \in Nat /\ Len(Shown) > 0 /\ Len(Shown') = Len(Shown) - 1
<1>1. /\ headPos \in Nat \ {0} /\ flushPos \in Nat /\ PublishedPos \in Nat
      /\ headPos <= flushPos /\ flushPos <= PublishedPos /\ headPos <= PublishedPos /\ PublishedPos <= Len(order)
      /\ \A p \in headPos .. Len(order) : Ev[p] = event[order[p]]
      /\ \A p \in headPos .. PublishedPos : Ev[p] = event[order[p]] /\ Ev[p] \in Events \cup {NoEvent}
      /\ \A p \in headPos .. flushPos : Ev[p] = event[order[p]] /\ Ev[p] \in Events \cup {NoEvent}
  BY ViewIs
<1>2. event[m_head] = Ev[headPos]
  <2>1. m_head = order[headPos]
    BY DEF OInv, IInv, Chain
  <2> QED BY <1>1, <2>1
<1> DEFINE Rest(f, hi) == Remaining(f, headPos + 1, hi)
<1>3. \A hi \in {PublishedPos, flushPos} :
        LET r == Remaining(Ev, headPos, hi)
        IN /\ Len(r) \in Nat
           /\ Ev[headPos] = NoEvent => r = Rest(Ev, hi)
           /\ Ev[headPos] # NoEvent =>
                Head(r) = Ev[headPos] /\ Tail(r) = Rest(Ev, hi) /\ Len(Rest(Ev, hi)) = Len(r) - 1 /\ 0 < Len(r)
  <2>1. \A hi \in {PublishedPos, flushPos} : Span(Ev, headPos, hi) /\ headPos <= hi
    BY <1>1 DEF Span
  <2> QED BY <2>1, RemainingHead
<1>4. order' = order /\ flushPos' = flushPos /\ PublishedPos' = PublishedPos
  BY DEF TakeNode, TakeFromLastNode, readerVars, viewVars, PublishedPos
<1>5. Pending' = Rest(Ev, PublishedPos) /\ Shown' = Rest(Ev, flushPos)
  <2>1. CASE TakeNode
    <3>1. headPos' = headPos + 1 /\ Ev' = Ev
      BY <1>4, <2>1 DEF TakeNode, listVars, Ev
    <3> QED BY <1>4, <3>1 DEF Pending, Shown
  <2>2. CASE TakeFromLastNode
    <3>1. headPos' = headPos /\ m_head = m_flushedTail /\ event' = [event EXCEPT ![m_head] = NoEvent]
      BY <2>2 DEF TakeFromLastNode, viewVars
    <3>2. /\ \A p \in 1 .. Len(order) : order[p] \in Nodes
          /\ \A p, q \in headPos .. Len(order) : order[p] = order[q] => p = q
          /\ event \in [Nodes -> Events \cup {NoEvent}] /\ m_head = order[headPos]
      BY Bounds DEF OInv, IInv, TypeOK, NodesInOnePlace, Chain
    <3>3. /\ \A p \in headPos + 1 .. PublishedPos : Ev'[p] = Ev[p]
          /\ Ev'[headPos] = NoEvent
      <4>1. \A p \in headPos .. PublishedPos : Ev'[p] = event'[order[p]]
        BY <1>1, <1>4 DEF Ev
      <4>2. \A p \in headPos + 1 .. PublishedPos : order[p] # m_head /\ order[p] \in Nodes /\ p \in headPos .. PublishedPos
        BY <1>1, <3>2
      <4>3. headPos \in headPos .. PublishedPos /\ m_head \in Nodes
        BY <1>1, <3>2
      <4> QED BY <1>1, <3>1, <3>2, <4>1, <4>2, <4>3
    <3>4. \A hi \in {PublishedPos, flushPos} : Remaining(Ev', headPos, hi) = Rest(Ev, hi)
      <4> SUFFICES ASSUME NEW hi \in {PublishedPos, flushPos} PROVE Remaining(Ev', headPos, hi) = Rest(Ev, hi)
        OBVIOUS
      <4>1. hi \in Nat /\ headPos <= hi /\ hi <= PublishedPos
        BY <1>1
      <4>2. Span(Ev', headPos, hi)
        BY <1>1, <3>3, <4>1 DEF Span
      <4>3. Remaining(Ev', headPos, hi) = Remaining(Ev', headPos + 1, hi)
        BY <1>1, <3>3, <4>1, <4>2, RemainingHead
      <4>4. Remaining(Ev', headPos + 1, hi) = Remaining(Ev, headPos + 1, hi)
        <5>1. \A p \in headPos + 1 .. hi : Ev'[p] = Ev[p]
          BY <3>3, <4>1
        <5>2. headPos + 1 \in Nat \ {0} /\ (headPos + 1) - 1 <= hi
          BY <1>1, <4>1
        <5> QED BY <4>1, <5>1, <5>2, RemainingSame
      <4> QED BY <4>3, <4>4
    <3> QED BY <1>4, <3>1, <3>4 DEF Pending, Shown
  <2> QED BY <2>1, <2>2
<1> HIDE DEF Rest
<1> QED BY <1>2, <1>3, <1>4, <1>5 DEF Pending, Shown

LEMMA TakingTakes ==
  ASSUME OInv, OInv', TakeNode \/ TakeFromLastNode
  PROVE  Channel!Take \/ Channel!Park \/ UNCHANGED Channel!vars
<1> PICK e : e = event[m_head]
  OBVIOUS
<1>1. main = "take" /\ Consume(e) /\ userInput' = userInput
  BY DEF TakeNode, TakeFromLastNode, xVars
<1>2. removed' = removed /\ PublishedPos' = PublishedPos
  BY <1>1, HeadLeaves DEF Consume
<1>3. CASE e = NoEvent
  <2>1. NoEvent \notin userInput
    BY MaxEventsAssumption DEF OInv, IInv, TypeOK, Events, NoEvent
  <2>2. m_inputEvents' = m_inputEvents /\ taken' = taken
    BY <1>1, <1>3, <2>1 DEF Consume, Park
  <2>3. Pending' = Pending /\ Shown' = Shown
    BY <1>3, HeadLeaves
  <2> QED BY <1>1, <1>2, <2>2, <2>3, ChannelIs DEF Channel!vars
<1>4. CASE e # NoEvent
  <2>1. Head(Pending) = e /\ Pending' = Tail(Pending) /\ Len(Shown) > 0 /\ Len(Shown') = Len(Shown) - 1
    BY <1>4, HeadLeaves
  <2>2. CASE Park(e)
    <3>1. m_inputEvents' = Append(m_inputEvents, e) /\ taken' = taken /\ e \in userInput
      BY <1>1, <2>2 DEF Consume, Park
    <3> QED BY <1>1, <1>2, <2>1, <3>1, ChannelIs DEF Channel!Park
  <2>3. CASE ~Park(e)
    <3>1. m_inputEvents' = m_inputEvents /\ taken' = Append(taken, e)
      BY <1>1, <1>4, <2>3 DEF Consume
    <3>2. m_inputEvents = <<>> \/ e \notin userInput
      <4>1. CASE flags = "AllEvents"
        BY <1>1, <4>1 DEF OInv, Admitted
      <4>2. CASE flags = "ExcludeUserInputEvents"
        BY <2>3, <4>2 DEF Park
      <4> QED BY <4>1, <4>2 DEF OInv, IInv, TypeOK, FlagValues
    <3> QED BY <1>1, <1>2, <2>1, <3>1, <3>2, ChannelIs DEF Channel!Take
  <2> QED BY <2>2, <2>3
<1> QED BY <1>3, <1>4

\* A peeker may match any event shown.
LEMMA PeekWithdraws ==
  ASSUME OInv, OInv', PeekMatch
  PROVE  Channel!Withdraw \/ UNCHANGED Channel!vars
<1>1. /\ main = "peek" /\ event[cursor] # NoEvent /\ order' = order /\ headPos' = headPos /\ flushPos' = flushPos
      /\ reader' = reader /\ UNCHANGED <<userInput, m_inputEvents, taken>>
  BY DEF PeekMatch, readerVars, viewVars, xVars
<1>2. PublishedPos' = PublishedPos
  BY <1>1 DEF PublishedPos
<1>3. CASE UNCHANGED <<event, removed>>
  <2>1. Pending' = Pending /\ Shown' = Shown
    BY <1>1, <1>2, <1>3, ViewStays
  <2> QED BY <1>1, <1>2, <1>3, <2>1, ChannelIs DEF Channel!vars
<1>4. CASE event' = [event EXCEPT ![cursor] = NoEvent] /\ removed' = removed \cup {event[cursor]}
  <2>1. /\ headPos \in Nat \ {0} /\ flushPos \in Nat /\ PublishedPos \in Nat /\ Len(order) \in Nat
        /\ headPos <= flushPos /\ flushPos <= PublishedPos /\ PublishedPos <= Len(order)
        /\ \A p \in headPos .. PublishedPos : Ev[p] = event[order[p]] /\ Ev[p] \in Events \cup {NoEvent}
    BY ViewIs
  <2>2. PICK p \in headPos .. flushPos : cursor = order[p]
    BY <1>1 DEF OInv, IInv, Walk
  <2>3. /\ \A q \in 1 .. Len(order) : order[q] \in Nodes
        /\ \A q, r \in headPos .. Len(order) : order[q] = order[r] => q = r
        /\ event \in [Nodes -> Events \cup {NoEvent}]
    BY Bounds DEF OInv, IInv, TypeOK, NodesInOnePlace
  <2>4. \A q \in headPos .. PublishedPos : Ev'[q] = IF q = p THEN NoEvent ELSE Ev[q]
    <3> SUFFICES ASSUME NEW q \in headPos .. PublishedPos PROVE Ev'[q] = IF q = p THEN NoEvent ELSE Ev[q]
      OBVIOUS
    <3>1. q \in 1 .. Len(order) /\ q \in headPos .. Len(order) /\ p \in headPos .. Len(order)
      BY <2>1
    <3>2. Ev'[q] = event'[order[q]] /\ Ev[q] = event[order[q]]
      BY <1>1, <3>1 DEF Ev
    <3>3. order[q] \in Nodes /\ (order[q] = order[p] => q = p)
      BY <2>3, <3>1
    <3> QED BY <1>4, <2>2, <2>3, <3>2, <3>3
  <2> PICK i : i = Len(Remaining(Ev, headPos, p - 1)) + 1
    OBVIOUS
  <2>5. \A hi \in {PublishedPos, flushPos} :
          LET r == Remaining(Ev, headPos, hi)
              s == Remaining(Ev', headPos, hi)
          IN /\ Len(r) \in Nat /\ i \in 1 .. Len(r) /\ r[i] = Ev[p]
             /\ s = SubSeq(r, 1, i - 1) \o SubSeq(r, i + 1, Len(r)) /\ Len(s) = Len(r) - 1
    <3> SUFFICES ASSUME NEW hi \in {PublishedPos, flushPos}
                 PROVE  LET r == Remaining(Ev, headPos, hi)
                            s == Remaining(Ev', headPos, hi)
                        IN /\ Len(r) \in Nat /\ i \in 1 .. Len(r) /\ r[i] = Ev[p]
                           /\ s = SubSeq(r, 1, i - 1) \o SubSeq(r, i + 1, Len(r)) /\ Len(s) = Len(r) - 1
      OBVIOUS
    <3>1. hi \in Nat /\ p \in headPos .. hi /\ \A q \in headPos .. hi : q \in headPos .. PublishedPos
      BY <2>1
    <3>2. /\ \A q \in headPos .. hi : Ev[q] \in Events \cup {NoEvent}
          /\ Ev[p] # NoEvent /\ Ev'[p] = NoEvent /\ \A q \in headPos .. hi : q # p => Ev'[q] = Ev[q]
      BY <1>1, <2>1, <2>2, <2>4, <3>1
    <3>3. Loses(Remaining(Ev, headPos, hi), Remaining(Ev', headPos, hi), i, Ev[p])
      <4>1. Clears(Ev, Ev', headPos, hi, p)
        BY <2>1, <3>1, <3>2 DEF Clears
      <4> QED BY <4>1, RemainingCleared
    <3> QED BY <3>3 DEF Loses
  <2>6. Ev[p] = event[cursor]
    BY <2>1, <2>2
  <2>7. /\ i \in 1 .. Len(Shown) /\ Len(Shown') = Len(Shown) - 1 /\ Pending[i] = event[cursor]
        /\ Pending' = SubSeq(Pending, 1, i - 1) \o SubSeq(Pending, i + 1, Len(Pending))
    BY <1>1, <1>2, <2>5, <2>6 DEF Pending, Shown
  <2> QED BY <1>1, <1>2, <1>4, <2>7, ChannelIs DEF Channel!Withdraw
<1> QED BY <1>3, <1>4 DEF PeekMatch

LEMMA ChannelStep == OInv /\ OInv' /\ Fresh /\ [Next]_vars => [Channel!Next]_(Channel!vars)
<1> SUFFICES ASSUME OInv, OInv', Fresh, [Next]_vars PROVE Channel!Next \/ UNCHANGED Channel!vars
  OBVIOUS
<1>1. CASE QuietMain
  <2>1. UNCHANGED logVars \/ \E fl \in FlagValues : takeFirst(fl) /\ TakeInputEvent(fl)
    BY <1>1 DEF QuietMain, takeFirst, TakeReturnsNull, WaitTimesOut, WaitReturns, CreateDispatcher, ConsumeWakeUp,
       qAddPostRoutine, DeleteDispatcher, sendCloseConnectionEvent
  <2> QED BY <1>1, <2>1, QuietIsStutter, InputIsTakenFirst DEF Channel!Next
<1>2. CASE ServerSends \/ ConnectionBreaks \/ QuietReader \/ UNCHANGED vars \/ qXcbEventNodeFactory \/ ReleaseNode
           \/ PeekMiss \/ DestructorEnds
  BY <1>2, QuietIsStutter
<1>3. CASE Flushing \/ LinkNode \/ PublishTail
  BY <1>3, FlushReveals, LinkIsStutter, PublishPublishes DEF Channel!Next
<1>4. CASE TakeNode \/ TakeFromLastNode \/ PeekMatch
  BY <1>4, TakingTakes, PeekWithdraws DEF Channel!Next
<1> QED BY <1>1, <1>2, <1>3, <1>4, NextCases

LEMMA ChannelInit == Init => Channel!Init /\ Fresh
<1> SUFFICES ASSUME Init PROVE Channel!Init /\ Fresh
  OBVIOUS
<1>1. /\ order = <<1>> /\ headPos = 1 /\ flushPos = 1 /\ reader = "wait" /\ event = [n \in Nodes |-> NoEvent]
      /\ userInput \in Traffic /\ m_inputEvents = <<>> /\ taken = <<>> /\ removed = {}
  BY DEF Init
<1>2. PublishedPos = 1 /\ Ev = <<NoEvent>>
  <2>1. 1 \in Nodes
    BY PoolSizeAssumption DEF Nodes, Pool
  <2> QED BY <1>1, <2>1 DEF PublishedPos, Ev
<1>3. Remaining(Ev, 1, 1) = <<>>
  <2> PICK n \in Nat \ {0} : n = 1
    OBVIOUS
  <2>1. Remaining(Ev, n, n - 1) = <<>>
    BY RemainingStep
  <2>2. \A hi \in Nat : n <= hi => Remaining(Ev, n, hi) =
          IF Ev[hi] = NoEvent THEN Remaining(Ev, n, hi - 1) ELSE Append(Remaining(Ev, n, hi - 1), Ev[hi])
    BY RemainingStep
  <2> QED BY <1>2, <2>1, <2>2
<1>4. Pending = <<>> /\ Shown = <<>>
  BY <1>1, <1>2, <1>3 DEF Pending, Shown
<1>5. userInput \in SUBSET (1 .. MaxEvents)
  BY <1>1, TrafficAssumption DEF Events
<1> QED BY <1>1, <1>2, <1>4, <1>5, ChannelIs DEF Channel!Init, Channel!Events, Fresh

\* The queue with its nodes, threads and pool does nothing its callers could not see of
\* a channel: each of its steps is one of EventChannel or none.
THEOREM QueueImplementsChannel == Spec => ImplementsChannel
<1>1. Spec => []OInv
  BY OrderInvariance
<1>2. Init => Channel!Init /\ Fresh
  BY ChannelInit
<1>3. OInv /\ Fresh /\ [Next]_vars => Fresh'
  BY FreshStep
<1>4. OInv /\ OInv' /\ Fresh /\ [Next]_vars => [Channel!Next]_(Channel!vars)
  BY ChannelStep
<1> QED BY <1>1, <1>2, <1>3, <1>4, PTL DEF Spec, ImplementsChannel, Channel!Spec
=============================================================================
