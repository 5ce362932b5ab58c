------------------------------ MODULE PeekQueue ------------------------------
(***************************************************************************)
(* QXcbEventQueue::peekEventQueue(): the loop over the queue that calls a   *)
(* peeker back for each event, and the cache that lets a peeker with an id  *)
(* go on where it stopped.  The peeker is foreign code: it may process      *)
(* events (which dequeues nodes under the loop), generate and remove ids    *)
(* and peek again.  The queue and its reader thread are EventQueue.tla.     *)
(***************************************************************************)
EXTENDS EventQueue

CONSTANTS MaxPeekers,    \* bound: peeker ids in use at a time
          MaxDepth,      \* bound: calls of peekEventQueue() on the stack
          IdsInCallback  \* whether a peeker generates and removes ids

ASSUME PeekAssumption ==
  MaxPeekers \in Nat /\ MaxDepth \in Nat \ {0} /\ IdsInCallback \in BOOLEAN

NoPeeker == -1

VARIABLES m_peekerToNode, m_peekerIdSource, m_queueModified, m_peekerIndexCacheDirty,
          frames,  \* the calls of peekEventQueue(), innermost last
          seen     \* auxiliary: the events each peeker id was called with

cacheVars == <<m_peekerToNode, m_peekerIdSource, m_peekerIndexCacheDirty>>
peekVars  == <<cacheVars, m_queueModified, frames, seen>>
peekAll   == <<vars, peekVars>>

Ids == DOMAIN m_peekerToNode

PeekInit ==
  /\ Init
  /\ m_peekerToNode = <<>> /\ m_peekerIdSource = 0
  /\ m_queueModified = FALSE /\ m_peekerIndexCacheDirty = FALSE
  /\ frames = <<>> /\ seen = [id \in 0 .. MaxPeekers - 1 |-> {}]

Top == frames[Len(frames)]
In(pc) == frames # <<>> /\ Top.pc = pc

\* the main thread runs code that may call the queue
Calling == main = "idle" /\ (frames = <<>> \/ In("callback"))

-----------------------------------------------------------------------------
(* Peeker ids.                                                              *)

ManagesIds == Calling /\ (frames = <<>> \/ IdsInCallback)

generatePeekerId ==
  /\ ManagesIds /\ m_peekerIdSource < MaxPeekers
  /\ m_peekerToNode' = [id \in Ids \cup {m_peekerIdSource} |->
                          IF id \in Ids THEN m_peekerToNode[id] ELSE NullNode]
  /\ m_peekerIdSource' = m_peekerIdSource + 1
  /\ seen' = [seen EXCEPT ![m_peekerIdSource] = {}]
  /\ UNCHANGED <<vars, m_peekerIndexCacheDirty, m_queueModified, frames>>

removePeekerId(id) ==
  /\ ManagesIds /\ id \in Ids
  /\ m_peekerToNode' = [i \in Ids \ {id} |-> m_peekerToNode[i]]
  /\ IF Ids = {id} THEN m_peekerIdSource' = 0 /\ m_peekerIndexCacheDirty' = FALSE
     ELSE UNCHANGED <<m_peekerIdSource, m_peekerIndexCacheDirty>>
  /\ UNCHANGED <<vars, m_queueModified, frames, seen>>

-----------------------------------------------------------------------------
(* peekEventQueue().                                                        *)

\* mutant of ResetCache: the caches are not reset
TrustCache(id) == m_peekerToNode

\* a peeker with an id finds every cached node reset once the queue was modified
ResetCache(id) ==
  IF id # NoPeeker /\ m_peekerIndexCacheDirty THEN [i \in Ids |-> NullNode] ELSE m_peekerToNode

\* startNode, from the tail just flushed; null when there is nothing to look at
StartNode(id, useCache, flushed) ==
  LET cached == IF useCache THEN ResetCache(id)[id] ELSE NullNode
  IN IF IsEmptyAt(flushed) \/ cached = flushed THEN NullNode
     ELSE IF cached = NullNode THEN m_head ELSE next[cached]

peekEventQueue(id, useCache) ==
  /\ Calling /\ Len(frames) < MaxDepth
  /\ useCache => id # NoPeeker
  /\ Flush
  /\ m_peekerToNode' = ResetCache(id)
  /\ m_peekerIndexCacheDirty' = (m_peekerIndexCacheDirty /\ id = NoPeeker)
  /\ LET start == StartNode(id, useCache, m_tail)
     IN IF start = NullNode THEN UNCHANGED <<frames, m_queueModified>>
        ELSE /\ frames' = Append(frames, [id |-> id, start |-> start, node |-> start, pc |-> "visit"])
             /\ m_queueModified' = FALSE
  /\ UNCHANGED <<xVars, readerVars, callVars, listVars, m_head, headPos, ownerVars, logVars,
                 m_tail, mutex, order, m_peekerIdSource, seen>>

At(pc) == frames' = [frames EXCEPT ![Len(frames)].pc = pc]

\* the peeker is called unless the event was cleared
Visit ==
  /\ In("visit")
  /\ IF event[Top.node] = NoEvent THEN At("advance") /\ UNCHANGED seen
     ELSE /\ At("callback")
          /\ seen' = IF Top.id = NoPeeker THEN seen
                     ELSE [seen EXCEPT ![Top.id] = @ \cup {event[Top.node]}]
  /\ UNCHANGED <<vars, cacheVars, m_queueModified>>

\* the index is kept if the queue was not modified and the id still exists
KeepIndex(node) == Top.id \in Ids /\ node # Top.start /\ ~m_queueModified

Return(node) ==
  /\ m_peekerToNode' = IF KeepIndex(node) THEN [m_peekerToNode EXCEPT ![Top.id] = node]
                       ELSE m_peekerToNode
  /\ frames' = SubSeq(frames, 1, Len(frames) - 1)

PeekerMatches ==
  /\ In("callback") /\ main = "idle"
  /\ Return(Top.node)
  /\ UNCHANGED <<vars, m_peekerIdSource, m_peekerIndexCacheDirty, m_queueModified, seen>>

PeekerDeclines ==
  /\ In("callback") /\ main = "idle"
  /\ At("advance")
  /\ UNCHANGED <<vars, cacheVars, m_queueModified, seen>>

\* mutant of GoOn: the loop does not notice that the queue was modified
GoOnBlindly(node) == frames' = [frames EXCEPT ![Len(frames)].node = node,
                                              ![Len(frames)].pc = "visit"]
                     /\ UNCHANGED m_peekerToNode

GoOn(node) ==
  IF m_queueModified THEN Return(node)
  ELSE /\ frames' = [frames EXCEPT ![Len(frames)].node = node, ![Len(frames)].pc = "visit"]
       /\ UNCHANGED m_peekerToNode

\* The next field is read before m_queueModified is tested: the node may have
\* left the list, and its memory then holds anything.
Advance ==
  /\ In("advance")
  /\ IF Top.node = m_flushedTail THEN Return(Top.node)
     ELSE IF Top.node \in Pool \cup heap THEN GoOn(next[Top.node])
     ELSE \E n \in Nodes : GoOn(n)
  /\ UNCHANGED <<vars, m_peekerIdSource, m_peekerIndexCacheDirty, m_queueModified, seen>>

-----------------------------------------------------------------------------
(* processXcbEvents(), from the event loop or from a peeker.                *)

ProcessEvents ==
  /\ Calling
  /\ flushBufferedEvents \/ takeFirst("AllEvents")
  /\ UNCHANGED peekVars

\* mutant of TakeModifies: takeFirst() does not mark the index cache
TakeMarksQueueOnly ==
  /\ TakeFromLastNode \/ TakeNode
  /\ m_queueModified' = TRUE
  /\ UNCHANGED <<cacheVars, frames, seen>>

TakeModifies ==
  /\ TakeFromLastNode \/ TakeNode
  /\ m_queueModified' = TRUE /\ m_peekerIndexCacheDirty' = TRUE
  /\ UNCHANGED <<m_peekerToNode, m_peekerIdSource, frames, seen>>

TakeEnds == (ReleaseNode \/ TakeReturnsNull) /\ UNCHANGED peekVars

PeekNext ==
  \/ generatePeekerId \/ \E id \in Ids : removePeekerId(id)
  \/ \E id \in Ids \cup {NoPeeker}, useCache \in BOOLEAN : peekEventQueue(id, useCache)
  \/ Visit \/ PeekerMatches \/ PeekerDeclines \/ Advance
  \/ ProcessEvents \/ TakeModifies \/ TakeEnds
  \/ (ServerSends \/ ReaderStep) /\ UNCHANGED peekVars

PeekSpec == PeekInit /\ [][PeekNext]_peekAll

-----------------------------------------------------------------------------
(* Properties.                                                              *)

Flushed(node) == \E p \in headPos .. flushPos : order[p] = node

\* A peeker is only called with the event of a node that is in the list, even
\* when an earlier call of it processed events and so dequeued nodes.
VisitsFlushedNodes == In("visit") => Flushed(Top.node)

\* An index that a later cached peek will start from points into the list.
CacheValid ==
  ~m_peekerIndexCacheDirty =>
    \A id \in Ids : m_peekerToNode[id] = NullNode \/ Flushed(m_peekerToNode[id])

\* A cached peek skips only events its peeker has already been called with.
CachedPeekSkipsNothing ==
  ~m_peekerIndexCacheDirty =>
    \A id \in Ids : \A p \in headPos .. flushPos :
      m_peekerToNode[id] = order[p] =>
        \A q \in headPos .. p : event[order[q]] \in seen[id] \cup {NoEvent}
=============================================================================
