------------------------------ MODULE EventLoop ------------------------------
(***************************************************************************)
(* The main thread's use of QXcbEventQueue: QXcbUnixEventDispatcher         *)
(* ::processEvents() blocks until the dispatcher is woken and then runs     *)
(* QXcbConnection::processXcbEvents(), which takes, compresses and handles  *)
(* events until the queue has none.  A handler may wait for new events or   *)
(* remove events with a peeker, as the clipboard and the windows do.        *)
(***************************************************************************)
EXTENDS EventQueue

CONSTANTS Kindings,          \* what the events may be: errors, motions, ...
          ErrorKind,         \* response_type 0
          CompressibleKinds, \* kinds compressEvent() looks for; {} without
                             \* AA_CompressHighFrequencyEvents
          InputKinds,        \* kinds isUserInputEvent() accepts
          PeekedKinds        \* kinds a handler's peeker removes

ASSUME KindAssumption ==
  /\ \A k \in Kindings : /\ DOMAIN k = Events
                         /\ {e \in Events : k[e] \in InputKinds} \in Traffic
  /\ PeekedKinds \cap CompressibleKinds = {}

VARIABLES loop,     \* where processEvents() / processXcbEvents() is
          pass,     \* the flags processEvents() was called with
          handled,  \* events given to handleXcbEvent(), in order
          dropped,  \* events compressEvent() discarded
          KindOf    \* what each event is

loopVars == <<loop, pass, handled, dropped>>
loopAll  == <<vars, loopVars, KindOf>>

LoopInit ==
  /\ Init
  /\ loop = "poll" /\ pass = "AllEvents" /\ handled = <<>> /\ dropped = {}
  /\ KindOf \in Kindings /\ userInput = {e \in Events : KindOf[e] \in InputKinds}

Running == dispatcher = "alive" /\ ~dispatcherOwnerDestructing

\* poll() returns because the reader woke the dispatcher
PollWoken ==
  /\ loop = "poll" /\ Running
  /\ ConsumeWakeUp
  /\ \E fl \in FlagValues : pass' = fl
  /\ loop' = "process" /\ UNCHANGED <<handled, dropped>>

\* poll() returns for a timer or a posted event, or the pass may not block
PollOther ==
  /\ loop = "poll" /\ Running
  /\ \E fl \in FlagValues : pass' = fl
  /\ loop' = "process" /\ UNCHANGED <<vars, handled, dropped>>

processXcbEvents ==
  /\ loop = "process" /\ ~broken
  /\ flushBufferedEvents
  /\ loop' = "take" /\ UNCHANGED <<pass, handled, dropped>>

ExitOnError ==
  /\ loop = "process" /\ broken
  /\ loop' = "exited" /\ UNCHANGED <<vars, pass, handled, dropped>>

TakeCall ==
  /\ loop = "take"
  /\ takeFirst(pass)
  /\ loop' = IF main' = "idle" THEN "handle" ELSE "taking"
  /\ UNCHANGED <<pass, handled, dropped>>

TakeGoesOn ==
  /\ loop = "taking"
  /\ TakeFromLastNode \/ TakeNode \/ ReleaseNode
  /\ loop' = IF main' = "idle" THEN "handle" ELSE "taking"
  /\ UNCHANGED <<pass, handled, dropped>>

\* the queue has nothing more: back to processEvents()
PassEnds ==
  /\ loop = "taking"
  /\ TakeReturnsNull
  /\ loop' = "poll" /\ UNCHANGED <<pass, handled, dropped>>

InHand == taken[Len(taken)]
Compressible == KindOf[InHand] \in CompressibleKinds

handleXcbError ==
  /\ loop = "handle" /\ KindOf[InHand] = ErrorKind
  /\ loop' = "take" /\ UNCHANGED <<vars, pass, handled, dropped>>

\* compressEvent(): is a later event of the kind buffered?
compressEvent ==
  /\ loop = "handle" /\ Compressible
  /\ peek("PeekRetainMatch")
  /\ loop' = IF main' = "peek" THEN "compress" ELSE "dispatch"
  /\ UNCHANGED <<pass, handled, dropped>>

\* mutant of SameKind: the window of a ConfigureNotify is not compared
AnyKind(e) == e # NoEvent /\ KindOf[e] \in CompressibleKinds

SameKind(e) == e # NoEvent /\ KindOf[e] = KindOf[InHand]

CompressHit ==
  /\ loop = "compress" /\ SameKind(event[cursor])
  /\ PeekMatch
  /\ dropped' = dropped \cup {InHand}
  /\ loop' = "take" /\ UNCHANGED <<pass, handled>>

CompressMiss ==
  /\ loop = "compress" /\ ~SameKind(event[cursor])
  /\ PeekMiss
  /\ loop' = IF main' = "idle" THEN "dispatch" ELSE "compress"
  /\ UNCHANGED <<pass, handled, dropped>>

\* a handler waits for new events, or removes some with a peeker
HandlerCall ==
  /\ loop = "dispatch"
  /\ waitForNewEvents \/ peek("PeekRemoveMatchContinue")
  /\ loop' = "handler" /\ UNCHANGED <<pass, handled, dropped>>

HandlerPeeks ==
  /\ loop = "handler" /\ main = "peek"
  /\ IF event[cursor] # NoEvent /\ KindOf[event[cursor]] \in PeekedKinds
     THEN PeekMatch ELSE PeekMiss
  /\ UNCHANGED loopVars

HandlerWaits ==
  /\ loop = "handler"
  /\ WaitTimesOut \/ WaitReturns
  /\ UNCHANGED loopVars

\* mutant of handleXcbEvent: handling an event starts a new pass
HandlerRestarts ==
  /\ \/ loop = "handle" /\ ~Compressible /\ KindOf[InHand] # ErrorKind
     \/ loop \in {"dispatch", "handler"} /\ main = "idle"
  /\ flushBufferedEvents
  /\ handled' = Append(handled, InHand)
  /\ loop' = "poll" /\ UNCHANGED <<pass, dropped>>

\* handleXcbEvent() returns, and what arrived meanwhile is flushed
handleXcbEvent ==
  /\ \/ loop = "handle" /\ ~Compressible /\ KindOf[InHand] # ErrorKind
     \/ loop \in {"dispatch", "handler"} /\ main = "idle"
  /\ flushBufferedEvents
  /\ handled' = Append(handled, InHand)
  /\ loop' = "take" /\ UNCHANGED <<pass, dropped>>

\* the application leaves its event loop
Quit ==
  /\ loop = "poll" /\ Running
  /\ qAddPostRoutine
  /\ loop' = "quit" /\ UNCHANGED <<pass, handled, dropped>>

\* the event loop is left: the dispatcher's owner deletes it, then the
\* connection deletes its queue
Shutdown ==
  /\ loop = "quit"
  /\ \/ DeleteDispatcher \/ sendCloseConnectionEvent \/ DrainQueue \/ TakeStep \/ DestructorEnds
     \/ destroying /\ takeFirst("AllEvents")
  /\ UNCHANGED loopVars

LoopStep ==
  \/ PollWoken \/ processXcbEvents \/ ExitOnError \/ TakeCall \/ TakeGoesOn \/ PassEnds
  \/ handleXcbError \/ compressEvent \/ CompressHit \/ CompressMiss
  \/ HandlerPeeks \/ HandlerWaits \/ handleXcbEvent

Environment ==
  /\ loop # "exited"
  /\ ServerSends \/ ConnectionBreaks \/ ReaderStep \/ CreateDispatcher
  /\ UNCHANGED loopVars

LoopEnded == (loop = "exited" \/ main = "destroyed") /\ UNCHANGED loopAll

LoopNext ==
  /\ UNCHANGED KindOf
  /\ \/ loop # "exited" /\ LoopStep
     \/ PollOther \/ HandlerCall \/ Quit \/ Shutdown \/ Environment \/ LoopEnded

\* The threads are scheduled, an exit once begun runs on, and the timeout of a wait is finite; nothing makes
\* poll() return but the reader's wake-up.
LoopFairness ==
  /\ WF_loopAll(LoopStep /\ UNCHANGED KindOf) /\ WF_loopAll(Shutdown /\ UNCHANGED KindOf)
  /\ WF_loopAll(loop # "exited" /\ ReaderStep /\ UNCHANGED <<loopVars, KindOf>>)
  /\ WF_loopAll(loop # "exited" /\ CreateDispatcher /\ UNCHANGED <<loopVars, KindOf>>)

LoopSpec == LoopInit /\ [][LoopNext]_loopAll /\ LoopFairness

-----------------------------------------------------------------------------
(* Properties.                                                              *)

\* Compression never loses the last state: of every kind, each event it drops
\* is followed by one that is handled or still to come.
CompressionKeepsLast ==
  \A e \in dropped : \E f \in Events :
    f > e /\ f < Len(order) /\ KindOf[f] = KindOf[e] /\ f \notin dropped \cup removed

Consumed(n) == n \in {taken[i] : i \in DOMAIN taken} \cup removed
                     \cup {m_inputEvents[i] : i \in DOMAIN m_inputEvents}

\* An event that is published when the reader calls the dispatcher's wakeUp()
\* is consumed although nothing else ever wakes the dispatcher: the wake-up is
\* not lost between a pass that has flushed and the poll() after it.  The last
\* wake-up of a reader whose connection broke ends in exit(1).
WakeUpDelivers ==
  /\ \A n \in Events :
       (reader = "calling" /\ n < PublishedPos) ~> (Consumed(n) \/ loop \in {"exited", "quit"})
  /\ (reader = "lastCalling") ~> (loop \in {"exited", "quit"})

\* The destructor does not wait for the reader for ever, whatever the reader was
\* doing when the application quit and whether or not the connection breaks.
DestructorTerminates == (loop = "quit") ~> (main = "destroyed")

\* The comment at the end of run(): once the connection has broken, the
\* dispatcher is woken and processXcbEvents() handles the error.
BrokenConnectionExits == broken ~> (loop \in {"exited", "quit"})
=============================================================================
