---------------------------- MODULE ClipboardWait ----------------------------
(***************************************************************************)
(* QXcbClipboard::waitForClipboardEvent(): the main thread waits up to five *)
(* seconds for one event (a SelectionNotify or PropertyNotify for its       *)
(* window), serves the selection requests of other clients meanwhile, and   *)
(* sleeps in QXcbEventQueue::waitForNewEvents() between two looks.  The     *)
(* queue is EventQueue.tla with its reader thread; the main thread does     *)
(* nothing else while it waits.                                             *)
(***************************************************************************)
EXTENDS EventQueue

CONSTANTS Awaited,      \* the events the first peeker accepts
          Requests,     \* SelectionRequest and SelectionClear events
          CheckManager  \* checkManager: give up when nobody owns CLIPBOARD_MANAGER

ASSUME WaitAssumption ==
  Awaited \subseteq Events /\ Requests \subseteq Events \ Awaited /\ CheckManager \in BOOLEAN

VARIABLES wait,    \* where waitForClipboardEvent() is
          late,    \* timer.elapsed() >= clipboard_timeout
          result,  \* the event returned
          served   \* the requests given to handleXcbEvent(), in order

waitVars == <<wait, late, result, served>>
waitAll  == <<vars, waitVars>>

WaitInit ==
  /\ Init
  /\ wait = "begin" /\ late = FALSE /\ result = NoEvent /\ served = <<>>

Look(from, walk, done) ==
  /\ wait = from
  /\ peek("PeekRemoveMatch")
  /\ wait' = IF main' = "peek" THEN walk ELSE done
  /\ UNCHANGED <<late, result, served>>

Miss(walk, accepted, done) ==
  /\ wait = walk /\ event[cursor] \notin accepted
  /\ PeekMiss
  /\ wait' = IF main' = "idle" THEN done ELSE walk
  /\ UNCHANGED <<late, result, served>>

LookForAwaited == Look("begin", "awaited", "manager") \/ Miss("awaited", Awaited, "manager")

FoundAwaited ==
  /\ wait = "awaited" /\ event[cursor] \in Awaited
  /\ PeekMatch
  /\ result' = event[cursor] /\ wait' = "found"
  /\ UNCHANGED <<late, served>>

\* the round trip to the X server that looks for the clipboard manager
CheckOwner ==
  /\ wait = "manager"
  /\ \/ wait' = "requests"
     \/ CheckManager /\ wait' = "noOwner"
  /\ UNCHANGED <<vars, late, result, served>>

LookForRequest ==
  Look("requests", "request", "sleep") \/ Miss("request", Requests, "sleep")

\* mutant of ServeRequest: the type of the event is not tested
ServeAnything ==
  /\ wait = "request" /\ event[cursor] # NoEvent
  /\ PeekMatch
  /\ served' = Append(served, event[cursor]) /\ wait' = "sleep"
  /\ UNCHANGED <<late, result>>

ServeRequest ==
  /\ wait = "request" /\ event[cursor] \in Requests
  /\ PeekMatch
  /\ served' = Append(served, event[cursor]) /\ wait' = "sleep"
  /\ UNCHANGED <<late, result>>

Sleep ==
  /\ wait = "sleep"
  /\ IF late THEN UNCHANGED vars ELSE waitForNewEvents
  /\ wait' = "again"
  /\ UNCHANGED <<late, result, served>>

SleepTimesOut ==
  /\ wait = "again"
  /\ WaitTimesOut
  /\ late' = TRUE /\ UNCHANGED <<wait, result, served>>

SleepReturns ==
  /\ wait = "again"
  /\ WaitReturns
  /\ UNCHANGED waitVars

\* mutant of LoopOrGiveUp: the time spent asleep is not counted
LoopForEver ==
  /\ wait = "again" /\ main = "idle"
  /\ wait' = "begin" /\ late' = FALSE
  /\ UNCHANGED <<vars, result, served>>

LoopOrGiveUp ==
  /\ wait = "again" /\ main = "idle"
  /\ wait' = IF late THEN "timeout" ELSE "begin"
  /\ UNCHANGED <<vars, late, result, served>>

TimePasses == ~late /\ late' = TRUE /\ UNCHANGED <<vars, wait, result, served>>

WaitStep ==
  \/ LookForAwaited \/ FoundAwaited \/ CheckOwner \/ LookForRequest \/ ServeRequest
  \/ Sleep \/ SleepTimesOut \/ SleepReturns \/ LoopOrGiveUp

Other == (ServerSends \/ ConnectionBreaks \/ ReaderStep) /\ UNCHANGED waitVars

WaitOver == wait \in {"found", "noOwner", "timeout"} /\ UNCHANGED waitAll

WaitNext == WaitStep \/ TimePasses \/ Other \/ WaitOver

\* The threads run, QWaitCondition::wait() has a timeout, and so has the loop.
WaitFairness ==
  /\ WF_waitAll(WaitStep) /\ WF_waitAll(TimePasses)
  /\ WF_waitAll(ReaderStep /\ UNCHANGED waitVars)

WaitSpec == WaitInit /\ [][WaitNext]_waitAll /\ WaitFairness

-----------------------------------------------------------------------------
(* Properties.                                                              *)

\* Requests and clears of other clients, handled ahead of the rest of the
\* queue, are handled in the order the server sent them, each once: a clear
\* handled before an earlier request would refuse what must be served.
ServedInOrder ==
  /\ \A i, j \in DOMAIN served : i < j => served[i] < served[j]
  /\ \A i \in DOMAIN served : served[i] \in removed

\* The wait neither handles nor loses the event it waits for: until it is
\* returned it stays in the list, and only one is taken out.
AwaitedIsKept ==
  /\ removed \cap Awaited = {result} \ {NoEvent}
  /\ \A n \in Awaited : n < Len(order) /\ n # result =>
       \E p \in headPos .. Len(order) : event[order[p]] = n

\* Whatever happens to the reader or the connection, the wait ends.
WaitEnds == <>(wait \in {"found", "noOwner", "timeout"})

Visible == {event[order[p]] : p \in headPos .. flushPos}

\* The loop exists to return "the waited for event" once it has arrived: it
\* does not go to sleep when that event is already in the flushed part of the
\* list.
NeverSleepsOnAwaited == main = "waiting" => Visible \cap Awaited = {}
=============================================================================
