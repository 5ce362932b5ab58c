---------------------------- MODULE EventChannel ----------------------------
(***************************************************************************)
(* What QXcbEventQueue promises its callers, with no nodes, threads or      *)
(* locks: the reader publishes events, a flush makes what is published      *)
(* visible, and the main thread takes visible events in order.  User input  *)
(* that a caller excludes is parked and comes out first when it is next     *)
(* admitted.  A peeker may withdraw any visible event.                      *)
(***************************************************************************)
EXTENDS Integers, Sequences, FiniteSets

CONSTANT MaxEvents

Events == 1 .. MaxEvents

VARIABLES userInput,  \* the events isUserInputEvent() holds of
          published,  \* events 1 .. published have been published
          pending,    \* published and not yet consumed
          visible,    \* the first so many of pending can be taken
          parked,     \* m_inputEvents
          taken,      \* returned by takeFirst(), in order
          removed     \* withdrawn by peekers

vars == <<userInput, published, pending, visible, parked, taken, removed>>

Init ==
  /\ userInput \in SUBSET Events
  /\ published = 0 /\ pending = <<>> /\ visible = 0
  /\ parked = <<>> /\ taken = <<>> /\ removed = {}

Publish ==
  /\ published < MaxEvents
  /\ published' = published + 1
  /\ pending' = Append(pending, published')
  /\ UNCHANGED <<userInput, visible, parked, taken, removed>>

Reveal ==
  /\ visible' = Len(pending)
  /\ UNCHANGED <<userInput, published, pending, parked, taken, removed>>

Take ==
  /\ visible > 0
  /\ parked = <<>> \/ Head(pending) \notin userInput
  /\ taken' = Append(taken, Head(pending))
  /\ pending' = Tail(pending) /\ visible' = visible - 1
  /\ UNCHANGED <<userInput, published, parked, removed>>

Park ==
  /\ visible > 0 /\ Head(pending) \in userInput
  /\ parked' = Append(parked, Head(pending))
  /\ pending' = Tail(pending) /\ visible' = visible - 1
  /\ UNCHANGED <<userInput, published, taken, removed>>

TakeParked ==
  /\ parked # <<>>
  /\ taken' = Append(taken, Head(parked)) /\ parked' = Tail(parked)
  /\ UNCHANGED <<userInput, published, pending, visible, removed>>

Withdraw ==
  /\ \E i \in 1 .. visible :
       /\ pending' = SubSeq(pending, 1, i - 1) \o SubSeq(pending, i + 1, Len(pending))
       /\ removed' = removed \cup {pending[i]}
  /\ visible' = visible - 1
  /\ UNCHANGED <<userInput, published, parked, taken>>

Next == Publish \/ Reveal \/ Take \/ Park \/ TakeParked \/ Withdraw

Spec == Init /\ [][Next]_vars
=============================================================================
