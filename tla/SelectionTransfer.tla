-------------------------- MODULE SelectionTransfer --------------------------
(***************************************************************************)
(* A selection transfer between two applications: QXcbClipboard             *)
(* ::getSelection() of the one that pastes, with clipboardReadProperty(),   *)
(* clipboardReadIncrementalProperty() and the requestor window, against the *)
(* owner of SelectionOwner.tla.  Both wait at most clipboard_timeout for    *)
(* each other.  A third client, not this code, asks for two targets at once *)
(* (MULTIPLE) or names CLIP_TEMPORARY.                                      *)
(***************************************************************************)
EXTENDS SelectionOwner

CONSTANTS Mixes,         \* bound: how many calls of getSelection() with how many
                         \* requests of the third client
          ForeignPairs,  \* what the third client may ask for; several pairs are a MULTIPLE
          QtSelection    \* _QT_SELECTION

ASSUME RequestsAssumption == Mixes \subseteq [own : Nat, foreign : Nat] /\ QtSelection \in Properties \ {ClipTemporary}
ASSUME NewWindowsAssumption == 0 \notin QtWindows /\ \A mix \in Mixes : 1 .. mix.own \subseteq QtWindows
ASSUME ForeignAssumption == ForeignPairs \subseteq Seq([target : Targets, property : Properties])

NoWindow == 0

VARIABLES
  m_requestor,         \* the window answers are asked to, or NoWindow
  m_incr_receive_time, \* when the INCR property was read
  stamps,              \* times of getTimestamp()'s notifications still in the queue
  prev_time,           \* the time of the last notification accepted
  at,                  \* where getSelection() is; idle between calls
  win, wanted,         \* its window and the target asked for
  tmp_buf, buf,        \* the part just read; the result so far
  calls, foreignCalls,
  (* auxiliary *)
  gaveUp,              \* windows on which no SelectionNotify came in time
  missing              \* the property was absent when its part was announced

timeVars == <<m_incr_receive_time, stamps>>
readVars == <<m_requestor, m_incr_receive_time, stamps, prev_time, at, win, wanted, tmp_buf, buf,
              calls, foreignCalls, gaveUp, missing>>
vars == <<serverVars, ownerVars, readVars>>

Init ==
  /\ OwnerInit
  /\ m_requestor = NoWindow /\ m_incr_receive_time = 0 /\ stamps = <<>> /\ prev_time = 0
  /\ at = "idle" /\ win = NoWindow /\ wanted = CHOOSE t \in Targets : TRUE
  /\ tmp_buf = <<>> /\ buf = <<>> /\ calls = 0 /\ foreignCalls = 0
  /\ gaveUp = {} /\ missing = FALSE

\* the first event that satisfies a test, out of the inbox
IsFirst(i, Test(_)) == Test(inbox[i]) /\ \A j \in 1 .. i - 1 : ~Test(inbox[j])
Answers(e)  == e.type = "SelectionNotify" /\ e.window = win
Announce(e) == e.type = "PropertyNotify" /\ e.window = win

NewWindow == CHOOSE w \in QtWindows : w = calls + 1

-----------------------------------------------------------------------------
(* getSelection().                                                          *)

\* requestor() creates a window if there is none; the request goes to the
\* owner, or is refused by the server if there is no owner
getSelection(t) ==
  /\ at = "idle" /\ \E mix \in Mixes : calls < mix.own /\ foreignCalls <= mix.foreign
  /\ LET w == IF m_requestor = NoWindow THEN NewWindow ELSE m_requestor
     IN /\ m_requestor' = w /\ win' = w
        /\ existing' = existing \cup {w}
        /\ property' = [property EXCEPT ![<<w, QtSelection>>] = NoValue]
        /\ LET deleted == property[<<w, QtSelection>>] # NoValue
               told == IF deleted THEN Append(inbox, PropertyNotify(w, QtSelection, "Delete")) ELSE inbox
               pair == [target |-> t, property |-> QtSelection]
           IN IF owner = "gone"
              THEN inbox' = Append(told, SelectionNotify(w, FALSE)) /\ UNCHANGED ownerInbox
              ELSE /\ inbox' = told
                   /\ ownerInbox' = Append(ToOwner(w, QtSelection), SelectionRequest(w, <<pair>>, FALSE))
  /\ at' = "answer" /\ wanted' = t /\ buf' = <<>> /\ missing' = FALSE /\ calls' = calls + 1
  /\ UNCHANGED <<watched, now, ownerVars, timeVars, prev_time, tmp_buf, foreignCalls, gaveUp>>

\* waitForClipboardEvent() returns null: there is no selection
AnswerTimesOut ==
  /\ at = "answer"
  /\ at' = "idle" /\ gaveUp' = gaveUp \cup {win}
  /\ UNCHANGED <<serverVars, ownerVars, m_requestor, timeVars, prev_time, win, wanted,
                 tmp_buf, buf, calls, foreignCalls, missing>>

Answered ==
  /\ at = "answer"
  /\ \E i \in DOMAIN inbox :
       /\ IsFirst(i, Answers) /\ inbox' = RemoveAt(inbox, i)
       /\ at' = IF inbox[i].answered THEN "read" ELSE "idle"
  /\ UNCHANGED <<property, existing, watched, now, ownerInbox, ownerVars, m_requestor,
                 timeVars, prev_time, win, wanted, tmp_buf, buf, calls, foreignCalls,
                 gaveUp, missing>>

\* getTimestamp(): a notification of CLIP_TEMPORARY on the root window is caused
\* and the first one in the queue is taken; the deletion of the property causes
\* another, which stays
getTimestamp ==
  LET seen == Append(stamps, now)
  IN m_incr_receive_time' = Head(seen) /\ stamps' = Append(Tail(seen), now)

\* clipboardReadProperty(): get the value, and of an INCR property the time
ReadProperty ==
  /\ at = "read"
  /\ LET value == property[<<win, QtSelection>>]
     IN /\ at' = IF value = NoValue THEN "idle" ELSE "delete"
        /\ tmp_buf' = value.parts
        /\ IF value.type = "INCR" THEN getTimestamp ELSE UNCHANGED timeVars
  /\ UNCHANGED <<serverVars, ownerVars, m_requestor, prev_time, win, wanted, buf, calls,
                 foreignCalls, gaveUp, missing>>

\* ... and delete it; a transfer by parts begins with the deletion
DeleteRead ==
  /\ at = "delete"
  /\ DeleteProperty(win, QtSelection) /\ ownerInbox' = ToOwner(win, QtSelection)
  /\ IF tmp_buf = Incr.parts
     THEN /\ at' = "parts" /\ prev_time' = m_incr_receive_time /\ UNCHANGED buf
     ELSE /\ at' = "idle" /\ buf' = tmp_buf /\ UNCHANGED prev_time
  /\ tmp_buf' = <<>>
  /\ UNCHANGED <<existing, watched, now, ownerVars, m_requestor, timeVars, win, wanted,
                 calls, foreignCalls, gaveUp, missing>>

-----------------------------------------------------------------------------
(* clipboardReadIncrementalProperty().                                      *)

\* mutant of IsNewPart: the time of the notification is not compared
AnyNewValue(e) == e.property = QtSelection /\ e.state = "NewValue"

IsNewPart(e) == e.property = QtSelection /\ e.state = "NewValue" /\ e.time >= prev_time

TakeNotification ==
  /\ at = "parts"
  /\ \E i \in DOMAIN inbox :
       /\ IsFirst(i, Announce) /\ inbox' = RemoveAt(inbox, i)
       /\ IF IsNewPart(inbox[i]) THEN at' = "readPart" /\ prev_time' = inbox[i].time
          ELSE UNCHANGED <<at, prev_time>>
  /\ UNCHANGED <<property, existing, watched, now, ownerInbox, ownerVars, m_requestor,
                 timeVars, win, wanted, tmp_buf, buf, calls, foreignCalls, gaveUp, missing>>

\* mutant of setRequestor: the window is kept
KeepRequestor == UNCHANGED <<m_requestor, existing, property>>

\* setRequestor(0): the window is destroyed with its properties
setRequestor ==
  /\ m_requestor' = NoWindow /\ existing' = existing \ {win}
  /\ property' = [property EXCEPT ![<<win, QtSelection>>] = NoValue]

\* mutant of BreakOff: what was read so far is returned
ReturnsWhatItHas ==
  /\ setRequestor
  /\ at' = "idle" /\ UNCHANGED buf
  /\ UNCHANGED <<watched, now, ownerInbox, inbox, ownerVars, timeVars, prev_time, win,
                 wanted, tmp_buf, calls, foreignCalls, gaveUp>>

\* the transfer is broken off: a new window next time, and no data
BreakOff ==
  /\ setRequestor
  /\ at' = "idle" /\ buf' = <<>>
  /\ UNCHANGED <<watched, now, ownerInbox, inbox, ownerVars, timeVars, prev_time, win,
                 wanted, tmp_buf, calls, foreignCalls, gaveUp>>

\* mutant of PartTimesOut: the wait for a part has no deadline
WaitsForever == FALSE /\ BreakOff /\ UNCHANGED missing

PartTimesOut == at = "parts" /\ BreakOff /\ UNCHANGED missing

PartMissing ==
  /\ at = "readPart" /\ property[<<win, QtSelection>>] = NoValue
  /\ BreakOff /\ missing' = TRUE

ReadPart ==
  /\ at = "readPart" /\ property[<<win, QtSelection>>] # NoValue
  /\ tmp_buf' = property[<<win, QtSelection>>].parts
  /\ IF property[<<win, QtSelection>>].type = "INCR" THEN getTimestamp ELSE UNCHANGED timeVars
  /\ at' = "deletePart"
  /\ UNCHANGED <<serverVars, ownerVars, m_requestor, prev_time, win, wanted, buf, calls,
                 foreignCalls, gaveUp, missing>>

\* a part of no length is the end
DeletePart ==
  /\ at = "deletePart"
  /\ DeleteProperty(win, QtSelection) /\ ownerInbox' = ToOwner(win, QtSelection)
  /\ at' = IF tmp_buf = <<>> THEN "idle" ELSE "parts"
  /\ buf' = buf \o tmp_buf /\ tmp_buf' = <<>>
  /\ UNCHANGED <<existing, watched, now, ownerVars, m_requestor, timeVars, prev_time,
                 win, wanted, calls, foreignCalls, gaveUp, missing>>

\* between calls processXcbEvents() takes what is left, for nobody
Discard ==
  /\ at = "idle" /\ inbox \o stamps # <<>>
  /\ inbox' = <<>> /\ stamps' = <<>>
  /\ UNCHANGED <<property, existing, watched, now, ownerInbox, ownerVars, m_requestor,
                 m_incr_receive_time, prev_time, at, win, wanted, tmp_buf, buf, calls,
                 foreignCalls, gaveUp, missing>>

-----------------------------------------------------------------------------
(* The third client.                                                        *)

ForeignRequests ==
  /\ owner # "gone" /\ \E mix \in Mixes : calls <= mix.own /\ foreignCalls < mix.foreign
  /\ \E ps \in ForeignPairs :
       ownerInbox' = Append(ownerInbox, SelectionRequest(ForeignWindow, ps, Len(ps) > 1))
  /\ foreignCalls' = foreignCalls + 1
  /\ UNCHANGED <<property, existing, watched, now, inbox, ownerVars, m_requestor,
                 timeVars, prev_time, at, win, wanted, tmp_buf, buf, calls, gaveUp, missing>>

\* it takes the value of a property by deleting it
ForeignTakes ==
  /\ \E p \in Properties :
       /\ property[<<ForeignWindow, p>>] # NoValue
       /\ DeleteProperty(ForeignWindow, p) /\ ownerInbox' = ToOwner(ForeignWindow, p)
  /\ UNCHANGED <<existing, watched, now, ownerVars, readVars>>

-----------------------------------------------------------------------------

RequestorStep ==
  \/ AnswerTimesOut \/ Answered \/ ReadProperty \/ DeleteRead
  \/ TakeNotification \/ PartTimesOut \/ PartMissing \/ ReadPart \/ DeletePart

Owner == (OwnerStep \/ Close \/ Exit) /\ UNCHANGED readVars

Next ==
  \/ \E t \in Targets : getSelection(t)
  \/ RequestorStep \/ Discard \/ Owner
  \/ Tick /\ UNCHANGED readVars
  \/ ForeignRequests \/ ForeignTakes

Spec == Init /\ [][Next]_vars

\* Both applications run their event loops, the waits are finite, and so is the
\* destructor of a clipboard.
Fairness ==
  /\ WF_vars(RequestorStep)
  /\ WF_vars(OwnerStep /\ UNCHANGED readVars) /\ WF_vars(timerEvent /\ UNCHANGED readVars)
  /\ WF_vars(owner = "closing" /\ Exit /\ UNCHANGED readVars)

FairSpec == Spec /\ Fairness

-----------------------------------------------------------------------------
(* Properties.                                                              *)

Values == {NoValue, Incr} \cup
          UNION {{Data(SubSeq(Content(t), i, j)) : i, j \in 1 .. Parts[t]} : t \in Targets}

\* The variables have their types; a transaction has sent no more than its data.
TypeOK ==
  /\ property \in [Windows \X Properties -> Values]
  /\ existing \subseteq Windows /\ watched \subseteq Windows
  /\ owner \in {"running", "closing", "gone"} /\ now \in 0 .. MaxTime
  /\ \A id \in DOMAIN transaction :
       /\ id \in 1 .. started /\ transaction[id].window \in Windows
       /\ transaction[id].offset \in 0 .. Len(transaction[id].data)
  /\ DOMAIN m_transactions \subseteq Windows
  /\ m_requestor \in QtWindows \cup {NoWindow}
  /\ at \in {"idle", "answer", "read", "delete", "parts", "readPart", "deletePart"}
  /\ {m_incr_receive_time, prev_time} \subseteq 0 .. MaxTime

\* m_transactions never holds a transaction that has deleted itself, and holds
\* each under its own window.
NoDanglingTransaction ==
  \A w \in DOMAIN m_transactions :
    /\ m_transactions[w] \in DOMAIN transaction
    /\ transaction[m_transactions[w]].window = w

\* getSelection() returns all of the data it asked for or nothing, however the
\* parts, the notifications and the timeouts of both sides fall; unless an
\* earlier answer to the same window came too late.
CompleteOrEmpty ==
  at = "idle" /\ win \notin gaveUp => buf \in {<<>>, Content(wanted)}

\* The property of an announced part is absent only if the INCR property was not
\* written before the time that getTimestamp() gave for its reading: it was in
\* the same millisecond, or that time is an old one.
MissingOnlyByTie ==
  missing /\ win \notin gaveUp => incrTime[win] >= m_incr_receive_time

\* The owner's notifications reach every transaction: no other has taken its
\* place in m_transactions, unless an answer came too late or the client asked
\* for several targets at once.
TransactionsReachable ==
  \A id \in DOMAIN transaction :
    LET w == transaction[id].window
    IN w \notin gaveUp \cup {ForeignWindow} => w \in DOMAIN m_transactions /\ m_transactions[w] = id

\* The owner never replaces a part that the requestor has not taken yet.
PartsAreNotOverwritten ==
  [][\A w \in QtWindows \ gaveUp :
       LET wp == <<w, QtSelection>>
       IN property[wp] # NoValue => property'[wp] \in {property[wp], NoValue}]_vars

\* The loop over the parts ends: getSelection() returns whatever the owner does.
GetSelectionReturns == at # "idle" ~> at = "idle"

\* Transactions end although their requestor stops asking or goes away, or they
\* were replaced in m_transactions.
TransactionsEnd == DOMAIN transaction # {} ~> DOMAIN transaction = {}

\* The comment in getTimestamp(): "send a dummy event to myself to get the
\* timestamp from X server", so that the INCR property, which is there when the
\* time is asked for, was not written after it.
TimestampIsFresh ==
  at = "delete" /\ tmp_buf = Incr.parts /\ win \notin gaveUp => incrTime[win] <= m_incr_receive_time

\* The comment in sendSelection(): no INCR transfers when using MULTIPLE, so that
\* one window never has two transactions of one request.
OneTransactionPerWindow ==
  \A i, j \in DOMAIN transaction :
    transaction[i].multiple /\ transaction[j].multiple /\ i # j
      => transaction[i].window # transaction[j].window
=============================================================================
