---------------------------- MODULE SelectionOwner ----------------------------
(***************************************************************************)
(* The giving side of a selection transfer: QXcbClipboard                   *)
(* ::handleSelectionRequest() and sendSelection(), the INCR transfers it    *)
(* starts (QXcbClipboardTransaction) and their abort timer, and as much of  *)
(* the X server as the two sides share: the properties of the requestors'   *)
(* windows, their notifications and the clock.  A request of a client is    *)
(* carried out by the server when it is issued: the requests of one step    *)
(* follow each other in one output buffer.                                  *)
(***************************************************************************)
EXTENDS Integers, Sequences, FiniteSets, SequencesExt

CONSTANTS Targets,        \* the formats of the owner's data
          Parts,          \* m_maxPropertyRequestDataBytes units of each format
          QtWindows,      \* requestor windows of the asking application
          ForeignWindow,  \* a window of a client that is not this code
          Properties,     \* properties a transfer may name
          ClipTemporary,  \* CLIP_TEMPORARY, which Motif clients name
          MaxTime         \* bound: the last time of the server's clock

Windows == QtWindows \cup {ForeignWindow}

ASSUME PartsAssumption == Parts \in [Targets -> Nat \ {0}]
ASSUME WindowsAssumption == QtWindows \subseteq Nat /\ ForeignWindow \notin QtWindows
ASSUME PropertiesAssumption == ClipTemporary \in Properties
ASSUME MaxTimeAssumption == MaxTime \in Nat

NoValue    == [type |-> "none", parts |-> <<>>]
Incr       == [type |-> "INCR", parts |-> <<<<"length", 0>>>>]
Data(ps)   == [type |-> "data", parts |-> ps]
Content(t) == [i \in 1 .. Parts[t] |-> <<t, i>>]

VARIABLES
  (* the server *)
  property,       \* of a window: its value
  existing,       \* the windows that exist
  watched,        \* the windows whose property changes the owner is told of
  now,            \* the server's clock
  ownerInbox,     \* events on their way to the owner
  inbox,          \* events on their way to the asking application
  (* the owner *)
  owner,          \* running, closing (in ~QXcbClipboard) or gone
  request,        \* the request being handled
  pairs,          \* its (target, property) pairs still to serve
  refused,        \* whether one of them was refused
  transaction,    \* the QXcbClipboardTransaction objects alive
  m_transactions, \* the object of each window
  (* auxiliary *)
  started,        \* how many transactions there were
  incrTime        \* when INCR was last written on a window

handlerVars == <<request, pairs, refused>>
ownerVars  == <<owner, handlerVars, transaction, m_transactions, started, incrTime>>
serverVars == <<property, existing, watched, now, ownerInbox, inbox>>

PropertyNotify(w, p, state) ==
  [type |-> "PropertyNotify", window |-> w, property |-> p, state |-> state, time |-> now]
SelectionNotify(w, answered) ==
  [type |-> "SelectionNotify", window |-> w, answered |-> answered]
SelectionRequest(w, ps, multiple) ==
  [type |-> "SelectionRequest", window |-> w, pairs |-> ps, multiple |-> multiple]
NoRequest == SelectionRequest(ForeignWindow, <<>>, FALSE)

OwnerInit ==
  /\ property = [wp \in Windows \X Properties |-> NoValue]
  /\ existing = {ForeignWindow} /\ watched = {} /\ now = 0
  /\ ownerInbox = <<>> /\ inbox = <<>>
  /\ owner = "running" /\ transaction = <<>> /\ m_transactions = <<>>
  /\ request = NoRequest /\ pairs = <<>> /\ refused = FALSE
  /\ started = 0 /\ incrTime = [w \in Windows |-> 0]

-----------------------------------------------------------------------------
(* The server's part.                                                       *)

\* the asking application receives what happens to its windows
Told(events, e) == IF e.window \in QtWindows THEN Append(events, e) ELSE events

Tick ==
  /\ now < MaxTime
  /\ now' = now + 1
  /\ UNCHANGED <<property, existing, watched, ownerInbox, inbox, ownerVars>>

\* xcb_delete_property() by the requestor; in the answer, what the owner is sent
DeleteProperty(w, p) ==
  /\ property' = [property EXCEPT ![<<w, p>>] = NoValue]
  /\ inbox' = IF property[<<w, p>>] = NoValue THEN inbox
              ELSE Told(inbox, PropertyNotify(w, p, "Delete"))

ToOwner(w, p) ==
  IF property[<<w, p>>] # NoValue /\ w \in watched /\ owner # "gone"
  THEN Append(ownerInbox, PropertyNotify(w, p, "Delete")) ELSE ownerInbox

-----------------------------------------------------------------------------
(* handleSelectionRequest(): one pair for a plain request, the pairs of the *)
(* requestor's property for MULTIPLE.  What is written back into that       *)
(* property for the refused ones is left out.                               *)

Free == owner = "running" /\ request = NoRequest

\* waitForClipboardEvent() serves a request ahead of older events of other kinds
FirstRequest(i) ==
  /\ ownerInbox[i].type = "SelectionRequest"
  /\ \A j \in 1 .. i - 1 : ownerInbox[j].type # "SelectionRequest"

\* no data, or the request is older than the ownership: refused at once
RefuseRequest ==
  /\ owner # "gone" /\ request = NoRequest
  /\ \E i \in DOMAIN ownerInbox :
       /\ FirstRequest(i) /\ ownerInbox' = RemoveAt(ownerInbox, i)
       /\ inbox' = Told(inbox, SelectionNotify(ownerInbox[i].window, FALSE))
  /\ UNCHANGED <<property, existing, watched, now, ownerVars>>

AcceptRequest ==
  /\ owner # "gone" /\ request = NoRequest
  /\ \E i \in DOMAIN ownerInbox :
       /\ FirstRequest(i) /\ ownerInbox' = RemoveAt(ownerInbox, i)
       /\ request' = ownerInbox[i] /\ pairs' = ownerInbox[i].pairs
  /\ refused' = FALSE
  /\ UNCHANGED <<property, existing, watched, now, inbox, owner, transaction, m_transactions,
                 started, incrTime>>

\* xcb_change_property(): an error if the window no longer exists
ChangeProperty(w, p, value) ==
  IF w \in existing
  THEN /\ property' = [property EXCEPT ![<<w, p>>] = value]
       /\ inbox' = Told(inbox, PropertyNotify(w, p, "NewValue"))
  ELSE UNCHANGED <<property, inbox>>

\* the constructor of QXcbClipboardTransaction, and m_transactions.insert()
NewTransaction(w, pair) ==
  LET id == started + 1
  IN /\ watched' = watched \cup ({w} \cap existing)
     /\ transaction' = [i \in DOMAIN transaction \cup {id} |->
                          IF i # id THEN transaction[i]
                          ELSE [window |-> w, property |-> pair.property, data |-> Content(pair.target),
                                offset |-> 0, multiple |-> request.multiple]]
     /\ m_transactions' = [v \in DOMAIN m_transactions \cup {w} |->
                             IF v = w THEN id ELSE m_transactions[v]]
     /\ started' = id /\ incrTime' = [incrTime EXCEPT ![w] = now]

\* neither to Motif clients nor from a clipboard that is closing
AllowIncr(p) == p # ClipTemporary /\ owner # "closing"

Fits(pair) == Parts[pair.target] = 1

SendAtOnce(pair) ==
  /\ Fits(pair)
  /\ ChangeProperty(request.window, pair.property, Data(Content(pair.target)))
  /\ UNCHANGED <<watched, transaction, m_transactions, started, incrTime, refused>>

SendByParts(pair) ==
  /\ ~Fits(pair) /\ AllowIncr(pair.property)
  /\ ChangeProperty(request.window, pair.property, Incr)
  /\ NewTransaction(request.window, pair)
  /\ UNCHANGED refused

\* no MIME type has the target, or the data are too large
SendNothing ==
  /\ refused' = TRUE
  /\ UNCHANGED <<property, inbox, watched, transaction, m_transactions, started, incrTime>>

\* mimeDataForAtom() fails: the answer names a property nobody has written
Unconverted == UNCHANGED <<property, inbox, watched, transaction, m_transactions, started, incrTime, refused>>

sendSelection ==
  /\ owner # "gone" /\ pairs # <<>>
  /\ SendAtOnce(Head(pairs)) \/ SendByParts(Head(pairs)) \/ SendNothing \/ Unconverted
  /\ pairs' = Tail(pairs)
  /\ UNCHANGED <<existing, now, ownerInbox, owner, request>>

AnswerRequest ==
  /\ owner # "gone" /\ request # NoRequest /\ pairs = <<>>
  /\ inbox' = Told(inbox, SelectionNotify(request.window, request.multiple \/ ~refused))
  /\ request' = NoRequest /\ refused' = FALSE
  /\ UNCHANGED <<property, existing, watched, now, ownerInbox, owner, pairs, transaction,
                 m_transactions, started, incrTime>>

-----------------------------------------------------------------------------
(* QXcbClipboardTransaction.                                                *)

\* mutant of Destroyed: the destructor does not remove the entry
LeavesEntry(id) ==
  /\ transaction' = [i \in DOMAIN transaction \ {id} |-> transaction[i]]
  /\ UNCHANGED m_transactions

\* mutant of Destroyed: the destructor removes every entry
ClearsMap(id) ==
  /\ transaction' = [i \in DOMAIN transaction \ {id} |-> transaction[i]]
  /\ m_transactions' = <<>>

\* the destructor: removeTransaction() erases whatever the window has
Destroyed(id) ==
  /\ transaction' = [i \in DOMAIN transaction \ {id} |-> transaction[i]]
  /\ m_transactions' = [w \in DOMAIN m_transactions \ {transaction[id].window} |-> m_transactions[w]]

PartSent(id) ==
  /\ transaction' = [transaction EXCEPT ![id].offset = @ + 1]
  /\ UNCHANGED <<watched, m_transactions>>

\* the end of the data was put: the window is no longer watched
Completed(id) ==
  /\ watched' = watched \ {transaction[id].window}
  /\ Destroyed(id)

\* handlePropertyNotify(): the transaction of the window, 0 for none
Addressed(e) == IF e.window \in DOMAIN m_transactions THEN m_transactions[e.window] ELSE 0

\* updateIncrementalProperty(): the requestor has deleted the property, so the
\* next part, or the empty end of the data, is put
updateIncrementalProperty(id) ==
  LET t == transaction[id]
      bytes == IF t.offset = Len(t.data) THEN <<>> ELSE <<t.data[t.offset + 1]>>
  IN /\ ChangeProperty(t.window, t.property, Data(bytes))
     /\ IF bytes # <<>> THEN PartSent(id) ELSE Completed(id)

handlePropertyNotify ==
  /\ Free /\ ownerInbox # <<>> /\ Head(ownerInbox).type = "PropertyNotify"
  /\ ownerInbox' = Tail(ownerInbox)
  /\ LET id == Addressed(Head(ownerInbox))
     IN IF id # 0 /\ transaction[id].property = Head(ownerInbox).property
        THEN updateIncrementalProperty(id)
        ELSE UNCHANGED <<property, watched, inbox, transaction, m_transactions>>
  /\ UNCHANGED <<existing, now, owner, handlerVars, started, incrTime>>

\* mutant of AbortTimer: the timer is not restarted for the second part
TimerOnce(id) == transaction[id].offset = 0

\* m_abortTimerId runs from the construction and again from every part
AbortTimer(id) == id \in DOMAIN transaction

timerEvent ==
  /\ Free
  /\ \E id \in DOMAIN transaction :
       AbortTimer(id) /\ Destroyed(id)
  /\ UNCHANGED <<serverVars, owner, handlerVars, started, incrTime>>

-----------------------------------------------------------------------------
(* ~QXcbClipboard: while the clipboard manager fetches the content only     *)
(* requests are served; then the application is gone, as it is at a crash.  *)

Close ==
  /\ Free
  /\ owner' = "closing"
  /\ UNCHANGED <<serverVars, handlerVars, transaction, m_transactions, started, incrTime>>

Exit ==
  /\ owner # "gone"
  /\ owner' = "gone" /\ ownerInbox' = <<>> /\ watched' = {}
  /\ transaction' = <<>> /\ m_transactions' = <<>>
  /\ request' = NoRequest /\ pairs' = <<>> /\ refused' = FALSE
  /\ UNCHANGED <<property, existing, now, inbox, started, incrTime>>

OwnerStep ==
  \/ RefuseRequest \/ AcceptRequest \/ sendSelection \/ AnswerRequest
  \/ handlePropertyNotify \/ timerEvent
=============================================================================
