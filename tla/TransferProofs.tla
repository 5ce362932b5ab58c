---------------------------- MODULE TransferProofs ----------------------------
(***************************************************************************)
(* Proofs about SelectionTransfer for any formats, sizes, windows, requests *)
(* and times: what is under way for the window of getSelection() is one     *)
(* request, or one answer, or one part at a time, and what was read and     *)
(* what is in the property are what the transaction has sent.               *)
(***************************************************************************)
EXTENDS SelectionTransfer, SequenceTheorems, TLAPS

(* The owner's transactions, and the map that finds them.                   *)

\* The objects alive are numbered by their construction, and each has a window.
Objects ==
  /\ started \in Nat
  /\ DOMAIN transaction \subseteq 1 .. started
  /\ \A id \in DOMAIN transaction : {"window", "offset"} \subseteq DOMAIN transaction[id]

TInv == Objects /\ NoDanglingTransaction

-----------------------------------------------------------------------------

\* What the three operations on transactions keep, from the state before: these
\* are the whole of what the owner does to its map.
LEMMA NewTransactionKeeps ==
  ASSUME TInv, NEW w, NEW pair, NewTransaction(w, pair)
  PROVE  TInv'
<1>1. /\ started + 1 \notin DOMAIN transaction
      /\ DOMAIN transaction' = DOMAIN transaction \cup {started + 1}
      /\ \A i \in DOMAIN transaction : transaction'[i] = transaction[i]
      /\ transaction'[started + 1].window = w
      /\ {"window", "offset"} \subseteq DOMAIN transaction'[started + 1]
  BY DEF NewTransaction, TInv, Objects
<1>2. /\ DOMAIN m_transactions' = DOMAIN m_transactions \cup {w}
      /\ \A v \in DOMAIN m_transactions' :
           m_transactions'[v] = IF v = w THEN started + 1 ELSE m_transactions[v]
  BY DEF NewTransaction
<1>3. Objects'
  BY <1>1 DEF NewTransaction, TInv, Objects
<1>4. NoDanglingTransaction'
  BY <1>1, <1>2 DEF TInv, NoDanglingTransaction
<1>5. QED
  BY <1>3, <1>4 DEF TInv

\* The destructor erases the entry of its window.  No other entry holds the
\* object, since each entry holds one of its own window.
LEMMA DestroyedKeeps ==
  ASSUME TInv, NEW id \in DOMAIN transaction, Destroyed(id), UNCHANGED started
  PROVE  TInv'
<1>1. /\ DOMAIN transaction' = DOMAIN transaction \ {id}
      /\ \A i \in DOMAIN transaction' : transaction'[i] = transaction[i]
  BY DEF Destroyed
<1>2. /\ DOMAIN m_transactions' = DOMAIN m_transactions \ {transaction[id].window}
      /\ \A w \in DOMAIN m_transactions' : m_transactions'[w] = m_transactions[w]
  BY DEF Destroyed
<1>3. \A w \in DOMAIN m_transactions' : m_transactions[w] # id
  BY <1>2 DEF TInv, NoDanglingTransaction
<1>4. QED
  BY <1>1, <1>2, <1>3 DEF TInv, Objects, NoDanglingTransaction

LEMMA PartSentKeeps ==
  ASSUME TInv, NEW id \in DOMAIN transaction, PartSent(id), UNCHANGED started
  PROVE  TInv'
<1>1. /\ DOMAIN transaction' = DOMAIN transaction
      /\ \A i \in DOMAIN transaction : DOMAIN transaction'[i] = DOMAIN transaction[i]
      /\ \A i \in DOMAIN transaction : transaction'[i].window = transaction[i].window
  BY DEF PartSent, TInv, Objects
<1>2. QED
  BY <1>1 DEF PartSent, TInv, Objects, NoDanglingTransaction

-----------------------------------------------------------------------------

LEMMA TInvInit == Init => TInv
BY DEF Init, OwnerInit, TInv, Objects, NoDanglingTransaction

LEMMA OwnerStepKeeps ==
  ASSUME TInv, Owner
  PROVE  TInv'
<1>1. CASE RefuseRequest
  BY <1>1 DEF RefuseRequest, ownerVars, TInv, Objects, NoDanglingTransaction
<1>2. CASE AcceptRequest
  BY <1>2 DEF AcceptRequest, TInv, Objects, NoDanglingTransaction
<1>3. CASE sendSelection
  <2>1. CASE SendByParts(Head(pairs))
    BY <2>1, NewTransactionKeeps DEF SendByParts
  <2>2. CASE SendAtOnce(Head(pairs)) \/ SendNothing \/ Unconverted
    BY <2>2 DEF SendAtOnce, SendNothing, Unconverted, TInv, Objects, NoDanglingTransaction
  <2>3. QED
    BY <1>3, <2>1, <2>2 DEF sendSelection
<1>4. CASE AnswerRequest
  BY <1>4 DEF AnswerRequest, TInv, Objects, NoDanglingTransaction
<1>5. CASE handlePropertyNotify
  <2> DEFINE id == Addressed(Head(ownerInbox))
  <2>1. CASE UNCHANGED <<transaction, m_transactions>>
    BY <1>5, <2>1 DEF handlePropertyNotify, TInv, Objects, NoDanglingTransaction
  <2>2. CASE id # 0 /\ updateIncrementalProperty(id)
    <3>1. id \in DOMAIN transaction
      BY <2>2 DEF Addressed, TInv, NoDanglingTransaction
    <3>2. CASE PartSent(id)
      BY <1>5, <3>1, <3>2, PartSentKeeps DEF handlePropertyNotify
    <3>3. CASE Destroyed(id)
      BY <1>5, <3>1, <3>3, DestroyedKeeps DEF handlePropertyNotify
    <3>4. QED
      BY <2>2, <3>2, <3>3 DEF updateIncrementalProperty, Completed
  <2>3. QED
    BY <1>5, <2>1, <2>2 DEF handlePropertyNotify
<1>6. CASE timerEvent
  BY <1>6, DestroyedKeeps DEF timerEvent
<1>7. CASE Close
  BY <1>7 DEF Close, TInv, Objects, NoDanglingTransaction
<1>8. CASE Exit
  BY <1>8 DEF Exit, TInv, Objects, NoDanglingTransaction
<1>9. QED
  BY <1>1, <1>2, <1>3, <1>4, <1>5, <1>6, <1>7, <1>8 DEF Owner, OwnerStep

\* Nothing but the owner's own steps touches its transactions.
LEMMA OthersLeaveTransactions ==
  ASSUME [Next]_vars, ~Owner
  PROVE  UNCHANGED <<started, transaction, m_transactions>>
<1>1. CASE \E t \in Targets : getSelection(t)
  BY <1>1 DEF getSelection, ownerVars
<1>2. CASE RequestorStep
  BY <1>2 DEF RequestorStep, AnswerTimesOut, Answered, ReadProperty, DeleteRead, TakeNotification,
     PartTimesOut, PartMissing, BreakOff, ReadPart, DeletePart, ownerVars
<1>3. CASE Discard \/ (Tick /\ UNCHANGED readVars) \/ ForeignRequests \/ ForeignTakes \/ UNCHANGED vars
  BY <1>3 DEF Discard, Tick, ForeignRequests, ForeignTakes, ownerVars, vars
<1>4. QED
  BY <1>1, <1>2, <1>3 DEF Next

LEMMA TInvNext == TInv /\ [Next]_vars => TInv'
<1> SUFFICES ASSUME TInv, [Next]_vars PROVE TInv'
  OBVIOUS
<1>1. CASE Owner
  BY <1>1, OwnerStepKeeps
<1>2. CASE ~Owner
  BY <1>2, OthersLeaveTransactions DEF TInv, Objects, NoDanglingTransaction
<1>3. QED
  BY <1>1, <1>2

\* m_transactions never holds a transaction that has deleted itself, whatever
\* requests arrive, and in whatever order notifications and abort timers fall:
\* handlePropertyNotify() never calls a dead object.
THEOREM TransactionsNeverDangle == Spec => []NoDanglingTransaction
<1>1. Spec => []TInv
  BY TInvInit, TInvNext, PTL DEF Spec
<1>2. TInv => NoDanglingTransaction
  BY DEF TInv
<1>3. QED
  BY <1>1, <1>2, PTL
-----------------------------------------------------------------------------
(* What is under way, and what was sent.                                    *)

Chunk        == (Targets \cup {"length"}) \X Nat
Value        == [type : {"none", "INCR", "data"}, parts : Seq(Chunk)]
Pair         == [target : Targets, property : Properties]
Request      == [type : {"SelectionRequest"}, window : Windows, pairs : Seq(Pair),
                 multiple : BOOLEAN]
Notification == [type : {"PropertyNotify"}, window : Windows, property : Properties,
                 state : {"NewValue", "Delete"}, time : Nat]
Answer       == [type : {"SelectionNotify"}, window : Windows, answered : BOOLEAN]
Transaction  == [window : Windows, property : Properties, data : Seq(Chunk), offset : Nat,
                 multiple : BOOLEAN]

OwnerEvent == Request \cup Notification
Event      == Answer \cup Notification

Places == {"idle", "answer", "read", "delete", "parts", "readPart", "deletePart"}

Types ==
  /\ property \in [Windows \X Properties -> Value]
  /\ ownerInbox \in Seq(OwnerEvent) /\ inbox \in Seq(Event) /\ now \in Nat
  /\ request \in Request /\ pairs \in Seq(Pair)
  /\ \A id \in DOMAIN transaction :
       transaction[id] \in Transaction /\ transaction[id].offset <= Len(transaction[id].data)
  /\ m_requestor \in QtWindows \cup {NoWindow} /\ at \in Places
  /\ buf \in Seq(Chunk) /\ tmp_buf \in Seq(Chunk)
  /\ calls \in Nat /\ gaveUp \subseteq QtWindows

(* What is under way for a window w.                                        *)

None(type, w, q)   == \A i \in DOMAIN q : ~(q[i].type = type /\ q[i].window = w)
Single(type, w, q) ==
  \A i, j \in DOMAIN q :
    q[i].type = type /\ q[i].window = w /\ q[j].type = type /\ q[j].window = w => i = j

Prop(w) == property[<<w, QtSelection>>]
Mine(w) == {id \in DOMAIN transaction : transaction[id].window = w}

NotAsked(w) == None("SelectionRequest", w, ownerInbox) /\ request.window # w

Unserved(w) ==
  /\ Prop(w) = NoValue /\ Mine(w) = {} /\ w \notin watched
  /\ None("PropertyNotify", w, ownerInbox)

Unused(w) == NotAsked(w) /\ None("SelectionNotify", w, inbox) /\ Unserved(w)
Left(w)   == NotAsked(w) /\ w \notin existing

AskedFor == <<[target |-> wanted, property |-> QtSelection]>>

\* The data were put, or INCR, or nothing; no part was asked for.
Served(w) ==
  /\ None("PropertyNotify", w, ownerInbox)
  /\ Prop(w) \in {NoValue, Incr, Data(Content(wanted))}
  /\ Prop(w) # Incr => Mine(w) = {} /\ w \notin watched
  /\ \A id \in Mine(w) : /\ transaction[id].property = QtSelection
                         /\ transaction[id].data = Content(wanted) /\ transaction[id].offset = 0

\* The request is on its way, in the owner's hands, or answered.
Asking(w) ==
  /\ Served(w)
  /\ Single("SelectionRequest", w, ownerInbox) /\ Single("SelectionNotify", w, inbox)
  /\ \A i \in DOMAIN ownerInbox :
       ownerInbox[i].type = "SelectionRequest" /\ ownerInbox[i].window = w
         => /\ ownerInbox[i].pairs = AskedFor /\ ~ownerInbox[i].multiple
            /\ request.window # w /\ Unserved(w) /\ None("SelectionNotify", w, inbox)
  /\ request.window = w => /\ ~request.multiple /\ pairs \in {<<>>, AskedFor}
                           /\ refused \/ pairs # <<>> => Unserved(w)
                           /\ ~refused \/ pairs = <<>>
                           /\ None("SelectionNotify", w, inbox)
  /\ \A i \in DOMAIN inbox :
       inbox[i].type = "SelectionNotify" /\ inbox[i].window = w /\ ~inbox[i].answered
         => Unserved(w)

\* Parts are asked for by the deletion of the last, put, and read.
Moving(w) ==
  /\ Single("PropertyNotify", w, ownerInbox)
  /\ Prop(w) = NoValue \/ Prop(w) = Data(Prop(w).parts)
  /\ Prop(w) # NoValue => None("PropertyNotify", w, ownerInbox)
  /\ \A id \in Mine(w) :
       /\ transaction[id].property = QtSelection /\ transaction[id].data = Content(wanted)
       /\ buf \o Prop(w).parts = SubSeq(Content(wanted), 1, transaction[id].offset)
  /\ Prop(w) = Data(<<>>) => Mine(w) = {} /\ w \notin watched /\ buf = Content(wanted)

Phase(w) ==
  /\ w \in existing
  /\ at = "idle" => Unused(w)
  /\ at = "answer" => Asking(w)
  /\ at \notin {"idle", "answer"} => NotAsked(w) /\ None("SelectionNotify", w, inbox)
  /\ at \in {"read", "delete"} => Served(w)
  /\ at \in {"answer", "read", "delete"} => buf = <<>>
  /\ at = "delete" => Prop(w) # NoValue /\ tmp_buf = Prop(w).parts
  /\ at \in {"parts", "readPart", "deletePart"} => Moving(w)
  /\ at = "deletePart" => Prop(w) = Data(tmp_buf)

Reached(w) == \A id \in Mine(w) : w \in DOMAIN m_transactions /\ m_transactions[w] = id

Orderly(w) ==
  /\ Reached(w)
  /\ w > calls => Unused(w) /\ w \notin existing
  /\ w <= calls /\ w # m_requestor => Left(w)
  /\ w = m_requestor => Phase(w)

\* The windows made so far are those up to calls, and the last is used.
Known ==
  /\ m_requestor <= calls /\ \A w \in gaveUp : w <= calls
  /\ at # "idle" => win = m_requestor /\ m_requestor # NoWindow /\ wanted \in Targets

XInv == Types /\ TInv /\ Known /\ CompleteOrEmpty /\ \A w \in QtWindows \ gaveUp : Orderly(w)

-----------------------------------------------------------------------------
(* The queues.                                                              *)

\* Of the events of a kind, r has none but those of q.
Fewer(type, w, q, r) ==
  /\ \A j \in DOMAIN r : r[j].type = type /\ r[j].window = w => \E i \in DOMAIN q : q[i] = r[j]
  /\ Single(type, w, q) => Single(type, w, r)

LEMMA FewerThanNone ==
  ASSUME NEW type, NEW w, NEW q, NEW r, Fewer(type, w, q, r), None(type, w, q)
  PROVE  None(type, w, r)
BY DEF Fewer, None

LEMMA SameIsFewer ==
  ASSUME NEW type, NEW w, NEW q PROVE Fewer(type, w, q, q)
BY DEF Fewer

LEMMA EmptyIsFewer ==
  ASSUME NEW type, NEW w, NEW q PROVE Fewer(type, w, q, <<>>)
BY DEF Fewer, Single

LEMMA FewerIsTransitive ==
  ASSUME NEW type, NEW w, NEW q, NEW r, NEW s, Fewer(type, w, q, r), Fewer(type, w, r, s)
  PROVE  Fewer(type, w, q, s)
<1>1. ASSUME NEW j \in DOMAIN s, s[j].type = type, s[j].window = w
      PROVE  \E i \in DOMAIN q : q[i] = s[j]
  <2>1. PICK k \in DOMAIN r : r[k] = s[j]
    BY <1>1 DEF Fewer
  <2>2. QED
    BY <1>1, <2>1 DEF Fewer
<1>2. QED
  BY <1>1 DEF Fewer

LEMMA AppendIs ==
  ASSUME NEW S, NEW q \in Seq(S), NEW e \in S
  PROVE  /\ Append(q, e) \in Seq(S) /\ DOMAIN q = 1 .. Len(q) /\ Len(q) \in Nat
         /\ DOMAIN Append(q, e) = 1 .. Len(q) + 1
         /\ \A k \in 1 .. Len(q) : Append(q, e)[k] = q[k]
         /\ Append(q, e)[Len(q) + 1] = e
OBVIOUS

LEMMA AppendIsFewer ==
  ASSUME NEW S, NEW q \in Seq(S), NEW e \in S, NEW type, NEW w, ~(e.type = type /\ e.window = w)
  PROVE  Fewer(type, w, q, Append(q, e))
<1> DEFINE r == Append(q, e)
<1>1. /\ DOMAIN q = 1 .. Len(q) /\ Len(q) \in Nat /\ DOMAIN r = 1 .. Len(q) + 1
      /\ \A k \in 1 .. Len(q) : r[k] = q[k]
      /\ r[Len(q) + 1] = e
  BY AppendIs
<1> HIDE DEF r
<1>2. \A k \in DOMAIN r : r[k].type = type /\ r[k].window = w => k \in DOMAIN q /\ r[k] = q[k]
  <2> SUFFICES ASSUME NEW k \in DOMAIN r, r[k].type = type, r[k].window = w
               PROVE  k \in DOMAIN q /\ r[k] = q[k]
    OBVIOUS
  <2>1. k # Len(q) + 1
    BY <1>1
  <2>2. k \in 1 .. Len(q)
    BY <1>1, <2>1
  <2>3. QED
    BY <1>1, <2>2
<1>3. Fewer(type, w, q, r)
  BY <1>2 DEF Fewer, Single
<1>4. QED
  BY <1>3 DEF r

LEMMA AppendToNone ==
  ASSUME NEW S, NEW q \in Seq(S), NEW e \in S, NEW type, NEW w, None(type, w, q)
  PROVE  /\ Single(type, w, Append(q, e))
         /\ \A k \in DOMAIN Append(q, e) :
              Append(q, e)[k].type = type /\ Append(q, e)[k].window = w => Append(q, e)[k] = e
<1> DEFINE r == Append(q, e)
<1>1. /\ DOMAIN q = 1 .. Len(q) /\ Len(q) \in Nat /\ DOMAIN r = 1 .. Len(q) + 1
      /\ \A k \in 1 .. Len(q) : r[k] = q[k]
      /\ r[Len(q) + 1] = e
  BY AppendIs
<1> HIDE DEF r
<1>2. \A k \in DOMAIN r : r[k].type = type /\ r[k].window = w => k = Len(q) + 1
  <2> SUFFICES ASSUME NEW k \in DOMAIN r, k # Len(q) + 1
               PROVE  ~(r[k].type = type /\ r[k].window = w)
    OBVIOUS
  <2>1. k \in 1 .. Len(q)
    BY <1>1
  <2>2. QED
    BY <1>1, <2>1 DEF None
<1>3. Single(type, w, r) /\ \A k \in DOMAIN r : r[k].type = type /\ r[k].window = w => r[k] = e
  BY <1>1, <1>2 DEF Single
<1>4. QED
  BY <1>3 DEF r

LEMMA RemoveIs ==
  ASSUME NEW S, NEW q \in Seq(S), NEW i \in DOMAIN q
  PROVE  /\ RemoveAt(q, i) \in Seq(S)
         /\ \A k \in DOMAIN RemoveAt(q, i) :
              LET o == IF k < i THEN k ELSE k + 1
              IN o \in DOMAIN q \ {i} /\ RemoveAt(q, i)[k] = q[o]
<1> DEFINE before == SubSeq(q, 1, i - 1)
           after  == SubSeq(q, i + 1, Len(q))
           r == before \o after
<1>1. i \in Nat /\ Len(q) \in Nat /\ 1 <= i /\ i <= Len(q) /\ DOMAIN q = 1 .. Len(q)
  OBVIOUS
<1>2. /\ before \in Seq(S) /\ Len(before) = i - 1
      /\ \A k \in 1 .. i - 1 : before[k] = q[k]
  OBVIOUS
<1>3. /\ after \in Seq(S) /\ Len(after) = Len(q) - i
      /\ \A k \in 1 .. Len(q) - i : after[k] = q[i + k]
  OBVIOUS
<1> HIDE DEF before, after
<1>4. /\ r \in Seq(S) /\ Len(r) = Len(q) - 1
      /\ \A k \in 1 .. Len(before) + Len(after) :
           r[k] = IF k <= Len(before) THEN before[k] ELSE after[k - Len(before)]
  <2>1. /\ r \in Seq(S) /\ Len(r) = Len(before) + Len(after)
        /\ \A k \in 1 .. Len(before) + Len(after) :
             r[k] = IF k <= Len(before) THEN before[k] ELSE after[k - Len(before)]
    BY <1>2, <1>3, ConcatProperties, Zenon
  <2>2. QED
    BY <1>1, <1>2, <1>3, <2>1
<1> HIDE DEF r
<1>5. ASSUME NEW k \in DOMAIN r
      PROVE  LET o == IF k < i THEN k ELSE k + 1
             IN o \in DOMAIN q \ {i} /\ r[k] = q[o]
  <2>1. k \in 1 .. Len(q) - 1 /\ k \in 1 .. Len(before) + Len(after)
    BY <1>1, <1>2, <1>3, <1>4
  <2>2. CASE k < i
    <3>1. k \in 1 .. i - 1 /\ k <= Len(before) /\ k \in DOMAIN q \ {i}
      BY <1>1, <1>2, <2>1, <2>2
    <3>2. r[k] = q[k]
      BY <1>2, <1>4, <2>1, <3>1, Zenon
    <3>3. QED
      BY <2>2, <3>1, <3>2
  <2>3. CASE ~(k < i)
    <3>1. /\ k - Len(before) \in 1 .. Len(q) - i /\ ~(k <= Len(before))
          /\ i + (k - Len(before)) = k + 1 /\ k + 1 \in DOMAIN q \ {i}
      BY <1>1, <1>2, <2>1, <2>3
    <3>2. after[k - Len(before)] = q[k + 1]
      BY <1>3, <3>1
    <3>3. r[k] = q[k + 1]
      BY <1>4, <2>1, <3>1, <3>2, Zenon
    <3>4. QED
      BY <2>3, <3>1, <3>3
  <2>4. QED
    BY <2>2, <2>3
<1>6. RemoveAt(q, i) = r
  BY DEF RemoveAt, r, before, after
<1>7. QED
  BY <1>4, <1>5, <1>6

LEMMA RemoveIsFewer ==
  ASSUME NEW S, NEW q \in Seq(S), NEW i \in DOMAIN q, NEW type, NEW w
  PROVE  /\ Fewer(type, w, q, RemoveAt(q, i))
         /\ Single(type, w, q) /\ q[i].type = type /\ q[i].window = w
              => None(type, w, RemoveAt(q, i))
<1> DEFINE r == RemoveAt(q, i)
           o(k) == IF k < i THEN k ELSE k + 1
<1>1. \A k \in DOMAIN r : o(k) \in DOMAIN q \ {i} /\ r[k] = q[o(k)]
  BY RemoveIs
<1>2. DOMAIN q \subseteq Nat /\ DOMAIN r \subseteq Nat
  BY RemoveIs
<1> HIDE DEF r
<1>3. \A j, k \in DOMAIN r : o(j) = o(k) => j = k
  BY <1>2
<1> HIDE DEF o
<1>4. Single(type, w, q) => Single(type, w, r)
  BY <1>1, <1>3 DEF Single
<1>5. Fewer(type, w, q, r)
  BY <1>1, <1>4 DEF Fewer
<1>6. Single(type, w, q) /\ q[i].type = type /\ q[i].window = w => None(type, w, r)
  BY <1>1 DEF Single, None
<1>7. QED
  BY <1>5, <1>6 DEF r

LEMMA TailIsFewer ==
  ASSUME NEW S, NEW q \in Seq(S), q # <<>>, NEW type, NEW w
  PROVE  /\ Tail(q) \in Seq(S) /\ Head(q) \in S /\ Head(q) = q[1] /\ 1 \in DOMAIN q
         /\ Fewer(type, w, q, Tail(q))
         /\ Single(type, w, q) /\ Head(q).type = type /\ Head(q).window = w
              => None(type, w, Tail(q))
<1> DEFINE r == Tail(q)
<1>1. /\ r \in Seq(S) /\ Head(q) \in S /\ Head(q) = q[1] /\ 1 \in DOMAIN q
      /\ DOMAIN r \subseteq Nat
      /\ \A k \in DOMAIN r : k + 1 \in DOMAIN q /\ k + 1 # 1 /\ r[k] = q[k + 1]
  OBVIOUS
<1> HIDE DEF r
<1>2. \A j, k \in DOMAIN r : j + 1 = k + 1 => j = k
  BY <1>1
<1>3. Single(type, w, q) => Single(type, w, r)
  BY <1>1, <1>2 DEF Single
<1>4. Fewer(type, w, q, r)
  BY <1>1, <1>3 DEF Fewer
<1>5. Single(type, w, q) /\ Head(q).type = type /\ Head(q).window = w => None(type, w, r)
  BY <1>1 DEF Single, None
<1>6. QED
  BY <1>1, <1>4, <1>5 DEF r

-----------------------------------------------------------------------------
(* What a step leaves alone.                                                *)

\* Nothing was added to what is under way for w, and nothing put or taken.
Keeps(w) ==
  /\ Fewer("SelectionRequest", w, ownerInbox, ownerInbox')
  /\ Fewer("PropertyNotify", w, ownerInbox, ownerInbox')
  /\ Fewer("SelectionNotify", w, inbox, inbox')
  /\ Prop(w)' = Prop(w)
  /\ \A id \in Mine(w)' :
       /\ id \in Mine(w) /\ transaction'[id] = transaction[id]
       /\ Reached(w) => w \in DOMAIN m_transactions' /\ m_transactions'[w] = m_transactions[w]
  /\ w \in watched' => w \in watched
  /\ request'.window = w => UNCHANGED <<request, pairs, refused>>

LEMMA KeepsReached ==
  ASSUME NEW w, Keeps(w), Reached(w) PROVE Reached(w)'
BY DEF Keeps, Reached

LEMMA KeepsNotAsked ==
  ASSUME NEW w, Keeps(w), NotAsked(w) PROVE NotAsked(w)'
BY FewerThanNone DEF Keeps, NotAsked

LEMMA KeepsUnserved ==
  ASSUME NEW w, Keeps(w), Unserved(w) PROVE Unserved(w)'
<1>1. None("PropertyNotify", w, ownerInbox')
  BY FewerThanNone DEF Keeps, Unserved
<1>2. Mine(w)' = {}
  BY DEF Keeps, Unserved
<1>3. QED
  BY <1>1, <1>2 DEF Keeps, Unserved

LEMMA KeepsUnused ==
  ASSUME NEW w, Keeps(w), Unused(w) PROVE Unused(w)'
<1>1. None("SelectionNotify", w, inbox')
  BY FewerThanNone DEF Keeps, Unused
<1>2. NotAsked(w)' /\ Unserved(w)'
  BY KeepsNotAsked, KeepsUnserved DEF Unused
<1>3. QED
  BY <1>1, <1>2 DEF Unused

LEMMA KeepsServed ==
  ASSUME NEW w, Keeps(w), wanted' = wanted, Served(w) PROVE Served(w)'
<1>1. None("PropertyNotify", w, ownerInbox')
  BY FewerThanNone DEF Keeps, Served
<1>2. /\ Prop(w)' = Prop(w) /\ (w \in watched' => w \in watched)
      /\ \A id \in Mine(w)' : id \in Mine(w) /\ transaction'[id] = transaction[id]
  BY DEF Keeps
<1>3. Mine(w) = {} => Mine(w)' = {}
  BY <1>2
<1>4. \A id \in Mine(w)' :
        /\ transaction'[id].property = QtSelection
        /\ transaction'[id].data = Content(wanted) /\ transaction'[id].offset = 0
  BY <1>2 DEF Served
<1>5. /\ Prop(w)' \in {NoValue, Incr, Data(Content(wanted))}
      /\ Prop(w)' # Incr => Mine(w)' = {} /\ w \notin watched'
  BY <1>2, <1>3 DEF Served
<1>6. QED
  BY <1>1, <1>4, <1>5 DEF Served

LEMMA KeepsAsking ==
  ASSUME NEW w, Keeps(w), wanted' = wanted, Asking(w) PROVE Asking(w)'
<1>1. /\ Served(w)' /\ (Unserved(w) => Unserved(w)')
      /\ None("SelectionNotify", w, inbox) => None("SelectionNotify", w, inbox')
  BY KeepsServed, KeepsUnserved, FewerThanNone DEF Asking, Keeps
<1>2. Single("SelectionRequest", w, ownerInbox') /\ Single("SelectionNotify", w, inbox')
  BY DEF Asking, Keeps, Fewer
<1>3. ASSUME NEW i \in DOMAIN ownerInbox',
             ownerInbox'[i].type = "SelectionRequest", ownerInbox'[i].window = w
      PROVE  /\ ownerInbox'[i].pairs = AskedFor /\ ~ownerInbox'[i].multiple
             /\ request'.window # w /\ Unserved(w)' /\ None("SelectionNotify", w, inbox')
  <2>1. PICK j \in DOMAIN ownerInbox : ownerInbox[j] = ownerInbox'[i]
    BY <1>3 DEF Keeps, Fewer
  <2>2. /\ ownerInbox[j].pairs = AskedFor /\ ~ownerInbox[j].multiple
        /\ request.window # w /\ Unserved(w) /\ None("SelectionNotify", w, inbox)
    BY <1>3, <2>1 DEF Asking
  <2>3. request'.window # w
    BY <2>2 DEF Keeps
  <2>4. QED
    BY <1>1, <2>1, <2>2, <2>3
<1>4. ASSUME request'.window = w
      PROVE  /\ ~request'.multiple /\ pairs' \in {<<>>, AskedFor}
             /\ refused' \/ pairs' # <<>> => Unserved(w)'
             /\ ~refused' \/ pairs' = <<>>
             /\ None("SelectionNotify", w, inbox')
  <2>1. request' = request /\ pairs' = pairs /\ refused' = refused /\ request.window = w
    BY <1>4 DEF Keeps
  <2>2. QED
    BY <1>1, <2>1 DEF Asking
<1>5. ASSUME NEW i \in DOMAIN inbox',
             inbox'[i].type = "SelectionNotify", inbox'[i].window = w, ~inbox'[i].answered
      PROVE  Unserved(w)'
  <2>1. PICK j \in DOMAIN inbox : inbox[j] = inbox'[i]
    BY <1>5 DEF Keeps, Fewer
  <2>2. QED
    BY <1>1, <1>5, <2>1 DEF Asking
<1>6. AskedFor' = AskedFor
  BY DEF AskedFor
<1>7. QED
  BY <1>1, <1>2, <1>3, <1>4, <1>5, <1>6 DEF Asking

LEMMA KeepsMoving ==
  ASSUME NEW w, Keeps(w), UNCHANGED <<wanted, buf>>, Moving(w) PROVE Moving(w)'
<1>1. /\ Prop(w)' = Prop(w) /\ (w \in watched' => w \in watched)
      /\ \A id \in Mine(w)' : id \in Mine(w) /\ transaction'[id] = transaction[id]
  BY DEF Keeps
<1>2. Single("PropertyNotify", w, ownerInbox')
  BY DEF Keeps, Fewer, Moving
<1>3. Prop(w) # NoValue => None("PropertyNotify", w, ownerInbox')
  BY FewerThanNone DEF Keeps, Moving
<1>4. \A id \in Mine(w)' :
        /\ transaction'[id].property = QtSelection /\ transaction'[id].data = Content(wanted)
        /\ buf \o Prop(w).parts = SubSeq(Content(wanted), 1, transaction'[id].offset)
  BY <1>1 DEF Moving
<1>5. Prop(w) = Data(<<>>) => Mine(w)' = {} /\ w \notin watched' /\ buf = Content(wanted)
  BY <1>1 DEF Moving
<1>6. Prop(w) = NoValue \/ Prop(w) = Data(Prop(w).parts)
  BY DEF Moving
<1>7. QED
  BY <1>1, <1>2, <1>3, <1>4, <1>5, <1>6 DEF Moving

\* A step of the owner, or one that concerns another window.
LEMMA KeepsOrderly ==
  ASSUME NEW w, Keeps(w), Orderly(w),
         UNCHANGED <<m_requestor, existing, at, wanted, tmp_buf, buf, calls>>
  PROVE  Orderly(w)'
<1>1. Reached(w)'
  BY KeepsReached DEF Orderly
<1>2. w > calls => Unused(w)' /\ w \notin existing
  BY KeepsUnused DEF Orderly
<1>3. w <= calls /\ w # m_requestor => Left(w)'
  BY KeepsNotAsked DEF Orderly, Left
<1>4. ASSUME w = m_requestor PROVE Phase(w)'
  <2>1. Phase(w)
    BY <1>4 DEF Orderly
  <2>2. Prop(w)' = Prop(w)
    BY DEF Keeps
  <2>3. at = "idle" => Unused(w)'
    BY <2>1, KeepsUnused DEF Phase
  <2>4. at = "answer" => Asking(w)'
    BY <2>1, KeepsAsking DEF Phase
  <2>5. at \notin {"idle", "answer"} => NotAsked(w)' /\ None("SelectionNotify", w, inbox')
    BY <2>1, KeepsNotAsked, FewerThanNone DEF Phase, Keeps
  <2>6. at \in {"read", "delete"} => Served(w)'
    BY <2>1, KeepsServed DEF Phase
  <2>7. at \in {"parts", "readPart", "deletePart"} => Moving(w)'
    BY <2>1, KeepsMoving DEF Phase
  <2>8. QED
    BY <2>1, <2>2, <2>3, <2>4, <2>5, <2>6, <2>7 DEF Phase
<1>5. QED
  BY <1>1, <1>2, <1>3, <1>4 DEF Orderly

\* A step of getSelection() leaves the windows alone that it does not use.
LEMMA OtherWindowIsOrderly ==
  ASSUME calls \in Nat, NEW w \in QtWindows, w # m_requestor, Orderly(w), Keeps(w),
         w # m_requestor', w \in existing' => w \in existing, calls' = calls
  PROVE  Orderly(w)'
<1>1. Reached(w)'
  BY KeepsReached DEF Orderly
<1>2. w > calls => Unused(w)' /\ w \notin existing'
  BY KeepsUnused DEF Orderly
<1>3. w <= calls => Left(w)'
  BY KeepsNotAsked DEF Orderly, Left
<1>4. QED
  BY <1>1, <1>2, <1>3 DEF Orderly

\* Only for the window of getSelection(), which waits, a request is under way.
LEMMA AskedIsAsking ==
  ASSUME Types, NEW w \in QtWindows, Orderly(w), ~NotAsked(w)
  PROVE  w = m_requestor /\ at = "answer" /\ Asking(w) /\ Phase(w) /\ w <= calls
<1>1. w \in Nat /\ calls \in Nat /\ at \in Places
  BY WindowsAssumption DEF Types
<1>2. ~(w > calls) /\ w <= calls
  BY <1>1 DEF Orderly, Unused
<1>3. w = m_requestor
  BY <1>2 DEF Orderly, Left
<1>4. Phase(w)
  BY <1>3 DEF Orderly
<1>5. at = "answer"
  BY <1>4 DEF Phase, Unused
<1>6. QED
  BY <1>2, <1>3, <1>4, <1>5 DEF Phase

\* A step of the owner on the window that waits.
LEMMA AskingIsOrderly ==
  ASSUME NEW w \in QtWindows, Phase(w), w = m_requestor, w <= calls, calls \in Nat,
         at = "answer", UNCHANGED <<m_requestor, existing, at, buf, calls>>,
         Reached(w)', Asking(w)'
  PROVE  Orderly(w)'
<1>1. ~(w > calls)
  BY WindowsAssumption
<1>2. Phase(w)'
  BY DEF Phase
<1>3. QED
  BY <1>1, <1>2 DEF Orderly

-----------------------------------------------------------------------------
(* Values, events, and the server.                                          *)

LEMMA ContentIs ==
  ASSUME NEW t \in Targets
  PROVE  Content(t) \in Seq(Chunk) /\ Len(Content(t)) = Parts[t] /\ Parts[t] \in Nat \ {0}
BY PartsAssumption DEF Content, Chunk

LEMMA ValuesAre ==
  /\ NoValue \in Value /\ Incr \in Value /\ NoValue # Incr
  /\ NoValue.parts = <<>> /\ \A ps : Data(ps).parts = ps
  /\ \A ps \in Seq(Chunk) : Data(ps) \in Value
  /\ \A ps : Data(ps) # NoValue /\ Data(ps) # Incr
BY DEF NoValue, Incr, Data, Value, Chunk

LEMMA EventsAre ==
  ASSUME now \in Nat
  PROVE  /\ \A w \in Windows, p \in Properties, state \in {"NewValue", "Delete"} :
              /\ PropertyNotify(w, p, state) \in Notification
              /\ PropertyNotify(w, p, state).type = "PropertyNotify"
              /\ PropertyNotify(w, p, state).window = w
         /\ \A w \in Windows, b \in BOOLEAN :
              /\ SelectionNotify(w, b) \in Answer
              /\ SelectionNotify(w, b).type = "SelectionNotify"
              /\ SelectionNotify(w, b).window = w /\ SelectionNotify(w, b).answered = b
         /\ \A w \in Windows, ps \in Seq(Pair), b \in BOOLEAN :
              /\ SelectionRequest(w, ps, b) \in Request
              /\ SelectionRequest(w, ps, b).type = "SelectionRequest"
              /\ SelectionRequest(w, ps, b).window = w /\ SelectionRequest(w, ps, b).pairs = ps
              /\ SelectionRequest(w, ps, b).multiple = b
         /\ NoRequest \in Request /\ NoRequest.window = ForeignWindow
BY DEF PropertyNotify, SelectionNotify, SelectionRequest, NoRequest, Notification, Answer,
       Request, Windows

LEMMA OwnerEventsAre ==
  ASSUME NEW e \in OwnerEvent
  PROVE  /\ e.type = "SelectionRequest" => e \in Request
         /\ e.type = "PropertyNotify" => e \in Notification
         /\ e.window \in Windows /\ e.type \in {"SelectionRequest", "PropertyNotify"}
BY DEF OwnerEvent, Request, Notification

LEMMA PropAfter ==
  ASSUME property \in [Windows \X Properties -> Value], NEW w \in Windows, NEW p \in Properties,
         NEW x \in Value, property' = [property EXCEPT ![<<w, p>>] = x]
  PROVE  /\ property' \in [Windows \X Properties -> Value]
         /\ \A v \in Windows : Prop(v)' = IF v = w /\ p = QtSelection THEN x ELSE Prop(v)
<1>1. <<w, p>> \in Windows \X Properties
  OBVIOUS
<1>2. \A v \in Windows : <<v, QtSelection>> \in Windows \X Properties
  BY RequestsAssumption
<1>3. \A v \in Windows : <<v, QtSelection>> = <<w, p>> <=> v = w /\ p = QtSelection
  OBVIOUS
<1>4. property' \in [Windows \X Properties -> Value]
  OBVIOUS
<1>5. \A v \in Windows : Prop(v)' = IF v = w /\ p = QtSelection THEN x ELSE Prop(v)
  BY <1>2, <1>3 DEF Prop
<1>6. QED
  BY <1>4, <1>5

LEMMA ToldIs ==
  ASSUME NEW q \in Seq(Event), NEW e \in Event
  PROVE  /\ Told(q, e) \in Seq(Event)
         /\ \A type, w : ~(e.type = type /\ e.window = w) => Fewer(type, w, q, Told(q, e))
         /\ \A type, w : None(type, w, q) =>
              /\ Single(type, w, Told(q, e))
              /\ \A i \in DOMAIN Told(q, e) :
                   Told(q, e)[i].type = type /\ Told(q, e)[i].window = w => Told(q, e)[i] = e
<1>1. CASE e.window \in QtWindows
  <2>1. Told(q, e) = Append(q, e)
    BY <1>1 DEF Told
  <2>2. QED
    BY <2>1, AppendIs, AppendIsFewer, AppendToNone
<1>2. CASE e.window \notin QtWindows
  <2>1. Told(q, e) = q
    BY <1>2 DEF Told
  <2>2. QED
    BY <2>1, SameIsFewer DEF None, Single
<1>3. QED
  BY <1>1, <1>2

LEMMA ChangePropertyDoes ==
  ASSUME Types, NEW w \in Windows, NEW p \in Properties, NEW x \in Value, ChangeProperty(w, p, x)
  PROVE  /\ property' \in [Windows \X Properties -> Value] /\ inbox' \in Seq(Event)
         /\ \A v : Fewer("SelectionNotify", v, inbox, inbox')
         /\ \A v \in Windows : Prop(v)' =
              IF v = w /\ p = QtSelection /\ w \in existing THEN x ELSE Prop(v)
<1> property \in [Windows \X Properties -> Value] /\ inbox \in Seq(Event) /\ now \in Nat
  BY DEF Types
<1>1. CASE w \in existing
  <2> DEFINE e == PropertyNotify(w, p, "NewValue")
  <2>1. property' = [property EXCEPT ![<<w, p>>] = x] /\ inbox' = Told(inbox, e)
    BY <1>1 DEF ChangeProperty
  <2>2. e \in Event /\ e.type = "PropertyNotify"
    BY EventsAre DEF Event
  <2> HIDE DEF e
  <2>3. inbox' \in Seq(Event) /\ \A v : Fewer("SelectionNotify", v, inbox, inbox')
    BY <2>1, <2>2, ToldIs
  <2>4. QED
    BY <1>1, <2>1, <2>3, PropAfter
<1>2. CASE w \notin existing
  <2>1. property' = property /\ inbox' = inbox
    BY <1>2 DEF ChangeProperty
  <2>2. QED
    BY <1>2, <2>1, SameIsFewer DEF Prop
<1>3. QED
  BY <1>1, <1>2

LEMMA DeletePropertyDoes ==
  ASSUME Types, NEW w \in Windows, NEW p \in Properties, DeleteProperty(w, p)
  PROVE  /\ property' \in [Windows \X Properties -> Value] /\ inbox' \in Seq(Event)
         /\ \A v : Fewer("SelectionNotify", v, inbox, inbox')
         /\ \A v \in Windows : Prop(v)' = IF v = w /\ p = QtSelection THEN NoValue ELSE Prop(v)
<1> property \in [Windows \X Properties -> Value] /\ inbox \in Seq(Event) /\ now \in Nat
  BY DEF Types
<1> DEFINE e == PropertyNotify(w, p, "Delete")
<1>1. property' = [property EXCEPT ![<<w, p>>] = NoValue] /\ inbox' \in {inbox, Told(inbox, e)}
  BY DEF DeleteProperty
<1>2. e \in Event /\ e.type = "PropertyNotify"
  BY EventsAre DEF Event
<1> HIDE DEF e
<1>3. inbox' \in Seq(Event) /\ \A v : Fewer("SelectionNotify", v, inbox, inbox')
  BY <1>1, <1>2, ToldIs, SameIsFewer
<1>4. QED
  BY <1>1, <1>3, PropAfter, ValuesAre

LEMMA ToOwnerIs ==
  ASSUME Types, NEW w \in Windows, NEW p \in Properties
  PROVE  /\ ToOwner(w, p) \in Seq(OwnerEvent)
         /\ \A v : Fewer("SelectionRequest", v, ownerInbox, ToOwner(w, p))
         /\ \A v : v # w => Fewer("PropertyNotify", v, ownerInbox, ToOwner(w, p))
         /\ None("PropertyNotify", w, ownerInbox) => Single("PropertyNotify", w, ToOwner(w, p))
         /\ property[<<w, p>>] = NoValue \/ w \notin watched => ToOwner(w, p) = ownerInbox
<1> ownerInbox \in Seq(OwnerEvent) /\ now \in Nat
  BY DEF Types
<1> DEFINE e == PropertyNotify(w, p, "Delete")
<1>1. e \in OwnerEvent /\ e.type = "PropertyNotify" /\ e.window = w
  BY EventsAre DEF OwnerEvent
<1>2. ToOwner(w, p) \in {ownerInbox, Append(ownerInbox, e)}
  BY DEF ToOwner
<1>3. property[<<w, p>>] = NoValue \/ w \notin watched => ToOwner(w, p) = ownerInbox
  BY DEF ToOwner
<1> HIDE DEF e
<1>4. CASE ToOwner(w, p) = ownerInbox
  BY <1>3, <1>4, SameIsFewer DEF None, Single
<1>5. CASE ToOwner(w, p) = Append(ownerInbox, e)
  BY <1>1, <1>3, <1>5, AppendIs, AppendIsFewer, AppendToNone
<1>6. QED
  BY <1>2, <1>4, <1>5

-----------------------------------------------------------------------------
(* The owner's steps.  Those of getSelection() do not change meanwhile.     *)

OwnerKeeps == Types' /\ \A w \in QtWindows \ gaveUp : Orderly(w)'

\* of the owner: all but its queue, and all of the server and the reader
Handler == UNCHANGED <<request, pairs, refused>>
ObjectsKept == UNCHANGED <<transaction, m_transactions>>
Reader  == UNCHANGED <<m_requestor, at, win, wanted, tmp_buf, buf, calls, gaveUp>>

LEMMA ReaderWaits == UNCHANGED readVars => Reader
BY DEF readVars, timeVars, Reader

LEMMA UnservedIsServed ==
  ASSUME NEW w, Unserved(w) PROVE Served(w)
BY ValuesAre DEF Unserved, Served

LEMMA AskedAtHandIs ==
  ASSUME Types, NEW w \in QtWindows, Orderly(w), request.window = w
  PROVE  /\ w = m_requestor /\ at = "answer" /\ w <= calls /\ Phase(w) /\ Asking(w)
         /\ w \in existing /\ None("SelectionRequest", w, ownerInbox)
         /\ ~request.multiple /\ pairs \in {<<>>, AskedFor}
         /\ refused \/ pairs # <<>> => Unserved(w)
         /\ ~refused \/ pairs = <<>>
         /\ None("SelectionNotify", w, inbox)
<1>1. ~NotAsked(w)
  BY DEF NotAsked
<1>2. w = m_requestor /\ at = "answer" /\ Asking(w) /\ Phase(w) /\ w <= calls
  BY <1>1, AskedIsAsking
<1>3. None("SelectionRequest", w, ownerInbox)
  BY <1>2 DEF Asking, None
<1>4. QED
  BY <1>2, <1>3 DEF Asking, Phase

LEMMA RequestIs ==
  ASSUME Types, NEW i \in DOMAIN ownerInbox, ownerInbox[i].type = "SelectionRequest",
         NEW w \in QtWindows, Orderly(w), ownerInbox[i].window = w
  PROVE  /\ w = m_requestor /\ at = "answer" /\ w <= calls /\ Phase(w) /\ Asking(w)
         /\ ownerInbox[i].pairs = AskedFor /\ ~ownerInbox[i].multiple
         /\ request.window # w /\ Unserved(w) /\ None("SelectionNotify", w, inbox)
         /\ None("SelectionRequest", w, RemoveAt(ownerInbox, i))
<1>1. ~NotAsked(w)
  BY DEF NotAsked, None
<1>2. w = m_requestor /\ at = "answer" /\ Asking(w) /\ Phase(w) /\ w <= calls
  BY <1>1, AskedIsAsking
<1>3. None("SelectionRequest", w, RemoveAt(ownerInbox, i))
  BY <1>2, RemoveIsFewer DEF Asking, Types
<1>4. QED
  BY <1>2, <1>3 DEF Asking

LEMMA RefuseKeeps ==
  ASSUME XInv, RefuseRequest, UNCHANGED readVars
  PROVE  OwnerKeeps
<1> Types
  BY DEF XInv
<1>1. Reader
  BY ReaderWaits
<1>2. /\ UNCHANGED <<property, existing, watched, now>> /\ Handler
      /\ ObjectsKept
  BY DEF RefuseRequest, ownerVars, handlerVars, Handler, ObjectsKept
<1>3. PICK i \in DOMAIN ownerInbox :
        /\ FirstRequest(i) /\ ownerInbox' = RemoveAt(ownerInbox, i)
        /\ inbox' = Told(inbox, SelectionNotify(ownerInbox[i].window, FALSE))
  BY DEF RefuseRequest
<1> DEFINE v == ownerInbox[i].window
           a == SelectionNotify(v, FALSE)
<1>4. ownerInbox \in Seq(OwnerEvent) /\ inbox \in Seq(Event) /\ now \in Nat
  BY DEF Types
<1>5. ownerInbox[i] \in OwnerEvent /\ ownerInbox[i].type = "SelectionRequest"
  BY <1>3, <1>4 DEF FirstRequest
<1>6. /\ a \in Event /\ a.type = "SelectionNotify" /\ a.window = v /\ a.answered = FALSE
  BY <1>4, <1>5, OwnerEventsAre, EventsAre DEF Event
<1>7. inbox' = Told(inbox, a)
  BY <1>3
<1> HIDE DEF a
<1>8. ownerInbox' \in Seq(OwnerEvent) /\ inbox' \in Seq(Event)
  <2>1. ownerInbox' \in Seq(OwnerEvent)
    BY <1>3, <1>4, RemoveIs
  <2>2. inbox' \in Seq(Event)
    BY <1>4, <1>6, <1>7, ToldIs
  <2>3. QED
    BY <2>1, <2>2
<1>9. Types'
  BY <1>1, <1>2, <1>8 DEF Types, Reader, Handler, ObjectsKept
<1>10. ASSUME NEW w \in QtWindows \ gaveUp PROVE Orderly(w)'
  <2> Orderly(w)
    BY DEF XInv
  <2>1. /\ Fewer("SelectionRequest", w, ownerInbox, ownerInbox')
        /\ Fewer("PropertyNotify", w, ownerInbox, ownerInbox')
    BY <1>3, <1>4, RemoveIsFewer
  <2>2. CASE w # v
    <3>1. Fewer("SelectionNotify", w, inbox, inbox')
      BY <1>4, <1>6, <1>7, <2>2, ToldIs
    <3>2. Keeps(w)
      BY <1>2, <2>1, <3>1 DEF Keeps, Prop, Mine, Reached, Handler, ObjectsKept
    <3>3. QED
      BY <1>1, <1>2, <3>2, KeepsOrderly DEF Reader
  <2>3. CASE w = v
    <3>1. /\ w = m_requestor /\ at = "answer" /\ w <= calls /\ Phase(w)
          /\ request.window # w /\ Unserved(w) /\ None("SelectionNotify", w, inbox)
          /\ None("SelectionRequest", w, ownerInbox')
      BY <1>3, <1>5, <2>3, RequestIs
    <3>2. Unserved(w)' /\ Reached(w)'
      <4>1. None("PropertyNotify", w, ownerInbox')
        BY <2>1, <3>1, FewerThanNone DEF Unserved
      <4>2. Unserved(w)'
        BY <1>2, <3>1, <4>1 DEF Unserved, Prop, Mine, ObjectsKept
      <4>3. QED
        BY <4>2 DEF Unserved, Reached
    <3>3. /\ Single("SelectionNotify", w, inbox')
      BY <1>4, <1>6, <1>7, <3>1, ToldIs
    <3>4. Served(w)' /\ request'.window # w /\ Single("SelectionRequest", w, ownerInbox')
      BY <1>2, <3>1, <3>2, UnservedIsServed DEF Handler, None, Single, Unserved, Served
    <3>5. Asking(w)'
      BY <3>1, <3>2, <3>3, <3>4 DEF Asking, None
    <3>6. QED
      BY <1>1, <1>2, <3>1, <3>2, <3>5, AskingIsOrderly DEF Reader, Types
  <2>4. QED
    BY <2>2, <2>3
<1>11. QED
  BY <1>9, <1>10 DEF OwnerKeeps

LEMMA AcceptKeeps ==
  ASSUME XInv, AcceptRequest, UNCHANGED readVars
  PROVE  OwnerKeeps
<1> Types
  BY DEF XInv
<1>1. Reader
  BY ReaderWaits
<1>2. UNCHANGED <<property, existing, watched, now, inbox>> /\ ObjectsKept /\ refused' = FALSE
  BY DEF AcceptRequest, ObjectsKept
<1>3. PICK i \in DOMAIN ownerInbox :
        /\ FirstRequest(i) /\ ownerInbox' = RemoveAt(ownerInbox, i)
        /\ request' = ownerInbox[i] /\ pairs' = ownerInbox[i].pairs
  BY DEF AcceptRequest
<1>4. ownerInbox \in Seq(OwnerEvent) /\ inbox \in Seq(Event) /\ now \in Nat
  BY DEF Types
<1>5. ownerInbox[i] \in Request /\ ownerInbox[i].type = "SelectionRequest"
  <2>1. ownerInbox[i].type = "SelectionRequest" /\ ownerInbox[i] \in OwnerEvent
    BY <1>3, <1>4 DEF FirstRequest
  <2>2. QED
    BY <2>1, OwnerEventsAre
<1>6. ownerInbox' \in Seq(OwnerEvent)
  BY <1>3, <1>4, RemoveIs
<1>7. Types'
  <2>1. request' \in Request /\ pairs' \in Seq(Pair)
    BY <1>3, <1>5 DEF Request
  <2>2. QED
    BY <1>1, <1>2, <1>6, <2>1 DEF Types, Reader, ObjectsKept
<1>8. ASSUME NEW w \in QtWindows \ gaveUp PROVE Orderly(w)'
  <2> Orderly(w)
    BY DEF XInv
  <2>1. /\ Fewer("SelectionRequest", w, ownerInbox, ownerInbox')
        /\ Fewer("PropertyNotify", w, ownerInbox, ownerInbox')
        /\ Fewer("SelectionNotify", w, inbox, inbox')
    BY <1>2, <1>3, <1>4, RemoveIsFewer, SameIsFewer
  <2>2. CASE w # ownerInbox[i].window
    <3>1. Keeps(w)
      BY <1>2, <1>3, <2>1, <2>2 DEF Keeps, Prop, Mine, Reached, ObjectsKept
    <3>2. QED
      BY <1>1, <1>2, <3>1, KeepsOrderly DEF Reader
  <2>3. CASE w = ownerInbox[i].window
    <3>1. /\ w = m_requestor /\ at = "answer" /\ w <= calls /\ Phase(w)
          /\ ownerInbox[i].pairs = AskedFor /\ ~ownerInbox[i].multiple
          /\ Unserved(w) /\ None("SelectionNotify", w, inbox)
          /\ None("SelectionRequest", w, ownerInbox')
      BY <1>3, <1>5, <2>3, RequestIs
    <3>2. Unserved(w)' /\ Reached(w)'
      <4>1. None("PropertyNotify", w, ownerInbox')
        BY <2>1, <3>1, FewerThanNone DEF Unserved
      <4>2. Unserved(w)'
        BY <1>2, <3>1, <4>1 DEF Unserved, Prop, Mine, ObjectsKept
      <4>3. QED
        BY <4>2 DEF Unserved, Reached
    <3>3. Served(w)' /\ AskedFor' = AskedFor
      BY <1>1, <3>2, ValuesAre DEF Unserved, Served, AskedFor, Reader
    <3>4. Asking(w)'
      BY <1>2, <1>3, <3>1, <3>2, <3>3 DEF Asking, None, Single
    <3>5. QED
      BY <1>1, <1>2, <3>1, <3>2, <3>4, AskingIsOrderly DEF Reader, Types
  <2>4. QED
    BY <2>2, <2>3
<1>9. QED
  BY <1>7, <1>8 DEF OwnerKeeps

LEMMA AnswerKeeps ==
  ASSUME XInv, AnswerRequest, UNCHANGED readVars
  PROVE  OwnerKeeps
<1> Types
  BY DEF XInv
<1>1. Reader
  BY ReaderWaits
<1> DEFINE v == request.window
           a == SelectionNotify(v, request.multiple \/ ~refused)
<1>2. /\ UNCHANGED <<property, existing, watched, now, ownerInbox, pairs>> /\ ObjectsKept
      /\ inbox' = Told(inbox, a) /\ request' = NoRequest /\ refused' = FALSE /\ pairs = <<>>
  BY DEF AnswerRequest, ObjectsKept
<1>3. request \in Request /\ inbox \in Seq(Event) /\ now \in Nat
  BY DEF Types
<1>4. v \in Windows /\ (request.multiple \/ ~refused) \in BOOLEAN
  BY <1>3 DEF Request
<1>5. /\ a \in Event /\ a.type = "SelectionNotify" /\ a.window = v
      /\ a.answered = (request.multiple \/ ~refused)
  BY <1>3, <1>4, EventsAre DEF Event
<1> HIDE DEF a
<1>6. Types'
  <2>1. inbox' \in Seq(Event) /\ request' \in Request
    BY <1>2, <1>3, <1>5, ToldIs, EventsAre
  <2>2. QED
    BY <1>1, <1>2, <2>1 DEF Types, Reader, ObjectsKept
<1>7. ASSUME NEW w \in QtWindows \ gaveUp PROVE Orderly(w)'
  <2> Orderly(w)
    BY DEF XInv
  <2>1. request'.window # w
    BY <1>2, <1>3, EventsAre, WindowsAssumption
  <2>2. CASE w # v
    <3>1. Fewer("SelectionNotify", w, inbox, inbox')
      BY <1>2, <1>3, <1>5, <2>2, ToldIs
    <3>2. Keeps(w)
      BY <1>2, <2>1, <3>1, SameIsFewer DEF Keeps, Prop, Mine, Reached, ObjectsKept
    <3>3. QED
      BY <1>1, <1>2, <3>2, KeepsOrderly DEF Reader
  <2>3. CASE w = v
    <3>1. /\ w = m_requestor /\ at = "answer" /\ w <= calls /\ Phase(w) /\ Asking(w)
          /\ None("SelectionRequest", w, ownerInbox)
          /\ ~request.multiple /\ (refused => Unserved(w))
          /\ None("SelectionNotify", w, inbox)
      BY <2>3, AskedAtHandIs
    <3>2. /\ Single("SelectionNotify", w, inbox')
          /\ \A i \in DOMAIN inbox' :
               inbox'[i].type = "SelectionNotify" /\ inbox'[i].window = w => inbox'[i] = a
      <4>1. a \in Event /\ inbox \in Seq(Event) /\ None("SelectionNotify", w, inbox)
        BY <1>2, <1>3, <1>5, <3>1
      <4>2. inbox' = Told(inbox, a)
        BY <1>2, <1>3, <1>5
      <4>3. PICK type : type = "SelectionNotify"
        OBVIOUS
      <4>4. /\ Single(type, w, Told(inbox, a))
            /\ \A i \in DOMAIN Told(inbox, a) :
                 Told(inbox, a)[i].type = type /\ Told(inbox, a)[i].window = w
                   => Told(inbox, a)[i] = a
        BY <4>1, <4>3, ToldIs
      <4>5. QED
        BY <4>2, <4>3, <4>4
    <3>3. Served(w)' /\ Reached(w)' /\ (refused => Unserved(w)')
      BY <1>1, <1>2, <3>1 DEF Reader, ObjectsKept, Asking, Served, Unserved, Reached, Prop, Mine, Orderly
    <3>4. Asking(w)'
      BY <1>2, <1>5, <2>1, <3>1, <3>2, <3>3 DEF Asking, None, Single
    <3>5. QED
      BY <1>1, <1>2, <3>1, <3>3, <3>4, AskingIsOrderly DEF Reader, Types
  <2>4. QED
    BY <2>2, <2>3
<1>8. QED
  BY <1>6, <1>7 DEF OwnerKeeps

LEMMA NewTransactionDoes ==
  ASSUME Objects, NEW w, NEW pair, NewTransaction(w, pair)
  PROVE  LET id == started + 1
         IN /\ DOMAIN transaction' = DOMAIN transaction \cup {id} /\ id \notin DOMAIN transaction
            /\ transaction'[id] = [window |-> w, property |-> pair.property,
                                   data |-> Content(pair.target), offset |-> 0,
                                   multiple |-> request.multiple]
            /\ \A i \in DOMAIN transaction : transaction'[i] = transaction[i]
            /\ \A u \in Windows : u # w => /\ Mine(u)' = Mine(u)
                                           /\ u \in watched' => u \in watched
                                           /\ Reached(u) => Reached(u)'
            /\ Mine(w)' = Mine(w) \cup {id} /\ w \in DOMAIN m_transactions' /\ m_transactions'[w] = id
<1> DEFINE id == started + 1
<1>1. /\ DOMAIN transaction' = DOMAIN transaction \cup {id} /\ id \notin DOMAIN transaction
      /\ transaction'[id] = [window |-> w, property |-> pair.property,
                             data |-> Content(pair.target), offset |-> 0,
                             multiple |-> request.multiple]
      /\ \A i \in DOMAIN transaction : transaction'[i] = transaction[i]
  BY DEF NewTransaction, Objects
<1>2. /\ DOMAIN m_transactions' = DOMAIN m_transactions \cup {w}
      /\ \A u \in DOMAIN m_transactions' : m_transactions'[u] = IF u = w THEN id ELSE m_transactions[u]
      /\ watched' \subseteq watched \cup {w}
  BY DEF NewTransaction
<1> HIDE DEF id
<1>3. transaction'[id].window = w
  BY <1>1
<1>4. ASSUME NEW u \in Windows, u # w
      PROVE  /\ Mine(u)' = Mine(u) /\ (u \in watched' => u \in watched)
             /\ Reached(u) => Reached(u)'
  <2>1. Mine(u)' = Mine(u)
    BY <1>1, <1>3, <1>4 DEF Mine
  <2>2. QED
    BY <1>2, <1>4, <2>1 DEF Reached
<1>5. Mine(w)' = Mine(w) \cup {id}
  BY <1>1, <1>3 DEF Mine
<1>6. QED
  BY <1>1, <1>2, <1>4, <1>5 DEF id

\* What the pair at hand does to a window, and to others.
LEMMA SentIsAsking ==
  ASSUME Types, NEW w \in QtWindows, Orderly(w), request.window = w, Reader,
         UNCHANGED <<existing, ownerInbox, request>>, pairs' = <<>>,
         Fewer("SelectionNotify", w, inbox, inbox'), Served(w)', Reached(w)',
         refused' => Unserved(w)'
  PROVE  Orderly(w)'
<1>1. /\ w = m_requestor /\ at = "answer" /\ w <= calls /\ Phase(w)
      /\ None("SelectionRequest", w, ownerInbox)
      /\ ~request.multiple /\ None("SelectionNotify", w, inbox)
  BY AskedAtHandIs
<1>2. None("SelectionNotify", w, inbox')
  BY <1>1, FewerThanNone
<1>3. Asking(w)'
  BY <1>1, <1>2 DEF Asking, None, Single
<1>4. QED
  BY <1>1, <1>3, AskingIsOrderly DEF Reader, Types

LEMMA SendKeeps ==
  ASSUME XInv, sendSelection, UNCHANGED readVars
  PROVE  OwnerKeeps
<1> Types /\ TInv /\ Objects
  BY DEF XInv, TInv
<1>1. Reader
  BY ReaderWaits
<1> PICK v, pair, id : v = request.window /\ pair = Head(pairs) /\ id = started + 1
  OBVIOUS
<1>2. /\ UNCHANGED <<existing, now, ownerInbox, owner, request>>
      /\ pairs # <<>> /\ pairs' = Tail(pairs)
      /\ SendAtOnce(pair) \/ SendByParts(pair) \/ SendNothing \/ Unconverted
  BY DEF sendSelection
<1>3. request \in Request /\ v \in Windows /\ pairs \in Seq(Pair)
  BY DEF Types, Request
<1>4. pair \in Pair /\ pairs' \in Seq(Pair)
  BY <1>2, <1>3
<1>5. pair.target \in Targets /\ pair.property \in Properties /\ request.multiple \in BOOLEAN
  BY <1>3, <1>4 DEF Pair, Request
<1>6. ASSUME NEW w \in QtWindows \ gaveUp, w = v
      PROVE  /\ pair = [target |-> wanted, property |-> QtSelection] /\ pairs' = <<>>
             /\ Unserved(w) /\ ~refused /\ w \in existing
  <2>1. pairs \in {<<>>, AskedFor} /\ (pairs # <<>> => Unserved(w) /\ ~refused) /\ w \in existing
    BY <1>6, AskedAtHandIs DEF XInv
  <2>2. QED
    BY <1>2, <2>1 DEF AskedFor
<1>7. CASE SendAtOnce(pair)
  <2> DEFINE x == Data(Content(pair.target))
  <2>1. x \in Value
    BY <1>5, ContentIs, ValuesAre
  <2>2. /\ ChangeProperty(v, pair.property, x) /\ ObjectsKept
        /\ UNCHANGED <<watched, refused>>
    BY <1>7 DEF SendAtOnce, ObjectsKept
  <2> HIDE DEF x
  <2>3. /\ property' \in [Windows \X Properties -> Value] /\ inbox' \in Seq(Event)
        /\ \A u : Fewer("SelectionNotify", u, inbox, inbox')
        /\ \A u \in Windows : Prop(u)' =
             IF u = v /\ pair.property = QtSelection /\ v \in existing THEN x ELSE Prop(u)
    BY <1>3, <1>5, <2>1, <2>2, ChangePropertyDoes
  <2>4. Types'
    BY <1>1, <1>2, <1>4, <2>2, <2>3 DEF Types, Reader, ObjectsKept
  <2>5. ASSUME NEW w \in QtWindows \ gaveUp PROVE Orderly(w)'
    <3>1. Orderly(w) /\ w \in Windows
      BY DEF XInv, Windows
    <3>2. CASE w # v
      <4>1. Keeps(w)
        BY <1>2, <2>2, <2>3, <3>1, <3>2, SameIsFewer DEF Keeps, Mine, Reached, ObjectsKept
      <4>2. QED
        BY <1>1, <1>2, <3>1, <4>1, KeepsOrderly DEF Reader
    <3>3. CASE w = v
      <4>1. Prop(w)' = Data(Content(wanted)) /\ Unserved(w) /\ pairs' = <<>> /\ ~refused'
        BY <1>6, <2>2, <2>3, <3>1, <3>3 DEF x
      <4>2. Served(w)' /\ Reached(w)'
        BY <1>1, <1>2, <2>2, <4>1
           DEF Unserved, Served, Reached, Mine, Reader, ObjectsKept
      <4>3. QED
        BY <1>1, <1>2, <2>3, <3>1, <3>3, <4>1, <4>2, SentIsAsking
    <3>4. QED
      BY <3>2, <3>3
  <2>6. QED
    BY <2>4, <2>5 DEF OwnerKeeps
<1>8. CASE SendByParts(pair)
  <2>1. /\ ChangeProperty(v, pair.property, Incr) /\ NewTransaction(v, pair)
        /\ refused' = refused
    BY <1>8 DEF SendByParts
  <2>2. /\ property' \in [Windows \X Properties -> Value] /\ inbox' \in Seq(Event)
        /\ \A u : Fewer("SelectionNotify", u, inbox, inbox')
        /\ \A u \in Windows : Prop(u)' =
             IF u = v /\ pair.property = QtSelection /\ v \in existing THEN Incr ELSE Prop(u)
    BY <1>3, <1>5, <2>1, ChangePropertyDoes, ValuesAre
  <2> DEFINE t  == [window |-> v, property |-> pair.property, data |-> Content(pair.target),
                    offset |-> 0, multiple |-> request.multiple]
  <2>3. /\ DOMAIN transaction' = DOMAIN transaction \cup {id}
        /\ transaction'[id] = t
        /\ \A i \in DOMAIN transaction : transaction'[i] = transaction[i]
        /\ \A u \in Windows : u # v => /\ Mine(u)' = Mine(u)
                                       /\ u \in watched' => u \in watched
                                       /\ Reached(u) => Reached(u)'
        /\ Mine(v)' = Mine(v) \cup {id} /\ v \in DOMAIN m_transactions' /\ m_transactions'[v] = id
    BY <2>1, NewTransactionDoes, Zenon
  <2>4. t \in Transaction /\ t.offset <= Len(t.data)
    BY <1>3, <1>5, ContentIs DEF Transaction
  <2>5. t.property = pair.property /\ t.data = Content(pair.target) /\ t.offset = 0
    OBVIOUS
  <2> HIDE DEF t
  <2>6. Types'
    <3>1. \A i \in DOMAIN transaction' :
            transaction'[i] \in Transaction /\ transaction'[i].offset <= Len(transaction'[i].data)
      BY <2>3, <2>4 DEF Types
    <3>2. QED
      BY <1>1, <1>2, <1>4, <2>2, <3>1 DEF Types, Reader
  <2>7. ASSUME NEW w \in QtWindows \ gaveUp PROVE Orderly(w)'
    <3>1. Orderly(w) /\ w \in Windows
      BY DEF XInv, Windows
    <3>2. CASE w # v
      <4>1. Prop(w)' = Prop(w) /\ request'.window # w
        BY <1>2, <2>2, <3>1, <3>2
      <4>2. Mine(w)' = Mine(w) /\ (w \in watched' => w \in watched) /\ Reached(w)'
        BY <2>3, <3>1, <3>2 DEF Orderly
      <4>3. \A i \in Mine(w)' :
              /\ i \in Mine(w) /\ transaction'[i] = transaction[i]
              /\ Reached(w) => w \in DOMAIN m_transactions' /\ m_transactions'[w] = m_transactions[w]
        BY <2>3, <4>2 DEF Mine, Reached
      <4>4. Keeps(w)
        BY <1>2, <2>2, <4>1, <4>2, <4>3, SameIsFewer DEF Keeps
      <4>5. QED
        BY <1>1, <1>2, <3>1, <4>4, KeepsOrderly DEF Reader
    <3>3. CASE w = v
      <4>1. /\ Prop(w)' = Incr /\ Unserved(w) /\ pairs' = <<>> /\ ~refused'
            /\ pair.property = QtSelection /\ pair.target = wanted
        BY <1>6, <2>1, <2>2, <3>1, <3>3
      <4>2. Mine(w)' = {id}
        <5>1. Mine(w) = {}
          BY <4>1 DEF Unserved
        <5>2. QED
          BY <2>3, <3>3, <5>1
      <4>3. Served(w)' /\ Reached(w)'
        BY <1>1, <1>2, <2>3, <2>5, <3>3, <4>1, <4>2
           DEF Unserved, Served, Reached, Reader
      <4>4. QED
        BY <1>1, <1>2, <2>2, <3>1, <3>3, <4>1, <4>3, SentIsAsking
    <3>4. QED
      BY <3>2, <3>3
  <2>8. QED
    BY <2>6, <2>7 DEF OwnerKeeps
<1>9. CASE SendNothing \/ Unconverted
  <2>1. UNCHANGED <<property, inbox, watched>> /\ ObjectsKept
    BY <1>9 DEF SendNothing, Unconverted, ObjectsKept
  <2>2. Types'
    BY <1>1, <1>2, <1>4, <2>1 DEF Types, Reader, ObjectsKept
  <2>3. ASSUME NEW w \in QtWindows \ gaveUp PROVE Orderly(w)'
    <3>1. Orderly(w)
      BY DEF XInv
    <3>2. CASE w # v
      <4>1. Keeps(w)
        BY <1>2, <2>1, <3>2, SameIsFewer DEF Keeps, Prop, Mine, Reached, ObjectsKept
      <4>2. QED
        BY <1>1, <1>2, <3>1, <4>1, KeepsOrderly DEF Reader
    <3>3. CASE w = v
      <4>1. Unserved(w) /\ pairs' = <<>>
        BY <1>6, <3>3
      <4>2. Unserved(w)'
        BY <1>2, <2>1, <4>1 DEF Unserved, Prop, Mine, ObjectsKept
      <4>3. Served(w)' /\ Reached(w)'
        BY <4>2, ValuesAre DEF Unserved, Served, Reached
      <4>4. QED
        BY <1>1, <1>2, <2>1, <3>1, <3>3, <4>1, <4>2, <4>3, SentIsAsking, SameIsFewer
    <3>4. QED
      BY <3>2, <3>3
  <2>4. QED
    BY <2>2, <2>3 DEF OwnerKeeps
<1>10. QED
  BY <1>2, <1>7, <1>8, <1>9

LEMMA DestroyedDoes ==
  ASSUME NEW id \in DOMAIN transaction, Destroyed(id), NEW u, Reached(u)
  PROVE  /\ \A i \in Mine(u)' :
              /\ i \in Mine(u) /\ transaction'[i] = transaction[i]
              /\ u \in DOMAIN m_transactions' /\ m_transactions'[u] = m_transactions[u]
         /\ transaction[id].window = u => Mine(u)' = {}
<1>1. /\ DOMAIN transaction' = DOMAIN transaction \ {id}
      /\ \A i \in DOMAIN transaction' : transaction'[i] = transaction[i]
  BY DEF Destroyed
<1>2. /\ DOMAIN m_transactions' = DOMAIN m_transactions \ {transaction[id].window}
      /\ \A v \in DOMAIN m_transactions' : m_transactions'[v] = m_transactions[v]
  BY DEF Destroyed
<1>3. \A i \in Mine(u)' : i \in Mine(u) /\ i # id /\ transaction'[i] = transaction[i]
  BY <1>1 DEF Mine
<1>4. transaction[id].window = u => Mine(u)' = {}
  <2>1. transaction[id].window = u => id \in Mine(u)
    BY DEF Mine
  <2>2. QED
    BY <1>3, <2>1 DEF Reached
<1>5. ASSUME NEW i \in Mine(u)'
      PROVE  u \in DOMAIN m_transactions' /\ m_transactions'[u] = m_transactions[u]
  <2>1. transaction[id].window # u
    BY <1>4, <1>5
  <2>2. u \in DOMAIN m_transactions
    BY <1>3, <1>5 DEF Reached
  <2>3. QED
    BY <1>2, <2>1, <2>2
<1>6. QED
  BY <1>3, <1>4, <1>5

LEMMA TimerKeeps ==
  ASSUME XInv, timerEvent, UNCHANGED readVars
  PROVE  OwnerKeeps
<1> Types
  BY DEF XInv
<1>1. Reader
  BY ReaderWaits
<1>2. UNCHANGED <<property, existing, watched, now, ownerInbox, inbox>> /\ Handler
  BY DEF timerEvent, serverVars, handlerVars, Handler
<1>3. PICK id \in DOMAIN transaction : Destroyed(id)
  BY DEF timerEvent
<1>4. \A i \in DOMAIN transaction' : i \in DOMAIN transaction /\ transaction'[i] = transaction[i]
  BY <1>3 DEF Destroyed
<1>5. Types'
  BY <1>1, <1>2, <1>4 DEF Types, Reader, Handler
<1>6. ASSUME NEW w \in QtWindows \ gaveUp PROVE Orderly(w)'
  <2>1. Orderly(w) /\ Reached(w)
    BY DEF XInv, Orderly
  <2>2. \A i \in Mine(w)' :
          /\ i \in Mine(w) /\ transaction'[i] = transaction[i]
          /\ w \in DOMAIN m_transactions' /\ m_transactions'[w] = m_transactions[w]
    BY <1>3, <2>1, DestroyedDoes
  <2>3. Keeps(w)
    BY <1>2, <2>2, SameIsFewer DEF Keeps, Prop, Handler
  <2>4. QED
    BY <1>1, <1>2, <2>1, <2>3, KeepsOrderly DEF Reader
<1>7. QED
  BY <1>5, <1>6 DEF OwnerKeeps

LEMMA CloseKeeps ==
  ASSUME XInv, Close \/ Exit, UNCHANGED readVars
  PROVE  OwnerKeeps
<1> Types
  BY DEF XInv
<1>1. Reader
  BY ReaderWaits
<1>2. UNCHANGED <<property, existing, now, inbox>>
  BY DEF Close, Exit, serverVars
<1>3. ownerInbox' \in {ownerInbox, <<>>} /\ watched' \subseteq watched
  BY DEF Close, Exit, serverVars
<1>4. transaction' = <<>> \/ ObjectsKept
  BY DEF Close, Exit, ObjectsKept
<1>5. (request' = NoRequest /\ pairs' = <<>>) \/ Handler
  BY DEF Close, Exit, handlerVars, Handler
<1>6. Types'
  <2>1. ownerInbox' \in Seq(OwnerEvent) /\ request' \in Request /\ pairs' \in Seq(Pair)
    <3>1. NoRequest \in Request /\ request \in Request /\ pairs \in Seq(Pair) /\ ownerInbox \in Seq(OwnerEvent)
      BY EventsAre DEF Types
    <3>2. <<>> \in Seq(Pair) /\ <<>> \in Seq(OwnerEvent)
      OBVIOUS
    <3>3. QED
      BY <1>3, <1>5, <3>1, <3>2 DEF Handler
  <2>2. \A id \in DOMAIN transaction' :
          transaction'[id] \in Transaction /\ transaction'[id].offset <= Len(transaction'[id].data)
    BY <1>4 DEF Types, ObjectsKept
  <2>3. QED
    BY <1>1, <1>2, <2>1, <2>2 DEF Types, Reader
<1>7. ASSUME NEW w \in QtWindows \ gaveUp PROVE Orderly(w)'
  <2>1. Orderly(w)
    BY DEF XInv
  <2>2. \A id \in Mine(w)' :
          /\ id \in Mine(w) /\ transaction'[id] = transaction[id]
          /\ Reached(w) => w \in DOMAIN m_transactions' /\ m_transactions'[w] = m_transactions[w]
    BY <1>4 DEF Mine, ObjectsKept, Reached
  <2>3. request'.window = w => Handler
    BY <1>5, EventsAre, WindowsAssumption DEF Types
  <2>4. \A type : Fewer(type, w, ownerInbox, ownerInbox')
    BY <1>3, SameIsFewer, EmptyIsFewer
  <2>5. Keeps(w)
    BY <1>2, <1>3, <2>2, <2>3, <2>4, SameIsFewer DEF Keeps, Prop, Handler
  <2>6. QED
    BY <1>1, <1>2, <2>1, <2>5, KeepsOrderly DEF Reader
<1>8. QED
  BY <1>6, <1>7 DEF OwnerKeeps

\* A part is put only where the last was taken, and it is the next of the data.
LEMMA PartIsNext ==
  ASSUME NEW t \in Targets, NEW n \in Nat, n <= Len(Content(t))
  PROVE  /\ n = Len(Content(t)) => SubSeq(Content(t), 1, n) = Content(t)
         /\ n # Len(Content(t)) =>
              SubSeq(Content(t), 1, n + 1) = SubSeq(Content(t), 1, n) \o <<Content(t)[n + 1]>>
<1>1. Content(t) \in Seq(Chunk) /\ Len(Content(t)) \in Nat
  BY ContentIs
<1>2. n = Len(Content(t)) => SubSeq(Content(t), 1, n) = Content(t)
  BY <1>1, SubSeqFull
<1>3. ASSUME n # Len(Content(t))
      PROVE  SubSeq(Content(t), 1, n + 1) = SubSeq(Content(t), 1, n) \o <<Content(t)[n + 1]>>
  <2>1. 1 \in 1 .. Len(Content(t)) /\ n + 1 \in 1 .. Len(Content(t)) /\ (n + 1) - 1 = n
    BY <1>1, <1>3
  <2>2. SubSeq(Content(t), 1, n + 1) = SubSeq(Content(t), 1, (n + 1) - 1) \o <<Content(t)[n + 1]>>
    BY <1>1, <2>1, SubSeqRecursiveSecond
  <2>3. QED
    BY <2>1, <2>2
<1>4. QED
  BY <1>2, <1>3

\* The owner's step on the window whose property was deleted.
LEMMA PartPutIsMoving ==
  ASSUME XInv, Reader, UNCHANGED <<existing, request>>,
         NEW w \in QtWindows, Orderly(w), w = m_requestor, ~None("PropertyNotify", w, ownerInbox),
         NEW id \in Mine(w), NEW x,
         x = (IF transaction[id].offset = Len(transaction[id].data) THEN <<>>
              ELSE <<transaction[id].data[transaction[id].offset + 1]>>),
         Prop(w)' = IF transaction[id].property = QtSelection /\ w \in existing THEN Data(x) ELSE Prop(w),
         IF x # <<>> THEN PartSent(id) ELSE Completed(id),
         Reached(w)', Fewer("SelectionNotify", w, inbox, inbox'),
         Fewer("SelectionRequest", w, ownerInbox, ownerInbox'),
         Single("PropertyNotify", w, ownerInbox) => None("PropertyNotify", w, ownerInbox')
  PROVE  Orderly(w)'
<1> Types /\ Known
  BY DEF XInv
<1>1. Phase(w) /\ w <= calls /\ ~(w > calls)
  BY WindowsAssumption DEF Orderly, Known, Types
<1>2. at \in {"parts", "readPart"} /\ Moving(w) /\ NotAsked(w)
      /\ None("SelectionNotify", w, inbox)
  <2>1. at \notin {"idle", "answer", "read", "delete"}
    BY <1>1 DEF Phase, Unused, Unserved, Asking, Served
  <2>2. Moving(w) /\ NotAsked(w) /\ None("SelectionNotify", w, inbox)
    BY <1>1, <2>1 DEF Phase, Types, Places
  <2>3. at # "deletePart"
    BY <1>1, <2>2, ValuesAre DEF Phase, Moving
  <2>4. QED
    BY <2>1, <2>2, <2>3 DEF Types, Places
<1>3. Prop(w) = NoValue /\ w \in existing
  BY <1>1, <1>2 DEF Moving, Phase
<1>4. wanted \in Targets
  BY <1>2 DEF Known
<1> DEFINE n == transaction[id].offset
           C == Content(wanted)
<1>5. /\ transaction[id].property = QtSelection /\ transaction[id].data = C
      /\ buf = SubSeq(C, 1, n) /\ n \in Nat /\ n <= Len(C)
  <2>1. /\ transaction[id].property = QtSelection /\ transaction[id].data = C
        /\ buf \o <<>> = SubSeq(C, 1, n)
    BY <1>2, <1>3, ValuesAre DEF Moving
  <2>2. transaction[id] \in Transaction /\ n <= Len(transaction[id].data)
    BY DEF Types, Mine
  <2>3. buf \o <<>> = buf
    BY ConcatEmptySeq DEF Types
  <2>4. QED
    BY <2>1, <2>2, <2>3 DEF Transaction
<1>6. Prop(w)' = Data(x) /\ Mine(w) = {id}
  BY <1>3, <1>5 DEF Orderly, Reached
<1>7. NotAsked(w)' /\ None("SelectionNotify", w, inbox') /\ None("PropertyNotify", w, ownerInbox')
  BY <1>2, FewerThanNone DEF NotAsked, Moving
<1>8. Moving(w)'
  <2>1. Single("PropertyNotify", w, ownerInbox')
    BY <1>7 DEF None, Single
  <2>2. wanted' = wanted /\ buf' = buf
    BY DEF Reader
  <2>3. CASE n = Len(C)
    <3>1. x = <<>> /\ Completed(id) /\ buf = C
      BY <1>4, <1>5, <2>3, PartIsNext
    <3>2. Mine(w)' = {} /\ w \notin watched'
      <4>1. transaction[id].window = w /\ id \in DOMAIN transaction /\ Reached(w)
        BY DEF Mine, Orderly
      <4>2. QED
        BY <3>1, <4>1, DestroyedDoes DEF Completed
    <3>3. QED
      BY <1>6, <1>7, <2>1, <2>2, <3>1, <3>2, ValuesAre DEF Moving
  <2>4. CASE n # Len(C)
    <3>1. x = <<C[n + 1]>> /\ SubSeq(C, 1, n + 1) = buf \o x /\ x # <<>>
      BY <1>4, <1>5, <2>4, PartIsNext
    <3>2. PartSent(id)
      BY <3>1
    <3>3. /\ DOMAIN transaction' = DOMAIN transaction
          /\ \A i \in DOMAIN transaction : i # id => transaction'[i] = transaction[i]
          /\ transaction'[id] = [transaction[id] EXCEPT !.offset = n + 1]
      BY <3>2 DEF PartSent, Mine
    <3>4. transaction[id] \in Transaction
      BY DEF Types, Mine
    <3>5. /\ transaction'[id].property = QtSelection /\ transaction'[id].data = C
          /\ transaction'[id].offset = n + 1 /\ transaction'[id].window = transaction[id].window
      BY <1>5, <3>3, <3>4 DEF Transaction
    <3>6. Mine(w)' = {id}
      BY <1>6, <3>3, <3>5 DEF Mine
    <3>7. Data(x) # Data(<<>>)
      BY <3>1, ValuesAre
    <3>8. QED
      BY <1>6, <1>7, <2>1, <2>2, <3>1, <3>5, <3>6, <3>7, ValuesAre DEF Moving
  <2>5. QED
    BY <2>3, <2>4
<1>9. Phase(w)'
  BY <1>2, <1>3, <1>7, <1>8 DEF Phase, Reader
<1>10. QED
  BY <1>1, <1>9 DEF Orderly, Reader

LEMMA PartIsTyped ==
  ASSUME Types, TInv, NEW id \in DOMAIN transaction, NEW x,
         x = (IF transaction[id].offset = Len(transaction[id].data) THEN <<>>
              ELSE <<transaction[id].data[transaction[id].offset + 1]>>)
  PROVE  /\ x \in Seq(Chunk) /\ transaction[id].window \in Windows
         /\ transaction[id].property \in Properties
         /\ PartSent(id) /\ x # <<>> =>
              \A i \in DOMAIN transaction' :
                transaction'[i] \in Transaction /\ transaction'[i].offset <= Len(transaction'[i].data)
<1> DEFINE t == transaction[id]
<1>1. /\ t.window \in Windows /\ t.property \in Properties /\ t.data \in Seq(Chunk)
      /\ t.offset \in Nat /\ t.offset <= Len(t.data) /\ t \in Transaction
  BY DEF Types, Transaction
<1>2. x \in Seq(Chunk)
  BY <1>1
<1>3. ASSUME PartSent(id), x # <<>>, NEW i \in DOMAIN transaction'
      PROVE  transaction'[i] \in Transaction /\ transaction'[i].offset <= Len(transaction'[i].data)
  <2>1. /\ DOMAIN transaction' = DOMAIN transaction
        /\ i # id => transaction'[i] = transaction[i]
        /\ i = id => transaction'[i] = [t EXCEPT !.offset = t.offset + 1]
    BY <1>3 DEF PartSent
  <2>2. t.offset + 1 <= Len(t.data)
    BY <1>1, <1>3
  <2>3. QED
    <3>1. CASE i = id
      <4>1. transaction'[id] = [t EXCEPT !.offset = t.offset + 1]
        BY <2>1, <3>1
      <4>2. transaction'[id] \in Transaction /\ transaction'[id].offset = t.offset + 1
            /\ transaction'[id].data = t.data
        BY <1>1, <4>1 DEF Transaction
      <4>3. QED
        BY <2>2, <3>1, <4>2
    <3>2. CASE i # id
      BY <2>1, <3>2 DEF Types
    <3>3. QED
      BY <3>1, <3>2
<1>4. QED
  BY <1>1, <1>2, <1>3

LEMMA NotifyKeeps ==
  ASSUME XInv, handlePropertyNotify, UNCHANGED readVars
  PROVE  OwnerKeeps
<1> Types /\ TInv
  BY DEF XInv
<1>1. Reader
  BY ReaderWaits
<1>2. /\ UNCHANGED <<existing, now, request, pairs, refused>>
      /\ ownerInbox # <<>> /\ Head(ownerInbox).type = "PropertyNotify"
      /\ ownerInbox' = Tail(ownerInbox)
  BY DEF handlePropertyNotify, handlerVars
<1>3. ownerInbox \in Seq(OwnerEvent) /\ inbox \in Seq(Event)
  BY DEF Types
<1> PICK e, id, v : e = Head(ownerInbox) /\ id = Addressed(e) /\ v = e.window
  OBVIOUS
<1>4. /\ ownerInbox' \in Seq(OwnerEvent) /\ e \in OwnerEvent /\ 1 \in DOMAIN ownerInbox /\ e = ownerInbox[1]
      /\ \A type, w : Fewer(type, w, ownerInbox, ownerInbox')
      /\ \A type, w : Single(type, w, ownerInbox) /\ e.type = type /\ e.window = w
                        => None(type, w, ownerInbox')
  BY <1>2, <1>3, TailIsFewer
<1>5. \/ UNCHANGED <<property, watched, inbox>> /\ ObjectsKept
      \/ id # 0 /\ updateIncrementalProperty(id)
  BY DEF handlePropertyNotify, ObjectsKept
<1>6. CASE UNCHANGED <<property, watched, inbox>> /\ ObjectsKept
  <2>1. Types'
    BY <1>1, <1>2, <1>4, <1>6 DEF Types, Reader, ObjectsKept
  <2>2. ASSUME NEW w \in QtWindows \ gaveUp PROVE Orderly(w)'
    <3>1. Keeps(w)
      BY <1>2, <1>4, <1>6, SameIsFewer DEF Keeps, Prop, Mine, Reached, ObjectsKept
    <3>2. QED
      BY <1>1, <1>2, <3>1, KeepsOrderly DEF XInv, Reader
  <2>3. QED
    BY <2>1, <2>2 DEF OwnerKeeps
<1>7. CASE id # 0 /\ updateIncrementalProperty(id)
  <2> PICK x, p : /\ x = (IF transaction[id].offset = Len(transaction[id].data) THEN <<>>
                          ELSE <<transaction[id].data[transaction[id].offset + 1]>>)
                  /\ p = transaction[id].property
    OBVIOUS
  <2>1. id \in DOMAIN transaction /\ transaction[id].window = v /\ v \in DOMAIN m_transactions
        /\ m_transactions[v] = id
    BY <1>7 DEF Addressed, TInv, NoDanglingTransaction
  <2>2. ChangeProperty(v, p, Data(x)) /\ (IF x # <<>> THEN PartSent(id) ELSE Completed(id))
    BY <1>7, <2>1 DEF updateIncrementalProperty
  <2>3. v \in Windows /\ p \in Properties /\ Data(x) \in Value
    BY <2>1, PartIsTyped, ValuesAre
  <2>4. /\ property' \in [Windows \X Properties -> Value] /\ inbox' \in Seq(Event)
        /\ \A u : Fewer("SelectionNotify", u, inbox, inbox')
        /\ \A u \in Windows : Prop(u)' =
             IF u = v /\ p = QtSelection /\ v \in existing THEN Data(x) ELSE Prop(u)
    BY <2>2, <2>3, ChangePropertyDoes
  <2>5. Types'
    <3>1. \A i \in DOMAIN transaction' :
            transaction'[i] \in Transaction /\ transaction'[i].offset <= Len(transaction'[i].data)
      <4>1. CASE x # <<>>
        BY <2>1, <2>2, <4>1, PartIsTyped
      <4>2. CASE x = <<>>
        <5>1. \A i \in DOMAIN transaction' : i \in DOMAIN transaction /\ transaction'[i] = transaction[i]
          BY <2>2, <4>2 DEF Completed, Destroyed
        <5>2. QED
          BY <5>1 DEF Types
      <4>3. QED
        BY <4>1, <4>2
    <3>2. QED
      BY <1>1, <1>2, <1>4, <2>4, <3>1 DEF Types, Reader
  <2>6. ASSUME NEW w, Reached(w)
        PROVE  /\ Reached(w)'
               /\ w # v => /\ \A i \in Mine(w)' :
                                /\ i \in Mine(w) /\ transaction'[i] = transaction[i]
                                /\ w \in DOMAIN m_transactions' /\ m_transactions'[w] = m_transactions[w]
                           /\ w \in watched' => w \in watched
    <3>1. CASE x # <<>>
      <4>1. /\ DOMAIN transaction' = DOMAIN transaction /\ m_transactions' = m_transactions
            /\ watched' = watched
            /\ \A i \in DOMAIN transaction : i # id => transaction'[i] = transaction[i]
            /\ transaction'[id] = [transaction[id] EXCEPT !.offset = @ + 1]
        BY <2>1, <2>2, <3>1 DEF PartSent
      <4>2. transaction[id] \in Transaction
        BY <2>1 DEF Types
      <4>3. transaction'[id].window = v
        BY <2>1, <4>1, <4>2 DEF Transaction
      <4>4. /\ Mine(w)' = Mine(w) /\ (w # v => id \notin Mine(w))
        <5>1. \A i \in DOMAIN transaction : transaction'[i].window = transaction[i].window
          BY <2>1, <4>1, <4>3
        <5>2. QED
          BY <2>1, <4>1, <5>1 DEF Mine
      <4>5. QED
        BY <2>6, <4>1, <4>4 DEF Reached, Mine
    <3>2. CASE x = <<>>
      <4>1. Destroyed(id) /\ watched' \subseteq watched
        BY <2>2, <3>2 DEF Completed
      <4>2. \A i \in Mine(w)' :
              /\ i \in Mine(w) /\ transaction'[i] = transaction[i]
              /\ w \in DOMAIN m_transactions' /\ m_transactions'[w] = m_transactions[w]
        BY <2>1, <2>6, <4>1, DestroyedDoes
      <4>3. QED
        BY <2>6, <4>1, <4>2 DEF Reached
    <3>3. QED
      BY <3>1, <3>2
  <2>7. ASSUME NEW w \in QtWindows \ gaveUp PROVE Orderly(w)'
    <3>1. Orderly(w) /\ Reached(w) /\ w \in Windows
      BY DEF XInv, Orderly, Windows
    <3>2. CASE w # v
      <4>1. Keeps(w)
        BY <1>2, <1>4, <2>4, <2>6, <3>1, <3>2 DEF Keeps
      <4>2. QED
        BY <1>1, <1>2, <3>1, <4>1, KeepsOrderly DEF Reader
    <3>3. CASE w = v
      <4>1. ~None("PropertyNotify", w, ownerInbox)
        BY <1>2, <1>4, <3>3 DEF None
      <4>2. id \in Mine(w)
        BY <2>1, <3>3 DEF Mine
      <4>3. ~(w > calls) /\ w <= calls
        BY <3>1, <4>1, WindowsAssumption DEF Orderly, Unused, Unserved, Types
      <4>4. CASE w = m_requestor
        <5>1. Single("PropertyNotify", w, ownerInbox) => None("PropertyNotify", w, ownerInbox')
          BY <1>2, <1>4, <3>3
        <5>2. Prop(w)' = IF transaction[id].property = QtSelection /\ w \in existing
                         THEN Data(x) ELSE Prop(w)
          BY <2>4, <3>1, <3>3
        <5>3. /\ Reached(w)' /\ Fewer("SelectionNotify", w, inbox, inbox')
              /\ Fewer("SelectionRequest", w, ownerInbox, ownerInbox')
              /\ UNCHANGED <<existing, request>>
          BY <1>2, <1>4, <2>4, <2>6, <3>1
        <5>4. w \in QtWindows
          OBVIOUS
        <5>5. QED
          BY <1>1, <2>2, <3>1, <4>1, <4>2, <4>4, <5>1, <5>2, <5>3, <5>4, PartPutIsMoving
      <4>5. CASE w # m_requestor
        <5>1. NotAsked(w) /\ w \notin existing
          BY <3>1, <4>3, <4>5 DEF Orderly, Left
        <5>2. NotAsked(w)'
          BY <1>2, <1>4, <5>1, FewerThanNone DEF NotAsked
        <5>3. QED
          BY <1>1, <1>2, <2>6, <3>1, <4>3, <4>5, <5>1, <5>2 DEF Orderly, Left, Reader
      <4>6. QED
        BY <4>4, <4>5
    <3>4. QED
      BY <3>2, <3>3
  <2>8. QED
    BY <2>5, <2>7 DEF OwnerKeeps
<1>8. QED
  BY <1>5, <1>6, <1>7

LEMMA OwnerIsOrderly ==
  ASSUME XInv, Owner
  PROVE  XInv'
<1>1. UNCHANGED readVars
  BY DEF Owner
<1>2. OwnerKeeps
  BY <1>1, RefuseKeeps, AcceptKeeps, SendKeeps, AnswerKeeps, NotifyKeeps, TimerKeeps, CloseKeeps
     DEF Owner, OwnerStep
<1>3. Reader
  BY <1>1, ReaderWaits
<1>4. TInv'
  BY TInvNext DEF XInv, Next
<1>5. Known' /\ CompleteOrEmpty'
  BY <1>3 DEF Reader, XInv, Known, CompleteOrEmpty
<1>6. QED
  BY <1>2, <1>3, <1>4, <1>5 DEF OwnerKeeps, XInv, Reader

-----------------------------------------------------------------------------
(* The steps of getSelection().                                             *)

OwnerWaits == UNCHANGED <<request, pairs, refused, transaction, m_transactions>>

LEMMA OwnerWaitsIs == UNCHANGED ownerVars => OwnerWaits
BY DEF ownerVars, handlerVars, OwnerWaits

LEMMA AtWork ==
  ASSUME XInv, at # "idle"
  PROVE  /\ win = m_requestor /\ win \in QtWindows /\ win \in Windows /\ wanted \in Targets
         /\ win <= calls /\ ~(win > calls)
         /\ win \notin gaveUp => Orderly(win) /\ Reached(win) /\ Phase(win)
<1>1. win = m_requestor /\ win \in QtWindows /\ wanted \in Targets /\ win <= calls /\ calls \in Nat
  BY DEF XInv, Known, Types
<1>2. win \in Nat /\ win \in Windows
  BY <1>1, WindowsAssumption DEF Windows
<1>3. win \notin gaveUp => Orderly(win)
  BY <1>1 DEF XInv
<1>4. QED
  BY <1>1, <1>2, <1>3 DEF Orderly

\* A step of getSelection() concerns its own window.
LEMMA WorkKeeps ==
  ASSUME XInv, [Next]_vars, at # "idle", Types', UNCHANGED <<wanted, calls, gaveUp>>, win' = win,
         m_requestor' = m_requestor \/ (m_requestor' = NoWindow /\ at' = "idle"),
         existing' \subseteq existing,
         \A w \in QtWindows : w # win => Keeps(w),
         win \notin gaveUp => Orderly(win)' /\ (at' = "idle" => buf' \in {<<>>, Content(wanted)})
  PROVE  XInv'
<1> Types
  BY DEF XInv
<1>1. TInv'
  BY TInvNext DEF XInv
<1>2. Known'
  BY DEF XInv, Known, Types, NoWindow
<1>3. CompleteOrEmpty'
  BY DEF CompleteOrEmpty
<1>4. ASSUME NEW w \in QtWindows \ gaveUp PROVE Orderly(w)'
  <2>1. CASE w = win
    BY <2>1
  <2>2. CASE w # win
    <3>1. w # m_requestor /\ w # m_requestor' /\ Orderly(w) /\ Keeps(w)
      BY <2>2, AtWork, NewWindowsAssumption DEF XInv, NoWindow
    <3>2. QED
      BY <3>1, OtherWindowIsOrderly DEF Types
  <2>3. QED
    BY <2>1, <2>2
<1>5. QED
  BY <1>1, <1>2, <1>3, <1>4 DEF XInv

LEMMA WinIsOrderly ==
  ASSUME XInv, at # "idle", m_requestor' = m_requestor, calls' = calls, Reached(win)', Phase(win)',
         win' = win
  PROVE  Orderly(win)'
BY AtWork DEF Orderly

LEMMA AnswerTimesOutKeeps ==
  ASSUME XInv, AnswerTimesOut PROVE XInv'
<1> Types
  BY DEF XInv
<1>1. /\ UNCHANGED <<property, existing, watched, now, ownerInbox, inbox>> /\ OwnerWaits
      /\ UNCHANGED <<m_requestor, win, wanted, tmp_buf, buf, calls>>
      /\ at = "answer" /\ at' = "idle" /\ gaveUp' = gaveUp \cup {win}
  BY OwnerWaitsIs DEF AnswerTimesOut, serverVars
<1>2. win = m_requestor /\ win \in QtWindows /\ win <= calls
  BY <1>1, AtWork
<1>3. Types'
  BY <1>1, <1>2 DEF Types, Places, OwnerWaits
<1>4. TInv'
  BY TInvNext DEF XInv, Next, RequestorStep
<1>5. Known' /\ CompleteOrEmpty'
  BY <1>1, <1>2 DEF XInv, Known, CompleteOrEmpty
<1>6. ASSUME NEW w \in QtWindows \ gaveUp' PROVE Orderly(w)'
  <2>1. w # m_requestor /\ w # m_requestor' /\ Orderly(w)
    BY <1>1, <1>2 DEF XInv
  <2>2. Keeps(w)
    BY <1>1, SameIsFewer DEF Keeps, Prop, Mine, Reached, OwnerWaits
  <2>3. QED
    BY <1>1, <2>1, <2>2, OtherWindowIsOrderly DEF Types
<1>7. QED
  BY <1>3, <1>4, <1>5, <1>6 DEF XInv

\* The answer to the request: the one there is.
LEMMA AnsweredKeeps ==
  ASSUME XInv, Answered PROVE XInv'
<1> Types
  BY DEF XInv
<1> USE AtWork
<1>1. /\ UNCHANGED <<property, existing, watched, now, ownerInbox>> /\ OwnerWaits
      /\ UNCHANGED <<m_requestor, wanted, tmp_buf, buf, calls, gaveUp>> /\ win' = win
      /\ at = "answer" /\ at # "idle"
  BY OwnerWaitsIs DEF Answered
<1>2. PICK i \in DOMAIN inbox :
        /\ Answers(inbox[i]) /\ inbox' = RemoveAt(inbox, i)
        /\ at' = IF inbox[i].answered THEN "read" ELSE "idle"
  BY DEF Answered, IsFirst
<1>3. inbox \in Seq(Event)
  BY DEF Types
<1>4. /\ inbox' \in Seq(Event)
      /\ \A type, w : Fewer(type, w, inbox, inbox')
      /\ \A type, w : Single(type, w, inbox) /\ inbox[i].type = type /\ inbox[i].window = w
                        => None(type, w, inbox')
  <2>1. inbox' \in Seq(Event)
    BY <1>2, <1>3, RemoveIs
  <2>2. QED
    BY <1>2, <1>3, <2>1, RemoveIsFewer
<1>5. Types'
  BY <1>1, <1>2, <1>4 DEF Types, Places, OwnerWaits
<1>6. \A w : Keeps(w)
  BY <1>1, <1>4, SameIsFewer DEF Keeps, Prop, Mine, Reached, OwnerWaits
<1>7. ASSUME win \notin gaveUp PROVE Orderly(win)' /\ buf' = <<>>
  <2>1. Asking(win) /\ Reached(win) /\ buf = <<>> /\ win \in existing
    BY <1>1, <1>7 DEF Phase
  <2>2. /\ None("SelectionNotify", win, inbox')
        /\ ~None("SelectionNotify", win, inbox)
        /\ ~inbox[i].answered => Unserved(win)
    BY <1>2, <1>4, <2>1 DEF Asking, Answers, None
  <2>3. NotAsked(win)
    BY <2>1, <2>2 DEF Asking, NotAsked, None
  <2>4. NotAsked(win)' /\ Served(win)' /\ Reached(win)' /\ (Unserved(win) => Unserved(win)')
    <3>1. win' = win
      BY <1>1
    <3>2. NotAsked(win)'
      BY <1>1, <2>3 DEF NotAsked, OwnerWaits
    <3>3. Served(win)'
      BY <1>1, <2>1 DEF Asking, Served, Prop, Mine, OwnerWaits
    <3>4. Reached(win)' /\ (Unserved(win) => Unserved(win)')
      BY <1>1, <2>1 DEF Reached, Unserved, Prop, Mine, OwnerWaits
    <3>5. QED
      BY <3>2, <3>3, <3>4
  <2>5. Phase(win)'
    <3>1. None("SelectionNotify", win, inbox)'
      BY <1>1, <2>2
    <3>2. ~inbox[i].answered => Unused(win)'
      BY <2>2, <2>4, <3>1 DEF Unused
    <3>3. win' \in existing' /\ buf' = <<>>
      BY <1>1, <2>1
    <3>4. QED
      BY <1>2, <2>4, <3>1, <3>2, <3>3 DEF Phase
  <2>6. QED
    BY <1>1, <2>1, <2>4, <2>5, WinIsOrderly
<1>8. QED
  BY <1>1, <1>5, <1>6, <1>7, WorkKeeps DEF Next, RequestorStep

\* What a step keeps that changes nothing on the server but the reader's queue.
LEMMA WinKept ==
  ASSUME XInv, at # "idle", win \notin gaveUp, win' = win, Keeps(win)
  PROVE  /\ Reached(win)' /\ (NotAsked(win) => NotAsked(win)')
         /\ None("SelectionNotify", win, inbox) => None("SelectionNotify", win, inbox')
         /\ Unserved(win) => Unserved(win)'
         /\ wanted' = wanted => (Served(win) => Served(win)')
         /\ wanted' = wanted /\ buf' = buf => (Moving(win) => Moving(win)')
<1> PICK v : v = win
  OBVIOUS
<1>1. Keeps(v) /\ Reached(v)
  BY AtWork
<1>2. /\ Reached(v)' /\ (NotAsked(v) => NotAsked(v)') /\ (Unserved(v) => Unserved(v)')
      /\ wanted' = wanted => (Served(v) => Served(v)')
      /\ wanted' = wanted /\ buf' = buf => (Moving(v) => Moving(v)')
  BY <1>1, KeepsReached, KeepsNotAsked, KeepsUnserved, KeepsServed, KeepsMoving
<1>3. None("SelectionNotify", v, inbox) => None("SelectionNotify", v, inbox')
  BY <1>1, FewerThanNone DEF Keeps
<1>4. QED
  BY <1>2, <1>3

LEMMA PropIs ==
  ASSUME Types, NEW w \in Windows PROVE Prop(w) \in Value /\ Prop(w).parts \in Seq(Chunk)
<1>1. <<w, QtSelection>> \in Windows \X Properties
  BY RequestsAssumption
<1>2. Prop(w) \in Value
  BY <1>1 DEF Types, Prop
<1>3. QED
  BY <1>2 DEF Value

\* The answer was read: there is no data, or the property has them, or INCR.
LEMMA ReadPropertyKeeps ==
  ASSUME XInv, ReadProperty PROVE XInv'
<1> Types
  BY DEF XInv
<1> USE AtWork
<1>1. /\ UNCHANGED <<property, existing, watched, now, ownerInbox, inbox>> /\ OwnerWaits
      /\ UNCHANGED <<m_requestor, wanted, buf, calls, gaveUp>> /\ win' = win
      /\ at = "read" /\ at # "idle"
  BY OwnerWaitsIs DEF ReadProperty, serverVars
<1>2. /\ tmp_buf' = Prop(win).parts
      /\ at' = IF Prop(win) = NoValue THEN "idle" ELSE "delete"
  BY DEF ReadProperty, Prop
<1>3. Types'
  BY <1>1, <1>2, PropIs DEF Types, Places, OwnerWaits
<1>4. \A w : Keeps(w)
  BY <1>1, SameIsFewer DEF Keeps, Prop, Mine, Reached, OwnerWaits
<1>5. ASSUME win \notin gaveUp PROVE Orderly(win)' /\ buf' = <<>>
  <2>1. /\ Phase(win) /\ Served(win) /\ NotAsked(win) /\ None("SelectionNotify", win, inbox)
        /\ buf = <<>> /\ win \in existing
    BY <1>1, <1>5 DEF Phase
  <2>2. Served(win)' /\ NotAsked(win)' /\ None("SelectionNotify", win, inbox') /\ Reached(win)'
    BY <1>1, <1>4, <1>5, <2>1, WinKept
  <2>3. Prop(win) = NoValue => Unserved(win)
    BY <2>1, ValuesAre DEF Served, Unserved
  <2>4. Prop(win) = NoValue => Unused(win)'
    BY <1>1, <1>4, <1>5, <2>2, <2>3, WinKept DEF Unused
  <2>5. Prop(win)' = Prop(win)
    BY <1>1 DEF Prop
  <2>6. win' \in existing' /\ buf' = <<>>
    BY <1>1, <2>1
  <2>7. Phase(win)'
    <3>1. CASE Prop(win) = NoValue
      BY <1>2, <2>2, <2>4, <2>6, <3>1 DEF Phase
    <3>2. CASE Prop(win) # NoValue
      <4>1. at' = "delete" /\ Prop(win)' # NoValue /\ tmp_buf' = Prop(win)'.parts
        BY <1>2, <2>5, <3>2
      <4>2. QED
        BY <1>1, <2>2, <2>6, <4>1 DEF Phase
    <3>3. QED
      BY <3>1, <3>2
  <2>8. QED
    BY <1>1, <2>2, <2>6, <2>7, WinIsOrderly
<1>6. QED
  BY <1>1, <1>2, <1>3, <1>4, <1>5, WorkKeeps DEF Next, RequestorStep

\* A part was read.
LEMMA ReadPartKeeps ==
  ASSUME XInv, ReadPart PROVE XInv'
<1> Types
  BY DEF XInv
<1> USE AtWork
<1>1. /\ UNCHANGED <<property, existing, watched, now, ownerInbox, inbox>> /\ OwnerWaits
      /\ UNCHANGED <<m_requestor, wanted, buf, calls, gaveUp>> /\ win' = win
      /\ at = "readPart" /\ at # "idle"
  BY OwnerWaitsIs DEF ReadPart, serverVars
<1>2. tmp_buf' = Prop(win).parts /\ at' = "deletePart" /\ Prop(win) # NoValue
  BY DEF ReadPart, Prop
<1>3. Types'
  BY <1>1, <1>2, PropIs DEF Types, Places, OwnerWaits
<1>4. \A w : Keeps(w)
  BY <1>1, SameIsFewer DEF Keeps, Prop, Mine, Reached, OwnerWaits
<1>5. ASSUME win \notin gaveUp PROVE Orderly(win)'
  <2>1. /\ Moving(win) /\ NotAsked(win) /\ None("SelectionNotify", win, inbox)
        /\ win \in existing
    BY <1>1, <1>5 DEF Phase
  <2>2. Moving(win)' /\ NotAsked(win)' /\ None("SelectionNotify", win, inbox') /\ Reached(win)'
    BY <1>1, <1>4, <1>5, <2>1, WinKept
  <2>3. Prop(win)' = Data(tmp_buf')
    BY <1>1, <1>2, <2>1 DEF Prop, Moving
  <2>4. Phase(win)'
    BY <1>1, <1>2, <2>1, <2>2, <2>3 DEF Phase
  <2>5. QED
    BY <1>1, <2>2, <2>4, WinIsOrderly
<1>6. QED
  BY <1>1, <1>2, <1>3, <1>4, <1>5, WorkKeeps DEF Next, RequestorStep

\* A notification was taken, of a part or not.
LEMMA TakeNotificationKeeps ==
  ASSUME XInv, TakeNotification PROVE XInv'
<1> Types
  BY DEF XInv
<1> USE AtWork
<1>1. /\ UNCHANGED <<property, existing, watched, now, ownerInbox>> /\ OwnerWaits
      /\ UNCHANGED <<m_requestor, wanted, tmp_buf, buf, calls, gaveUp>> /\ win' = win
      /\ at = "parts" /\ at # "idle" /\ at' \in {"parts", "readPart"}
  BY OwnerWaitsIs DEF TakeNotification
<1>2. PICK i \in DOMAIN inbox : inbox' = RemoveAt(inbox, i)
  BY DEF TakeNotification
<1>3. inbox \in Seq(Event)
  BY DEF Types
<1>4. inbox' \in Seq(Event) /\ \A type, w : Fewer(type, w, inbox, inbox')
  BY <1>2, <1>3, RemoveIs, RemoveIsFewer
<1>5. Types'
  BY <1>1, <1>4 DEF Types, Places, OwnerWaits
<1>6. \A w : Keeps(w)
  BY <1>1, <1>4, SameIsFewer DEF Keeps, Prop, Mine, Reached, OwnerWaits
<1>7. ASSUME win \notin gaveUp PROVE Orderly(win)'
  <2>1. /\ Moving(win) /\ NotAsked(win) /\ None("SelectionNotify", win, inbox)
        /\ win \in existing
    BY <1>1, <1>7 DEF Phase
  <2>2. Moving(win)' /\ NotAsked(win)' /\ None("SelectionNotify", win, inbox') /\ Reached(win)'
    BY <1>1, <1>6, <1>7, <2>1, WinKept
  <2>3. Phase(win)'
    BY <1>1, <2>1, <2>2 DEF Phase
  <2>4. QED
    BY <1>1, <2>2, <2>3, WinIsOrderly
<1>8. QED
  BY <1>1, <1>5, <1>6, <1>7, WorkKeeps DEF Next, RequestorStep

\* The deletion of what was read.
LEMMA DeletionDoes ==
  ASSUME XInv, at # "idle", win' = win, OwnerWaits, UNCHANGED watched,
         DeleteProperty(win, QtSelection), ownerInbox' = ToOwner(win, QtSelection)
  PROVE  /\ property' \in [Windows \X Properties -> Value] /\ inbox' \in Seq(Event)
         /\ ownerInbox' \in Seq(OwnerEvent)
         /\ \A w \in QtWindows : w # win => Keeps(w)
         /\ Prop(win)' = NoValue /\ Mine(win)' = Mine(win)
         /\ Reached(win) => Reached(win)'
         /\ NotAsked(win) => NotAsked(win)'
         /\ None("SelectionNotify", win, inbox) => None("SelectionNotify", win, inbox)'
         /\ None("PropertyNotify", win, ownerInbox) => Single("PropertyNotify", win, ownerInbox)'
         /\ None("PropertyNotify", win, ownerInbox) /\ win \notin watched
              => None("PropertyNotify", win, ownerInbox)'
<1> Types
  BY DEF XInv
<1> PICK v : v = win
  OBVIOUS
<1>1. v \in Windows /\ v \in QtWindows /\ QtSelection \in Properties
  BY AtWork, RequestsAssumption
<1>2. /\ property' \in [Windows \X Properties -> Value] /\ inbox' \in Seq(Event)
      /\ \A w : Fewer("SelectionNotify", w, inbox, inbox')
      /\ \A w \in Windows : Prop(w)' = IF w = v THEN NoValue ELSE Prop(w)
  BY <1>1, DeletePropertyDoes
<1>3. /\ ownerInbox' \in Seq(OwnerEvent)
      /\ \A w : Fewer("SelectionRequest", w, ownerInbox, ownerInbox')
      /\ \A w : w # v => Fewer("PropertyNotify", w, ownerInbox, ownerInbox')
      /\ None("PropertyNotify", v, ownerInbox) => Single("PropertyNotify", v, ownerInbox')
      /\ v \notin watched => ownerInbox' = ownerInbox
  BY <1>1, ToOwnerIs
<1>4. ASSUME NEW w \in QtWindows, w # v PROVE Keeps(w)
  <2>1. Prop(w)' = Prop(w)
    BY <1>2, <1>4 DEF Windows
  <2>2. QED
    BY <1>2, <1>3, <1>4, <2>1 DEF Keeps, Mine, Reached, OwnerWaits
<1>5. Prop(v)' = NoValue /\ Mine(v)' = Mine(v) /\ (Reached(v) => Reached(v)')
  BY <1>1, <1>2 DEF Mine, Reached, OwnerWaits
<1>6. /\ NotAsked(v) => NotAsked(v)'
      /\ None("SelectionNotify", v, inbox) => None("SelectionNotify", v, inbox')
  BY <1>2, <1>3, FewerThanNone DEF NotAsked, OwnerWaits
<1>7. None("PropertyNotify", v, ownerInbox) /\ v \notin watched
        => None("PropertyNotify", v, ownerInbox')
  BY <1>3
<1>8. QED
  BY <1>2, <1>3, <1>4, <1>5, <1>6, <1>7

\* The data were read, or INCR, whose deletion asks for the first part.
LEMMA DeleteReadKeeps ==
  ASSUME XInv, DeleteRead PROVE XInv'
<1> Types
  BY DEF XInv
<1> USE AtWork
<1>1. /\ UNCHANGED <<existing, watched, now>> /\ OwnerWaits
      /\ UNCHANGED <<m_requestor, wanted, calls, gaveUp>> /\ win' = win
      /\ at = "delete" /\ at # "idle" /\ tmp_buf' = <<>>
      /\ DeleteProperty(win, QtSelection) /\ ownerInbox' = ToOwner(win, QtSelection)
  BY OwnerWaitsIs DEF DeleteRead
<1>2. /\ tmp_buf = Incr.parts => at' = "parts" /\ buf' = buf
      /\ tmp_buf # Incr.parts => at' = "idle" /\ buf' = tmp_buf
  BY DEF DeleteRead
<1>3. /\ property' \in [Windows \X Properties -> Value] /\ inbox' \in Seq(Event)
      /\ ownerInbox' \in Seq(OwnerEvent)
      /\ \A w \in QtWindows : w # win => Keeps(w)
      /\ Prop(win)' = NoValue /\ Mine(win)' = Mine(win)
      /\ Reached(win) => Reached(win)'
      /\ NotAsked(win) => NotAsked(win)'
      /\ None("SelectionNotify", win, inbox) => None("SelectionNotify", win, inbox)'
      /\ None("PropertyNotify", win, ownerInbox) => Single("PropertyNotify", win, ownerInbox)'
      /\ None("PropertyNotify", win, ownerInbox) /\ win \notin watched
           => None("PropertyNotify", win, ownerInbox)'
  BY <1>1, DeletionDoes
<1>4. Types'
  BY <1>1, <1>2, <1>3 DEF Types, Places, OwnerWaits
<1>5. ASSUME win \notin gaveUp
      PROVE  Orderly(win)' /\ (at' = "idle" => buf' = Content(wanted))
  <2>1. /\ Served(win) /\ NotAsked(win) /\ None("SelectionNotify", win, inbox)
        /\ buf = <<>> /\ win \in existing /\ Prop(win) # NoValue /\ tmp_buf = Prop(win).parts
        /\ Reached(win)
    BY <1>1, <1>5 DEF Phase
  <2>2. /\ NotAsked(win)' /\ None("SelectionNotify", win, inbox)' /\ Reached(win)'
        /\ win' \in existing'
    BY <1>1, <1>3, <2>1
  <2>3. CASE tmp_buf = Incr.parts
    <3>1. /\ Single("PropertyNotify", win, ownerInbox)'
          /\ \A id \in Mine(win)' : /\ transaction'[id].property = QtSelection
                                    /\ transaction'[id].data = Content(wanted')
                                    /\ transaction'[id].offset = 0
      BY <1>1, <1>3, <2>1 DEF Served, OwnerWaits
    <3>2. buf' \o NoValue.parts = SubSeq(Content(wanted'), 1, 0)
      <4>1. Content(wanted) \in Seq(Chunk)
        BY <1>1, ContentIs
      <4>2. SubSeq(Content(wanted), 1, 0) = <<>>
        BY <4>1
      <4>3. <<>> \o <<>> = <<>>
        OBVIOUS
      <4>4. QED
        BY <1>1, <1>2, <2>1, <2>3, <4>2, <4>3, ValuesAre
    <3>3. NoValue # Data(<<>>)
      BY ValuesAre
    <3>4. Moving(win)'
      BY <1>3, <3>1, <3>2, <3>3 DEF Moving
    <3>5. at' = "parts"
      BY <1>2, <2>3
    <3>6. Phase(win)'
      BY <2>2, <3>4, <3>5 DEF Phase
    <3>7. QED
      BY <1>1, <2>2, <3>5, <3>6, WinIsOrderly
  <2>4. CASE tmp_buf # Incr.parts
    <3>1. Prop(win) = Data(Content(wanted)) /\ Prop(win) # Incr
      BY <2>1, <2>4 DEF Served
    <3>2. at' = "idle" /\ buf' = Content(wanted)
      BY <1>2, <2>1, <2>4, <3>1, ValuesAre
    <3>3. Unserved(win)'
      BY <1>1, <1>3, <2>1, <3>1 DEF Served, Unserved
    <3>4. Phase(win)'
      BY <2>2, <3>2, <3>3 DEF Phase, Unused
    <3>5. QED
      BY <1>1, <2>2, <3>2, <3>4, WinIsOrderly
  <2>5. QED
    BY <2>3, <2>4
<1>6. QED
  BY <1>1, <1>2, <1>3, <1>4, <1>5, WorkKeeps DEF Next, RequestorStep

\* The deletion of a part asks for the next one, or ends the transfer.
LEMMA DeletePartKeeps ==
  ASSUME XInv, DeletePart PROVE XInv'
<1> Types
  BY DEF XInv
<1> USE AtWork
<1>1. /\ UNCHANGED <<existing, watched, now>> /\ OwnerWaits
      /\ UNCHANGED <<m_requestor, wanted, calls, gaveUp>> /\ win' = win
      /\ at = "deletePart" /\ at # "idle" /\ tmp_buf' = <<>> /\ buf' = buf \o tmp_buf
      /\ DeleteProperty(win, QtSelection) /\ ownerInbox' = ToOwner(win, QtSelection)
  BY OwnerWaitsIs DEF DeletePart
<1>2. at' = IF tmp_buf = <<>> THEN "idle" ELSE "parts"
  BY DEF DeletePart
<1>3. /\ property' \in [Windows \X Properties -> Value] /\ inbox' \in Seq(Event)
      /\ ownerInbox' \in Seq(OwnerEvent)
      /\ \A w \in QtWindows : w # win => Keeps(w)
      /\ Prop(win)' = NoValue /\ Mine(win)' = Mine(win)
      /\ Reached(win) => Reached(win)'
      /\ NotAsked(win) => NotAsked(win)'
      /\ None("SelectionNotify", win, inbox) => None("SelectionNotify", win, inbox)'
      /\ None("PropertyNotify", win, ownerInbox) => Single("PropertyNotify", win, ownerInbox)'
      /\ None("PropertyNotify", win, ownerInbox) /\ win \notin watched
           => None("PropertyNotify", win, ownerInbox)'
  BY <1>1, DeletionDoes
<1>4. buf' \in Seq(Chunk) /\ buf' \o <<>> = buf' /\ (tmp_buf = <<>> => buf' = buf)
  <2>1. buf \in Seq(Chunk) /\ tmp_buf \in Seq(Chunk)
    BY DEF Types
  <2>2. \A s \in Seq(Chunk) : s \o <<>> = s
    OBVIOUS
  <2>3. buf \o tmp_buf \in Seq(Chunk)
    BY <2>1
  <2>4. QED
    BY <1>1, <2>1, <2>2, <2>3
<1>5. Types'
  BY <1>1, <1>2, <1>3, <1>4 DEF Types, Places, OwnerWaits
<1>6. ASSUME win \notin gaveUp
      PROVE  Orderly(win)' /\ (at' = "idle" => buf' = Content(wanted))
  <2>1. /\ Moving(win) /\ NotAsked(win) /\ None("SelectionNotify", win, inbox)
        /\ win \in existing /\ Prop(win) = Data(tmp_buf) /\ Reached(win)
    BY <1>1, <1>6 DEF Phase
  <2>2. /\ NotAsked(win)' /\ None("SelectionNotify", win, inbox)' /\ Reached(win)'
        /\ win' \in existing' /\ None("PropertyNotify", win, ownerInbox)
        /\ Prop(win).parts = tmp_buf
    BY <1>1, <1>3, <2>1, ValuesAre DEF Moving
  <2>3. CASE tmp_buf = <<>>
    <3>1. at' = "idle" /\ buf' = Content(wanted)
      BY <1>2, <1>4, <2>1, <2>3 DEF Moving
    <3>2. Unserved(win)'
      BY <1>1, <1>3, <2>1, <2>2, <2>3 DEF Moving, Unserved
    <3>3. Phase(win)'
      BY <2>2, <3>1, <3>2 DEF Phase, Unused
    <3>4. QED
      BY <1>1, <2>2, <3>1, <3>3, WinIsOrderly
  <2>4. CASE tmp_buf # <<>>
    <3>1. at' = "parts"
      BY <1>2, <2>4
    <3>2. /\ Single("PropertyNotify", win, ownerInbox)'
          /\ \A id \in Mine(win)' :
               /\ transaction'[id].property = QtSelection
               /\ transaction'[id].data = Content(wanted')
               /\ buf' \o NoValue.parts = SubSeq(Content(wanted'), 1, transaction'[id].offset)
      BY <1>1, <1>3, <1>4, <2>1, <2>2, ValuesAre DEF Moving, OwnerWaits
    <3>3. NoValue # Data(<<>>)
      BY ValuesAre
    <3>4. Moving(win)'
      BY <1>3, <3>2, <3>3 DEF Moving
    <3>5. Phase(win)'
      BY <2>2, <3>1, <3>4 DEF Phase
    <3>6. QED
      BY <1>1, <2>2, <3>1, <3>5, WinIsOrderly
  <2>5. QED
    BY <2>3, <2>4
<1>7. QED
  BY <1>1, <1>2, <1>3, <1>5, <1>6, WorkKeeps DEF Next, RequestorStep

\* The transfer is broken off: its window is left.
LEMMA BreakOffKeeps ==
  ASSUME XInv, at \in {"parts", "readPart"}, BreakOff, Next PROVE XInv'
<1> Types
  BY DEF XInv
<1> USE AtWork
<1>1. /\ UNCHANGED <<watched, now, ownerInbox, inbox>> /\ OwnerWaits
      /\ UNCHANGED <<wanted, tmp_buf, calls, gaveUp>> /\ win' = win
      /\ at # "idle" /\ at \notin {"idle", "answer"} /\ at' = "idle" /\ buf' = <<>>
      /\ m_requestor' = NoWindow /\ existing' = existing \ {win}
      /\ property' = [property EXCEPT ![<<win, QtSelection>>] = NoValue]
  BY OwnerWaitsIs DEF BreakOff, setRequestor
<1>2. /\ property' \in [Windows \X Properties -> Value]
      /\ \A w \in QtWindows : w # win => Prop(w)' = Prop(w)
  BY <1>1, RequestsAssumption, PropAfter, ValuesAre DEF Types, Windows
<1>3. Types'
  BY <1>1, <1>2 DEF Types, Places, OwnerWaits
<1>4. ASSUME NEW w \in QtWindows, w # win PROVE Keeps(w)
  BY <1>1, <1>2, <1>4, SameIsFewer DEF Keeps, Mine, Reached, OwnerWaits
<1>5. ASSUME win \notin gaveUp PROVE Orderly(win)'
  <2>1. NotAsked(win) /\ Reached(win)
    BY <1>1, <1>5 DEF Phase
  <2>2. NotAsked(win)' /\ Reached(win)' /\ win' \notin existing'
    BY <1>1, <2>1 DEF NotAsked, Reached, Mine, OwnerWaits
  <2>3. win' # m_requestor' /\ ~(win' > calls')
    BY <1>1, NewWindowsAssumption DEF NoWindow
  <2>4. QED
    BY <2>2, <2>3 DEF Orderly, Left
<1>6. QED
  BY <1>1, <1>3, <1>4, <1>5, WorkKeeps

LEMMA OneAsked ==
  ASSUME NEW q \in Seq(OwnerEvent), NEW e \in OwnerEvent, NEW w, None("SelectionRequest", w, q)
  PROVE  /\ Single("SelectionRequest", w, Append(q, e))
         /\ \A i \in DOMAIN Append(q, e) :
              Append(q, e)[i].type = "SelectionRequest" /\ Append(q, e)[i].window = w
                => Append(q, e)[i] = e
<1> PICK type : type = "SelectionRequest"
  OBVIOUS
<1>1. None(type, w, q)
  OBVIOUS
<1>2. /\ Single(type, w, Append(q, e))
      /\ \A k \in DOMAIN Append(q, e) :
           Append(q, e)[k].type = type /\ Append(q, e)[k].window = w => Append(q, e)[k] = e
  BY <1>1, AppendToNone, ZenonT(30)
<1>3. QED
  BY <1>2

\* The window that getSelection() asks with: nothing is under way for it.
LEMMA RequestorIs ==
  ASSUME XInv, NEW t \in Targets, getSelection(t),
         NEW w, w = IF m_requestor = NoWindow THEN NewWindow ELSE m_requestor
  PROVE  /\ w \in QtWindows /\ w \in Windows /\ w \in Nat /\ w <= calls + 1 /\ w # NoWindow
         /\ w \notin gaveUp => Unused(w)
         /\ m_requestor # NoWindow => w = m_requestor
<1> Types /\ Known /\ m_requestor <= calls /\ calls \in Nat
  BY DEF XInv, Known, Types
<1>1. CASE m_requestor = NoWindow
  <2>1. PICK mix \in Mixes : calls < mix.own
    BY DEF getSelection
  <2>2. calls + 1 \in QtWindows
    <3>1. mix.own \in Nat
      BY RequestsAssumption
    <3>2. calls + 1 \in 1 .. mix.own
      BY <2>1, <3>1
    <3>3. QED
      BY <3>2, NewWindowsAssumption
  <2>3. w = calls + 1
    BY <1>1, <2>2 DEF NewWindow
  <2>4. w \notin gaveUp => Unused(w)
    BY <2>2, <2>3 DEF XInv, Orderly
  <2>5. QED
    BY <1>1, <2>2, <2>3, <2>4 DEF NoWindow, Windows
<1>2. CASE m_requestor # NoWindow
  <2>1. w = m_requestor /\ w \in QtWindows
    BY <1>2 DEF Types
  <2>2. w \notin gaveUp => Unused(w)
    BY <2>1 DEF XInv, Orderly, Phase, getSelection
  <2>3. QED
    BY <1>2, <2>1, <2>2, WindowsAssumption DEF Windows
<1>3. QED
  BY <1>1, <1>2

LEMMA GetSelectionKeeps ==
  ASSUME XInv, NEW t \in Targets, getSelection(t) PROVE XInv'
<1> Types
  BY DEF XInv
<1> PICK w, asked, answer :
      /\ w = IF m_requestor = NoWindow THEN NewWindow ELSE m_requestor
      /\ asked = SelectionRequest(w, <<[target |-> t, property |-> QtSelection]>>, FALSE)
      /\ answer = SelectionNotify(w, FALSE)
  OBVIOUS
<1>1. /\ w \in QtWindows /\ w \in Windows /\ w \in Nat /\ w <= calls + 1 /\ w # NoWindow
      /\ w \notin gaveUp => Unused(w)
      /\ m_requestor # NoWindow => w = m_requestor
  BY RequestorIs
<1>2. /\ UNCHANGED <<watched, now>> /\ OwnerWaits
      /\ UNCHANGED <<tmp_buf, gaveUp>>
      /\ m_requestor' = w /\ win' = w /\ existing' = existing \cup {w} /\ calls' = calls + 1
      /\ at' = "answer" /\ wanted' = t /\ buf' = <<>>
      /\ property' = [property EXCEPT ![<<w, QtSelection>>] = NoValue]
  BY OwnerWaitsIs DEF getSelection
<1> DEFINE deletion == PropertyNotify(w, QtSelection, "Delete")
<1>3. PICK told : /\ told = IF Prop(w) # NoValue THEN Append(inbox, deletion) ELSE inbox
                  /\ \/ inbox' = Append(told, answer) /\ ownerInbox' = ownerInbox
                     \/ inbox' = told /\ ownerInbox' = Append(ToOwner(w, QtSelection), asked)
  BY DEF getSelection, Prop
<1>4. /\ asked \in OwnerEvent /\ asked.type = "SelectionRequest" /\ asked.window = w
      /\ asked.pairs = <<[target |-> t, property |-> QtSelection]>> /\ asked.multiple = FALSE
      /\ answer \in Event /\ answer.type = "SelectionNotify" /\ answer.window = w
      /\ answer.answered = FALSE
      /\ deletion \in Event /\ deletion.type = "PropertyNotify" /\ deletion.window = w
  <2>1. QtSelection \in Properties /\ now \in Nat
    BY RequestsAssumption DEF Types
  <2>2. <<[target |-> t, property |-> QtSelection]>> \in Seq(Pair)
    BY <2>1 DEF Pair
  <2>3. /\ asked \in OwnerEvent /\ asked.type = "SelectionRequest" /\ asked.window = w
        /\ asked.pairs = <<[target |-> t, property |-> QtSelection]>> /\ asked.multiple = FALSE
    <3> PICK ps : ps = <<[target |-> t, property |-> QtSelection]>> /\ ps \in Seq(Pair)
      BY <2>2
    <3>1. asked = SelectionRequest(w, ps, FALSE)
      OBVIOUS
    <3>2. asked \in Request
      BY <1>1, <3>1 DEF SelectionRequest, Request
    <3>3. QED
      BY <3>1, <3>2 DEF SelectionRequest, OwnerEvent
  <2>4. /\ answer \in Event /\ answer.type = "SelectionNotify" /\ answer.window = w
        /\ answer.answered = FALSE
    BY <1>1, <2>1, EventsAre DEF Event
  <2>5. deletion \in Event /\ deletion.type = "PropertyNotify" /\ deletion.window = w
    BY <1>1, <2>1, EventsAre DEF Event
  <2>6. QED
    BY <2>3, <2>4, <2>5
<1> HIDE DEF deletion
<1>5. ownerInbox \in Seq(OwnerEvent) /\ inbox \in Seq(Event) /\ calls \in Nat
      /\ m_requestor \in QtWindows \cup {NoWindow} /\ QtSelection \in Properties
  BY RequestsAssumption DEF Types
<1>6. /\ told \in Seq(Event) /\ (Prop(w) = NoValue => told = inbox)
      /\ \A type, u : u # w => Fewer(type, u, inbox, told)
  BY <1>3, <1>4, <1>5, AppendIs, AppendIsFewer, SameIsFewer
<1>7. /\ ToOwner(w, QtSelection) \in Seq(OwnerEvent)
      /\ \A type, u : u # w => Fewer(type, u, ownerInbox, ToOwner(w, QtSelection))
      /\ Prop(w) = NoValue => ToOwner(w, QtSelection) = ownerInbox
  <2> DEFINE e == PropertyNotify(w, QtSelection, "Delete")
  <2>1. ToOwner(w, QtSelection) \in {ownerInbox, Append(ownerInbox, e)}
    BY DEF ToOwner
  <2>2. e \in OwnerEvent /\ e.window = w
    BY <1>1, <1>5, EventsAre DEF OwnerEvent, Types
  <2> HIDE DEF e
  <2>3. Prop(w) = NoValue => ToOwner(w, QtSelection) = ownerInbox
    BY DEF ToOwner, Prop
  <2>4. CASE ToOwner(w, QtSelection) = ownerInbox
    BY <1>5, <2>3, <2>4, SameIsFewer
  <2>5. CASE ToOwner(w, QtSelection) = Append(ownerInbox, e)
    <3>1. ToOwner(w, QtSelection) \in Seq(OwnerEvent)
      <4>1. \A q \in Seq(OwnerEvent), d \in OwnerEvent : Append(q, d) \in Seq(OwnerEvent)
        BY AppendIs
      <4>2. QED
        BY <1>5, <2>2, <2>5, <4>1, Zenon
    <3>2. ASSUME NEW type, NEW u, u # w PROVE Fewer(type, u, ownerInbox, ToOwner(w, QtSelection))
      BY <1>5, <2>2, <2>5, <3>2, AppendIsFewer
    <3>3. QED
      BY <2>3, <3>1, <3>2
  <2>6. QED
    BY <2>1, <2>4, <2>5
<1>8. /\ inbox' \in Seq(Event) /\ ownerInbox' \in Seq(OwnerEvent)
      /\ \A type, u : u # w => /\ Fewer(type, u, inbox, inbox')
                               /\ Fewer(type, u, ownerInbox, ownerInbox')
  <2>1. CASE inbox' = told /\ ownerInbox' = Append(ToOwner(w, QtSelection), asked)
    <3>1. ownerInbox' \in Seq(OwnerEvent)
      BY <1>4, <1>7, <2>1, AppendIs
    <3>2. ASSUME NEW type, NEW u, u # w PROVE Fewer(type, u, ownerInbox, ownerInbox')
      <4>1. Fewer(type, u, ToOwner(w, QtSelection), ownerInbox')
        BY <1>4, <1>7, <2>1, <3>2, AppendIsFewer
      <4>2. QED
        BY <1>7, <3>2, <4>1, FewerIsTransitive
    <3>3. QED
      BY <1>6, <2>1, <3>1, <3>2
  <2>2. CASE inbox' = Append(told, answer) /\ ownerInbox' = ownerInbox
    <3>1. inbox' \in Seq(Event)
      BY <1>4, <1>6, <2>2, AppendIs
    <3>2. ASSUME NEW type, NEW u, u # w PROVE Fewer(type, u, inbox, inbox')
      <4>1. Fewer(type, u, told, inbox')
        BY <1>4, <1>6, <2>2, <3>2, AppendIsFewer
      <4>2. QED
        BY <1>6, <3>2, <4>1, FewerIsTransitive
    <3>3. QED
      BY <1>5, <2>2, <3>1, <3>2, SameIsFewer
  <2>3. QED
    BY <1>3, <2>1, <2>2
<1>9. /\ property' \in [Windows \X Properties -> Value]
      /\ \A u \in Windows : Prop(u)' = IF u = w THEN NoValue ELSE Prop(u)
  BY <1>1, <1>2, <1>5, PropAfter, ValuesAre DEF Types
<1>10. Types'
  <2>1. buf' \in Seq(Chunk)
    BY <1>2
  <2>2. QED
    BY <1>1, <1>2, <1>5, <1>8, <1>9, <2>1 DEF Types, Places, OwnerWaits
<1>11. ASSUME NEW u \in QtWindows \ gaveUp, u # w PROVE Orderly(u)'
  <2>1. Keeps(u)
    BY <1>2, <1>8, <1>9, <1>11 DEF Keeps, Mine, Reached, OwnerWaits, Windows
  <2>2. Orderly(u) /\ u \in Nat /\ u # NoWindow
    BY NewWindowsAssumption, WindowsAssumption DEF XInv, NoWindow
  <2>3. u # m_requestor /\ u # m_requestor'
    BY <1>1, <1>2, <1>11, <2>2
  <2>4. Reached(u)' /\ (u > calls => Unused(u)' /\ NotAsked(u)' /\ u \notin existing)
    BY <2>1, <2>2, KeepsReached, KeepsUnused DEF Orderly, Unused
  <2>5. u <= calls => NotAsked(u)' /\ u \notin existing
    BY <2>1, <2>2, <2>3, KeepsNotAsked DEF Orderly, Left
  <2>6. u > calls \/ u <= calls
    BY <1>5, <2>2
  <2>7. u > calls' => u > calls
    BY <1>2, <1>5, <2>2
  <2>8. u \notin existing'
    BY <1>2, <1>11, <2>4, <2>5, <2>6
  <2>9. QED
    BY <2>3, <2>4, <2>5, <2>6, <2>7, <2>8 DEF Orderly, Left
<1>12. ASSUME w \notin gaveUp PROVE Orderly(w)'
  <2>1. /\ NotAsked(w) /\ None("SelectionNotify", w, inbox) /\ Unserved(w) /\ Prop(w) = NoValue
        /\ None("SelectionRequest", w, ownerInbox) /\ request.window # w
        /\ None("PropertyNotify", w, ownerInbox)
    BY <1>1, <1>12 DEF Unused, NotAsked, Unserved
  <2>2. \/ inbox' = Append(inbox, answer) /\ ownerInbox' = ownerInbox
        \/ inbox' = inbox /\ ownerInbox' = Append(ownerInbox, asked)
    BY <1>3, <1>6, <1>7, <2>1
  <2>3. request'.window # w
    BY <1>2, <2>1 DEF OwnerWaits
  <2>4. Unserved(w)' /\ Reached(w)'
    <3>1. Fewer("PropertyNotify", w, ownerInbox, ownerInbox')
      BY <1>4, <1>5, <2>2, SameIsFewer, AppendIsFewer
    <3>2. None("PropertyNotify", w, ownerInbox')
      BY <2>1, <3>1, FewerThanNone
    <3>3. Mine(w)' = {}
      BY <1>2, <2>1 DEF Unserved, Mine, OwnerWaits
    <3>4. QED
      BY <1>1, <1>2, <1>9, <2>1, <3>2, <3>3 DEF Unserved, Reached
  <2>5. Served(w)'
    BY <2>4 DEF Unserved, Served
  <2>6. /\ Single("SelectionRequest", w, ownerInbox') /\ Single("SelectionNotify", w, inbox')
        /\ \A i \in DOMAIN ownerInbox' :
             ownerInbox'[i].type = "SelectionRequest" /\ ownerInbox'[i].window = w
               => ownerInbox'[i] = asked /\ None("SelectionNotify", w, inbox')
    <3>1. CASE inbox' = Append(inbox, answer) /\ ownerInbox' = ownerInbox
      <4>1. Single("SelectionNotify", w, inbox')
        BY <1>4, <1>5, <2>1, <3>1, AppendToNone
      <4>2. Single("SelectionRequest", w, ownerInbox') /\ None("SelectionRequest", w, ownerInbox')
        BY <2>1, <3>1 DEF None, Single
      <4>3. QED
        BY <4>1, <4>2 DEF None
    <3>2. CASE inbox' = inbox /\ ownerInbox' = Append(ownerInbox, asked)
      <4>1. Single("SelectionRequest", w, ownerInbox')
            /\ \A i \in DOMAIN ownerInbox' :
                 ownerInbox'[i].type = "SelectionRequest" /\ ownerInbox'[i].window = w
                   => ownerInbox'[i] = asked
        BY <1>4, <1>5, <2>1, <3>2, OneAsked
      <4>2. Single("SelectionNotify", w, inbox') /\ None("SelectionNotify", w, inbox')
        BY <2>1, <3>2 DEF None, Single
      <4>3. QED
        BY <4>1, <4>2
    <3>3. QED
      BY <2>2, <3>1, <3>2
  <2>7. asked.pairs = AskedFor' /\ ~asked.multiple
    BY <1>2, <1>4 DEF AskedFor
  <2>8. Asking(w)'
    BY <2>3, <2>4, <2>5, <2>6, <2>7 DEF Asking
  <2>9. Phase(w)'
    BY <1>2, <2>8 DEF Phase
  <2>10. ~(w > calls') /\ w = m_requestor'
    BY <1>1, <1>2, <1>5
  <2>11. QED
    BY <2>4, <2>9, <2>10 DEF Orderly
<1>13. Known'
  BY <1>1, <1>2, <1>5, WindowsAssumption DEF XInv, Known, Types
<1>14. TInv' /\ CompleteOrEmpty'
  BY <1>2, TInvNext DEF XInv, Next, CompleteOrEmpty
<1>15. QED
  BY <1>2, <1>10, <1>11, <1>12, <1>13, <1>14 DEF XInv

-----------------------------------------------------------------------------
(* The steps of neither: time, what is discarded, the third client.         *)

Aside == UNCHANGED <<m_requestor, existing, at, win, wanted, tmp_buf, buf, calls, gaveUp>>

LEMMA AsideKeeps ==
  ASSUME XInv, [Next]_vars, Aside, Types', \A w \in QtWindows \ gaveUp : Keeps(w)
  PROVE  XInv'
<1>1. TInv' /\ Known' /\ CompleteOrEmpty'
  BY TInvNext DEF XInv, Aside, Known, CompleteOrEmpty
<1>2. \A w \in QtWindows \ gaveUp : Orderly(w)'
  BY KeepsOrderly DEF XInv, Aside
<1>3. QED
  BY <1>1, <1>2 DEF XInv, Aside

LEMMA DiscardKeeps ==
  ASSUME XInv, Discard PROVE XInv'
<1>1. /\ UNCHANGED <<property, watched, now, ownerInbox>> /\ OwnerWaits /\ Aside /\ inbox' = <<>>
  BY OwnerWaitsIs DEF Discard, Aside
<1>2. Types'
  BY <1>1 DEF XInv, Types, OwnerWaits, Aside
<1>3. \A w \in QtWindows : Keeps(w)
  BY <1>1, SameIsFewer, EmptyIsFewer DEF Keeps, Prop, Mine, Reached, OwnerWaits
<1>4. QED
  BY <1>1, <1>2, <1>3, AsideKeeps DEF Next

LEMMA TickKeeps ==
  ASSUME XInv, Tick, UNCHANGED readVars PROVE XInv'
<1>1. /\ UNCHANGED <<property, watched, ownerInbox, inbox>> /\ OwnerWaits /\ Aside /\ now' = now + 1
  BY OwnerWaitsIs DEF Tick, readVars, Aside
<1>2. Types'
  BY <1>1 DEF XInv, Types, OwnerWaits, Aside
<1>3. \A w \in QtWindows : Keeps(w)
  BY <1>1, SameIsFewer DEF Keeps, Prop, Mine, Reached, OwnerWaits
<1>4. QED
  BY <1>1, <1>2, <1>3, AsideKeeps DEF Next

LEMMA StutterKeeps ==
  ASSUME XInv, UNCHANGED vars PROVE XInv'
<1>1. /\ UNCHANGED <<property, watched, now, ownerInbox, inbox>> /\ OwnerWaits /\ Aside
  BY OwnerWaitsIs DEF vars, serverVars, readVars, Aside
<1>2. Types'
  BY <1>1 DEF XInv, Types, OwnerWaits, Aside
<1>3. \A w \in QtWindows : Keeps(w)
  BY <1>1, SameIsFewer DEF Keeps, Prop, Mine, Reached, OwnerWaits
<1>4. QED
  BY <1>1, <1>2, <1>3, AsideKeeps

LEMMA ForeignRequestsKeeps ==
  ASSUME XInv, ForeignRequests PROVE XInv'
<1>1. /\ UNCHANGED <<property, watched, now, inbox>> /\ OwnerWaits /\ Aside
  BY OwnerWaitsIs DEF ForeignRequests, Aside
<1>2. PICK ps \in ForeignPairs :
        ownerInbox' = Append(ownerInbox, SelectionRequest(ForeignWindow, ps, Len(ps) > 1))
  BY DEF ForeignRequests
<1>3. ownerInbox \in Seq(OwnerEvent)
  BY DEF XInv, Types
<1> PICK e, multiple : multiple = (Len(ps) > 1) /\ e = SelectionRequest(ForeignWindow, ps, multiple)
  OBVIOUS
<1>4. e \in OwnerEvent /\ e.window = ForeignWindow
  <2>1. ps \in Seq(Pair)
    BY ForeignAssumption DEF Pair
  <2>2. multiple \in BOOLEAN /\ ForeignWindow \in Windows
    BY DEF Windows
  <2>3. e \in Request
    BY <2>1, <2>2 DEF SelectionRequest, Request
  <2>4. QED
    BY <2>3 DEF SelectionRequest, OwnerEvent
<1>5. ownerInbox' \in Seq(OwnerEvent)
  BY <1>2, <1>3, <1>4, AppendIs
<1>6. Types'
  BY <1>1, <1>5 DEF XInv, Types, OwnerWaits, Aside
<1>7. ASSUME NEW w \in QtWindows PROVE Keeps(w)
  <2>1. w # e.window
    BY <1>4, WindowsAssumption
  <2>2. \A type : Fewer(type, w, ownerInbox, ownerInbox')
    BY <1>2, <1>3, <1>4, <2>1, AppendIsFewer
  <2>3. QED
    BY <1>1, <2>2, SameIsFewer DEF Keeps, Prop, Mine, Reached, OwnerWaits
<1>8. QED
  BY <1>1, <1>6, <1>7, AsideKeeps DEF Next

LEMMA ForeignTakesKeeps ==
  ASSUME XInv, ForeignTakes PROVE XInv'
<1> Types
  BY DEF XInv
<1>1. /\ UNCHANGED <<watched, now>> /\ OwnerWaits /\ Aside
  BY OwnerWaitsIs DEF ForeignTakes, readVars, Aside
<1>2. PICK p \in Properties :
        DeleteProperty(ForeignWindow, p) /\ ownerInbox' = ToOwner(ForeignWindow, p)
  BY DEF ForeignTakes
<1>3. ForeignWindow \in Windows
  BY DEF Windows
<1>4. /\ property' \in [Windows \X Properties -> Value] /\ inbox' \in Seq(Event)
      /\ \A v : Fewer("SelectionNotify", v, inbox, inbox')
      /\ \A v \in Windows : v # ForeignWindow => Prop(v)' = Prop(v)
  BY <1>2, <1>3, DeletePropertyDoes
<1>5. /\ ownerInbox' \in Seq(OwnerEvent)
      /\ \A v : Fewer("SelectionRequest", v, ownerInbox, ownerInbox')
      /\ \A v : v # ForeignWindow => Fewer("PropertyNotify", v, ownerInbox, ownerInbox')
  BY <1>2, <1>3, ToOwnerIs
<1>6. Types'
  BY <1>1, <1>4, <1>5 DEF Types, OwnerWaits, Aside
<1>7. ASSUME NEW w \in QtWindows PROVE Keeps(w)
  <2>1. w # ForeignWindow /\ w \in Windows
    BY WindowsAssumption DEF Windows
  <2>2. QED
    BY <1>1, <1>4, <1>5, <2>1 DEF Keeps, Mine, Reached, OwnerWaits
<1>8. QED
  BY <1>1, <1>6, <1>7, AsideKeeps DEF Next

-----------------------------------------------------------------------------
(* The invariant.                                                           *)

LEMMA XInvInit == Init => XInv
<1> SUFFICES ASSUME Init PROVE XInv
  OBVIOUS
<1>1. /\ property = [wp \in Windows \X Properties |-> NoValue]
      /\ existing = {ForeignWindow} /\ watched = {} /\ now = 0
      /\ ownerInbox = <<>> /\ inbox = <<>> /\ transaction = <<>> /\ DOMAIN transaction = {}
      /\ request = NoRequest /\ pairs = <<>>
      /\ m_requestor = NoWindow /\ at = "idle" /\ tmp_buf = <<>> /\ buf = <<>> /\ calls = 0
      /\ gaveUp = {}
  BY DEF Init, OwnerInit
<1>2. NoRequest \in Request /\ request.window = ForeignWindow
  BY <1>1, EventsAre
<1>3. Types
  BY <1>1, <1>2, ValuesAre DEF Types, Places
<1>4. TInv
  BY TInvInit
<1>5. Known /\ CompleteOrEmpty
  BY <1>1 DEF Known, CompleteOrEmpty, NoWindow
<1>6. ASSUME NEW w \in QtWindows PROVE Orderly(w)
  <2>1. w \in Nat /\ w # 0 /\ w # ForeignWindow /\ <<w, QtSelection>> \in Windows \X Properties
    BY WindowsAssumption, NewWindowsAssumption, RequestsAssumption DEF Windows
  <2>2. Prop(w) = NoValue /\ Mine(w) = {}
    BY <1>1, <2>1 DEF Prop, Mine
  <2>3. Unused(w) /\ w \notin existing
    BY <1>1, <1>2, <2>1, <2>2 DEF Unused, NotAsked, None, Unserved
  <2>4. Reached(w) /\ w # m_requestor /\ ~(w <= calls)
    BY <1>1, <2>1, <2>2 DEF Reached, NoWindow
  <2>5. QED
    BY <2>3, <2>4 DEF Orderly
<1>7. QED
  BY <1>3, <1>4, <1>5, <1>6 DEF XInv

LEMMA XInvNext == XInv /\ [Next]_vars => XInv'
<1> SUFFICES ASSUME XInv, [Next]_vars PROVE XInv'
  OBVIOUS
<1>1. CASE \E t \in Targets : getSelection(t)
  BY <1>1, GetSelectionKeeps
<1>2. CASE RequestorStep
  <2>1. Next
    BY <1>2 DEF Next
  <2>2. CASE PartTimesOut \/ PartMissing
    BY <2>1, <2>2, BreakOffKeeps DEF PartTimesOut, PartMissing
  <2>3. QED
    BY <1>2, <2>2, AnswerTimesOutKeeps, AnsweredKeeps, ReadPropertyKeeps, DeleteReadKeeps,
       TakeNotificationKeeps, ReadPartKeeps, DeletePartKeeps DEF RequestorStep
<1>3. CASE Owner
  BY <1>3, OwnerIsOrderly
<1>4. CASE Discard \/ (Tick /\ UNCHANGED readVars) \/ ForeignRequests \/ ForeignTakes
  BY <1>4, DiscardKeeps, TickKeeps, ForeignRequestsKeeps, ForeignTakesKeeps
<1>5. QED
  BY <1>1, <1>2, <1>3, <1>4, StutterKeeps DEF Next

LEMMA XInvAlways == Spec => []XInv
BY XInvInit, XInvNext, PTL DEF Spec

\* getSelection() returns all of the data it asked for or nothing, whatever parts
\* the data have and however notifications and the timeouts of both sides fall,
\* unless an earlier answer to its window came too late.
THEOREM SelectionIsCompleteOrEmpty == Spec => []CompleteOrEmpty
BY XInvAlways, PTL DEF XInv

\* updateIncrementalProperty() is told of the deletions in every transaction: no
\* other has taken its place in m_transactions, unless an answer came too late.
THEOREM TransactionsAreReached == Spec => []TransactionsReachable
<1>1. XInv => TransactionsReachable
  <2> SUFFICES ASSUME XInv, NEW id \in DOMAIN transaction,
                      transaction[id].window \notin gaveUp \cup {ForeignWindow}
               PROVE  /\ transaction[id].window \in DOMAIN m_transactions
                      /\ m_transactions[transaction[id].window] = id
    BY DEF TransactionsReachable
  <2> DEFINE w == transaction[id].window
  <2>1. w \in QtWindows \ gaveUp
    BY DEF XInv, Types, Transaction, Windows
  <2>2. Reached(w) /\ id \in Mine(w)
    BY <2>1 DEF XInv, Orderly, Mine
  <2>3. QED
    BY <2>2 DEF Reached
<1>2. QED
  BY <1>1, XInvAlways, PTL

-----------------------------------------------------------------------------
(* What is written into the property of getSelection()'s window.            *)

NotOverwritten(w) == Prop(w) # NoValue => Prop(w)' \in {Prop(w), NoValue}

\* A part is put only after the last one was deleted.
LEMMA PartIsAwaited ==
  ASSUME XInv, handlePropertyNotify, NEW w \in QtWindows \ gaveUp PROVE NotOverwritten(w)
<1> Types /\ Orderly(w) /\ w \in Windows /\ w \in Nat
  BY WindowsAssumption DEF XInv, Windows
<1> PICK id, v : v = Head(ownerInbox).window /\ id = Addressed(Head(ownerInbox))
  OBVIOUS
<1>1. /\ ownerInbox # <<>> /\ Head(ownerInbox).type = "PropertyNotify"
      /\ \/ property' = property
         \/ id # 0 /\ updateIncrementalProperty(id)
  BY DEF handlePropertyNotify
<1>2. Head(ownerInbox) = ownerInbox[1] /\ 1 \in DOMAIN ownerInbox
  BY <1>1, TailIsFewer DEF Types
<1>3. CASE property' = property
  BY <1>3 DEF NotOverwritten, Prop
<1>4. CASE id # 0 /\ updateIncrementalProperty(id)
  <2> PICK x, p : /\ x = (IF transaction[id].offset = Len(transaction[id].data) THEN <<>>
                          ELSE <<transaction[id].data[transaction[id].offset + 1]>>)
                  /\ p = transaction[id].property
    OBVIOUS
  <2>1. id \in DOMAIN transaction /\ transaction[id].window = v
    BY <1>4 DEF Addressed, XInv, TInv, NoDanglingTransaction
  <2>2. ChangeProperty(v, p, Data(x))
    BY <1>4, <2>1 DEF updateIncrementalProperty
  <2>3. v \in Windows /\ p \in Properties /\ Data(x) \in Value
    BY <2>1, PartIsTyped, ValuesAre DEF XInv
  <2>4. Prop(w)' = IF w = v /\ p = QtSelection /\ v \in existing THEN Data(x) ELSE Prop(w)
    BY <2>2, <2>3, ChangePropertyDoes
  <2>5. ASSUME w = v, v \in existing PROVE Prop(w) = NoValue
    <3>1. ~None("PropertyNotify", w, ownerInbox)
      BY <1>1, <1>2, <2>5 DEF None
    <3>2. w = m_requestor /\ Phase(w)
      BY <2>5, <3>1 DEF Orderly, Unused, Unserved, Left, Types
    <3>3. at \in {"parts", "readPart", "deletePart"}
      BY <3>1, <3>2 DEF Phase, Unused, Unserved, Asking, Served, Types, Places
    <3>4. QED
      BY <3>1, <3>2, <3>3 DEF Phase, Moving
  <2>6. QED
    BY <2>4, <2>5 DEF NotOverwritten
<1>5. QED
  BY <1>1, <1>3, <1>4

\* The first answer is put only where there is nothing.
LEMMA AnswerIsAwaited ==
  ASSUME XInv, sendSelection, NEW w \in QtWindows \ gaveUp PROVE NotOverwritten(w)
<1> Types /\ Orderly(w) /\ w \in Windows
  BY DEF XInv, Windows
<1> PICK v, pair : v = request.window /\ pair = Head(pairs)
  OBVIOUS
<1>1. /\ pairs # <<>>
      /\ \/ \E x \in {Data(Content(pair.target)), Incr} : ChangeProperty(v, pair.property, x)
         \/ property' = property
  BY DEF sendSelection, SendAtOnce, SendByParts, SendNothing, Unconverted
<1>2. pair \in Pair /\ v \in Windows
  BY <1>1 DEF Types, Request
<1>3. CASE property' = property
  BY <1>3 DEF NotOverwritten, Prop
<1>4. CASE \E x \in {Data(Content(pair.target)), Incr} : ChangeProperty(v, pair.property, x)
  <2>1. PICK x \in {Data(Content(pair.target)), Incr} : ChangeProperty(v, pair.property, x)
    BY <1>4
  <2>2. x \in Value /\ pair.property \in Properties
    BY <1>2, ContentIs, ValuesAre DEF Pair
  <2>3. w # v => Prop(w)' = Prop(w)
    BY <1>2, <2>1, <2>2, ChangePropertyDoes
  <2>4. w = v => Prop(w) = NoValue
    BY <1>1, AskedAtHandIs DEF Unserved
  <2>5. QED
    BY <2>3, <2>4 DEF NotOverwritten
<1>5. QED
  BY <1>1, <1>3, <1>4

LEMMA DeletedIsNotOverwritten ==
  ASSUME Types, NEW v \in Windows, NEW p \in Properties, NEW w \in QtWindows,
         property' = [property EXCEPT ![<<v, p>>] = NoValue]
  PROVE  NotOverwritten(w)
BY PropAfter, ValuesAre DEF NotOverwritten, Types, Windows

\* The owner never replaces a part that getSelection() has not taken yet, nor does
\* the answer to one request replace that to another.
THEOREM PartsStay == Spec => PartsAreNotOverwritten
<1>1. ASSUME XInv, [Next]_vars, NEW w \in QtWindows \ gaveUp PROVE NotOverwritten(w)
  <2> Types
    BY <1>1 DEF XInv
  <2> USE <1>1
  <2>1. CASE property' = property
    BY <2>1 DEF NotOverwritten, Prop
  <2>2. ASSUME NEW v \in Windows, NEW p \in Properties,
               property' = [property EXCEPT ![<<v, p>>] = NoValue]
        PROVE  NotOverwritten(w)
    BY <2>2, DeletedIsNotOverwritten
  <2>3. QtSelection \in Properties /\ ForeignWindow \in Windows
    BY RequestsAssumption DEF Windows
  <2>4. ASSUME NEW t \in Targets, getSelection(t) PROVE NotOverwritten(w)
    <3> PICK v : v = IF m_requestor = NoWindow THEN NewWindow ELSE m_requestor
      OBVIOUS
    <3>1. v \in Windows
      BY <2>4, RequestorIs
    <3>2. property' = [property EXCEPT ![<<v, QtSelection>>] = NoValue]
      BY <2>4 DEF getSelection
    <3>3. QED
      BY <2>2, <2>3, <3>1, <3>2
  <2>5. CASE DeleteRead \/ DeletePart \/ PartTimesOut \/ PartMissing
    <3>1. at # "idle" /\ property' = [property EXCEPT ![<<win, QtSelection>>] = NoValue]
      BY <2>5 DEF DeleteRead, DeletePart, DeleteProperty, PartTimesOut, PartMissing, BreakOff,
                  setRequestor
    <3>2. QED
      BY <2>2, <2>3, <3>1, AtWork
  <2>6. CASE ForeignTakes
    BY <2>2, <2>3, <2>6 DEF ForeignTakes, DeleteProperty
  <2>7. CASE AnswerTimesOut \/ Answered \/ ReadProperty \/ TakeNotification \/ ReadPart \/ Discard
             \/ Tick \/ ForeignRequests \/ UNCHANGED vars
    BY <2>1, <2>7 DEF AnswerTimesOut, Answered, ReadProperty, TakeNotification, ReadPart, Discard,
                      Tick, ForeignRequests, vars, serverVars
  <2>8. CASE Owner
    <3>1. CASE RefuseRequest \/ AcceptRequest \/ AnswerRequest \/ timerEvent \/ Close \/ Exit
      BY <2>1, <3>1 DEF RefuseRequest, AcceptRequest, AnswerRequest, timerEvent, Close, Exit,
                        serverVars
    <3>2. QED
      BY <2>8, <3>1, PartIsAwaited, AnswerIsAwaited DEF Owner, OwnerStep
  <2>9. QED
    BY <2>4, <2>5, <2>6, <2>7, <2>8 DEF Next, RequestorStep
<1>2. ASSUME XInv, [Next]_vars
      PROVE  [\A w \in QtWindows \ gaveUp :
                LET wp == <<w, QtSelection>>
                IN property[wp] # NoValue => property'[wp] \in {property[wp], NoValue}]_vars
  BY <1>1, <1>2 DEF NotOverwritten, Prop
<1>3. QED
  BY <1>2, XInvAlways, PTL DEF PartsAreNotOverwritten, Spec
-----------------------------------------------------------------------------
(* The announcements of parts, and their times.                             *)

NewPart(e, w) ==
  e.type = "PropertyNotify" /\ e.window = w /\ e.property = QtSelection /\ e.state = "NewValue"

\* What the loop over the parts would take for the announcement of the next.
Recent == {i \in DOMAIN inbox : NewPart(inbox[i], win) /\ inbox[i].time >= prev_time}

Dated(q, t) == \A i \in DOMAIN q : q[i].type = "PropertyNotify" => q[i].time <= t

Clock ==
  /\ incrTime \in [Windows -> Nat] /\ (\A w \in Windows : incrTime[w] <= now) /\ Dated(inbox, now)
  /\ m_incr_receive_time \in Nat /\ prev_time \in Nat /\ stamps \in Seq(Nat)

\* Nothing is announced after INCR until it is deleted.  After that the one part
\* announced is there until it is deleted, if the time of reading INCR tells
\* its announcement from those before INCR.
Announced ==
  /\ at \in {"answer", "read", "delete"} /\ Prop(win) = Incr =>
       \A i \in DOMAIN inbox : NewPart(inbox[i], win) => inbox[i].time <= incrTime[win]
  /\ at \in {"parts", "readPart", "deletePart"} /\ incrTime[win] < m_incr_receive_time =>
       /\ Recent # {} => at = "parts" /\ Prop(win) # NoValue
       /\ \A i, j \in Recent : i = j
       /\ at # "parts" => Prop(win) # NoValue

Missed == missing => at = "idle" /\ win \in QtWindows

AInv == Clock /\ Missed /\ MissingOnlyByTie /\ (win \notin gaveUp => Announced)

LEMMA DatedAfter ==
  ASSUME NEW q \in Seq(Event), NEW t \in Nat, Dated(q, t)
  PROVE  /\ \A u \in Nat : t <= u => Dated(q, u)
         /\ \A e \in Event : (e.type = "PropertyNotify" => e.time <= t) => Dated(Append(q, e), t)
         /\ \A i \in DOMAIN q : Dated(RemoveAt(q, i), t)
         /\ Dated(<<>>, t)
<1>1. \A i \in DOMAIN q : q[i].type = "PropertyNotify" => q[i].time \in Nat
  <2> SUFFICES ASSUME NEW i \in DOMAIN q, q[i].type = "PropertyNotify" PROVE q[i].time \in Nat
    OBVIOUS
  <2>1. q[i] \in Event
    OBVIOUS
  <2> QED BY <2>1 DEF Event, Answer, Notification
<1>2. \A u \in Nat : t <= u => Dated(q, u)
  BY <1>1 DEF Dated
<1>3. ASSUME NEW e \in Event, e.type = "PropertyNotify" => e.time <= t PROVE Dated(Append(q, e), t)
  BY <1>3, AppendIs DEF Dated
<1>4. ASSUME NEW i \in DOMAIN q PROVE Dated(RemoveAt(q, i), t)
  BY RemoveIs DEF Dated
<1> QED BY <1>2, <1>3, <1>4 DEF Dated

\* What the server says of a change is dated by its clock.
LEMMA ToldNow ==
  ASSUME Types
  PROVE  /\ \A w \in Windows, p \in Properties, state \in {"NewValue", "Delete"} :
              LET e == PropertyNotify(w, p, state)
              IN /\ e \in Event /\ e.time = now /\ e.type = "PropertyNotify" /\ e.window = w
                 /\ e.property = p /\ e.state = state
         /\ \A w \in Windows, b \in BOOLEAN :
              SelectionNotify(w, b) \in Event /\ SelectionNotify(w, b).type = "SelectionNotify"
         /\ \A e : Told(inbox, e) \in {inbox, Append(inbox, e)}
<1>1. now \in Nat
  BY DEF Types
<1>2. \A w \in Windows, p \in Properties, state \in {"NewValue", "Delete"} :
        /\ PropertyNotify(w, p, state) \in Event /\ PropertyNotify(w, p, state).time = now
        /\ PropertyNotify(w, p, state).type = "PropertyNotify" /\ PropertyNotify(w, p, state).window = w
        /\ PropertyNotify(w, p, state).property = p /\ PropertyNotify(w, p, state).state = state
  BY <1>1 DEF PropertyNotify, Event, Notification
<1>3. \A w \in Windows, b \in BOOLEAN :
        SelectionNotify(w, b) \in Event /\ SelectionNotify(w, b).type = "SelectionNotify"
  BY DEF SelectionNotify, Event, Answer
<1>4. \A e : Told(inbox, e) \in {inbox, Append(inbox, e)}
  BY DEF Told
<1> QED BY <1>2, <1>3, <1>4

\* What a step may add to the inbox.
Adds == \E e \in Event : inbox' = Append(inbox, e) /\ (e.type = "PropertyNotify" => e.time = now)

LEMMA AddsIsDated ==
  ASSUME Types, Clock, Adds PROVE Dated(inbox', now)
<1>1. PICK e \in Event : inbox' = Append(inbox, e) /\ (e.type = "PropertyNotify" => e.time = now)
  BY DEF Adds
<1>2. inbox \in Seq(Event) /\ now \in Nat /\ (e.type = "PropertyNotify" => e.time <= now)
  BY <1>1 DEF Types
<1> QED BY <1>1, <1>2, DatedAfter DEF Clock

\* The owner writes only what it serves, and the window of getSelection() is served once.
OwnerIsQuiet(w) ==
  /\ Prop(w)' = Prop(w) /\ incrTime'[w] = incrTime[w]
  /\ inbox' = inbox \/ \E e \in Event : inbox' = Append(inbox, e) /\ ~NewPart(e, w)

LEMMA SendTells ==
  ASSUME XInv, Clock, sendSelection
  PROVE  /\ inbox' = inbox \/ Adds
         /\ incrTime' \in [Windows -> Nat] /\ \A w \in Windows : incrTime'[w] \in {incrTime[w], now}
         /\ \A w \in QtWindows : w # request.window => OwnerIsQuiet(w)
         /\ \A w \in QtWindows \ gaveUp : w = request.window => Prop(w)' # Incr \/ incrTime'[w] = now
<1> Types
  BY DEF XInv
<1> PICK v, pair : v = request.window /\ pair = Head(pairs)
  OBVIOUS
<1>1. pair \in Pair /\ v \in Windows /\ pairs # <<>> /\ now \in Nat /\ inbox \in Seq(Event)
      /\ pair.target \in Targets /\ pair.property \in Properties
  <2>1. pair \in Pair /\ v \in Windows /\ pairs # <<>> /\ now \in Nat /\ inbox \in Seq(Event)
    BY DEF sendSelection, Types, Request
  <2> QED BY <2>1 DEF Pair
<1> DEFINE e == PropertyNotify(v, pair.property, "NewValue")
<1>2. e \in Event /\ e.time = now /\ e.window = v
  BY <1>1, ToldNow
<1>3. ASSUME NEW x \in Value, ChangeProperty(v, pair.property, x)
      PROVE  /\ inbox' = inbox \/ inbox' = Append(inbox, e)
             /\ \A u \in Windows : Prop(u)' =
                  IF u = v /\ pair.property = QtSelection /\ v \in existing THEN x ELSE Prop(u)
  <2>1. inbox' = inbox \/ inbox' = Append(inbox, e)
    BY <1>3, ToldNow DEF ChangeProperty
  <2> QED BY <1>1, <1>3, <2>1, ChangePropertyDoes
<1> HIDE DEF e
<1>4. ASSUME inbox' = inbox \/ inbox' = Append(inbox, e)
      PROVE  /\ inbox' = inbox \/ Adds
             /\ \A w : w # v => (inbox' = inbox \/ \E f \in Event : inbox' = Append(inbox, f) /\ ~NewPart(f, w))
  BY <1>2, <1>4 DEF Adds, NewPart
<1>5. CASE SendAtOnce(pair)
  <2>1. Data(Content(pair.target)) \in Value /\ Data(Content(pair.target)) # Incr
    BY <1>1, ContentIs, ValuesAre
  <2>2. ChangeProperty(v, pair.property, Data(Content(pair.target))) /\ incrTime' = incrTime
    BY <1>5 DEF SendAtOnce
  <2>3. \A u \in Windows : Prop(u)' =
          IF u = v /\ pair.property = QtSelection /\ v \in existing THEN Data(Content(pair.target)) ELSE Prop(u)
    BY <1>3, <2>1, <2>2
  <2>4. inbox' = inbox \/ inbox' = Append(inbox, e)
    BY <1>3, <2>1, <2>2
  <2>5. ASSUME NEW w \in QtWindows \ gaveUp, w = v PROVE Prop(w)' # Incr
    <3>1. Prop(w) = NoValue /\ w \in Windows
      BY <1>1, <2>5, AskedAtHandIs DEF XInv, Unserved, Windows
    <3> QED BY <2>1, <2>3, <3>1, ValuesAre
  <2>6. \A w \in QtWindows : w # v => OwnerIsQuiet(w)
    BY <1>4, <2>2, <2>3, <2>4 DEF OwnerIsQuiet, Windows
  <2> QED BY <1>4, <2>2, <2>4, <2>5, <2>6 DEF Clock
<1>6. CASE SendByParts(pair)
  <2>1. Incr \in Value
    BY ValuesAre
  <2>2. ChangeProperty(v, pair.property, Incr) /\ incrTime' = [incrTime EXCEPT ![v] = now]
    BY <1>6 DEF SendByParts, NewTransaction
  <2>3. \A u \in Windows : Prop(u)' =
          IF u = v /\ pair.property = QtSelection /\ v \in existing THEN Incr ELSE Prop(u)
    BY <1>3, <2>1, <2>2
  <2>4. inbox' = inbox \/ inbox' = Append(inbox, e)
    BY <1>3, <2>1, <2>2
  <2>5. /\ incrTime' \in [Windows -> Nat] /\ incrTime'[v] = now
        /\ \A w \in Windows : w # v => incrTime'[w] = incrTime[w]
    BY <1>1, <2>2 DEF Clock
  <2>6. \A w \in QtWindows : w # v => OwnerIsQuiet(w)
    BY <1>4, <2>3, <2>4, <2>5 DEF OwnerIsQuiet, Windows
  <2> QED BY <1>4, <2>4, <2>5, <2>6
<1>7. CASE SendNothing \/ Unconverted
  <2>1. UNCHANGED <<property, inbox, incrTime>>
    BY <1>7 DEF SendNothing, Unconverted
  <2>2. ASSUME NEW w \in QtWindows \ gaveUp, w = v PROVE Prop(w)' # Incr
    BY <1>1, <2>1, <2>2, AskedAtHandIs, ValuesAre DEF XInv, Unserved, Prop
  <2> QED BY <2>1, <2>2 DEF OwnerIsQuiet, Prop, Clock
<1> QED BY <1>5, <1>6, <1>7 DEF sendSelection

LEMMA NotifyTells ==
  ASSUME XInv, handlePropertyNotify
  PROVE  /\ inbox' = inbox \/ Adds
         /\ incrTime' = incrTime
         /\ \A w \in QtWindows \ gaveUp :
              \/ OwnerIsQuiet(w)
              \/ /\ ~None("PropertyNotify", w, ownerInbox) /\ Prop(w)' # NoValue /\ Prop(w)' # Incr
                 /\ inbox' = Append(inbox, PropertyNotify(w, QtSelection, "NewValue"))
<1> Types
  BY DEF XInv
<1> PICK id, v : v = Head(ownerInbox).window /\ id = Addressed(Head(ownerInbox))
  OBVIOUS
<1>1. /\ ownerInbox # <<>> /\ Head(ownerInbox).type = "PropertyNotify" /\ incrTime' = incrTime
      /\ \/ UNCHANGED <<property, inbox>>
         \/ id # 0 /\ updateIncrementalProperty(id)
  BY DEF handlePropertyNotify
<1>2. Head(ownerInbox) = ownerInbox[1] /\ 1 \in DOMAIN ownerInbox
  BY <1>1, TailIsFewer DEF Types
<1>3. CASE UNCHANGED <<property, inbox>>
  BY <1>1, <1>3 DEF OwnerIsQuiet, Prop
<1>4. CASE id # 0 /\ updateIncrementalProperty(id)
  <2> PICK x, p : /\ x = (IF transaction[id].offset = Len(transaction[id].data) THEN <<>>
                          ELSE <<transaction[id].data[transaction[id].offset + 1]>>)
                  /\ p = transaction[id].property
    OBVIOUS
  <2>1. id \in DOMAIN transaction /\ transaction[id].window = v
    BY <1>4 DEF Addressed, XInv, TInv, NoDanglingTransaction
  <2>2. ChangeProperty(v, p, Data(x))
    BY <1>4, <2>1 DEF updateIncrementalProperty
  <2>3. v \in Windows /\ p \in Properties /\ Data(x) \in Value /\ Data(x) # NoValue /\ Data(x) # Incr
    BY <2>1, PartIsTyped, ValuesAre DEF XInv
  <2> DEFINE e == PropertyNotify(v, p, "NewValue")
  <2>4. e \in Event /\ e.time = now /\ e.window = v /\ e.property = p /\ e.state = "NewValue"
    BY <2>3, ToldNow
  <2>5. \A w \in Windows : Prop(w)' = IF w = v /\ p = QtSelection /\ v \in existing THEN Data(x) ELSE Prop(w)
    BY <2>2, <2>3, ChangePropertyDoes
  <2>6. \/ v \in existing /\ inbox' = Told(inbox, e)
        \/ v \notin existing /\ inbox' = inbox
    BY <2>2 DEF ChangeProperty
  <2> HIDE DEF e
  <2>7. inbox' = inbox \/ inbox' = Append(inbox, e)
    BY <2>6, ToldNow
  <2>8. ASSUME NEW w \in QtWindows \ gaveUp
        PROVE  \/ OwnerIsQuiet(w)
               \/ /\ ~None("PropertyNotify", w, ownerInbox) /\ Prop(w)' # NoValue /\ Prop(w)' # Incr
                  /\ inbox' = Append(inbox, PropertyNotify(w, QtSelection, "NewValue"))
    <3>1. w \in Windows
      BY DEF Windows
    <3>2. CASE w # v \/ p # QtSelection \/ v \notin existing
      <4>1. Prop(w)' = Prop(w)
        BY <2>5, <3>1, <3>2
      <4>2. inbox' = inbox \/ ~NewPart(e, w)
        BY <2>4, <2>6, <3>2 DEF NewPart
      <4> QED BY <1>1, <2>4, <2>7, <4>1, <4>2 DEF OwnerIsQuiet
    <3>3. CASE w = v /\ p = QtSelection /\ v \in existing
      <4>1. ~None("PropertyNotify", w, ownerInbox)
        BY <1>1, <1>2, <3>3 DEF None
      <4>2. Prop(w)' # NoValue /\ Prop(w)' # Incr
        BY <2>3, <2>5, <3>1, <3>3
      <4>3. inbox' = Append(inbox, e)
        BY <2>4, <2>6, <3>3 DEF Told
      <4> QED BY <3>3, <4>1, <4>2, <4>3 DEF e
    <3> QED BY <3>2, <3>3
  <2> QED BY <1>1, <2>4, <2>7, <2>8 DEF Adds
<1> QED BY <1>1, <1>3, <1>4

\* The other steps of the owner announce no part.
LEMMA OtherwiseQuiet ==
  ASSUME XInv, Owner, ~sendSelection, ~handlePropertyNotify
  PROVE  /\ inbox' = inbox \/ Adds
         /\ incrTime' = incrTime
         /\ \A w : OwnerIsQuiet(w)
<1> Types
  BY DEF XInv
<1>1. UNCHANGED <<property, incrTime>>
  BY DEF Owner, OwnerStep, RefuseRequest, AcceptRequest, AnswerRequest, timerEvent, Close, Exit, ownerVars, serverVars
<1>2. inbox' = inbox \/ \E w \in Windows, b \in BOOLEAN : inbox' = Told(inbox, SelectionNotify(w, b))
  <2>1. CASE RefuseRequest
    <3>1. PICK i \in DOMAIN ownerInbox : inbox' = Told(inbox, SelectionNotify(ownerInbox[i].window, FALSE))
      BY <2>1 DEF RefuseRequest
    <3>2. ownerInbox[i] \in OwnerEvent
      BY DEF Types
    <3> QED BY <3>1, <3>2, OwnerEventsAre
  <2>2. CASE AnswerRequest
    <3>1. inbox' = Told(inbox, SelectionNotify(request.window, request.multiple \/ ~refused))
      BY <2>2 DEF AnswerRequest
    <3>2. request.window \in Windows /\ (request.multiple \/ ~refused) \in BOOLEAN
      BY DEF Types, Request
    <3> QED BY <3>1, <3>2
  <2> QED BY <2>1, <2>2 DEF Owner, OwnerStep, AcceptRequest, timerEvent, Close, Exit, serverVars
<1>3. inbox' = inbox \/ \E e \in Event : inbox' = Append(inbox, e) /\ e.type = "SelectionNotify"
  BY <1>2, ToldNow
<1> QED BY <1>1, <1>3 DEF Adds, OwnerIsQuiet, NewPart, Prop

\* What is announced of the window in use stays as it is.
Undisturbed(w) ==
  inbox' = inbox \/ (\E e \in Event : inbox' = Append(inbox, e) /\ ~NewPart(e, w))
                 \/ (\E i \in DOMAIN inbox : inbox' = RemoveAt(inbox, i))

\* Each announcement is one of those before, and no two are the same one.
LEMMA AnnouncedBefore ==
  ASSUME inbox \in Seq(Event), NEW w, Undisturbed(w)
  PROVE  \E o \in [DOMAIN inbox' -> Nat] :
           /\ \A j \in DOMAIN inbox' : NewPart(inbox'[j], w) => o[j] \in DOMAIN inbox /\ inbox'[j] = inbox[o[j]]
           /\ \A j, k \in DOMAIN inbox' : o[j] = o[k] => j = k
<1>1. CASE inbox' = inbox
  <2> DEFINE o == [j \in DOMAIN inbox' |-> j]
  <2>1. o \in [DOMAIN inbox' -> Nat]
    BY <1>1
  <2> QED BY <1>1, <2>1
<1>2. CASE \E e \in Event : inbox' = Append(inbox, e) /\ ~NewPart(e, w)
  <2>1. PICK e \in Event : inbox' = Append(inbox, e) /\ ~NewPart(e, w)
    BY <1>2
  <2> DEFINE o == [j \in DOMAIN inbox' |-> j]
  <2>2. /\ DOMAIN inbox = 1 .. Len(inbox) /\ Len(inbox) \in Nat /\ DOMAIN inbox' = 1 .. Len(inbox) + 1
        /\ \A k \in 1 .. Len(inbox) : inbox'[k] = inbox[k]
        /\ inbox'[Len(inbox) + 1] = e
    BY <2>1, AppendIs
  <2>3. o \in [DOMAIN inbox' -> Nat]
    BY <2>2
  <2>4. \A j \in DOMAIN inbox' : NewPart(inbox'[j], w) => j \in DOMAIN inbox /\ inbox'[j] = inbox[j]
    <3> SUFFICES ASSUME NEW j \in DOMAIN inbox', NewPart(inbox'[j], w)
                 PROVE  j \in DOMAIN inbox /\ inbox'[j] = inbox[j]
      OBVIOUS
    <3>1. j # Len(inbox) + 1
      BY <2>1, <2>2
    <3> QED BY <2>2, <3>1
  <2> QED BY <2>3, <2>4
<1>3. CASE \E i \in DOMAIN inbox : inbox' = RemoveAt(inbox, i)
  <2>1. PICK i \in DOMAIN inbox : inbox' = RemoveAt(inbox, i)
    BY <1>3
  <2>2. i \in Nat /\ DOMAIN inbox' \subseteq Nat
    BY <2>1, RemoveIs
  <2> DEFINE o == [j \in DOMAIN inbox' |-> IF j < i THEN j ELSE j + 1]
  <2>3. \A j \in DOMAIN inbox' : o[j] \in DOMAIN inbox /\ inbox'[j] = inbox[o[j]]
    BY <2>1, RemoveIs
  <2>4. o \in [DOMAIN inbox' -> Nat] /\ \A j, k \in DOMAIN inbox' : o[j] = o[k] => j = k
    BY <2>2
  <2> QED BY <2>3, <2>4
<1> QED BY <1>1, <1>2, <1>3 DEF Undisturbed

LEMMA UndisturbedKeeps ==
  ASSUME inbox \in Seq(Event), Undisturbed(win), win' = win, prev_time' = prev_time
  PROVE  /\ \A j \in DOMAIN inbox' : NewPart(inbox'[j], win) =>
              \E i \in DOMAIN inbox : inbox[i] = inbox'[j] /\ NewPart(inbox[i], win)
         /\ Recent' # {} => Recent # {}
         /\ (\A i, j \in Recent : i = j) => \A i, j \in Recent' : i = j
<1>1. PICK o \in [DOMAIN inbox' -> Nat] :
        /\ \A j \in DOMAIN inbox' : NewPart(inbox'[j], win) => o[j] \in DOMAIN inbox /\ inbox'[j] = inbox[o[j]]
        /\ \A j, k \in DOMAIN inbox' : o[j] = o[k] => j = k
  BY AnnouncedBefore
<1>2. \A j \in Recent' : j \in DOMAIN inbox' /\ o[j] \in Recent
  BY <1>1 DEF Recent, NewPart
<1>3. \A j \in DOMAIN inbox' : NewPart(inbox'[j], win) =>
        \E i \in DOMAIN inbox : inbox[i] = inbox'[j] /\ NewPart(inbox[i], win)
  BY <1>1
<1>4. (\A i, j \in Recent : i = j) => \A i, j \in Recent' : i = j
  BY <1>1, <1>2
<1> QED BY <1>2, <1>3, <1>4

\* Where the property and the times are as they were, so are the announcements.
LEMMA AnnouncedStays ==
  ASSUME inbox \in Seq(Event), Announced, Undisturbed(win), Prop(win)' = Prop(win), win' = win,
         incrTime'[win] = incrTime[win], UNCHANGED <<prev_time, m_incr_receive_time, at>>
  PROVE  Announced'
<1>1. Prop(win)' = property'[<<win, QtSelection>>]
  BY DEF Prop
<1>2. /\ \A j \in DOMAIN inbox' : NewPart(inbox'[j], win) =>
           \E i \in DOMAIN inbox : inbox[i] = inbox'[j] /\ NewPart(inbox[i], win)
      /\ Recent' # {} => Recent # {}
      /\ (\A i, j \in Recent : i = j) => \A i, j \in Recent' : i = j
  BY UndisturbedKeeps
<1>3. at' \in {"answer", "read", "delete"} /\ Prop(win)' = Incr =>
        \A j \in DOMAIN inbox' : NewPart(inbox'[j], win) => inbox'[j].time <= incrTime'[win]
  BY <1>2 DEF Announced
<1>4. at' \in {"parts", "readPart", "deletePart"} /\ incrTime'[win] < m_incr_receive_time' =>
        /\ Recent' # {} => at' = "parts" /\ Prop(win)' # NoValue
        /\ \A i, j \in Recent' : i = j
        /\ at' # "parts" => Prop(win)' # NoValue
  BY <1>2 DEF Announced
<1> QED BY <1>3, <1>4 DEF Announced

LEMMA TimeIsKept ==
  ASSUME Types, Clock, Missed, MissingOnlyByTie, UNCHANGED <<win, gaveUp, m_incr_receive_time, missing>>,
         \A w \in Windows : incrTime'[w] \in {incrTime[w], now}
  PROVE  MissingOnlyByTie'
<1> SUFFICES ASSUME missing, win \notin gaveUp PROVE incrTime'[win] >= m_incr_receive_time
  BY DEF MissingOnlyByTie
<1>1. win \in Windows /\ now \in Nat
  BY DEF Missed, Windows, Types
<1>2. incrTime[win] >= m_incr_receive_time /\ incrTime[win] <= now /\ incrTime[win] \in Nat /\ m_incr_receive_time \in Nat
  BY <1>1 DEF MissingOnlyByTie, Clock
<1> QED BY <1>1, <1>2

LEMMA OwnerAnnounces ==
  ASSUME XInv, AInv, Owner PROVE AInv'
<1> Types /\ Clock /\ inbox \in Seq(Event) /\ now \in Nat
  BY DEF XInv, AInv, Types
<1>1. UNCHANGED readVars /\ UNCHANGED <<m_incr_receive_time, stamps, prev_time, at, win, gaveUp, missing>>
  BY DEF Owner, readVars
<1>2. now' = now
  BY DEF Owner, OwnerStep, RefuseRequest, AcceptRequest, sendSelection, AnswerRequest, handlePropertyNotify,
     timerEvent, Close, Exit, serverVars
<1>3. /\ inbox' = inbox \/ Adds
      /\ incrTime' \in [Windows -> Nat] /\ \A w \in Windows : incrTime'[w] \in {incrTime[w], now}
  BY SendTells, NotifyTells, OtherwiseQuiet DEF Clock
<1>4. Clock'
  <2>1. Dated(inbox', now')
    BY <1>2, <1>3, AddsIsDated DEF Clock
  <2>2. \A w \in Windows : incrTime'[w] <= now'
    BY <1>2, <1>3 DEF Clock
  <2> QED BY <1>1, <1>3, <2>1, <2>2 DEF Clock
<1>5. Missed' /\ MissingOnlyByTie'
  BY <1>1, <1>3, TimeIsKept DEF AInv, Missed
<1>6. ASSUME win \notin gaveUp PROVE Announced'
  <2>1. CASE at = "idle"
    BY <1>1, <2>1 DEF Announced
  <2>2. CASE at # "idle"
    <3>1. win \in QtWindows \ gaveUp /\ win \in Windows /\ Phase(win) /\ Announced /\ at \in Places /\ Orderly(win)
      BY <1>6, <2>2, AtWork DEF AInv, Types
    <3> PICK w \in QtWindows \ gaveUp : w = win
      BY <3>1
    <3>2. CASE OwnerIsQuiet(w)
      <4>1. Prop(win)' = Prop(win) /\ incrTime'[win] = incrTime[win] /\ Undisturbed(win)
        BY <1>1, <3>2 DEF OwnerIsQuiet, Undisturbed, Prop
      <4> QED BY <1>1, <3>1, <4>1, AnnouncedStays
    <3>3. CASE sendSelection /\ request.window = w
      <4>1. at = "answer" /\ (Prop(w)' # Incr \/ incrTime'[w] = now)
        BY <3>1, <3>3, AskedAtHandIs, SendTells
      <4>2. \A i \in DOMAIN inbox' : NewPart(inbox'[i], win) => inbox'[i].time <= now
        BY <1>2, <1>4 DEF Clock, Dated, NewPart
      <4> QED BY <1>1, <4>1, <4>2 DEF Announced, Prop
    <3>4. CASE /\ handlePropertyNotify /\ ~None("PropertyNotify", w, ownerInbox)
               /\ Prop(w)' # NoValue /\ Prop(w)' # Incr
               /\ inbox' = Append(inbox, PropertyNotify(w, QtSelection, "NewValue"))
      <4>1. at \in {"parts", "readPart", "deletePart"} /\ Moving(win)
        BY <2>2, <3>1, <3>4 DEF Phase, Asking, Served, Places
      <4>2. Prop(win) = NoValue /\ incrTime' = incrTime
        BY <3>4, <4>1, NotifyTells DEF Moving
      <4>3. incrTime[win] < m_incr_receive_time => at = "parts" /\ Recent = {}
        BY <3>1, <4>1, <4>2 DEF Announced
      <4>4. ASSUME Recent = {} PROVE \A j \in Recent' : j = Len(inbox) + 1
        <5>1. PropertyNotify(w, QtSelection, "NewValue") \in Event
          BY <3>1, ToldNow, RequestsAssumption
        <5>2. /\ DOMAIN inbox = 1 .. Len(inbox) /\ Len(inbox) \in Nat /\ DOMAIN inbox' = 1 .. Len(inbox) + 1
              /\ \A k \in 1 .. Len(inbox) : inbox'[k] = inbox[k]
          BY <3>4, <5>1, AppendIs
        <5> QED BY <1>1, <4>4, <5>2 DEF Recent
      <4> QED BY <1>1, <3>4, <4>1, <4>2, <4>3, <4>4 DEF Announced, Prop
    <3>5. \/ OwnerIsQuiet(w)
          \/ sendSelection /\ request.window = w
          \/ /\ handlePropertyNotify /\ ~None("PropertyNotify", w, ownerInbox)
             /\ Prop(w)' # NoValue /\ Prop(w)' # Incr
             /\ inbox' = Append(inbox, PropertyNotify(w, QtSelection, "NewValue"))
      BY SendTells, NotifyTells, OtherwiseQuiet
    <3> QED BY <3>2, <3>3, <3>4, <3>5
  <2> QED BY <2>1, <2>2
<1> QED BY <1>1, <1>4, <1>5, <1>6 DEF AInv

LEMMA GetSelectionAnnounces ==
  ASSUME XInv, AInv, NEW t \in Targets, getSelection(t) PROVE AInv'
<1> Types /\ Clock /\ inbox \in Seq(Event) /\ now \in Nat
  BY DEF XInv, AInv, Types
<1> PICK w : w = IF m_requestor = NoWindow THEN NewWindow ELSE m_requestor
  OBVIOUS
<1>1. w \in Windows /\ w \in QtWindows
  BY RequestorIs
<1>2. /\ win' = w /\ property' = [property EXCEPT ![<<w, QtSelection>>] = NoValue] /\ at' = "answer"
      /\ missing' = FALSE /\ UNCHANGED <<now, incrTime, m_incr_receive_time, stamps, prev_time>>
  BY DEF getSelection, ownerVars, timeVars
<1>3. Prop(win)' = NoValue
  BY <1>1, <1>2, PropAfter, ValuesAre, RequestsAssumption DEF Types, Prop
<1> DEFINE e == PropertyNotify(w, QtSelection, "Delete")
           f == SelectionNotify(w, FALSE)
<1>4. e \in Event /\ e.time = now /\ f \in Event /\ f.type = "SelectionNotify"
  <2>1. e \in Event /\ e.time = now
    BY <1>1, ToldNow, RequestsAssumption
  <2>2. FALSE \in BOOLEAN
    OBVIOUS
  <2>3. f \in Event /\ f.type = "SelectionNotify"
    <3> HIDE DEF e
    <3> QED BY <1>1, <2>2, ToldNow
  <2> QED BY <2>1, <2>3
<1>5. inbox' \in {inbox, Append(inbox, e), Append(inbox, f), Append(Append(inbox, e), f)}
  BY DEF getSelection
<1> HIDE DEF e, f
<1>6. Dated(inbox', now)
  <2>1. Dated(inbox, now) /\ Append(inbox, e) \in Seq(Event)
    BY <1>4 DEF Clock
  <2>2. Dated(Append(inbox, e), now) /\ Dated(Append(inbox, f), now)
    BY <1>4, <2>1, DatedAfter
  <2>3. Dated(Append(Append(inbox, e), f), now)
    BY <1>4, <2>1, <2>2, DatedAfter
  <2> QED BY <1>5, <2>1, <2>2, <2>3
<1>7. Clock'
  BY <1>2, <1>6 DEF Clock
<1>8. Announced'
  BY <1>2, <1>3, ValuesAre DEF Announced
<1> QED BY <1>2, <1>7, <1>8 DEF AInv, Missed, MissingOnlyByTie

\* The step takes the clock and the times of INCR as they are.
LEMMA ClockStays ==
  ASSUME Types, Clock, UNCHANGED <<now, incrTime, m_incr_receive_time, stamps>>, prev_time' \in Nat,
         inbox' = inbox \/ Adds \/ \E i \in DOMAIN inbox : inbox' = RemoveAt(inbox, i)
  PROVE  Clock'
<1>1. Dated(inbox', now)
  BY AddsIsDated, DatedAfter DEF Clock, Types
<1> QED BY <1>1 DEF Clock

\* A deletion announces no part.
LEMMA DeletionAdds ==
  ASSUME Types, NEW v \in Windows, NEW p \in Properties, DeleteProperty(v, p)
  PROVE  /\ inbox' = inbox \/ Adds
         /\ \A w : Undisturbed(w)
<1>1. PropertyNotify(v, p, "Delete") \in Event /\ PropertyNotify(v, p, "Delete").time = now
      /\ PropertyNotify(v, p, "Delete").state = "Delete"
  BY ToldNow
<1>2. inbox' = inbox \/ inbox' = Append(inbox, PropertyNotify(v, p, "Delete"))
  BY ToldNow DEF DeleteProperty
<1> QED BY <1>1, <1>2 DEF Adds, Undisturbed, NewPart

LEMMA DeleteReadAnnounces ==
  ASSUME XInv, AInv, DeleteRead PROVE AInv'
<1> Types /\ Clock /\ inbox \in Seq(Event)
  BY DEF XInv, AInv, Types
<1>1. /\ at = "delete" /\ at' \in {"parts", "idle"} /\ (at' = "parts" => tmp_buf = Incr.parts)
      /\ prev_time' = (IF tmp_buf = Incr.parts THEN m_incr_receive_time ELSE prev_time)
      /\ DeleteProperty(win, QtSelection)
      /\ UNCHANGED <<now, incrTime, m_incr_receive_time, stamps, missing, gaveUp, win>>
  BY DEF DeleteRead, ownerVars, timeVars
<1>2. win \in Windows /\ QtSelection \in Properties
  BY <1>1, AtWork, RequestsAssumption
<1>3. Clock'
  BY <1>1, <1>2, DeletionAdds, ClockStays DEF Clock
<1>4. ~missing
  BY <1>1 DEF AInv, Missed
<1>5. ASSUME win \notin gaveUp, at' = "parts" PROVE incrTime[win] < m_incr_receive_time => Recent' = {}
  <2>1. Announced /\ Phase(win) /\ wanted \in Targets
    BY <1>1, <1>5, AtWork DEF AInv
  <2>2. Prop(win) = Incr
    <3>1. Prop(win) \in {Incr, Data(Content(wanted))} /\ Prop(win).parts = Incr.parts
      BY <1>1, <1>5, <2>1 DEF Phase, Served
    <3>2. Content(wanted) # Incr.parts
      <4>1. Content(wanted)[1] = <<wanted, 1>>
        BY <2>1, PartsAssumption DEF Content
      <4>2. Incr.parts[1] = <<"length", 0>>
        BY DEF Incr
      <4>3. <<wanted, 1>> # <<"length", 0>>
        OBVIOUS
      <4> QED BY <4>1, <4>2, <4>3
    <3> QED BY <3>1, <3>2, ValuesAre
  <2>3. \A i \in DOMAIN inbox : NewPart(inbox[i], win) => inbox[i].time <= incrTime[win]
    BY <1>1, <2>1, <2>2 DEF Announced
  <2>4. PICK o \in [DOMAIN inbox' -> Nat] :
          \A j \in DOMAIN inbox' : NewPart(inbox'[j], win) => o[j] \in DOMAIN inbox /\ inbox'[j] = inbox[o[j]]
    BY <1>1, <1>2, DeletionAdds, AnnouncedBefore
  <2>5. HAVE incrTime[win] < m_incr_receive_time
  <2>6. ASSUME NEW j \in Recent' PROVE FALSE
    <3>1. j \in DOMAIN inbox' /\ NewPart(inbox'[j], win) /\ inbox'[j].time >= m_incr_receive_time
      BY <1>1, <1>5, <2>6 DEF Recent
    <3>2. inbox'[j].time <= incrTime[win]
      BY <2>3, <2>4, <3>1
    <3>3. inbox'[j].time \in Nat /\ incrTime[win] \in Nat /\ m_incr_receive_time \in Nat
      <4>1. inbox[o[j]] \in Event /\ inbox'[j] = inbox[o[j]]
        BY <2>4, <3>1
      <4> QED BY <1>2, <3>1, <4>1 DEF Event, Answer, Notification, NewPart, Clock
    <3> QED BY <2>5, <3>1, <3>2, <3>3
  <2> QED BY <2>6
<1>6. win \notin gaveUp => Announced'
  BY <1>1, <1>5 DEF Announced
<1> QED BY <1>1, <1>3, <1>4, <1>6 DEF AInv, Missed, MissingOnlyByTie

LEMMA DeletePartAnnounces ==
  ASSUME XInv, AInv, DeletePart PROVE AInv'
<1> Types /\ Clock /\ inbox \in Seq(Event)
  BY DEF XInv, AInv, Types
<1>1. /\ at = "deletePart" /\ at' \in {"parts", "idle"} /\ DeleteProperty(win, QtSelection)
      /\ UNCHANGED <<now, incrTime, m_incr_receive_time, stamps, prev_time, missing, gaveUp, win>>
  BY DEF DeletePart, ownerVars, timeVars
<1>2. win \in Windows /\ QtSelection \in Properties
  BY <1>1, AtWork, RequestsAssumption
<1>3. Clock'
  BY <1>1, <1>2, DeletionAdds, ClockStays DEF Clock
<1>4. ~missing
  BY <1>1 DEF AInv, Missed
<1>5. ASSUME win \notin gaveUp PROVE Announced'
  <2>1. incrTime[win] < m_incr_receive_time => Recent = {}
    BY <1>1, <1>5 DEF AInv, Announced
  <2>2. Recent' # {} => Recent # {}
    BY <1>1, <1>2, DeletionAdds, UndisturbedKeeps
  <2> QED BY <1>1, <2>1, <2>2 DEF Announced
<1> QED BY <1>1, <1>3, <1>4, <1>5 DEF AInv, Missed, MissingOnlyByTie

LEMMA TakeNotificationAnnounces ==
  ASSUME XInv, AInv, TakeNotification PROVE AInv'
<1> Types /\ Clock /\ inbox \in Seq(Event)
  BY DEF XInv, AInv, Types
<1>1. /\ at = "parts" /\ UNCHANGED <<property, now, incrTime, m_incr_receive_time, stamps, missing, gaveUp, win>>
  BY DEF TakeNotification, ownerVars, timeVars
<1>2. PICK i \in DOMAIN inbox :
        /\ IsFirst(i, Announce) /\ inbox' = RemoveAt(inbox, i)
        /\ IF IsNewPart(inbox[i]) THEN at' = "readPart" /\ prev_time' = inbox[i].time ELSE UNCHANGED <<at, prev_time>>
  BY DEF TakeNotification
<1>3. /\ inbox[i] \in Event /\ inbox[i].type = "PropertyNotify" /\ inbox[i].window = win /\ inbox[i].time \in Nat
  <2>1. inbox[i] \in Event
    OBVIOUS
  <2>2. inbox[i].type = "PropertyNotify" /\ inbox[i].window = win
    BY <1>2 DEF IsFirst, Announce
  <2> QED BY <2>1, <2>2 DEF Event, Answer, Notification
<1>4. Clock'
  BY <1>1, <1>2, <1>3, ClockStays DEF Clock
<1>5. ~missing
  BY <1>1 DEF AInv, Missed
<1>6. ASSUME win \notin gaveUp PROVE Announced'
  <2>1. Announced /\ Undisturbed(win)
    BY <1>2, <1>6 DEF AInv, Undisturbed
  <2>2. CASE ~IsNewPart(inbox[i])
    BY <1>1, <1>2, <2>1, <2>2, AnnouncedStays DEF Prop
  <2>3. CASE IsNewPart(inbox[i]) /\ incrTime[win] < m_incr_receive_time
    <3>1. i \in Recent
      BY <1>3, <2>3 DEF Recent, NewPart, IsNewPart
    <3>2. Prop(win) # NoValue /\ \A j \in Recent : j = i
      BY <1>1, <2>1, <2>3, <3>1 DEF Announced
    <3>3. ASSUME NEW j \in Recent' PROVE FALSE
      <4>1. j \in DOMAIN inbox' /\ NewPart(inbox'[j], win) /\ inbox'[j].time >= inbox[i].time
        BY <1>1, <1>2, <2>3, <3>3 DEF Recent
      <4> DEFINE o == IF j < i THEN j ELSE j + 1
      <4>2. o \in DOMAIN inbox \ {i} /\ inbox'[j] = inbox[o]
        BY <1>2, <4>1, RemoveIs
      <4>3. inbox[i].time >= prev_time /\ prev_time \in Nat /\ inbox[o].time \in Nat
        <5>1. inbox[o] \in Event /\ inbox[o].type = "PropertyNotify"
          BY <4>1, <4>2 DEF NewPart
        <5> QED BY <2>3, <5>1 DEF Event, Answer, Notification, IsNewPart, Clock
      <4>4. inbox[o].time >= prev_time
        BY <1>3, <4>1, <4>2, <4>3
      <4>5. o \in Recent
        BY <4>1, <4>2, <4>4 DEF Recent
      <4> QED BY <3>2, <4>2, <4>5
    <3>4. Recent' = {} /\ at' = "readPart"
      BY <1>2, <2>3, <3>3
    <3> QED BY <1>1, <3>2, <3>4 DEF Announced, Prop
  <2>4. CASE IsNewPart(inbox[i]) /\ ~(incrTime[win] < m_incr_receive_time)
    <3>1. at' = "readPart"
      BY <1>2, <2>4
    <3> QED BY <1>1, <2>4, <3>1 DEF Announced
  <2> QED BY <2>2, <2>3, <2>4
<1> QED BY <1>1, <1>4, <1>5, <1>6 DEF AInv, Missed, MissingOnlyByTie

LEMMA BreakOffAnnounces ==
  ASSUME XInv, AInv, PartTimesOut \/ PartMissing PROVE AInv'
<1> Types /\ Clock /\ inbox \in Seq(Event)
  BY DEF XInv, AInv, Types
<1>1. /\ at # "idle" /\ at' = "idle"
      /\ UNCHANGED <<inbox, now, incrTime, m_incr_receive_time, stamps, prev_time, gaveUp, win>>
  BY DEF PartTimesOut, PartMissing, BreakOff, ownerVars, timeVars
<1>2. win \in QtWindows /\ win \in Windows
  BY <1>1, AtWork
<1>3. Clock'
  BY <1>1, ClockStays DEF Clock
<1>4. Announced'
  BY <1>1 DEF Announced
<1>5. CASE PartTimesOut
  BY <1>1, <1>2, <1>3, <1>4, <1>5 DEF PartTimesOut, AInv, Missed, MissingOnlyByTie
<1>6. CASE PartMissing
  <2>1. at = "readPart" /\ Prop(win) = NoValue
    BY <1>6 DEF PartMissing, Prop
  <2>2. win \notin gaveUp => ~(incrTime[win] < m_incr_receive_time)
    BY <2>1 DEF AInv, Announced
  <2>3. incrTime[win] \in Nat /\ m_incr_receive_time \in Nat
    BY <1>2 DEF Clock
  <2> QED BY <1>1, <1>2, <1>3, <1>4, <2>2, <2>3 DEF AInv, Missed, MissingOnlyByTie
<1> QED BY <1>5, <1>6

\* getTimestamp() is called for an INCR property only, which no part is.
LEMMA ReadAnnounces ==
  ASSUME XInv, AInv, ReadProperty \/ ReadPart PROVE AInv'
<1> Types /\ Clock /\ inbox \in Seq(Event) /\ now \in Nat
  BY DEF XInv, AInv, Types
<1>1. /\ at # "idle" /\ UNCHANGED <<property, inbox, now, incrTime, prev_time, gaveUp, win, missing>>
      /\ UNCHANGED timeVars \/ getTimestamp
  BY DEF ReadProperty, ReadPart, serverVars, ownerVars
<1>2. m_incr_receive_time' \in Nat /\ stamps' \in Seq(Nat)
  <2>1. CASE UNCHANGED timeVars
    BY <2>1 DEF timeVars, Clock
  <2>2. CASE getTimestamp
    <3> DEFINE seen == Append(stamps, now)
    <3>1. seen \in Seq(Nat) /\ seen # <<>>
      <4>1. stamps \in Seq(Nat)
        BY DEF Clock
      <4> QED BY <4>1
    <3>2. m_incr_receive_time' = Head(seen) /\ stamps' = Append(Tail(seen), now)
      BY <2>2 DEF getTimestamp
    <3> HIDE DEF seen
    <3>3. Head(seen) \in Nat /\ Tail(seen) \in Seq(Nat)
      BY <3>1, HeadTailProperties
    <3> QED BY <3>2, <3>3
  <2> QED BY <1>1, <2>1, <2>2
<1>3. Clock'
  BY <1>1, <1>2 DEF Clock
<1>4. ~missing
  BY <1>1 DEF AInv, Missed
<1>5. ASSUME win \notin gaveUp PROVE Announced'
  <2>1. Announced /\ Phase(win)
    BY <1>1, <1>5, AtWork DEF AInv
  <2>2. CASE ReadProperty
    <3>1. at = "read" /\ at' \in {"idle", "delete"}
      BY <2>2 DEF ReadProperty
    <3> QED BY <1>1, <2>1, <3>1 DEF Announced, Prop
  <2>3. CASE ReadPart
    <3>1. at = "readPart" /\ at' = "deletePart" /\ Prop(win) # NoValue
      BY <2>3 DEF ReadPart, Prop
    <3>2. Prop(win).type # "INCR"
      BY <2>1, <3>1 DEF Phase, Moving, Data
    <3>3. UNCHANGED timeVars
      BY <2>3, <3>2 DEF ReadPart, Prop
    <3>4. Recent' = Recent
      BY <1>1 DEF Recent
    <3> QED BY <1>1, <2>1, <3>1, <3>3, <3>4 DEF Announced, Prop, timeVars
  <2> QED BY <2>2, <2>3
<1> QED BY <1>1, <1>3, <1>4, <1>5 DEF AInv, Missed, MissingOnlyByTie

LEMMA AnswerAnnounces ==
  ASSUME XInv, AInv, AnswerTimesOut \/ Answered PROVE AInv'
<1> Types /\ Clock /\ inbox \in Seq(Event)
  BY DEF XInv, AInv, Types
<1>1. /\ at = "answer" /\ at' \in {"idle", "read"} /\ (AnswerTimesOut => at' = "idle")
      /\ UNCHANGED <<property, now, incrTime, m_incr_receive_time, stamps, prev_time, win, missing>>
      /\ gaveUp \subseteq gaveUp' /\ (inbox' = inbox \/ \E i \in DOMAIN inbox : inbox' = RemoveAt(inbox, i))
  BY DEF AnswerTimesOut, Answered, serverVars, ownerVars, timeVars
<1>2. Clock'
  BY <1>1, ClockStays DEF Clock
<1>3. ~missing
  BY <1>1 DEF AInv, Missed
<1>4. ASSUME win \notin gaveUp PROVE Announced'
  <2>1. Announced /\ Undisturbed(win)
    BY <1>1, <1>4 DEF AInv, Undisturbed
  <2>2. \A j \in DOMAIN inbox' : NewPart(inbox'[j], win) =>
          \E i \in DOMAIN inbox : inbox[i] = inbox'[j] /\ NewPart(inbox[i], win)
    BY <1>1, <2>1, UndisturbedKeeps
  <2> QED BY <1>1, <2>1, <2>2 DEF Announced, Prop
<1> QED BY <1>1, <1>2, <1>3, <1>4 DEF AInv, Missed, MissingOnlyByTie

LEMMA OthersAnnounce ==
  ASSUME XInv, AInv,
         Discard \/ (Tick /\ UNCHANGED readVars) \/ ForeignRequests \/ ForeignTakes \/ UNCHANGED vars
  PROVE  AInv'
<1> Types /\ Clock /\ inbox \in Seq(Event) /\ now \in Nat
  BY DEF XInv, AInv, Types
<1>1. CASE Discard
  <2>1. /\ at = "idle" /\ inbox' = <<>> /\ stamps' = <<>>
        /\ UNCHANGED <<now, incrTime, m_incr_receive_time, prev_time, at, gaveUp, win, missing>>
    BY <1>1 DEF Discard, ownerVars
  <2>2. Clock' /\ Announced'
    BY <2>1 DEF Clock, Dated, Announced
  <2> QED BY <2>1, <2>2 DEF AInv, Missed, MissingOnlyByTie
<1>2. CASE Tick /\ UNCHANGED readVars
  <2>1. /\ now' = now + 1
        /\ UNCHANGED <<property, inbox, incrTime, m_incr_receive_time, stamps, prev_time, at, gaveUp, win, missing>>
    BY <1>2 DEF Tick, readVars, ownerVars
  <2>2. Clock'
    <3>1. Dated(inbox', now')
      BY <2>1, DatedAfter DEF Clock
    <3> QED BY <2>1, <3>1 DEF Clock
  <2>3. Announced => Announced'
    BY <2>1 DEF Announced, Recent, Prop
  <2> QED BY <2>1, <2>2, <2>3 DEF AInv, Missed, MissingOnlyByTie
<1>3. CASE ForeignRequests \/ UNCHANGED vars
  <2>1. UNCHANGED <<property, inbox, now, incrTime, m_incr_receive_time, stamps, prev_time, at, gaveUp, win, missing>>
    BY <1>3 DEF ForeignRequests, vars, serverVars, readVars, ownerVars, timeVars
  <2>2. Clock' /\ (Announced => Announced')
    BY <2>1 DEF Clock, Announced, Recent, Prop
  <2> QED BY <2>1, <2>2 DEF AInv, Missed, MissingOnlyByTie
<1>4. CASE ForeignTakes
  <2>1. PICK p \in Properties : DeleteProperty(ForeignWindow, p)
    BY <1>4 DEF ForeignTakes
  <2>2. UNCHANGED <<now, incrTime, m_incr_receive_time, stamps, prev_time, at, gaveUp, win, missing>>
    BY <1>4 DEF ForeignTakes, readVars, ownerVars
  <2>3. ForeignWindow \in Windows /\ ForeignWindow \notin QtWindows
    BY WindowsAssumption DEF Windows
  <2>4. Clock'
    BY <2>1, <2>2, <2>3, DeletionAdds, ClockStays DEF Clock
  <2>5. ASSUME win \notin gaveUp PROVE Announced'
    <3>1. CASE at = "idle"
      BY <2>2, <3>1 DEF Announced
    <3>2. CASE at # "idle"
      <4>1. win \in QtWindows /\ win \in Windows
        BY <3>2, AtWork
      <4>2. Prop(win)' = Prop(win)
        <5>1. PICK w \in Windows : w = win
          BY <4>1
        <5>2. Prop(w)' = Prop(w)
          BY <2>1, <2>3, <4>1, <5>1, DeletePropertyDoes
        <5> QED BY <2>2, <5>1, <5>2 DEF Prop
      <4>3. Announced /\ Undisturbed(win)
        BY <2>1, <2>3, <2>5, DeletionAdds DEF AInv
      <4> QED BY <2>2, <4>2, <4>3, AnnouncedStays
    <3> QED BY <3>1, <3>2
  <2> QED BY <2>2, <2>4, <2>5 DEF AInv, Missed, MissingOnlyByTie
<1> QED BY <1>1, <1>2, <1>3, <1>4

LEMMA AInvInit == Init => AInv
<1> SUFFICES ASSUME Init PROVE AInv
  OBVIOUS
<1>1. /\ inbox = <<>> /\ now = 0 /\ incrTime = [w \in Windows |-> 0] /\ m_incr_receive_time = 0 /\ stamps = <<>>
      /\ prev_time = 0 /\ at = "idle" /\ missing = FALSE
  BY DEF Init, OwnerInit
<1>2. Clock /\ Announced
  BY <1>1 DEF Clock, Dated, Announced
<1> QED BY <1>1, <1>2 DEF AInv, Missed, MissingOnlyByTie

LEMMA AInvNext == XInv /\ AInv /\ [Next]_vars => AInv'
<1> SUFFICES ASSUME XInv, AInv, [Next]_vars PROVE AInv'
  OBVIOUS
<1> QED BY OwnerAnnounces, GetSelectionAnnounces, DeleteReadAnnounces, DeletePartAnnounces, TakeNotificationAnnounces,
           BreakOffAnnounces, ReadAnnounces, AnswerAnnounces, OthersAnnounce DEF Next, RequestorStep

\* The property of an announced part is absent only if INCR was not written before
\* the time that getTimestamp() gave for its reading, whatever announcements of
\* earlier transfers are still in the queue.
THEOREM OnlyATieLosesParts == Spec => []MissingOnlyByTie
<1>1. AInv => MissingOnlyByTie
  BY DEF AInv
<1> QED BY <1>1, AInvInit, AInvNext, XInvAlways, PTL DEF Spec
-----------------------------------------------------------------------------
(* The types and bounds.                                                    *)

Written  == property \in [Windows \X Properties -> Values]
Sources  == \A id \in DOMAIN transaction : \E t \in Targets : transaction[id].data = Content(t) /\ Parts[t] # 1
Watching == existing \subseteq Windows /\ watched \subseteq Windows /\ DOMAIN m_transactions \subseteq Windows
Bounded  ==
  /\ now <= MaxTime /\ m_incr_receive_time <= MaxTime /\ prev_time <= MaxTime /\ stamps \in Seq(0 .. MaxTime)
  /\ owner \in {"running", "closing", "gone"}

BInv == Written /\ Sources /\ Watching /\ Bounded

\* What is ever written: INCR, all of a text that fits, a part, and the end of the parts.
LEMMA WhatIsWritten ==
  ASSUME NEW t \in Targets
  PROVE  /\ Data(Content(t)) \in Values
         /\ \A k \in 1 .. Parts[t] : Data(<<Content(t)[k]>>) \in Values
         /\ Parts[t] # 1 => Data(<<>>) \in Values
<1> PICK c, n : c = Content(t) /\ n = Parts[t]
  OBVIOUS
<1>1. c \in Seq(Chunk) /\ Len(c) = n /\ n \in Nat \ {0}
  BY ContentIs
<1>2. \A i, j \in 1 .. n : Data(SubSeq(c, i, j)) \in Values
  BY DEF Values
<1>3. SubSeq(c, 1, n) = c
  <2>1. SubSeq(c, 1, n) \in Seq(Chunk) /\ Len(SubSeq(c, 1, n)) = n /\ \A k \in 1 .. n : SubSeq(c, 1, n)[k] = c[k]
    BY <1>1
  <2> QED BY <1>1, <2>1, SeqEqual
<1>4. ASSUME NEW k \in 1 .. n PROVE SubSeq(c, k, k) = <<c[k]>>
  <2>1. c[k] \in Chunk /\ k \in Int
    BY <1>1
  <2>2. SubSeq(c, k, k) \in Seq(Chunk) /\ Len(SubSeq(c, k, k)) = 1 /\ SubSeq(c, k, k)[1] = c[k]
    BY <1>1, <2>1
  <2>3. <<c[k]>> \in Seq(Chunk) /\ Len(<<c[k]>>) = 1 /\ <<c[k]>>[1] = c[k]
    BY <2>1
  <2>4. \A j \in 1 .. Len(SubSeq(c, k, k)) : SubSeq(c, k, k)[j] = <<c[k]>>[j]
    BY <2>2, <2>3
  <2> QED BY <2>2, <2>3, <2>4, SeqEqual
<1>5. n # 1 => 2 \in 1 .. n /\ SubSeq(c, 2, 1) = <<>>
  BY <1>1, SubSeqEmpty
<1>6. 1 \in 1 .. n /\ n \in 1 .. n
  BY <1>1
<1>7. Data(c) \in Values
  BY <1>2, <1>3, <1>6
<1>8. \A k \in 1 .. n : Data(<<c[k]>>) \in Values
  BY <1>2, <1>4
<1>9. n # 1 => Data(<<>>) \in Values
  BY <1>2, <1>5, <1>6
<1> QED BY <1>1, <1>7, <1>8, <1>9

LEMMA WholeIsValue == \A t \in Targets : Data(Content(t)) \in Values
BY WhatIsWritten

LEMMA EndIsValue == \A t \in Targets : Parts[t] # 1 => Data(<<>>) \in Values
BY WhatIsWritten

LEMMA WrittenStays ==
  ASSUME Written, NEW wp, NEW v \in Values, property' = [property EXCEPT ![wp] = v] PROVE Written'
BY DEF Written

LEMMA ConstantsAreValues == NoValue \in Values /\ Incr \in Values
BY DEF Values

LEMMA ChangeIsWritten ==
  ASSUME Written, NEW w, NEW p, NEW v \in Values, ChangeProperty(w, p, v) PROVE Written'
BY WrittenStays DEF ChangeProperty, Written

LEMMA DeletionIsWritten ==
  ASSUME Written, NEW w, NEW p, DeleteProperty(w, p) PROVE Written'
BY WrittenStays, ConstantsAreValues DEF DeleteProperty

LEMMA SourcesStay ==
  ASSUME Sources, DOMAIN transaction' \subseteq DOMAIN transaction,
         \A i \in DOMAIN transaction' : transaction'[i].data = transaction[i].data
  PROVE  Sources'
BY DEF Sources

LEMMA SendIsTyped ==
  ASSUME XInv, BInv, sendSelection PROVE Written' /\ Sources' /\ Watching'
<1> USE DEF BInv
<1>1. existing' = existing /\ pairs # <<>>
  BY DEF sendSelection
<1>2. Head(pairs) \in Pair /\ request.window \in Windows
  BY <1>1 DEF XInv, Types, Request
<1> PICK pair, w : pair = Head(pairs) /\ w = request.window
  OBVIOUS
<1>3. pair.target \in Targets /\ w \in Windows
  BY <1>2 DEF Pair
<1>4. CASE SendAtOnce(pair)
  <2>1. Data(Content(pair.target)) \in Values
    BY <1>3, WholeIsValue
  <2>2. Written'
    BY <1>4, <2>1, ChangeIsWritten DEF SendAtOnce
  <2> QED BY <1>1, <1>4, <2>2 DEF SendAtOnce, Sources, Watching
<1>5. CASE SendByParts(pair)
  <2>1. Written'
    BY <1>5, ChangeIsWritten, ConstantsAreValues DEF SendByParts
  <2>2. NewTransaction(w, pair) /\ Parts[pair.target] # 1
    BY <1>5 DEF SendByParts, Fits
  <2>3. Watching'
    BY <1>1, <1>3, <2>2 DEF NewTransaction, Watching
  <2>4. \A i \in DOMAIN transaction' :
          transaction'[i].data = Content(pair.target) \/ (i \in DOMAIN transaction /\ transaction'[i] = transaction[i])
    <3>0. PICK tr : tr = [window |-> w, property |-> pair.property, data |-> Content(pair.target),
                        offset |-> 0, multiple |-> request.multiple]
      OBVIOUS
    <3>1. tr.data = Content(pair.target)
      BY <3>0
    <3>2. transaction' = [i \in DOMAIN transaction \cup {started + 1} |-> IF i # started + 1 THEN transaction[i] ELSE tr]
      BY <2>2, <3>0 DEF NewTransaction
    <3> SUFFICES ASSUME NEW i \in DOMAIN transaction'
                 PROVE  \/ transaction'[i].data = Content(pair.target)
                        \/ (i \in DOMAIN transaction /\ transaction'[i] = transaction[i])
      OBVIOUS
    <3>3. transaction'[i] = IF i # started + 1 THEN transaction[i] ELSE tr
      BY <3>2
    <3>4. i \in DOMAIN transaction \cup {started + 1}
      BY <3>2
    <3>5. CASE i = started + 1
      <4>1. transaction'[i] = tr
        BY <3>3, <3>5
      <4> QED BY <3>1, <4>1
    <3>6. CASE i # started + 1
      BY <3>3, <3>4, <3>6
    <3> QED BY <3>5, <3>6
  <2>5. Sources'
    BY <1>3, <2>2, <2>4 DEF Sources
  <2> QED BY <2>1, <2>3, <2>5
<1>6. CASE SendNothing \/ Unconverted
  BY <1>1, <1>6 DEF SendNothing, Unconverted, Written, Sources, Watching
<1> QED BY <1>4, <1>5, <1>6 DEF sendSelection

LEMMA DestroyedIsTyped ==
  ASSUME Sources, NEW id, Destroyed(id)
  PROVE  Sources' /\ DOMAIN m_transactions' \subseteq DOMAIN m_transactions
BY DEF Destroyed, Sources

LEMMA NotifyIsTyped ==
  ASSUME XInv, BInv, handlePropertyNotify PROVE Written' /\ Sources' /\ Watching'
<1> USE DEF BInv
<1> Types /\ TInv
  BY DEF XInv
<1>1. existing' = existing
  BY DEF handlePropertyNotify
<1>2. CASE UNCHANGED <<property, watched, transaction, m_transactions>>
  BY <1>1, <1>2 DEF Written, Sources, Watching
<1>3. ASSUME NEW id, id = Addressed(Head(ownerInbox)), id # 0, updateIncrementalProperty(id)
      PROVE  Written' /\ Sources' /\ Watching'
  <2>1. id \in DOMAIN transaction
    BY <1>3 DEF Addressed, TInv, NoDanglingTransaction
  <2> PICK tr, x : /\ tr = transaction[id]
                   /\ x = IF tr.offset = Len(tr.data) THEN <<>> ELSE <<tr.data[tr.offset + 1]>>
    OBVIOUS
  <2>2. tr.offset \in Nat /\ tr.offset <= Len(tr.data)
    BY <2>1 DEF Types, Transaction
  <2>3. PICK t \in Targets : tr.data = Content(t) /\ Parts[t] # 1
    BY <2>1 DEF Sources
  <2>4. Data(x) \in Values
    <3>1. Len(Content(t)) = Parts[t] /\ Parts[t] \in Nat \ {0}
      BY ContentIs
    <3>2. CASE tr.offset = Len(tr.data)
      <4>1. x = <<>>
        BY <3>2
      <4>2. Data(<<>>) \in Values
        BY <2>3, EndIsValue
      <4> QED BY <4>1, <4>2
    <3>3. CASE tr.offset # Len(tr.data)
      <4>1. PICK k \in 1 .. Parts[t] : k = tr.offset + 1
        BY <2>2, <2>3, <3>1, <3>3
      <4>2. x = <<Content(t)[k]>>
        BY <2>3, <3>3, <4>1
      <4>3. Data(<<Content(t)[k]>>) \in Values
        <5>1. \A j \in 1 .. Parts[t] : Data(<<Content(t)[j]>>) \in Values
          BY WhatIsWritten
        <5> QED BY <5>1
      <4> QED BY <4>2, <4>3
    <3> QED BY <3>2, <3>3
  <2>5. ChangeProperty(tr.window, tr.property, Data(x)) /\ (PartSent(id) \/ Completed(id))
    BY <1>3 DEF updateIncrementalProperty
  <2>6. Written'
    BY <2>4, <2>5, ChangeIsWritten
  <2>7. CASE PartSent(id)
    <3>1. /\ DOMAIN transaction' = DOMAIN transaction
          /\ \A i \in DOMAIN transaction' : transaction'[i].data = transaction[i].data
      <4>1. DOMAIN transaction' = DOMAIN transaction
        BY <2>7 DEF PartSent
      <4>2. ASSUME NEW i \in DOMAIN transaction PROVE transaction'[i].data = transaction[i].data
        <5>1. transaction[i] \in Transaction
          BY DEF Types
        <5>2. transaction'[i] = IF i = id THEN [transaction[i] EXCEPT !.offset = @ + 1] ELSE transaction[i]
          BY <2>7 DEF PartSent
        <5> QED BY <5>1, <5>2 DEF Transaction
      <4> QED BY <4>1, <4>2
    <3> QED BY <1>1, <2>6, <2>7, <3>1, SourcesStay DEF PartSent, Watching
  <2>8. CASE Completed(id)
    BY <1>1, <2>6, <2>8, DestroyedIsTyped DEF Completed, Watching
  <2> QED BY <2>5, <2>7, <2>8
<1> QED BY <1>2, <1>3 DEF handlePropertyNotify

LEMMA OwnerIsTyped ==
  ASSUME XInv, BInv, Owner PROVE BInv'
<1> USE DEF BInv
<1>1. Bounded'
  BY DEF Bounded, Owner, readVars, timeVars, OwnerStep, RefuseRequest, AcceptRequest, sendSelection, AnswerRequest,
     handlePropertyNotify, timerEvent, serverVars, ownerVars, Close, Exit
<1>2. CASE sendSelection
  BY <1>1, <1>2, SendIsTyped
<1>3. CASE handlePropertyNotify
  BY <1>1, <1>3, NotifyIsTyped
<1>4. CASE timerEvent
  <2>1. UNCHANGED <<property, existing, watched>> /\ \E id \in DOMAIN transaction : Destroyed(id)
    BY <1>4 DEF timerEvent, serverVars
  <2> QED BY <1>1, <2>1, DestroyedIsTyped DEF Written, Watching
<1>5. CASE Exit
  BY <1>1, <1>5 DEF Exit, Written, Sources, Watching
<1>6. CASE RefuseRequest \/ AcceptRequest \/ AnswerRequest \/ Close
  BY <1>1, <1>6 DEF RefuseRequest, AcceptRequest, AnswerRequest, Close, serverVars, ownerVars, Written, Sources, Watching
<1> QED BY <1>2, <1>3, <1>4, <1>5, <1>6 DEF Owner, OwnerStep

LEMMA TimestampIsTyped ==
  ASSUME XInv, BInv, UNCHANGED timeVars \/ getTimestamp
  PROVE  m_incr_receive_time' <= MaxTime /\ stamps' \in Seq(0 .. MaxTime)
<1> Bounded /\ now \in Nat
  BY DEF BInv, XInv, Types
<1>1. CASE UNCHANGED timeVars
  BY <1>1 DEF timeVars, Bounded
<1>2. CASE getTimestamp
  <2>1. PICK seen : seen = Append(stamps, now)
    OBVIOUS
  <2>2. now \in 0 .. MaxTime /\ stamps \in Seq(0 .. MaxTime)
    BY MaxTimeAssumption DEF Bounded
  <2>3. seen \in Seq(0 .. MaxTime) /\ seen # <<>>
    BY <2>1, <2>2
  <2>4. m_incr_receive_time' = Head(seen) /\ stamps' = Append(Tail(seen), now)
    BY <1>2, <2>1 DEF getTimestamp
  <2>5. Head(seen) \in 0 .. MaxTime /\ Tail(seen) \in Seq(0 .. MaxTime)
    BY <2>3, HeadTailProperties
  <2> QED BY <2>2, <2>4, <2>5, MaxTimeAssumption
<1> QED BY <1>1, <1>2

LEMMA RequestorIsTyped ==
  ASSUME XInv, AInv, BInv, RequestorStep PROVE BInv'
<1> USE DEF BInv
<1>1. UNCHANGED <<transaction, m_transactions, watched, owner, now>>
  BY DEF RequestorStep, AnswerTimesOut, Answered, ReadProperty, DeleteRead, TakeNotification, PartTimesOut, PartMissing,
     BreakOff, ReadPart, DeletePart, serverVars, ownerVars
<1>2. Sources' /\ DOMAIN m_transactions' \subseteq Windows /\ watched' \subseteq Windows
  BY <1>1 DEF Sources, Watching
<1>3. CASE ReadProperty \/ ReadPart
  <2>1. UNCHANGED <<property, existing, prev_time>> /\ (UNCHANGED timeVars \/ getTimestamp)
    BY <1>3 DEF ReadProperty, ReadPart, serverVars
  <2> QED BY <1>1, <1>2, <2>1, TimestampIsTyped DEF Written, Watching, Bounded
<1>4. CASE DeleteRead \/ DeletePart
  <2>1. Written'
    BY <1>4, DeletionIsWritten DEF DeleteRead, DeletePart
  <2>2. UNCHANGED <<existing, timeVars>> /\ prev_time' \in {prev_time, m_incr_receive_time}
    BY <1>4 DEF DeleteRead, DeletePart
  <2> QED BY <1>1, <1>2, <2>1, <2>2 DEF Watching, Bounded, timeVars
<1>5. CASE PartTimesOut \/ PartMissing
  <2>1. existing' \subseteq existing /\ property' = [property EXCEPT ![<<win, QtSelection>>] = NoValue]
        /\ UNCHANGED <<timeVars, prev_time>>
    BY <1>5 DEF PartTimesOut, PartMissing, BreakOff, setRequestor
  <2>2. Written'
    BY <2>1, WrittenStays, ConstantsAreValues
  <2> QED BY <1>1, <1>2, <2>1, <2>2 DEF Watching, Bounded, timeVars
<1>6. CASE TakeNotification
  <2>1. UNCHANGED <<property, existing, timeVars>>
        /\ (prev_time' = prev_time \/ \E i \in DOMAIN inbox : IsFirst(i, Announce) /\ prev_time' = inbox[i].time)
    BY <1>6 DEF TakeNotification
  <2>2. \A i \in DOMAIN inbox : IsFirst(i, Announce) => inbox[i].time <= now /\ inbox[i].time \in Nat
    <3> SUFFICES ASSUME NEW i \in DOMAIN inbox, IsFirst(i, Announce) PROVE inbox[i].time <= now /\ inbox[i].time \in Nat
      OBVIOUS
    <3>1. inbox[i].type = "PropertyNotify" /\ inbox[i] \in Event
      BY DEF IsFirst, Announce, XInv, Types
    <3>2. inbox[i].time <= now
      BY <3>1 DEF AInv, Clock, Dated
    <3>3. inbox[i] \in Notification
      BY <3>1 DEF Event, Answer
    <3> QED BY <3>2, <3>3 DEF Notification
  <2>3. prev_time' <= MaxTime
    BY <2>1, <2>2, MaxTimeAssumption DEF Bounded, XInv, Types
  <2> QED BY <1>1, <1>2, <2>1, <2>3 DEF Written, Watching, Bounded, timeVars
<1>7. CASE AnswerTimesOut \/ Answered
  BY <1>1, <1>2, <1>7 DEF AnswerTimesOut, Answered, serverVars, timeVars, Written, Watching, Bounded
<1> QED BY <1>3, <1>4, <1>5, <1>6, <1>7 DEF RequestorStep

LEMMA GetSelectionIsTyped ==
  ASSUME XInv, BInv, NEW t \in Targets, getSelection(t) PROVE BInv'
<1> USE DEF BInv
<1>1. UNCHANGED <<watched, now, owner, transaction, m_transactions, timeVars, prev_time>>
  BY DEF getSelection, ownerVars
<1>2. PICK w : /\ w = IF m_requestor = NoWindow THEN NewWindow ELSE m_requestor
               /\ existing' = existing \cup {w} /\ property' = [property EXCEPT ![<<w, QtSelection>>] = NoValue]
  BY DEF getSelection
<1>3. w \in Windows
  BY <1>2, RequestorIs DEF Windows
<1>4. Written'
  BY <1>2, WrittenStays, ConstantsAreValues
<1> QED BY <1>1, <1>2, <1>3, <1>4 DEF Sources, Watching, Bounded, timeVars

LEMMA OthersAreTyped ==
  ASSUME XInv, BInv,
         Discard \/ (Tick /\ UNCHANGED readVars) \/ ForeignRequests \/ ForeignTakes \/ UNCHANGED vars
  PROVE  BInv'
<1> USE DEF BInv
<1>1. CASE ForeignTakes
  <2>1. Written'
    BY <1>1, DeletionIsWritten DEF ForeignTakes
  <2> QED BY <1>1, <2>1 DEF ForeignTakes, ownerVars, readVars, timeVars, Sources, Watching, Bounded
<1>2. CASE Tick /\ UNCHANGED readVars
  BY <1>2, MaxTimeAssumption DEF Tick, ownerVars, readVars, timeVars, XInv, Types, Written, Sources, Watching, Bounded
<1>3. CASE Discard
  BY <1>3 DEF Discard, ownerVars, Written, Sources, Watching, Bounded
<1>4. CASE ForeignRequests \/ UNCHANGED vars
  BY <1>4 DEF ForeignRequests, vars, serverVars, ownerVars, readVars, timeVars, Written, Sources, Watching, Bounded
<1> QED BY <1>1, <1>2, <1>3, <1>4

LEMMA BInvInit == Init => BInv
<1> SUFFICES ASSUME Init PROVE BInv
  OBVIOUS
<1>1. Written
  BY ConstantsAreValues DEF Init, OwnerInit, Written
<1> QED BY <1>1, MaxTimeAssumption DEF Init, OwnerInit, BInv, Sources, Watching, Bounded, Windows

LEMMA BInvNext == XInv /\ AInv /\ BInv /\ [Next]_vars => BInv'
<1> SUFFICES ASSUME XInv, AInv, BInv, [Next]_vars PROVE BInv'
  OBVIOUS
<1> QED BY OwnerIsTyped, RequestorIsTyped, GetSelectionIsTyped, OthersAreTyped DEF Next

\* Every variable of a transfer has its type: in particular a property never holds
\* anything but INCR, all of a text that fits, one part, or the end of the parts, and no
\* transaction sends past the end of its data.
THEOREM TypeCorrect == Spec => []TypeOK
<1>1. XInv /\ AInv /\ BInv => TypeOK
  <2> SUFFICES ASSUME XInv, AInv, BInv PROVE TypeOK
    OBVIOUS
  <2>1. /\ now \in 0 .. MaxTime /\ {m_incr_receive_time, prev_time} \subseteq 0 .. MaxTime
    BY MaxTimeAssumption DEF BInv, Bounded, XInv, Types, AInv, Clock
  <2>2. \A id \in DOMAIN transaction :
          /\ id \in 1 .. started /\ transaction[id].window \in Windows
          /\ transaction[id].offset \in 0 .. Len(transaction[id].data)
    <3> SUFFICES ASSUME NEW id \in DOMAIN transaction
                 PROVE  /\ id \in 1 .. started /\ transaction[id].window \in Windows
                        /\ transaction[id].offset \in 0 .. Len(transaction[id].data)
      OBVIOUS
    <3>1. /\ transaction[id].offset \in Nat /\ transaction[id].data \in Seq(Chunk) /\ transaction[id].window \in Windows
          /\ transaction[id].offset <= Len(transaction[id].data)
      BY DEF XInv, Types, Transaction
    <3>2. id \in 1 .. started
      BY DEF XInv, TInv, Objects
    <3> QED BY <3>1, <3>2
  <2> QED BY <2>1, <2>2 DEF TypeOK, BInv, Written, Watching, Bounded, XInv, Types, Places
<1>2. XInv /\ AInv /\ [Next]_vars => AInv'
  BY AInvNext
<1> QED BY <1>1, <1>2, AInvInit, BInvInit, BInvNext, XInvAlways, PTL DEF Spec
=============================================================================
