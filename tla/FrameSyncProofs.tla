-------------------------- MODULE FrameSyncProofs --------------------------
(***************************************************************************)
(* Proofs about FrameSync for any size of the window, number of requests   *)
(* and length of the queues: the type invariant; that the sync counter     *)
(* announces no request too early and none twice; that no lost pixel is    *)
(* forgotten; and that at rest the window shows what the server has.       *)
(***************************************************************************)
EXTENDS FrameSync, FiniteSetTheorems, SequenceTheorems, TLAPS

(* Requests are numbered, and their messages keep their order on the way:  *)
(* behind the message of a request only younger requests and their         *)
(* ConfigureNotify events come.                                            *)

Follows(d, e) ==
    d.type = "Sync" => /\ e.type = "Sync" => d.value < e.value
                       /\ e.type = "Configure" => d.value <= e.value

Ordered(q) == \A i, j \in 1 .. Len(q) : i < j => Follows(q[i], q[j])

\* What is on its way is younger than the request the window has, and than the counter.
Due(e) ==
    /\ e.type = "Sync" => /\ window.m_syncValue < e.value /\ server.counter < e.value
                          /\ e.value <= wm.value
    /\ e.type = "Configure" => window.m_syncValue <= e.value /\ e.value <= wm.value

AllDue(q) == \A i \in 1 .. Len(q) : Due(q[i])

Requests ==
    /\ wm.value <= wm.changes
    /\ server.counter <= wm.value /\ window.m_syncValue <= wm.value
    /\ window.m_syncValue # 0 => server.counter < window.m_syncValue
    /\ needsSync => window.m_syncValue <= configured
    /\ AllDue(queue) /\ AllDue(wire)
    /\ Ordered(queue) /\ Ordered(wire)
    /\ \A i \in 1 .. Len(queue), j \in 1 .. Len(wire) : Follows(queue[i], wire[j])

Inv == TypeOK /\ Requests
-----------------------------------------------------------------------------
(* Enumerations and sequences.                                             *)

LEMMA MessageTypes ==
    /\ \A v \in 1 .. MaxChanges : Sync(v) \in Message /\ Sync(v).type = "Sync" /\ Sync(v).value = v
    /\ \A s \in 1 .. MaxSize, v \in 0 .. MaxChanges :
          /\ Configure(s, v) \in Message /\ Configure(s, v).type = "Configure"
          /\ Configure(s, v).value = v
    /\ \A A \in SUBSET Pixels(MaxSize), n \in 0 .. MaxSize :
          Expose(A, n) \in Message /\ Expose(A, n).type = "Expose"
    /\ \A t \in {"Map", "Unmap"} : Notify(t) \in Message /\ Notify(t).type = t
BY DEF Message, Sync, Configure, Expose, Notify

LEMMA EnumerationIsAscending ==
    ASSUME NEW S, IsFiniteSet(S), NEW f \in Ascending(S)
    PROVE  /\ Cardinality(S) \in Nat /\ f \in [1 .. Cardinality(S) -> S]
           /\ \A i, j \in 1 .. Cardinality(S) : i < j => f[i] < f[j]
BY FS_CardinalityType DEF Ascending

LEMMA PixelsAreFinite ==
    ASSUME NEW n \in 0 .. MaxSize, NEW A \in SUBSET Pixels(n)
    PROVE  /\ IsFiniteSet(A) /\ Cardinality(A) \in 0 .. MaxSize
           /\ A \in SUBSET Pixels(MaxSize)
<1>1. n \in Int /\ MaxSize \in Int /\ n <= MaxSize /\ 0 <= n
  BY FrameAssumption
<1>2. IsFiniteSet(1 .. n) /\ Cardinality(1 .. n) = n
  BY <1>1, FS_Interval
<1>3. IsFiniteSet(A) /\ Cardinality(A) <= n
  BY <1>2, FS_Subset DEF Pixels
<1>4. Cardinality(A) \in Nat
  BY <1>3, FS_CardinalityType
<1> QED BY <1>1, <1>3, <1>4 DEF Pixels

\* A group of Expose events is a sequence of messages, and of Expose events only.
LEMMA GroupIsTyped ==
    ASSUME NEW n \in 0 .. MaxSize, NEW A \in SUBSET Pixels(n), NEW g \in Exposed(A)
    PROVE  g \in Seq(Message) /\ \A i \in 1 .. Len(g) : g[i].type = "Expose"
<1> DEFINE k == Cardinality(A)
<1>1. IsFiniteSet(A) /\ k \in 0 .. MaxSize /\ A \in SUBSET Pixels(MaxSize)
  BY PixelsAreFinite
<1>2. PICK f \in Ascending(A) : g = [i \in 1 .. k |-> Expose({f[i]}, k - i)]
  BY DEF Exposed
<1>3. f \in [1 .. k -> A]
  BY <1>1, EnumerationIsAscending
<1> HIDE DEF k
<1>4. \A i \in 1 .. k : Expose({f[i]}, k - i) \in Message /\ Expose({f[i]}, k - i).type = "Expose"
  <2> SUFFICES ASSUME NEW i \in 1 .. k
               PROVE  Expose({f[i]}, k - i) \in Message /\ Expose({f[i]}, k - i).type = "Expose"
    OBVIOUS
  <2>1. {f[i]} \in SUBSET Pixels(MaxSize)
    BY <1>1, <1>3
  <2>2. k - i \in 0 .. MaxSize
    BY <1>1, FrameAssumption
  <2> QED BY <2>1, <2>2, MessageTypes
<1>5. k \in Nat
  BY <1>1, FrameAssumption
<1>6. g \in [1 .. k -> Message]
  BY <1>2, <1>4
<1>7. g \in Seq(Message) /\ Len(g) = k
  BY <1>5, <1>6
<1>8. \A i \in 1 .. k : g[i].type = "Expose"
  BY <1>2, <1>4
<1> QED BY <1>7, <1>8

\* p is what is left of q when some of its elements are taken out.
Part(p, q) ==
    /\ p \in Seq(Message) /\ q \in Seq(Message)
    /\ \E f \in [1 .. Len(p) -> 1 .. Len(q)] :
          /\ \A i \in 1 .. Len(p) : p[i] = q[f[i]]
          /\ \A i, j \in 1 .. Len(p) : i < j => f[i] < f[j]

LEMMA OthersArePart ==
    ASSUME NEW q \in Seq(Message), NEW p \in Others(q)
    PROVE  Part(p, q)
<1> DEFINE K == {i \in 1 .. Len(q) : q[i].type # "Expose"}
           k == Cardinality(K)
<1>1. IsFiniteSet(K)
  <2>1. Len(q) \in Nat
    OBVIOUS
  <2>2. IsFiniteSet(1 .. Len(q))
    BY <2>1, FS_Interval
  <2> QED BY <2>2, FS_Subset
<1>2. PICK f \in Ascending(K) : p = [i \in DOMAIN f |-> q[f[i]]]
  BY DEF Others
<1>3. k \in Nat /\ f \in [1 .. k -> K] /\ \A i, j \in 1 .. k : i < j => f[i] < f[j]
  BY <1>1, EnumerationIsAscending
<1>4. K \subseteq 1 .. Len(q)
  OBVIOUS
<1> HIDE DEF K, k
<1>5. p = [i \in 1 .. k |-> q[f[i]]] /\ \A i \in 1 .. k : f[i] \in 1 .. Len(q)
  BY <1>2, <1>3, <1>4
<1>6. \A i \in 1 .. k : q[f[i]] \in Message
  BY <1>5
<1>7. p \in Seq(Message) /\ Len(p) = k
  BY <1>3, <1>5, <1>6
<1>8. f \in [1 .. Len(p) -> 1 .. Len(q)]
  BY <1>3, <1>4, <1>7
<1> QED BY <1>3, <1>5, <1>7, <1>8 DEF Part

LEMMA TailIsPart ==
    ASSUME NEW q \in Seq(Message), q # <<>>
    PROVE  /\ Part(Tail(q), q) /\ Head(q) = q[1] /\ Head(q) \in Message
           /\ Len(q) \in Nat /\ Len(q) > 0
           /\ Len(Tail(q)) = Len(q) - 1
           /\ \A i \in 1 .. Len(Tail(q)) : Tail(q)[i] = q[i + 1] /\ i + 1 \in 1 .. Len(q)
<1>1. /\ Tail(q) \in Seq(Message) /\ Len(Tail(q)) = Len(q) - 1 /\ Len(q) \in Nat /\ Len(q) > 0
      /\ \A i \in 1 .. Len(Tail(q)) : Tail(q)[i] = q[i + 1]
      /\ Head(q) = q[1] /\ Head(q) \in Message
  OBVIOUS
<1> DEFINE f == [i \in 1 .. Len(Tail(q)) |-> i + 1]
<1>2. /\ f \in [1 .. Len(Tail(q)) -> 1 .. Len(q)]
      /\ \A i \in 1 .. Len(Tail(q)) : Tail(q)[i] = q[f[i]]
      /\ \A i, j \in 1 .. Len(Tail(q)) : i < j => f[i] < f[j]
  BY <1>1
<1>3. Part(Tail(q), q)
  BY <1>1, <1>2 DEF Part
<1> QED BY <1>1, <1>3

LEMMA PartOfPart ==
    ASSUME NEW p, NEW q, NEW r, Part(p, q), Part(q, r)
    PROVE  Part(p, r)
<1>1. PICK f \in [1 .. Len(p) -> 1 .. Len(q)] :
        /\ \A i \in 1 .. Len(p) : p[i] = q[f[i]]
        /\ \A i, j \in 1 .. Len(p) : i < j => f[i] < f[j]
  BY DEF Part
<1>2. PICK g \in [1 .. Len(q) -> 1 .. Len(r)] :
        /\ \A i \in 1 .. Len(q) : q[i] = r[g[i]]
        /\ \A i, j \in 1 .. Len(q) : i < j => g[i] < g[j]
  BY DEF Part
<1> DEFINE h == [i \in 1 .. Len(p) |-> g[f[i]]]
<1>3. /\ h \in [1 .. Len(p) -> 1 .. Len(r)]
      /\ \A i \in 1 .. Len(p) : p[i] = r[h[i]]
      /\ \A i, j \in 1 .. Len(p) : i < j => h[i] < h[j]
  BY <1>1, <1>2
<1> QED BY <1>3 DEF Part

LEMMA PartKeeps ==
    ASSUME NEW p, NEW q, Part(p, q)
    PROVE  /\ p \in Seq(Message)
           /\ \A i \in 1 .. Len(p) : \E k \in 1 .. Len(q) : p[i] = q[k]
           /\ Ordered(q) => Ordered(p)
BY DEF Part, Ordered

LEMMA JoinKeepsOrder ==
    ASSUME NEW q \in Seq(Message), NEW es \in Seq(Message), Ordered(q), Ordered(es),
           \A i \in 1 .. Len(q), j \in 1 .. Len(es) : Follows(q[i], es[j])
    PROVE  /\ q \o es \in Seq(Message)
           /\ Ordered(q \o es)
           /\ \A i \in 1 .. Len(q \o es) : \/ \E k \in 1 .. Len(q) : (q \o es)[i] = q[k]
                                           \/ \E k \in 1 .. Len(es) : (q \o es)[i] = es[k]
<1> DEFINE w == q \o es
<1>1. /\ w \in Seq(Message) /\ Len(w) = Len(q) + Len(es) /\ Len(q) \in Nat /\ Len(es) \in Nat
      /\ \A i \in 1 .. Len(q) + Len(es) : w[i] = IF i <= Len(q) THEN q[i] ELSE es[i - Len(q)]
  BY ConcatProperties
<1> HIDE DEF w
<1>2. \A i \in 1 .. Len(w) :
        \/ i \in 1 .. Len(q) /\ w[i] = q[i]
        \/ i > Len(q) /\ i - Len(q) \in 1 .. Len(es) /\ w[i] = es[i - Len(q)]
  BY <1>1
<1>3. ASSUME NEW i \in 1 .. Len(w), NEW j \in 1 .. Len(w), i < j PROVE Follows(w[i], w[j])
  <2>1. CASE j \in 1 .. Len(q) /\ w[j] = q[j]
    <3>1. i \in 1 .. Len(q)
      BY <1>1, <1>3, <2>1
    <3>2. w[i] = q[i]
      BY <1>1, <3>1
    <3> QED BY <1>3, <2>1, <3>1, <3>2 DEF Ordered
  <2>2. CASE i \in 1 .. Len(q) /\ w[i] = q[i] /\ j - Len(q) \in 1 .. Len(es) /\ w[j] = es[j - Len(q)]
    BY <2>2
  <2>3. CASE /\ i - Len(q) \in 1 .. Len(es) /\ w[i] = es[i - Len(q)]
             /\ j - Len(q) \in 1 .. Len(es) /\ w[j] = es[j - Len(q)]
    <3>1. i - Len(q) < j - Len(q)
      BY <1>1, <1>3
    <3> QED BY <2>3, <3>1 DEF Ordered
  <2> QED BY <1>1, <1>2, <1>3, <2>1, <2>2, <2>3
<1>4. Ordered(w)
  BY <1>3 DEF Ordered
<1> QED BY <1>1, <1>2, <1>4 DEF w

LEMMA RegionsAreTyped ==
    ASSUME NEW q \in Seq(Message)
    PROVE  Regions("Expose", q) \in SUBSET Pixels(MaxSize)
BY DEF Regions, Events, Message
-----------------------------------------------------------------------------
(* Requests, step by step.                                                 *)

LEMMA ValuesAreNumbers ==
    \A e \in Message : e.type \in {"Sync", "Configure"} => e.value \in Nat
BY FrameAssumption DEF Message

\* What is numbered after the newest request follows everything on its way.
LEMMA YoungerFollows ==
    ASSUME NEW d \in Message, NEW e \in Message, NEW v \in Nat,
           d.type = "Sync" => d.value <= v,
           e.type = "Sync" => v < e.value, e.type = "Configure" => v <= e.value
    PROVE  Follows(d, e)
BY ValuesAreNumbers DEF Follows

\* A step that only adds messages no older than the newest request.
LEMMA SendKeeps ==
    ASSUME Inv, NEW es \in Seq(Message), Ordered(es),
           wire' = wire \o es, queue' = queue, configured' = configured,
           window'.m_syncValue = window.m_syncValue, window'.m_syncState = window.m_syncState,
           server'.counter = server.counter,
           wm' \in [value : 0 .. MaxChanges, configuring : BOOLEAN, changes : 0 .. MaxChanges],
           wm.value <= wm'.value, wm'.value <= wm'.changes,
           \A i \in 1 .. Len(es) :
              /\ es[i].type = "Sync" => wm.value < es[i].value /\ es[i].value <= wm'.value
              /\ es[i].type = "Configure" => wm.value <= es[i].value /\ es[i].value <= wm'.value
    PROVE  wire' \in Seq(Message) /\ Requests'
<1>1. /\ MaxChanges \in Nat /\ wm.value \in 0 .. MaxChanges /\ wm'.value \in 0 .. MaxChanges
      /\ server.counter \in 0 .. MaxChanges /\ window.m_syncValue \in 0 .. MaxChanges
      /\ wire \in Seq(Message) /\ queue \in Seq(Message)
  BY FrameAssumption DEF Inv, TypeOK
<1>2. /\ \A e \in Message : e.type \in {"Sync", "Configure"} => e.value \in 0 .. MaxChanges
      /\ \A i \in 1 .. Len(wire) : wire[i] \in Message
      /\ \A i \in 1 .. Len(queue) : queue[i] \in Message
      /\ \A i \in 1 .. Len(es) : es[i] \in Message
  <2>1. \A e \in Message : e.type \in {"Sync", "Configure"} => e.value \in 0 .. MaxChanges
    BY <1>1 DEF Message
  <2> QED BY <1>1, <2>1
<1>3. ASSUME NEW d \in Message, Due(d), NEW k \in 1 .. Len(es) PROVE Follows(d, es[k])
  <2>1. d.type = "Sync" => d.value <= wm.value
    BY <1>3 DEF Due
  <2>2. /\ es[k] \in Message /\ wm.value \in Nat
        /\ es[k].type = "Sync" => wm.value < es[k].value
        /\ es[k].type = "Configure" => wm.value <= es[k].value
    BY <1>1, <1>2
  <2> QED BY <2>1, <2>2, YoungerFollows
<1>4. ASSUME NEW d \in Message, Due(d) PROVE Due(d)'
  BY <1>1, <1>2, <1>4 DEF Due
<1>5. ASSUME NEW k \in 1 .. Len(es) PROVE Due(es[k])'
  <2>1. /\ window.m_syncValue <= wm.value /\ server.counter <= wm.value
        /\ window'.m_syncValue = window.m_syncValue /\ server'.counter = server.counter
    BY DEF Inv, Requests
  <2>2. /\ es[k] \in Message /\ wm.value \in Nat /\ wm'.value \in Nat
        /\ window'.m_syncValue \in Nat /\ server'.counter \in Nat
        /\ window'.m_syncValue <= wm.value /\ server'.counter <= wm.value
        /\ es[k].type = "Sync" => wm.value < es[k].value /\ es[k].value <= wm'.value
        /\ es[k].type = "Configure" => wm.value <= es[k].value /\ es[k].value <= wm'.value
    BY <1>1, <1>2, <2>1
  <2>3. /\ es[k].type = "Sync" => /\ window'.m_syncValue < es[k].value
                                 /\ server'.counter < es[k].value /\ es[k].value <= wm'.value
        /\ es[k].type = "Configure" => window'.m_syncValue <= es[k].value /\ es[k].value <= wm'.value
    <3>1. es[k].type \in {"Sync", "Configure"} => es[k].value \in Nat
      BY <2>2, ValuesAreNumbers
    <3>2. CASE es[k].type = "Sync"
      <4>1. /\ es[k].value \in Nat /\ wm.value < es[k].value /\ es[k].value <= wm'.value
            /\ es[k].type # "Configure"
        BY <2>2, <3>1, <3>2
      <4> QED BY <2>2, <4>1
    <3>3. CASE es[k].type = "Configure"
      <4>1. /\ es[k].value \in Nat /\ wm.value <= es[k].value /\ es[k].value <= wm'.value
            /\ es[k].type # "Sync"
        BY <2>2, <3>1, <3>3
      <4> QED BY <2>2, <4>1
    <3> QED BY <3>2, <3>3
  <2> QED BY <2>3 DEF Due
<1>6. /\ AllDue(queue) /\ AllDue(wire) /\ Ordered(queue) /\ Ordered(wire)
      /\ \A i \in 1 .. Len(queue), j \in 1 .. Len(wire) : Follows(queue[i], wire[j])
  BY DEF Inv, Requests
<1>7. /\ wire' \in Seq(Message) /\ Ordered(wire')
      /\ \A i \in 1 .. Len(wire') : \/ \E k \in 1 .. Len(wire) : wire'[i] = wire[k]
                                   \/ \E k \in 1 .. Len(es) : wire'[i] = es[k]
  <2>1. ASSUME NEW i \in 1 .. Len(wire), NEW k \in 1 .. Len(es) PROVE Follows(wire[i], es[k])
    BY <1>2, <1>3, <1>6 DEF AllDue
  <2>2. /\ wire \o es \in Seq(Message) /\ Ordered(wire \o es)
        /\ \A i \in 1 .. Len(wire \o es) : \/ \E k \in 1 .. Len(wire) : (wire \o es)[i] = wire[k]
                                          \/ \E k \in 1 .. Len(es) : (wire \o es)[i] = es[k]
    BY <1>1, <1>6, <2>1, JoinKeepsOrder
  <2>3. wire' = wire \o es
    OBVIOUS
  <2> QED BY <2>2, <2>3
<1>8. AllDue(queue)'
  BY <1>2, <1>4, <1>6 DEF AllDue
<1>9. AllDue(wire)'
  <2> SUFFICES ASSUME NEW i \in 1 .. Len(wire') PROVE Due(wire[i])'
    BY DEF AllDue
  <2>1. CASE \E k \in 1 .. Len(wire) : wire'[i] = wire[k]
    BY <1>2, <1>4, <1>6, <2>1 DEF AllDue
  <2>2. CASE \E k \in 1 .. Len(es) : wire'[i] = es[k]
    BY <1>5, <2>2
  <2> QED BY <1>7, <2>1, <2>2
<1>10. ASSUME NEW i \in 1 .. Len(queue), NEW j \in 1 .. Len(wire') PROVE Follows(queue[i], wire'[j])
  BY <1>2, <1>3, <1>6, <1>7 DEF AllDue
<1>11. /\ wm'.value <= wm'.changes
       /\ server'.counter <= wm'.value /\ window'.m_syncValue <= wm'.value
       /\ window'.m_syncValue # 0 => server'.counter < window'.m_syncValue
       /\ needsSync' => window'.m_syncValue <= configured'
  BY <1>1 DEF Inv, Requests, needsSync
<1> QED BY <1>6, <1>7, <1>8, <1>9, <1>10, <1>11 DEF Requests, Ordered

\* A step that takes events from the queue.
LEMMA TakeKeeps ==
    ASSUME Inv, Part(queue', queue), wire' = wire
    PROVE  /\ queue' \in Seq(Message) /\ Ordered(queue') /\ Ordered(wire')
           /\ \A i \in 1 .. Len(queue') : \E k \in 1 .. Len(queue) : queue'[i] = queue[k]
           /\ \A i \in 1 .. Len(queue'), j \in 1 .. Len(wire') : Follows(queue'[i], wire'[j])
<1>1. /\ queue' \in Seq(Message) /\ Ordered(queue')
      /\ \A i \in 1 .. Len(queue') : \E k \in 1 .. Len(queue) : queue'[i] = queue[k]
  BY PartKeeps DEF Inv, Requests
<1> QED BY <1>1 DEF Inv, Requests, Ordered

\* A step that takes events and leaves the request the window has as it is.
LEMMA OtherEventsKeep ==
    ASSUME Inv, Part(queue', queue), wire' = wire, wm' = wm, server' = server,
           configured' = configured, window'.m_syncValue = window.m_syncValue,
           window'.m_syncState = window.m_syncState
    PROVE  Requests'
<1>1. \A d : Due(d) => Due(d)'
  BY DEF Due
<1>2. AllDue(queue)' /\ AllDue(wire)'
  BY <1>1, TakeKeeps DEF Inv, Requests, AllDue
<1> QED BY <1>2, TakeKeeps DEF Inv, Requests, needsSync
-----------------------------------------------------------------------------
(* The steps of the server and the window manager.                         *)

\* A message with a group of Expose events behind it.
LEMMA GroupBehind ==
    ASSUME NEW n \in 0 .. MaxSize, NEW A \in SUBSET Pixels(n), NEW g \in Exposed(A),
           NEW m \in Message
    PROVE  /\ <<m>> \o g \in Seq(Message) /\ Ordered(<<m>> \o g)
           /\ \A i \in 1 .. Len(<<m>> \o g) :
                 (<<m>> \o g)[i] = m \/ (<<m>> \o g)[i].type = "Expose"
<1> DEFINE w == <<m>> \o g
<1>1. g \in Seq(Message) /\ \A i \in 1 .. Len(g) : g[i].type = "Expose"
  BY GroupIsTyped
<1>2. /\ w \in Seq(Message) /\ Len(w) = 1 + Len(g) /\ Len(g) \in Nat
      /\ \A i \in 1 .. 1 + Len(g) : w[i] = IF i <= 1 THEN m ELSE g[i - 1]
  BY <1>1, ConcatProperties
<1> HIDE DEF w
<1>3. \A i \in 1 .. Len(w) : (i = 1 /\ w[i] = m) \/ w[i].type = "Expose"
  BY <1>1, <1>2
<1>4. Ordered(w)
  BY <1>2, <1>3 DEF Ordered, Follows
<1> QED BY <1>2, <1>3, <1>4 DEF w

LEMMA GroupIsOrdered ==
    ASSUME NEW n \in 0 .. MaxSize, NEW A \in SUBSET Pixels(n), NEW g \in Exposed(A)
    PROVE  Ordered(g)
BY GroupIsTyped DEF Ordered, Follows

LEMMA SyncRequestKeeps == ASSUME Inv, SyncRequest PROVE Inv'
<1> DEFINE m == Sync(wm.value + 1)
<1>1. /\ MaxChanges \in Nat /\ wm.value \in 0 .. MaxChanges /\ wm.changes \in 0 .. MaxChanges
      /\ wm.value <= wm.changes /\ wm.changes < MaxChanges
  BY FrameAssumption DEF Inv, TypeOK, Requests, SyncRequest, Counted
<1>2. m \in Message /\ m.type = "Sync" /\ m.value = wm.value + 1
  BY <1>1, MessageTypes
<1> HIDE DEF m
<1>3. wire' = wire \o <<m>> /\ UNCHANGED <<server, queue, window, wsi, app, configured>>
  BY DEF SyncRequest, Send, m
<1>4. /\ wm' \in [value : 0 .. MaxChanges, configuring : BOOLEAN, changes : 0 .. MaxChanges]
      /\ wm'.value = wm.value + 1 /\ wm'.value <= wm'.changes
  BY <1>1 DEF SyncRequest
<1>5. <<m>> \in Seq(Message) /\ Len(<<m>>) = 1 /\ <<m>>[1] = m /\ Ordered(<<m>>)
  BY <1>2 DEF Ordered
<1>6. \A i \in 1 .. Len(<<m>>) : <<m>>[i] = m
  BY <1>5
<1>7. /\ wm.value <= wm'.value /\ server'.counter = server.counter
      /\ \A i \in 1 .. Len(<<m>>) :
            /\ <<m>>[i].type = "Sync" => wm.value < <<m>>[i].value /\ <<m>>[i].value <= wm'.value
            /\ <<m>>[i].type = "Configure" => wm.value <= <<m>>[i].value /\ <<m>>[i].value <= wm'.value
  BY <1>1, <1>2, <1>3, <1>4, <1>6
<1>8. wire' \in Seq(Message) /\ Requests'
  BY <1>3, <1>4, <1>5, <1>7, SendKeeps
<1> QED BY <1>3, <1>4, <1>8 DEF Inv, TypeOK

LEMMA ConfigureWindowKeeps ==
    ASSUME Inv, NEW s \in 1 .. MaxSize, ConfigureWindow(s) PROVE Inv'
<1> DEFINE m == Configure(s, wm.value)
           new == IF server.mapped THEN Pixels(s) \ Pixels(server.size) ELSE {}
<1>1. /\ MaxChanges \in Nat /\ wm.value \in 0 .. MaxChanges /\ wm.changes \in 0 .. MaxChanges
      /\ wm.value <= wm.changes /\ MaxSize \in Nat
      /\ wm \in [value : 0 .. MaxChanges, configuring : BOOLEAN, changes : 0 .. MaxChanges]
  BY FrameAssumption DEF Inv, TypeOK, Requests
<1>2. m \in Message /\ m.type = "Configure" /\ m.value = wm.value
  BY <1>1, MessageTypes
<1>3. new \in SUBSET Pixels(s) /\ s \in 0 .. MaxSize
  OBVIOUS
<1>4. PICK g \in Exposed(new) : wire' = wire \o (<<m>> \o g)
  BY DEF ConfigureWindow, Send
<1>5. /\ UNCHANGED <<queue, window, wsi, app, configured>>
      /\ wm' = [wm EXCEPT !.configuring = FALSE,
                          !.changes = IF wm.configuring THEN @ ELSE @ + 1]
      /\ wm.configuring \/ wm.changes < MaxChanges
      /\ server' = [server EXCEPT !.size = s, !.damaged = (@ \cap Pixels(s)) \cup new]
  BY DEF ConfigureWindow, Counted
<1> HIDE DEF m
<1>6. /\ wm' \in [value : 0 .. MaxChanges, configuring : BOOLEAN, changes : 0 .. MaxChanges]
      /\ wm'.value = wm.value /\ wm'.value <= wm'.changes
  <2>1. CASE wm.configuring
    BY <1>1, <1>5, <2>1
  <2>2. CASE ~wm.configuring
    <3>1. wm.changes < MaxChanges /\ wm.changes + 1 \in 0 .. MaxChanges
      BY <1>1, <1>5, <2>2
    <3>2. wm' = [wm EXCEPT !.configuring = FALSE, !.changes = wm.changes + 1]
      BY <1>1, <1>5, <2>2
    <3>3. wm.value \in 0 .. MaxChanges /\ wm.value <= wm.changes + 1
      BY <1>1
    <3>4. /\ wm'.configuring = FALSE /\ wm'.changes = wm.changes + 1 /\ wm'.value = wm.value
          /\ wm' = [value |-> wm.value, configuring |-> FALSE, changes |-> wm.changes + 1]
      BY <1>1, <3>2
    <3> QED BY <3>1, <3>3, <3>4
  <2> QED BY <2>1, <2>2
<1>7. new \in SUBSET Pixels(MaxSize)
  BY <1>1 DEF Pixels
<1> HIDE DEF new
<1>8. /\ server' \in [size : 1 .. MaxSize, mapped : BOOLEAN, damaged : SUBSET Pixels(MaxSize),
                      counter : 0 .. MaxChanges, frame : 0 .. MaxSize]
      /\ server'.counter = server.counter
  BY <1>5, <1>7 DEF Inv, TypeOK
<1>9. /\ <<m>> \o g \in Seq(Message) /\ Ordered(<<m>> \o g)
      /\ \A i \in 1 .. Len(<<m>> \o g) : (<<m>> \o g)[i] = m \/ (<<m>> \o g)[i].type = "Expose"
  BY <1>2, <1>3, GroupBehind
<1> DEFINE es == <<m>> \o g
<1> HIDE DEF es
<1>10. /\ wm.value <= wm'.value
       /\ \A i \in 1 .. Len(es) :
             /\ es[i].type = "Sync" => wm.value < es[i].value /\ es[i].value <= wm'.value
             /\ es[i].type = "Configure" => wm.value <= es[i].value /\ es[i].value <= wm'.value
  BY <1>1, <1>2, <1>6, <1>9 DEF es
<1>11. es \in Seq(Message) /\ Ordered(es) /\ wire' = wire \o es
  BY <1>4, <1>9 DEF es
<1>12. wire' \in Seq(Message) /\ Requests'
  BY <1>5, <1>6, <1>8, <1>10, <1>11, SendKeeps
<1> QED BY <1>5, <1>6, <1>8, <1>12 DEF Inv, TypeOK

\* What the steps below have in common: a change, and messages of no request.
LEMMA ChangeKeeps ==
    ASSUME Inv, wm.changes < MaxChanges, wm' = [wm EXCEPT !.changes = @ + 1],
           server' \in [size : 1 .. MaxSize, mapped : BOOLEAN, damaged : SUBSET Pixels(MaxSize),
                        counter : 0 .. MaxChanges, frame : 0 .. MaxSize],
           server'.counter = server.counter,
           NEW es \in Seq(Message), wire' = wire \o es, Ordered(es),
           \A i \in 1 .. Len(es) : es[i].type \notin {"Sync", "Configure"},
           window' \in {window, [window EXCEPT !.m_mapped = FALSE]},
           UNCHANGED <<queue, wsi, app, configured>>
    PROVE  Inv'
<1>1. /\ MaxChanges \in Nat /\ wm.value \in 0 .. MaxChanges /\ wm.changes \in 0 .. MaxChanges
      /\ wm.value <= wm.changes
      /\ wm \in [value : 0 .. MaxChanges, configuring : BOOLEAN, changes : 0 .. MaxChanges]
  BY FrameAssumption DEF Inv, TypeOK, Requests
<1>2. /\ wm' \in [value : 0 .. MaxChanges, configuring : BOOLEAN, changes : 0 .. MaxChanges]
      /\ wm'.value = wm.value /\ wm'.value <= wm'.changes /\ wm.value <= wm'.value
  <2>1. wm' = [wm EXCEPT !.changes = wm.changes + 1] /\ wm.changes + 1 \in 0 .. MaxChanges
    BY <1>1
  <2>2. /\ wm'.value = wm.value /\ wm'.changes = wm.changes + 1
        /\ wm' \in [value : 0 .. MaxChanges, configuring : BOOLEAN, changes : 0 .. MaxChanges]
    BY <1>1, <2>1
  <2> QED BY <1>1, <2>2
<1>3. /\ window'.m_syncValue = window.m_syncValue /\ window'.m_syncState = window.m_syncState
      /\ window' \in [m_syncState : {"NoSyncNeeded", "SyncReceived", "SyncAndConfigureReceived"},
                      m_syncValue : 0 .. MaxChanges, m_mapped : BOOLEAN,
                      m_exposeRegion : SUBSET Pixels(MaxSize), m_oldWindowSize : 0 .. MaxSize,
                      geometry : 1 .. MaxSize]
  BY DEF Inv, TypeOK
<1>4. wire' \in Seq(Message) /\ Requests'
  BY <1>2, <1>3, SendKeeps
<1> QED BY <1>2, <1>3, <1>4 DEF Inv, TypeOK

LEMMA UncoverKeeps ==
    ASSUME Inv, NEW A \in SUBSET Pixels(server.size), Uncover(A) PROVE Inv'
<1>1. server.size \in 0 .. MaxSize /\ MaxSize \in Nat
  BY FrameAssumption DEF Inv, TypeOK
<1>2. PICK g \in Exposed(A) : wire' = wire \o g
  BY DEF Uncover, Send
<1>3. g \in Seq(Message) /\ Ordered(g) /\ \A i \in 1 .. Len(g) : g[i].type = "Expose"
  BY <1>1, GroupIsTyped, GroupIsOrdered
<1>4. A \in SUBSET Pixels(MaxSize)
  BY <1>1 DEF Pixels
<1>5. /\ server' \in [size : 1 .. MaxSize, mapped : BOOLEAN, damaged : SUBSET Pixels(MaxSize),
                      counter : 0 .. MaxChanges, frame : 0 .. MaxSize]
      /\ server'.counter = server.counter
  BY <1>4 DEF Uncover, Inv, TypeOK
<1>6. /\ wm.changes < MaxChanges /\ wm' = [wm EXCEPT !.changes = @ + 1]
      /\ UNCHANGED <<queue, window, wsi, app, configured>>
  BY DEF Uncover, Counted
<1> QED BY <1>2, <1>3, <1>5, <1>6, ChangeKeeps

LEMMA MapWindowKeeps ==
    ASSUME Inv, MapWindow, UNCHANGED <<queue, window, wsi, app, configured>> PROVE Inv'
<1> DEFINE m == Notify("Map")
<1>1. server.size \in 0 .. MaxSize /\ MaxSize \in Nat /\ Pixels(server.size) \in SUBSET Pixels(server.size)
  BY FrameAssumption DEF Inv, TypeOK
<1>2. m \in Message /\ m.type = "Map"
  BY MessageTypes
<1>3. PICK g \in Exposed(Pixels(server.size)) : wire' = wire \o (<<m>> \o g)
  BY DEF MapWindow, Send
<1> HIDE DEF m
<1>4. /\ <<m>> \o g \in Seq(Message) /\ Ordered(<<m>> \o g)
      /\ \A i \in 1 .. Len(<<m>> \o g) : (<<m>> \o g)[i] = m \/ (<<m>> \o g)[i].type = "Expose"
  BY <1>1, <1>2, GroupBehind
<1>5. Pixels(server.size) \in SUBSET Pixels(MaxSize)
  BY <1>1 DEF Pixels
<1>6. /\ server' \in [size : 1 .. MaxSize, mapped : BOOLEAN, damaged : SUBSET Pixels(MaxSize),
                      counter : 0 .. MaxChanges, frame : 0 .. MaxSize]
      /\ server'.counter = server.counter
  BY <1>5 DEF MapWindow, Inv, TypeOK
<1>7. wm.changes < MaxChanges /\ wm' = [wm EXCEPT !.changes = @ + 1]
  BY DEF MapWindow, Counted
<1> QED BY <1>2, <1>3, <1>4, <1>6, <1>7, ChangeKeeps

LEMMA UnmapWindowKeeps ==
    ASSUME Inv, UnmapWindow, UNCHANGED <<queue, wsi, app, configured>>,
           window' \in {window, [window EXCEPT !.m_mapped = FALSE]}
    PROVE  Inv'
<1> DEFINE es == IF server.mapped THEN <<Notify("Unmap")>> ELSE <<>>
<1>1. Notify("Unmap") \in Message /\ Notify("Unmap").type = "Unmap"
  BY MessageTypes
<1>2. /\ es \in Seq(Message) /\ Len(es) \in 0 .. 1
      /\ \A i \in 1 .. Len(es) : es[i].type = "Unmap"
  BY <1>1
<1>3. wire' = wire \o es
  BY DEF UnmapWindow, Send
<1> HIDE DEF es
<1>4. Ordered(es)
  BY <1>2 DEF Ordered
<1>5. /\ server' \in [size : 1 .. MaxSize, mapped : BOOLEAN, damaged : SUBSET Pixels(MaxSize),
                      counter : 0 .. MaxChanges, frame : 0 .. MaxSize]
      /\ server'.counter = server.counter
  BY DEF UnmapWindow, Inv, TypeOK
<1>6. wm.changes < MaxChanges /\ wm' = [wm EXCEPT !.changes = @ + 1]
  BY DEF UnmapWindow, Counted
<1> QED BY <1>2, <1>3, <1>4, <1>5, <1>6, ChangeKeeps
-----------------------------------------------------------------------------
(* The steps of the program.                                               *)

LEMMA PublishKeeps == ASSUME Inv, Publish PROVE Inv'
<1> DEFINE e == Head(wire)
<1>1. /\ queue \in Seq(Message) /\ wire \in Seq(Message) /\ wire # <<>>
      /\ queue' = Append(queue, e) /\ wire' = Tail(wire)
      /\ UNCHANGED <<server, wm, window, wsi, app, configured>>
  BY DEF Inv, TypeOK, Publish
<1>2. /\ Part(Tail(wire), wire) /\ e = wire[1] /\ e \in Message
      /\ Len(wire) \in Nat /\ Len(wire) > 0 /\ Len(Tail(wire)) = Len(wire) - 1
      /\ \A i \in 1 .. Len(Tail(wire)) : Tail(wire)[i] = wire[i + 1] /\ i + 1 \in 1 .. Len(wire)
  BY <1>1, TailIsPart
<1> HIDE DEF e
<1>3. /\ AllDue(queue) /\ AllDue(wire) /\ Ordered(queue) /\ Ordered(wire)
      /\ \A i \in 1 .. Len(queue), j \in 1 .. Len(wire) : Follows(queue[i], wire[j])
  BY DEF Inv, Requests
<1>4. wire' \in Seq(Message) /\ Ordered(wire')
  BY <1>1, <1>2, <1>3, PartKeeps
<1>5. /\ queue' \in Seq(Message) /\ Len(queue') = Len(queue) + 1 /\ Len(queue) \in Nat
      /\ \A i \in 1 .. Len(queue') :
            (i \in 1 .. Len(queue) /\ queue'[i] = queue[i]) \/ (i = Len(queue) + 1 /\ queue'[i] = e)
  BY <1>1, <1>2
<1>6. 1 \in 1 .. Len(wire)
  BY <1>2
<1>7. ASSUME NEW i \in 1 .. Len(queue'), NEW j \in 1 .. Len(queue'), i < j
      PROVE  Follows(queue'[i], queue'[j])
  <2>1. i \in 1 .. Len(queue) /\ queue'[i] = queue[i]
    BY <1>5, <1>7
  <2>2. CASE j \in 1 .. Len(queue) /\ queue'[j] = queue[j]
    BY <1>3, <1>7, <2>1, <2>2 DEF Ordered
  <2>3. CASE queue'[j] = e
    BY <1>2, <1>3, <1>6, <2>1, <2>3
  <2> QED BY <1>5, <2>2, <2>3
<1>8. ASSUME NEW i \in 1 .. Len(queue'), NEW j \in 1 .. Len(wire')
      PROVE  Follows(queue'[i], wire'[j])
  <2>1. wire'[j] = wire[j + 1] /\ j + 1 \in 1 .. Len(wire) /\ 1 < j + 1
    BY <1>1, <1>2
  <2>2. CASE i \in 1 .. Len(queue) /\ queue'[i] = queue[i]
    BY <1>3, <2>1, <2>2
  <2>3. CASE queue'[i] = e
    BY <1>2, <1>3, <1>6, <2>1, <2>3 DEF Ordered
  <2> QED BY <1>5, <2>2, <2>3
<1>9. \A d : Due(d) => Due(d)'
  BY <1>1 DEF Due
<1>10. AllDue(queue)'
  <2> SUFFICES ASSUME NEW i \in 1 .. Len(queue') PROVE Due(queue[i])'
    BY DEF AllDue
  <2>1. CASE i \in 1 .. Len(queue) /\ queue'[i] = queue[i]
    BY <1>3, <1>9, <2>1 DEF AllDue
  <2>2. CASE queue'[i] = e
    BY <1>2, <1>3, <1>6, <1>9, <2>2 DEF AllDue
  <2> QED BY <1>5, <2>1, <2>2
<1>11. AllDue(wire)'
  BY <1>1, <1>2, <1>3, <1>9 DEF AllDue
<1>12. Requests'
  <2>1. Ordered(queue)' /\ Ordered(wire)'
    BY <1>4, <1>7 DEF Ordered
  <2> QED BY <1>1, <1>8, <1>10, <1>11, <2>1 DEF Inv, Requests, needsSync
<1> QED BY <1>1, <1>4, <1>5, <1>12 DEF Inv, TypeOK

LEMMA WindowSystemEvents ==
    /\ \A s \in 1 .. MaxSize : Geometry(s) \in WindowSystemEvent
    /\ \A A \in SUBSET Pixels(MaxSize), on \in BOOLEAN : Exposure(A, on) \in WindowSystemEvent
BY DEF WindowSystemEvent, Geometry, Exposure

LEMMA DeliverKeeps == ASSUME Inv, Deliver PROVE Inv'
<1>1. wsi \in Seq(WindowSystemEvent) /\ wsi # <<>> /\ wsi' = Tail(wsi)
  BY DEF Inv, TypeOK, Deliver
<1>2. wsi' \in Seq(WindowSystemEvent) /\ Head(wsi) \in WindowSystemEvent
  BY <1>1
<1>3. UNCHANGED <<server, wm, wire, queue, window, configured>>
  BY DEF Deliver
<1>4. app' \in [size : 1 .. MaxSize, exposed : BOOLEAN, dirty : SUBSET Pixels(MaxSize)]
  <2>1. CASE /\ Head(wsi).type = "Geometry"
             /\ app' = [app EXCEPT !.size = Head(wsi).size,
                          !.dirty = IF Head(wsi).size = app.size THEN @ ELSE Pixels(Head(wsi).size)]
    <3>1. Head(wsi).size \in 1 .. MaxSize
      BY <1>2, <2>1 DEF WindowSystemEvent
    <3>2. Pixels(Head(wsi).size) \in SUBSET Pixels(MaxSize)
      BY <3>1, FrameAssumption DEF Pixels
    <3> QED BY <2>1, <3>1, <3>2 DEF Inv, TypeOK
  <2>2. CASE /\ Head(wsi).type = "Exposure"
             /\ app' = [app EXCEPT !.exposed = Head(wsi).exposed, !.dirty = @ \cup Head(wsi).region]
    BY <1>2, <2>2 DEF WindowSystemEvent, Inv, TypeOK
  <2> QED BY <2>1, <2>2 DEF Deliver
<1> QED BY <1>2, <1>3, <1>4 DEF Inv, TypeOK, Requests, AllDue, Due, Ordered, needsSync

\* Painting: a request that is answered becomes the counter, and is forgotten.
LEMMA PaintKeeps == ASSUME Inv, Paint PROVE Inv'
<1> DEFINE clipped == app.dirty \cap Pixels(app.size)
<1>1. /\ UNCHANGED <<wm, wire, queue, wsi, configured>>
      /\ app' = [app EXCEPT !.dirty = {}] /\ flush(app.dirty)
  BY DEF Paint
<1>2. app' \in [size : 1 .. MaxSize, exposed : BOOLEAN, dirty : SUBSET Pixels(MaxSize)]
  BY <1>1 DEF Inv, TypeOK
<1>6. /\ server \in [size : 1 .. MaxSize, mapped : BOOLEAN, damaged : SUBSET Pixels(MaxSize),
                     counter : 0 .. MaxChanges, frame : 0 .. MaxSize]
      /\ window \in [m_syncState : {"NoSyncNeeded", "SyncReceived", "SyncAndConfigureReceived"},
                      m_syncValue : 0 .. MaxChanges, m_mapped : BOOLEAN,
                      m_exposeRegion : SUBSET Pixels(MaxSize), m_oldWindowSize : 0 .. MaxSize,
                      geometry : 1 .. MaxSize]
      /\ app.size \in 0 .. MaxSize /\ 0 \in 0 .. MaxChanges
  BY FrameAssumption DEF Inv, TypeOK
<1> HIDE DEF clipped
<1>3. CASE UNCHANGED <<server, window>>
  BY <1>1, <1>2, <1>3 DEF Inv, TypeOK, Requests, AllDue, Due, Ordered, needsSync
<1>4. CASE /\ server' = [server EXCEPT !.damaged = @ \ clipped, !.frame = app.size,
                                     !.counter = IF Answers THEN window.m_syncValue ELSE @]
           /\ ~Answers /\ window' = window
  <2>1. /\ server' \in [size : 1 .. MaxSize, mapped : BOOLEAN, damaged : SUBSET Pixels(MaxSize),
                        counter : 0 .. MaxChanges, frame : 0 .. MaxSize]
        /\ server'.counter = server.counter
    BY <1>4, <1>6
  <2>2. \A d : Due(d) => Due(d)'
    BY <1>1, <1>4, <2>1 DEF Due
  <2>3. Requests'
    BY <1>1, <1>4, <2>1, <2>2 DEF Inv, Requests, AllDue, Ordered, needsSync
  <2> QED BY <1>1, <1>2, <1>4, <2>1, <2>3 DEF Inv, TypeOK
<1>5. CASE /\ server' = [server EXCEPT !.damaged = @ \ clipped, !.frame = app.size,
                                     !.counter = IF Answers THEN window.m_syncValue ELSE @]
           /\ Answers
           /\ window' = [window EXCEPT !.m_syncValue = 0, !.m_syncState = "NoSyncNeeded"]
  <2>1. /\ server' \in [size : 1 .. MaxSize, mapped : BOOLEAN, damaged : SUBSET Pixels(MaxSize),
                        counter : 0 .. MaxChanges, frame : 0 .. MaxSize]
        /\ server'.counter = window.m_syncValue
    BY <1>5, <1>6
  <2>2. /\ window' \in [m_syncState : {"NoSyncNeeded", "SyncReceived", "SyncAndConfigureReceived"},
                      m_syncValue : 0 .. MaxChanges, m_mapped : BOOLEAN,
                      m_exposeRegion : SUBSET Pixels(MaxSize), m_oldWindowSize : 0 .. MaxSize,
                      geometry : 1 .. MaxSize]
        /\ window'.m_syncValue = 0 /\ window'.m_syncState = "NoSyncNeeded"
    BY <1>5, <1>6
  <2>3. \A d \in Message : Due(d) => Due(d)'
    BY <1>1, <2>1, <2>2 DEF Due, Message
  <2>4. /\ \A i \in 1 .. Len(queue) : queue[i] \in Message
        /\ \A i \in 1 .. Len(wire) : wire[i] \in Message
    <3>1. queue \in Seq(Message) /\ wire \in Seq(Message)
      BY DEF Inv, TypeOK
    <3> QED BY <3>1
  <2>5. AllDue(queue)' /\ AllDue(wire)'
    BY <1>1, <2>3, <2>4 DEF Inv, Requests, AllDue
  <2>6. Requests'
    <3>1. /\ wm'.value <= wm'.changes /\ server'.counter <= wm'.value
          /\ window'.m_syncValue = 0 /\ window'.m_syncValue <= wm'.value /\ ~needsSync'
      BY <1>1, <2>1, <2>2 DEF Inv, TypeOK, Requests, needsSync
    <3>2. /\ Ordered(queue)' /\ Ordered(wire)'
          /\ (\A i \in 1 .. Len(queue), j \in 1 .. Len(wire) : Follows(queue[i], wire[j]))'
      BY <1>1 DEF Inv, Requests, Ordered
    <3> QED BY <2>5, <3>1, <3>2 DEF Requests
  <2> QED BY <1>1, <1>2, <2>1, <2>2, <2>6 DEF Inv, TypeOK
<1> QED BY <1>1, <1>3, <1>4, <1>5 DEF flush, clipped

\* The first event of the queue, and what is behind it.
LEMMA FirstEvent ==
    ASSUME Inv, queue # <<>>
    PROVE  /\ Head(queue) \in Message /\ Tail(queue) \in Seq(Message) /\ Part(Tail(queue), queue)
           /\ Due(Head(queue))
           /\ \A i \in 1 .. Len(Tail(queue)) : /\ Tail(queue)[i] \in Message /\ Due(Tail(queue)[i])
                                             /\ Follows(Head(queue), Tail(queue)[i])
           /\ \A j \in 1 .. Len(wire) : /\ wire[j] \in Message /\ Due(wire[j])
                                      /\ Follows(Head(queue), wire[j])
<1>1. /\ queue \in Seq(Message) /\ wire \in Seq(Message)
      /\ AllDue(queue) /\ AllDue(wire) /\ Ordered(queue)
      /\ \A i \in 1 .. Len(queue), j \in 1 .. Len(wire) : Follows(queue[i], wire[j])
  BY DEF Inv, TypeOK, Requests
<1>2. /\ Part(Tail(queue), queue) /\ Head(queue) = queue[1] /\ Head(queue) \in Message
      /\ Len(queue) \in Nat /\ Len(queue) > 0
      /\ \A i \in 1 .. Len(Tail(queue)) : Tail(queue)[i] = queue[i + 1] /\ i + 1 \in 1 .. Len(queue)
  BY <1>1, TailIsPart
<1>3. 1 \in 1 .. Len(queue) /\ Tail(queue) \in Seq(Message)
  BY <1>2 DEF Part
<1>4. ASSUME NEW i \in 1 .. Len(Tail(queue))
      PROVE  /\ Tail(queue)[i] \in Message /\ Due(Tail(queue)[i])
             /\ Follows(Head(queue), Tail(queue)[i])
  <2>1. i + 1 \in 1 .. Len(queue) /\ 1 < i + 1 /\ Tail(queue)[i] = queue[i + 1]
    BY <1>2
  <2>2. queue[i + 1] \in Message
    BY <1>1, <2>1
  <2> QED BY <1>1, <1>2, <1>3, <2>1, <2>2 DEF AllDue, Ordered
<1>5. ASSUME NEW j \in 1 .. Len(wire)
      PROVE  /\ wire[j] \in Message /\ Due(wire[j]) /\ Follows(Head(queue), wire[j])
  BY <1>1, <1>2, <1>3 DEF AllDue
<1> QED BY <1>1, <1>2, <1>3, <1>4, <1>5 DEF AllDue

Window == [m_syncState : {"NoSyncNeeded", "SyncReceived", "SyncAndConfigureReceived"},
           m_syncValue : 0 .. MaxChanges, m_mapped : BOOLEAN,
           m_exposeRegion : SUBSET Pixels(MaxSize), m_oldWindowSize : 0 .. MaxSize,
           geometry : 1 .. MaxSize]

\* An event that has nothing to do with the request the window has.
LEMMA OtherEventKeeps ==
    ASSUME Inv, Part(queue', queue), UNCHANGED <<server, wm, wire, app, configured>>,
           window' \in Window, wsi' \in Seq(WindowSystemEvent),
           window'.m_syncValue = window.m_syncValue, window'.m_syncState = window.m_syncState
    PROVE  Inv'
<1>1. Requests' /\ queue' \in Seq(Message)
  BY OtherEventsKeep DEF Part
<1> QED BY <1>1 DEF Inv, TypeOK, Window

LEMMA ExposeKeeps ==
    ASSUME Inv, queue # <<>>, NEW e, e = Head(queue), e.type = "Expose",
           handleExposeEvent(e, Tail(queue)), UNCHANGED <<server, wm, wire, app>>
    PROVE  Inv'
<1> DEFINE region == window.m_exposeRegion \cup e.region \cup Regions("Expose", Tail(queue))
<1>1. /\ e \in Message /\ Tail(queue) \in Seq(Message) /\ Part(Tail(queue), queue)
  BY FirstEvent
<1>2. Part(queue', queue)
  BY <1>1, OthersArePart, PartOfPart DEF handleExposeEvent
<1>3. e.region \in SUBSET Pixels(MaxSize)
  BY <1>1 DEF Message
<1>4. region \in SUBSET Pixels(MaxSize) /\ window \in Window /\ wsi \in Seq(WindowSystemEvent)
  BY <1>1, <1>3, RegionsAreTyped DEF Inv, TypeOK, Window
<1>5. \/ /\ wsi' = Append(wsi, Exposure(region, window.m_mapped))
         /\ window' = [window EXCEPT !.m_exposeRegion = {}]
      \/ /\ window' = [window EXCEPT !.m_exposeRegion = region]
         /\ UNCHANGED wsi
  BY DEF handleExposeEvent, SendExposure
<1> HIDE DEF region
<1>6. Exposure(region, window.m_mapped) \in WindowSystemEvent
  BY <1>4, WindowSystemEvents DEF Window
<1>7. /\ window' \in Window /\ wsi' \in Seq(WindowSystemEvent)
      /\ window'.m_syncValue = window.m_syncValue /\ window'.m_syncState = window.m_syncState
  <2>1. ASSUME NEW A \in SUBSET Pixels(MaxSize), window' = [window EXCEPT !.m_exposeRegion = A]
        PROVE  /\ window' \in Window
               /\ window'.m_syncValue = window.m_syncValue /\ window'.m_syncState = window.m_syncState
    BY <1>4, <2>1 DEF Window
  <2>2. wsi' \in Seq(WindowSystemEvent)
    BY <1>4, <1>5, <1>6
  <2> QED BY <1>4, <1>5, <2>1, <2>2
<1> QED BY <1>2, <1>7, OtherEventKeeps DEF handleExposeEvent

\* A new request takes the place of the one the window has: it is younger.
LEMMA SyncKeeps ==
    ASSUME Inv, queue # <<>>, NEW e, e = Head(queue), e.type = "Sync",
           handleClientMessageEvent(e, Tail(queue)), UNCHANGED <<server, wm, wire, app>>
    PROVE  Inv'
<1>1. /\ e \in Message /\ Tail(queue) \in Seq(Message) /\ Part(Tail(queue), queue) /\ Due(e)
      /\ \A i \in 1 .. Len(Tail(queue)) : /\ Tail(queue)[i] \in Message /\ Due(Tail(queue)[i])
                                        /\ Follows(e, Tail(queue)[i])
      /\ \A j \in 1 .. Len(wire) : wire[j] \in Message /\ Due(wire[j]) /\ Follows(e, wire[j])
  BY FirstEvent
<1>2. /\ queue' = Tail(queue) /\ UNCHANGED <<wsi, configured>>
      /\ window' = [window EXCEPT !.m_syncValue = e.value, !.m_syncState = "SyncReceived"]
  BY DEF handleClientMessageEvent
<1>3. /\ e.value \in 1 .. MaxChanges /\ e.value <= wm.value /\ server.counter < e.value
  BY <1>1 DEF Message, Due
<1>4. /\ window' \in Window /\ window'.m_syncValue = e.value
      /\ window'.m_syncState = "SyncReceived"
  <2>1. window \in Window
    BY DEF Inv, TypeOK, Window
  <2>2. e.value \in 0 .. MaxChanges
    BY <1>3, FrameAssumption
  <2> QED BY <1>2, <2>1, <2>2 DEF Window
<1>5. \A d \in Message : Due(d) /\ Follows(e, d) => Due(d)'
  BY <1>2, <1>4 DEF Due, Follows
<1>6. AllDue(queue)' /\ AllDue(wire)'
  BY <1>1, <1>2, <1>5 DEF AllDue
<1>7. Requests'
  <2>1. /\ wm'.value <= wm'.changes /\ server'.counter <= wm'.value
        /\ window'.m_syncValue <= wm'.value /\ server'.counter < window'.m_syncValue
        /\ ~needsSync'
    BY <1>2, <1>3, <1>4 DEF Inv, Requests, needsSync
  <2> QED BY <1>1, <1>2, <1>6, <2>1, TakeKeeps DEF Requests
<1> QED BY <1>1, <1>2, <1>4, <1>7 DEF Inv, TypeOK, Window

\* The ConfigureNotify of the request the window has, or of a younger one.
LEMMA ConfigureKeeps ==
    ASSUME Inv, queue # <<>>, NEW e, e = Head(queue), e.type = "Configure",
           handleConfigureNotifyEvent(e, Tail(queue)), UNCHANGED <<server, wm, wire, app>>
    PROVE  Inv'
<1> DEFINE shrunk == window.m_oldWindowSize # 0 /\ e.size < window.m_oldWindowSize
           extra == IF shrunk THEN <<Exposure(Pixels(e.size), window.m_mapped)>> ELSE <<>>
<1>1. /\ e \in Message /\ Tail(queue) \in Seq(Message) /\ Part(Tail(queue), queue) /\ Due(e)
  BY FirstEvent
<1>2. /\ queue' = Tail(queue) /\ configured' = e.value
      /\ wsi' = wsi \o <<Geometry(e.size)>> \o extra
      /\ window' = [window EXCEPT !.m_oldWindowSize = e.size, !.geometry = e.size,
                       !.m_syncState = IF @ = "SyncReceived" THEN "SyncAndConfigureReceived" ELSE @]
  BY DEF handleConfigureNotifyEvent
<1>3. /\ e.value \in 0 .. MaxChanges /\ e.size \in 1 .. MaxSize
      /\ window.m_syncValue <= e.value
  BY <1>1 DEF Message, Due
<1>4. window \in Window /\ wsi \in Seq(WindowSystemEvent) /\ e.size \in 0 .. MaxSize
  <2>1. window \in Window /\ wsi \in Seq(WindowSystemEvent)
    BY DEF Inv, TypeOK, Window
  <2>2. e.size \in 0 .. MaxSize
    BY <1>3, FrameAssumption
  <2> QED BY <2>1, <2>2
<1>5. window' \in Window /\ window'.m_syncValue = window.m_syncValue
  BY <1>2, <1>3, <1>4 DEF Window
<1>6. wsi' \in Seq(WindowSystemEvent)
  <2>1. Pixels(e.size) \in SUBSET Pixels(MaxSize)
    BY <1>3, FrameAssumption DEF Pixels
  <2>2. /\ Geometry(e.size) \in WindowSystemEvent
        /\ Exposure(Pixels(e.size), window.m_mapped) \in WindowSystemEvent
    BY <1>3, <1>4, <2>1, WindowSystemEvents DEF Window
  <2>3. extra \in Seq(WindowSystemEvent) /\ <<Geometry(e.size)>> \in Seq(WindowSystemEvent)
    BY <2>2
  <2> HIDE DEF extra
  <2> QED BY <1>2, <1>4, <2>3
<1>7. Requests'
  <2>1. \A d : Due(d) => Due(d)'
    BY <1>2, <1>5 DEF Due
  <2>2. AllDue(queue)' /\ AllDue(wire)'
    BY <1>1, <1>2, <2>1, TakeKeeps DEF Inv, Requests, AllDue
  <2>3. /\ wm'.value <= wm'.changes /\ server'.counter <= wm'.value
        /\ window'.m_syncValue <= wm'.value
        /\ window'.m_syncValue # 0 => server'.counter < window'.m_syncValue
        /\ needsSync' => window'.m_syncValue <= configured'
    BY <1>2, <1>3, <1>5 DEF Inv, Requests
  <2> QED BY <1>1, <1>2, <2>2, <2>3, TakeKeeps DEF Requests
<1> QED BY <1>1, <1>2, <1>3, <1>5, <1>6, <1>7 DEF Inv, TypeOK, Window

LEMMA EventKeeps == ASSUME Inv, processXcbEvents PROVE Inv'
<1> DEFINE e == Head(queue)
           rest == Tail(queue)
<1>1. queue # <<>> /\ UNCHANGED <<server, wm, wire, app>>
  BY DEF processXcbEvents
<1>2. e \in Message /\ Part(rest, queue) /\ window \in Window /\ wsi \in Seq(WindowSystemEvent)
  BY <1>1, FirstEvent DEF Inv, TypeOK, Window
<1>3. CASE queue' = rest /\ UNCHANGED <<window, wsi, configured>>
  BY <1>1, <1>2, <1>3, OtherEventKeeps
<1>4. CASE e.type = "Configure" /\ handleConfigureNotifyEvent(e, rest)
  BY <1>1, <1>4, ConfigureKeeps
<1>5. CASE e.type = "Expose" /\ handleExposeEvent(e, rest)
  BY <1>1, <1>5, ExposeKeeps
<1>6. CASE e.type = "Sync" /\ handleClientMessageEvent(e, rest)
  BY <1>1, <1>6, SyncKeeps
<1>7. CASE \/ handleMapNotifyEvent(rest)
           \/ handleUnmapNotifyEvent(rest)
  <2>1. PICK A \in {Pixels(window.geometry), {}}, on \in BOOLEAN :
          /\ wsi' = Append(wsi, Exposure(A, on)) /\ window' = [window EXCEPT !.m_mapped = on]
          /\ queue' = rest /\ UNCHANGED configured
    BY <1>7 DEF handleMapNotifyEvent, handleUnmapNotifyEvent, SendExposure
  <2>2. A \in SUBSET Pixels(MaxSize)
    <3>1. window.geometry \in 1 .. MaxSize
      BY <1>2 DEF Window
    <3> QED BY <3>1, FrameAssumption DEF Pixels
  <2>3. Exposure(A, on) \in WindowSystemEvent
    BY <2>2, WindowSystemEvents
  <2>4. wsi' \in Seq(WindowSystemEvent)
    BY <1>2, <2>1, <2>3
  <2>5. /\ window' \in Window
        /\ window'.m_syncValue = window.m_syncValue /\ window'.m_syncState = window.m_syncState
    BY <1>2, <2>1 DEF Window
  <2> QED BY <1>1, <1>2, <2>1, <2>4, <2>5, OtherEventKeeps
<1> QED BY <1>3, <1>4, <1>5, <1>6, <1>7 DEF processXcbEvents
-----------------------------------------------------------------------------
(* The theorems.                                                           *)

LEMMA InitHolds == Init => Inv
<1> SUFFICES ASSUME Init PROVE Inv
  OBVIOUS
<1>1. TypeOK
  BY FrameAssumption DEF Init, TypeOK
<1>2. Requests
  BY DEF Init, Requests, AllDue, Ordered, needsSync
<1> QED BY <1>1, <1>2 DEF Inv

LEMMA StepKeeps == Inv /\ [Next]_vars => Inv'
<1> SUFFICES ASSUME Inv, [Next]_vars PROVE Inv'
  OBVIOUS
<1>1. CASE SyncRequest
  BY <1>1, SyncRequestKeeps
<1>2. CASE \E s \in 1 .. MaxSize : ConfigureWindow(s)
  BY <1>2, ConfigureWindowKeeps
<1>3. CASE \E A \in SUBSET Pixels(server.size) : Uncover(A)
  BY <1>3, UncoverKeeps
<1>4. CASE Deiconify \/ show
  BY <1>4, MapWindowKeeps DEF Deiconify, show
<1>5. CASE Iconify
  BY <1>5, UnmapWindowKeeps DEF Iconify
<1>6. CASE hide
  BY <1>6, UnmapWindowKeeps DEF hide
<1>7. CASE Publish
  BY <1>7, PublishKeeps
<1>8. CASE processXcbEvents
  BY <1>8, EventKeeps
<1>9. CASE Deliver
  BY <1>9, DeliverKeeps
<1>10. CASE Paint
  BY <1>10, PaintKeeps
<1>11. CASE UNCHANGED vars
  BY <1>11 DEF vars, Inv, TypeOK, Requests, AllDue, Due, Ordered, needsSync
<1> QED
  BY <1>1, <1>2, <1>3, <1>4, <1>5, <1>6, <1>7, <1>8, <1>9, <1>10, <1>11 DEF Next

\* Every message, window system event and field keeps its type, however the
\* peek of handleExposeEvent() and the compression of ConfigureNotify reorder
\* the queues.
THEOREM TypeCorrect == Spec => []TypeOK
<1>1. Inv => TypeOK
  BY DEF Inv
<1> QED BY <1>1, InitHolds, StepKeeps, PTL DEF Spec

LEMMA StepIsHonest ==
    ASSUME Inv, [Next]_vars, server'.counter # server.counter
    PROVE  server'.counter > server.counter /\ server'.counter <= configured
<1>1. CASE Paint
  <2>1. flush(app.dirty)
    BY <1>1 DEF Paint
  <2>2. Answers /\ server'.counter = window.m_syncValue
    BY <2>1 DEF flush, Inv, TypeOK
  <2> QED BY <2>2 DEF Answers, Inv, Requests, TypeOK
<1>2. ~Paint => server'.counter = server.counter
  <2>1. server \in [size : 1 .. MaxSize, mapped : BOOLEAN, damaged : SUBSET Pixels(MaxSize),
                    counter : 0 .. MaxChanges, frame : 0 .. MaxSize]
    BY DEF Inv, TypeOK
  <2>2. CASE SyncRequest \/ Publish \/ processXcbEvents \/ Deliver \/ UNCHANGED vars
    <3>1. server' = server
      BY <2>2 DEF SyncRequest, Publish, processXcbEvents, Deliver, vars
    <3> QED BY <3>1
  <2>3. CASE Iconify \/ hide
    <3>1. UnmapWindow
      BY <2>3 DEF Iconify, hide
    <3> QED BY <2>1, <3>1 DEF UnmapWindow
  <2>4. CASE Deiconify \/ show
    <3>1. MapWindow
      BY <2>4 DEF Deiconify, show
    <3> QED BY <2>1, <3>1 DEF MapWindow
  <2>5. CASE \E s \in 1 .. MaxSize : ConfigureWindow(s)
    BY <2>1, <2>5 DEF ConfigureWindow
  <2>6. CASE \E A \in SUBSET Pixels(server.size) : Uncover(A)
    BY <2>1, <2>6 DEF Uncover
  <2>7. [Next]_vars
    OBVIOUS
  <2> QED BY <2>2, <2>3, <2>4, <2>5, <2>6, <2>7 DEF Next
<1> QED BY <1>1, <1>2

\* updateSyncRequestCounter() tells the window manager of a frame only after
\* the ConfigureNotify of its request was handled, of requests in their order,
\* and of none twice: whatever the queues hold, however many requests overtake
\* the painting, and whichever ConfigureNotify events are compressed.
THEOREM CounterNeverEarly == Spec => CounterIsHonest
<1>1. Inv /\ [Next]_vars
        => [server'.counter # server.counter =>
              server'.counter > server.counter /\ server'.counter <= configured]_vars
  BY StepIsHonest
<1> QED BY <1>1, InitHolds, StepKeeps, PTL DEF Spec, CounterIsHonest
-----------------------------------------------------------------------------
(* What the window and the QWindow know of the window at the server: each  *)
(* queue carries the latest news from one to the next, whatever overtakes  *)
(* it, and every lost pixel is in one of the places on the way.            *)

Sized   == {"Configure"}
Mapping == {"Map", "Unmap"}

\* The news an event brings.
Says(e) == CASE e.type \in {"Configure", "Geometry"} -> e.size
             [] e.type = "Exposure" -> e.exposed
             [] OTHER -> e.type = "Map"

\* Who knows v will know w when the events of q with a type in T were handled.
Latest(T, q, v, w) ==
    \E k \in 0 .. Len(q) :
        /\ \A j \in k + 1 .. Len(q) : q[j].type \notin T
        /\ IF k = 0 THEN w = v ELSE q[k].type \in T /\ Says(q[k]) = w

Has(T, q) == \E i \in 1 .. Len(q) : q[i].type \in T

\* The last event of a group of Expose events is in q, and behind its others.
Ends(q) == \E i \in 1 .. Len(q) : q[i].type = "Expose" /\ q[i].count = 0

CountsDown(q, later) ==
    \A i \in 1 .. Len(q) : q[i].type = "Expose" /\ q[i].count # 0
        => later \/ \E j \in i + 1 .. Len(q) : q[j].type = "Expose" /\ q[j].count = 0

Known == Regions("Expose", wire) \cup Regions("Expose", queue) \cup window.m_exposeRegion
             \cup Regions("Exposure", wsi) \cup app.dirty

Sizes == /\ \E u \in 1 .. MaxSize : /\ Latest(Sized, queue, window.geometry, u)
                                    /\ Latest(Sized, wire, u, server.size)
         /\ Latest({"Geometry"}, wsi, app.size, window.geometry)

Maps == /\ \E u \in BOOLEAN : /\ Latest(Mapping, queue, window.m_mapped, u)
                              /\ Latest(Mapping, wire, u, server.mapped)
        /\ \E u \in BOOLEAN : /\ Latest({"Exposure"}, wsi, app.exposed, u)
                              /\ u = window.m_mapped \/ Has(Mapping, queue) \/ Has(Mapping, wire)

Groups == /\ CountsDown(wire, FALSE)
          /\ CountsDown(queue, Ends(wire))
          /\ window.m_exposeRegion # {} => Ends(queue) \/ Ends(wire)

Damage == /\ server.damaged \subseteq Pixels(server.size)
          /\ server.mapped => \A p \in server.damaged : p \in Known \/ app.size < p

Frames == server.mapped => server.frame = app.size \/ 1 \in server.damaged \/ 1 \in app.dirty

Current == Sizes /\ Maps /\ Groups /\ Damage /\ Frames
-----------------------------------------------------------------------------
(* The latest news in a queue.                                             *)

LEMMA LatestOfNone ==
    \A T, v, w : Latest(T, <<>>, v, w) <=> w = v
BY DEF Latest

LEMMA LatestTail ==
    ASSUME NEW S, NEW q \in Seq(S), q # <<>>, NEW T, NEW v, NEW w, Latest(T, q, v, w)
    PROVE  Latest(T, Tail(q), IF Head(q).type \in T THEN Says(Head(q)) ELSE v, w)
<1>1. /\ Len(q) \in Nat /\ Len(q) > 0 /\ Head(q) = q[1] /\ Len(Tail(q)) = Len(q) - 1
      /\ \A i \in 1 .. Len(Tail(q)) : Tail(q)[i] = q[i + 1]
  OBVIOUS
<1> DEFINE t == Tail(q)
           u == IF Head(q).type \in T THEN Says(Head(q)) ELSE v
<1> HIDE DEF t
<1>2. PICK k \in 0 .. Len(q) :
        /\ \A j \in k + 1 .. Len(q) : q[j].type \notin T
        /\ IF k = 0 THEN w = v ELSE q[k].type \in T /\ Says(q[k]) = w
  BY DEF Latest
<1>3. CASE k = 0
  <2>1. w = u
    BY <1>1, <1>2, <1>3
  <2>2. \A j \in 0 + 1 .. Len(t) : t[j].type \notin T
    BY <1>1, <1>2, <1>3 DEF t
  <2>3. 0 \in 0 .. Len(t)
    BY <1>1 DEF t
  <2> QED BY <2>1, <2>2, <2>3 DEF Latest, t
<1>4. CASE k # 0
  <2> DEFINE h == k - 1
  <2>1. h \in 0 .. Len(t)
    BY <1>1, <1>4 DEF t
  <2>2. \A j \in h + 1 .. Len(t) : t[j].type \notin T
    BY <1>1, <1>2, <1>4 DEF t
  <2>3. IF h = 0 THEN w = u ELSE t[h].type \in T /\ Says(t[h]) = w
    BY <1>1, <1>2, <1>4 DEF t
  <2> QED BY <2>1, <2>2, <2>3 DEF Latest, t
<1> QED BY <1>3, <1>4

LEMMA LatestAppend ==
    ASSUME NEW S, NEW q \in Seq(S), NEW m \in S, NEW T, NEW v, NEW w, Latest(T, q, v, w)
    PROVE  Latest(T, Append(q, m), v, IF m.type \in T THEN Says(m) ELSE w)
<1> DEFINE a == Append(q, m)
<1>1. /\ Len(q) \in Nat /\ Len(a) = Len(q) + 1 /\ a[Len(a)] = m
      /\ \A i \in 1 .. Len(q) : a[i] = q[i]
  OBVIOUS
<1> HIDE DEF a
<1>2. CASE m.type \in T
  <2>1. Len(a) \in 0 .. Len(a) /\ Len(a) # 0 /\ a[Len(a)].type \in T /\ Says(a[Len(a)]) = Says(m)
    BY <1>1, <1>2
  <2>2. \A j \in Len(a) + 1 .. Len(a) : a[j].type \notin T
    BY <1>1
  <2> QED BY <1>2, <2>1, <2>2 DEF Latest, a
<1>3. CASE m.type \notin T
  <2>1. PICK k \in 0 .. Len(q) :
          /\ \A j \in k + 1 .. Len(q) : q[j].type \notin T
          /\ IF k = 0 THEN w = v ELSE q[k].type \in T /\ Says(q[k]) = w
    BY DEF Latest
  <2>2. k \in 0 .. Len(a)
    BY <1>1
  <2>3. \A j \in k + 1 .. Len(a) : a[j].type \notin T
    <3> SUFFICES ASSUME NEW j \in k + 1 .. Len(a) PROVE a[j].type \notin T
      OBVIOUS
    <3>1. CASE j = Len(a)
      BY <1>1, <1>3, <3>1
    <3>2. CASE j # Len(a)
      BY <1>1, <2>1, <3>2
    <3> QED BY <3>1, <3>2
  <2>4. IF k = 0 THEN w = v ELSE a[k].type \in T /\ Says(a[k]) = w
    BY <1>1, <2>1
  <2> QED BY <1>3, <2>2, <2>3, <2>4 DEF Latest, a
<1> QED BY <1>2, <1>3 DEF a

LEMMA LatestJoin ==
    ASSUME NEW S, NEW q \in Seq(S), NEW es \in Seq(S), NEW T, NEW v, NEW w, Latest(T, q, v, w),
           \A i \in 1 .. Len(es) : es[i].type \notin T
    PROVE  Latest(T, q \o es, v, w)
<1> DEFINE a == q \o es
<1>1. /\ Len(a) = Len(q) + Len(es) /\ Len(q) \in Nat /\ Len(es) \in Nat
      /\ \A i \in 1 .. Len(q) + Len(es) : a[i] = IF i <= Len(q) THEN q[i] ELSE es[i - Len(q)]
  BY ConcatProperties
<1> HIDE DEF a
<1>2. PICK k \in 0 .. Len(q) :
        /\ \A j \in k + 1 .. Len(q) : q[j].type \notin T
        /\ IF k = 0 THEN w = v ELSE q[k].type \in T /\ Says(q[k]) = w
  BY DEF Latest
<1>3. k \in 0 .. Len(a)
  BY <1>1
<1>4. \A j \in k + 1 .. Len(a) : a[j].type \notin T
  <2> SUFFICES ASSUME NEW j \in k + 1 .. Len(a) PROVE a[j].type \notin T
    OBVIOUS
  <2>1. CASE j <= Len(q)
    BY <1>1, <1>2, <2>1
  <2>2. CASE j > Len(q)
    <3>1. j - Len(q) \in 1 .. Len(es) /\ a[j] = es[j - Len(q)]
      BY <1>1, <2>2
    <3> QED BY <3>1
  <2> QED BY <1>1, <2>1, <2>2
<1>5. IF k = 0 THEN w = v ELSE a[k].type \in T /\ Says(a[k]) = w
  BY <1>1, <1>2
<1> QED BY <1>3, <1>4, <1>5 DEF Latest, a

\* What was known before does not matter when news are on their way, and is
\* what will be known when there are none.
LEMMA LatestFrom ==
    ASSUME NEW S, NEW q \in Seq(S), NEW T, NEW v, NEW w, Latest(T, q, v, w)
    PROVE  /\ Has(T, q) => \A u : Latest(T, q, u, w)
           /\ ~Has(T, q) => w = v /\ \A u : Latest(T, q, u, u)
<1>1. Len(q) \in Nat
  OBVIOUS
<1>2. PICK k \in 0 .. Len(q) :
        /\ \A j \in k + 1 .. Len(q) : q[j].type \notin T
        /\ IF k = 0 THEN w = v ELSE q[k].type \in T /\ Says(q[k]) = w
  BY DEF Latest
<1>3. CASE Has(T, q)
  <2>1. k # 0
    BY <1>2, <1>3 DEF Has
  <2> QED BY <1>2, <1>3, <2>1 DEF Latest
<1>4. CASE ~Has(T, q)
  <2>1. k = 0
    BY <1>1, <1>2, <1>4 DEF Has
  <2>2. 0 \in 0 .. Len(q) /\ \A j \in 0 + 1 .. Len(q) : q[j].type \notin T
    BY <1>1, <1>2, <2>1
  <2> QED BY <1>2, <1>4, <2>1, <2>2 DEF Latest
<1> QED BY <1>3, <1>4

\* News that all say what is known change nothing.
LEMMA LatestOfSame ==
    ASSUME NEW S, NEW q \in Seq(S), NEW T, NEW v, NEW w, Latest(T, q, v, w),
           \A i \in 1 .. Len(q) : q[i].type \in T => Says(q[i]) = v
    PROVE  w = v
BY DEF Latest

LEMMA HasTail ==
    ASSUME NEW S, NEW q \in Seq(S), q # <<>>, NEW T
    PROVE  Has(T, Tail(q)) \/ Head(q).type \in T <=> Has(T, q)
<1>1. /\ Len(q) \in Nat /\ Len(q) > 0 /\ Head(q) = q[1] /\ Len(Tail(q)) = Len(q) - 1
      /\ \A i \in 1 .. Len(Tail(q)) : Tail(q)[i] = q[i + 1]
  OBVIOUS
<1>2. ASSUME NEW i \in 1 .. Len(q), q[i].type \in T PROVE Has(T, Tail(q)) \/ Head(q).type \in T
  <2>1. CASE i = 1
    BY <1>1, <1>2, <2>1
  <2>2. CASE i # 1
    <3>1. i - 1 \in 1 .. Len(Tail(q)) /\ Tail(q)[i - 1] = q[i]
      BY <1>1, <2>2
    <3> QED BY <1>2, <3>1 DEF Has
  <2> QED BY <2>1, <2>2
<1>3. ASSUME NEW i \in 1 .. Len(Tail(q)), Tail(q)[i].type \in T PROVE Has(T, q)
  <2>1. i + 1 \in 1 .. Len(q) /\ Tail(q)[i] = q[i + 1]
    BY <1>1
  <2> QED BY <1>3, <2>1 DEF Has
<1>4. Head(q).type \in T => Has(T, q)
  BY <1>1 DEF Has
<1> QED BY <1>2, <1>3, <1>4 DEF Has

LEMMA HasJoin ==
    ASSUME NEW S, NEW q \in Seq(S), NEW es \in Seq(S), NEW T
    PROVE  /\ Has(T, q) => Has(T, q \o es)
           /\ Has(T, es) => Has(T, q \o es)
<1> DEFINE a == q \o es
<1>1. /\ Len(a) = Len(q) + Len(es) /\ Len(q) \in Nat /\ Len(es) \in Nat
      /\ \A i \in 1 .. Len(q) + Len(es) : a[i] = IF i <= Len(q) THEN q[i] ELSE es[i - Len(q)]
  BY ConcatProperties
<1> HIDE DEF a
<1>2. \A i \in 1 .. Len(q) : i \in 1 .. Len(a) /\ a[i] = q[i]
  BY <1>1
<1>3. \A i \in 1 .. Len(es) : i + Len(q) \in 1 .. Len(a) /\ a[i + Len(q)] = es[i]
  BY <1>1
<1> QED BY <1>2, <1>3 DEF Has, a

\* An ascending enumeration misses no element.
LEMMA EnumerationIsOnto ==
    ASSUME NEW S \in SUBSET Int, IsFiniteSet(S), NEW f \in Ascending(S)
    PROVE  \A x \in S : \E i \in 1 .. Cardinality(S) : f[i] = x
<1> DEFINE k == Cardinality(S)
<1>1. /\ k \in Nat /\ f \in [1 .. k -> S]
      /\ \A i, j \in 1 .. k : i < j => f[i] < f[j]
  BY EnumerationIsAscending
<1> HIDE DEF k
<1>2. f \in Injection(1 .. k, S)
  <2>1. ASSUME NEW i \in 1 .. k, NEW j \in 1 .. k, i # j PROVE f[i] # f[j]
    <3>1. f[i] \in S /\ f[j] \in S
      BY <1>1
    <3>2. f[i] \in Int /\ f[j] \in Int
      BY <3>1
    <3>3. i < j \/ j < i
      BY <1>1, <2>1
    <3> QED BY <1>1, <3>2, <3>3
  <2> QED BY <1>1, <2>1 DEF Injection, IsInjective
<1>3. Cardinality(1 .. k) = k
  BY <1>1, FS_Interval
<1>4. f \in Surjection(1 .. k, S)
  BY <1>2, <1>3, FS_Injection DEF k
<1> QED BY <1>4 DEF Surjection, k

\* What the peek of handleExposeEvent() leaves: all but the Expose events, in order.
LEMMA OthersAreInOrder ==
    ASSUME NEW q \in Seq(Message), NEW p \in Others(q)
    PROVE  /\ p \in Seq(Message)
           /\ \E f \in [1 .. Len(p) -> 1 .. Len(q)] :
                 /\ \A i \in 1 .. Len(p) : p[i] = q[f[i]] /\ p[i].type # "Expose"
                 /\ \A i, j \in 1 .. Len(p) : i < j => f[i] < f[j]
                 /\ \A x \in 1 .. Len(q) : q[x].type # "Expose" => \E i \in 1 .. Len(p) : f[i] = x
<1> DEFINE K == {i \in 1 .. Len(q) : q[i].type # "Expose"}
           k == Cardinality(K)
<1>1. IsFiniteSet(K) /\ K \in SUBSET Int
  <2>1. Len(q) \in Nat
    OBVIOUS
  <2>2. IsFiniteSet(1 .. Len(q))
    BY <2>1, FS_Interval
  <2> QED BY <2>2, FS_Subset
<1>2. PICK f \in Ascending(K) : p = [i \in DOMAIN f |-> q[f[i]]]
  BY DEF Others
<1>3. /\ k \in Nat /\ f \in [1 .. k -> K] /\ \A i, j \in 1 .. k : i < j => f[i] < f[j]
      /\ \A x \in K : \E i \in 1 .. k : f[i] = x
  BY <1>1, EnumerationIsAscending, EnumerationIsOnto
<1>4. p \in Seq(Message)
  BY OthersArePart DEF Part
<1> HIDE DEF k
<1>5. \A i \in 1 .. k : f[i] \in 1 .. Len(q) /\ q[f[i]].type # "Expose"
  BY <1>3
<1>6. p = [i \in 1 .. k |-> q[f[i]]]
  BY <1>2, <1>3
<1>7. Len(p) = k
  BY <1>3, <1>4, <1>6
<1>8. /\ f \in [1 .. Len(p) -> 1 .. Len(q)]
      /\ \A i \in 1 .. Len(p) : p[i] = q[f[i]] /\ p[i].type # "Expose"
      /\ \A i, j \in 1 .. Len(p) : i < j => f[i] < f[j]
  BY <1>3, <1>5, <1>6, <1>7
<1>9. \A x \in 1 .. Len(q) : q[x].type # "Expose" => \E i \in 1 .. Len(p) : f[i] = x
  BY <1>3, <1>7
<1> QED BY <1>4, <1>8, <1>9

LEMMA LatestOfOthers ==
    ASSUME NEW q \in Seq(Message), NEW p \in Others(q), NEW T, "Expose" \notin T
    PROVE  /\ \A v, w : Latest(T, q, v, w) => Latest(T, p, v, w)
           /\ Has(T, q) <=> Has(T, p)
<1>1. PICK f \in [1 .. Len(p) -> 1 .. Len(q)] :
        /\ \A i \in 1 .. Len(p) : p[i] = q[f[i]] /\ p[i].type # "Expose"
        /\ \A i, j \in 1 .. Len(p) : i < j => f[i] < f[j]
        /\ \A x \in 1 .. Len(q) : q[x].type # "Expose" => \E i \in 1 .. Len(p) : f[i] = x
  BY OthersAreInOrder
<1>2. p \in Seq(Message) /\ Len(p) \in Nat /\ Len(q) \in Nat
  <2>1. p \in Seq(Message)
    BY OthersAreInOrder
  <2> QED BY <2>1
<1>3. ASSUME NEW v, NEW w, Latest(T, q, v, w) PROVE Latest(T, p, v, w)
  <2>1. PICK k \in 0 .. Len(q) :
          /\ \A j \in k + 1 .. Len(q) : q[j].type \notin T
          /\ IF k = 0 THEN w = v ELSE q[k].type \in T /\ Says(q[k]) = w
    BY <1>3 DEF Latest
  <2>2. CASE k = 0
    <3>1. \A j \in 0 + 1 .. Len(p) : p[j].type \notin T
      BY <1>1, <2>1, <2>2
    <3> QED BY <1>2, <2>1, <2>2, <3>1 DEF Latest
  <2>3. CASE k # 0
    <3>1. k \in 1 .. Len(q) /\ q[k].type # "Expose" /\ q[k].type \in T /\ Says(q[k]) = w
      BY <1>2, <2>1, <2>3
    <3>2. PICK h \in 1 .. Len(p) : f[h] = k
      BY <1>1, <3>1
    <3>3. ASSUME NEW j \in h + 1 .. Len(p) PROVE p[j].type \notin T
      <4>1. j \in 1 .. Len(p) /\ h < j
        BY <1>2
      <4>2. f[h] < f[j] /\ f[j] \in 1 .. Len(q) /\ p[j] = q[f[j]]
        BY <1>1, <4>1
      <4>3. f[j] \in k + 1 .. Len(q)
        BY <1>2, <3>1, <3>2, <4>2
      <4> QED BY <2>1, <4>2, <4>3
    <3>4. h \in 0 .. Len(p) /\ h # 0 /\ p[h] = q[k]
      BY <1>1, <1>2, <3>2
    <3> QED BY <3>1, <3>3, <3>4 DEF Latest
  <2> QED BY <2>2, <2>3
<1>4. Has(T, p) => Has(T, q)
  BY <1>1 DEF Has
<1>5. ASSUME Has(T, q) PROVE Has(T, p)
  <2>1. PICK x \in 1 .. Len(q) : q[x].type \in T
    BY <1>5 DEF Has
  <2>2. q[x].type # "Expose"
    BY <2>1
  <2>3. PICK i \in 1 .. Len(p) : f[i] = x
    BY <1>1, <2>2
  <2> QED BY <1>1, <2>1, <2>3 DEF Has
<1> QED BY <1>3, <1>4, <1>5
-----------------------------------------------------------------------------
(* Groups of Expose events, and the regions in the queues.                 *)

LEMMA GroupCountsDown ==
    ASSUME NEW n \in 0 .. MaxSize, NEW A \in SUBSET Pixels(n), NEW g \in Exposed(A)
    PROVE  /\ g \in Seq(Message) /\ \A i \in 1 .. Len(g) : g[i].type = "Expose"
           /\ CountsDown(g, FALSE)
           /\ A \subseteq Regions("Expose", g)
<1> DEFINE k == Cardinality(A)
<1>1. IsFiniteSet(A) /\ k \in 0 .. MaxSize /\ A \in SUBSET Int
  BY PixelsAreFinite DEF Pixels
<1>2. PICK f \in Ascending(A) : g = [i \in 1 .. k |-> Expose({f[i]}, k - i)]
  BY DEF Exposed
<1>3. f \in [1 .. k -> A] /\ \A x \in A : \E i \in 1 .. k : f[i] = x
  BY <1>1, EnumerationIsAscending, EnumerationIsOnto
<1>4. g \in Seq(Message) /\ \A i \in 1 .. Len(g) : g[i].type = "Expose"
  BY GroupIsTyped
<1> HIDE DEF k
<1>5. k \in Nat /\ Len(g) = k
  BY <1>1, <1>2, <1>4, FrameAssumption
<1>6. \A i \in 1 .. k : g[i].region = {f[i]} /\ g[i].count = k - i
  BY <1>2 DEF Expose
<1>7. CountsDown(g, FALSE)
  <2> SUFFICES ASSUME NEW i \in 1 .. Len(g), g[i].count # 0
               PROVE  \E j \in i + 1 .. Len(g) : g[j].type = "Expose" /\ g[j].count = 0
    BY DEF CountsDown
  <2>1. i # k /\ k \in i + 1 .. Len(g) /\ g[k].count = 0 /\ g[k].type = "Expose"
    BY <1>4, <1>5, <1>6
  <2> QED BY <2>1
<1>8. A \subseteq Regions("Expose", g)
  <2> SUFFICES ASSUME NEW x \in A PROVE x \in Regions("Expose", g)
    OBVIOUS
  <2>1. PICK i \in 1 .. k : f[i] = x
    BY <1>3
  <2>2. i \in 1 .. Len(g) /\ g[i].type = "Expose" /\ x \in g[i].region
    BY <1>4, <1>5, <1>6, <2>1
  <2> QED BY <2>2 DEF Regions, Events
<1> QED BY <1>4, <1>7, <1>8

LEMMA RegionsOfTail ==
    ASSUME NEW S, NEW q \in Seq(S), q # <<>>, NEW t
    PROVE  /\ Head(q).type = t => Regions(t, q) = Head(q).region \cup Regions(t, Tail(q))
           /\ Head(q).type # t => Regions(t, q) = Regions(t, Tail(q))
<1>1. /\ Len(q) \in Nat /\ Len(q) > 0 /\ Head(q) = q[1] /\ Len(Tail(q)) = Len(q) - 1
      /\ \A i \in 1 .. Len(Tail(q)) : Tail(q)[i] = q[i + 1]
  OBVIOUS
<1>2. ASSUME NEW i \in 1 .. Len(Tail(q)), Tail(q)[i].type = t
      PROVE  Tail(q)[i].region \subseteq Regions(t, q)
  <2>1. i + 1 \in 1 .. Len(q) /\ Tail(q)[i] = q[i + 1]
    BY <1>1
  <2> QED BY <1>2, <2>1 DEF Regions, Events
<1>3. Regions(t, Tail(q)) \subseteq Regions(t, q)
  BY <1>2 DEF Regions, Events
<1>4. Head(q).type = t => Head(q).region \subseteq Regions(t, q)
  BY <1>1 DEF Regions, Events
<1>5. ASSUME NEW i \in 1 .. Len(q), q[i].type = t
      PROVE  \/ i = 1 /\ q[i] = Head(q)
             \/ q[i].region \subseteq Regions(t, Tail(q))
  <2>1. CASE i = 1
    BY <1>1, <2>1
  <2>2. CASE i # 1
    <3>1. i - 1 \in 1 .. Len(Tail(q)) /\ Tail(q)[i - 1] = q[i]
      BY <1>1, <2>2
    <3> QED BY <1>5, <3>1 DEF Regions, Events
  <2> QED BY <2>1, <2>2
<1>6. Regions(t, q) \subseteq (IF Head(q).type = t THEN Head(q).region ELSE {}) \cup Regions(t, Tail(q))
  <2> SUFFICES ASSUME NEW i \in 1 .. Len(q), q[i].type = t, NEW x \in q[i].region
               PROVE  x \in (IF Head(q).type = t THEN Head(q).region ELSE {}) \cup Regions(t, Tail(q))
    BY DEF Regions, Events
  <2> QED BY <1>5
<1> QED BY <1>3, <1>4, <1>6

LEMMA RegionsOfJoin ==
    ASSUME NEW S, NEW q \in Seq(S), NEW es \in Seq(S), NEW t
    PROVE  Regions(t, q) \cup Regions(t, es) \subseteq Regions(t, q \o es)
<1> DEFINE a == q \o es
<1>1. /\ Len(a) = Len(q) + Len(es) /\ Len(q) \in Nat /\ Len(es) \in Nat
      /\ \A i \in 1 .. Len(q) + Len(es) : a[i] = IF i <= Len(q) THEN q[i] ELSE es[i - Len(q)]
  BY ConcatProperties
<1> HIDE DEF a
<1>2. \A i \in 1 .. Len(q) : i \in 1 .. Len(a) /\ a[i] = q[i]
  BY <1>1
<1>3. \A i \in 1 .. Len(es) : i + Len(q) \in 1 .. Len(a) /\ a[i + Len(q)] = es[i]
  BY <1>1
<1>4. Regions(t, q) \subseteq Regions(t, a)
  BY <1>2 DEF Regions, Events
<1>5. Regions(t, es) \subseteq Regions(t, a)
  BY <1>3 DEF Regions, Events
<1> QED BY <1>4, <1>5 DEF a

LEMMA RegionsOfAppend ==
    ASSUME NEW S, NEW q \in Seq(S), NEW m \in S, NEW t
    PROVE  /\ Regions(t, q) \subseteq Regions(t, Append(q, m))
           /\ m.type = t => m.region \subseteq Regions(t, Append(q, m))
<1> DEFINE a == Append(q, m)
<1>1. /\ Len(q) \in Nat /\ Len(a) = Len(q) + 1 /\ a[Len(a)] = m
      /\ \A i \in 1 .. Len(q) : a[i] = q[i]
  OBVIOUS
<1> HIDE DEF a
<1>2. \A i \in 1 .. Len(q) : i \in 1 .. Len(a) /\ a[i] = q[i]
  BY <1>1
<1>3. Len(a) \in 1 .. Len(a)
  BY <1>1
<1>4. Regions(t, q) \subseteq Regions(t, a)
  BY <1>2 DEF Regions, Events
<1>5. m.type = t => m.region \subseteq Regions(t, a)
  BY <1>1, <1>3 DEF Regions, Events
<1> QED BY <1>4, <1>5 DEF a

LEMMA EndsOfTail ==
    ASSUME NEW S, NEW q \in Seq(S), q # <<>>
    PROVE  /\ Ends(q) => Ends(Tail(q)) \/ (Head(q).type = "Expose" /\ Head(q).count = 0)
           /\ \A l \in BOOLEAN : CountsDown(q, l) =>
                 /\ CountsDown(Tail(q), l)
                 /\ Head(q).type = "Expose" /\ Head(q).count # 0 => l \/ Ends(Tail(q))
<1>1. /\ Len(q) \in Nat /\ Len(q) > 0 /\ Head(q) = q[1] /\ Len(Tail(q)) = Len(q) - 1
      /\ \A i \in 1 .. Len(Tail(q)) : Tail(q)[i] = q[i + 1]
  OBVIOUS
<1> DEFINE Last(e) == e.type = "Expose" /\ e.count = 0
<1>2. \A j \in 2 .. Len(q) : j - 1 \in 1 .. Len(Tail(q)) /\ Tail(q)[j - 1] = q[j]
  BY <1>1
<1>3. Ends(q) => Ends(Tail(q)) \/ Last(Head(q))
  <2>1. ASSUME NEW j \in 1 .. Len(q), Last(q[j]) PROVE Ends(Tail(q)) \/ Last(Head(q))
    <3>1. CASE j = 1
      BY <1>1, <2>1, <3>1
    <3>2. CASE j # 1
      <4>1. j \in 2 .. Len(q)
        BY <3>2
      <4> QED BY <1>2, <2>1, <4>1 DEF Ends
    <3> QED BY <3>1, <3>2
  <2> QED BY <2>1 DEF Ends
<1>4. ASSUME NEW l \in BOOLEAN, CountsDown(q, l) PROVE CountsDown(Tail(q), l)
  <2> SUFFICES ASSUME NEW i \in 1 .. Len(Tail(q)), Tail(q)[i].type = "Expose", Tail(q)[i].count # 0
               PROVE  l \/ \E j \in i + 1 .. Len(Tail(q)) : Last(Tail(q)[j])
    BY DEF CountsDown
  <2>1. i + 1 \in 1 .. Len(q) /\ Tail(q)[i] = q[i + 1]
    BY <1>1
  <2>2. l \/ \E j \in i + 1 + 1 .. Len(q) : Last(q[j])
    BY <1>4, <2>1 DEF CountsDown
  <2>3. ASSUME NEW j \in i + 1 + 1 .. Len(q), Last(q[j])
        PROVE  \E h \in i + 1 .. Len(Tail(q)) : Last(Tail(q)[h])
    <3>1. j - 1 \in i + 1 .. Len(Tail(q)) /\ Tail(q)[j - 1] = q[j]
      BY <1>1
    <3> QED BY <2>3, <3>1
  <2> QED BY <2>2, <2>3
<1>5. ASSUME NEW l \in BOOLEAN, CountsDown(q, l), Head(q).type = "Expose", Head(q).count # 0
      PROVE  l \/ Ends(Tail(q))
  <2>1. 1 \in 1 .. Len(q) /\ 1 + 1 = 2
    BY <1>1
  <2>2. l \/ \E j \in 2 .. Len(q) : Last(q[j])
    BY <1>1, <1>5, <2>1 DEF CountsDown
  <2> QED BY <1>2, <2>2 DEF Ends
<1> QED BY <1>3, <1>4, <1>5

LEMMA EndsOfJoin ==
    ASSUME NEW S, NEW q \in Seq(S), NEW es \in Seq(S)
    PROVE  /\ Ends(q) => Ends(q \o es)
           /\ CountsDown(q, FALSE) /\ CountsDown(es, FALSE) => CountsDown(q \o es, FALSE)
<1> DEFINE a == q \o es
           Last(e) == e.type = "Expose" /\ e.count = 0
<1>1. /\ Len(a) = Len(q) + Len(es) /\ Len(q) \in Nat /\ Len(es) \in Nat
      /\ \A i \in 1 .. Len(q) + Len(es) : a[i] = IF i <= Len(q) THEN q[i] ELSE es[i - Len(q)]
  BY ConcatProperties
<1> HIDE DEF a
<1>2. \A i \in 1 .. Len(q) : i \in 1 .. Len(a) /\ a[i] = q[i]
  BY <1>1
<1>3. \A i \in 1 .. Len(es) : i + Len(q) \in 1 .. Len(a) /\ a[i + Len(q)] = es[i]
  BY <1>1
<1>4. Ends(q) => Ends(a)
  BY <1>2 DEF Ends
<1>5. ASSUME CountsDown(q, FALSE), CountsDown(es, FALSE),
             NEW i \in 1 .. Len(a), a[i].type = "Expose", a[i].count # 0
      PROVE  \E j \in i + 1 .. Len(a) : Last(a[j])
  <2>1. CASE i <= Len(q)
    <3>1. i \in 1 .. Len(q) /\ a[i] = q[i]
      BY <1>1, <2>1
    <3>2. PICK j \in i + 1 .. Len(q) : Last(q[j])
      BY <1>5, <3>1 DEF CountsDown
    <3>3. j \in i + 1 .. Len(a) /\ a[j] = q[j]
      BY <1>1, <3>1
    <3> QED BY <3>2, <3>3
  <2>2. CASE i > Len(q)
    <3>1. i - Len(q) \in 1 .. Len(es) /\ a[i] = es[i - Len(q)]
      BY <1>1, <2>2
    <3>2. PICK j \in i - Len(q) + 1 .. Len(es) : Last(es[j])
      BY <1>5, <3>1 DEF CountsDown
    <3>3. j \in 1 .. Len(es) /\ j + Len(q) \in i + 1 .. Len(a)
      BY <1>1, <3>1
    <3> QED BY <1>3, <3>2, <3>3
  <2> QED BY <1>1, <2>1, <2>2
<1> QED BY <1>4, <1>5 DEF a, CountsDown

\* An event moves from the wire to the queue.
LEMMA EndsOfMove ==
    ASSUME NEW S, NEW q \in Seq(S), NEW r \in Seq(S), r # <<>>,
           CountsDown(r, FALSE), CountsDown(q, Ends(r))
    PROVE  /\ CountsDown(Append(q, Head(r)), Ends(Tail(r)))
           /\ Ends(q) \/ Ends(r) => Ends(Append(q, Head(r))) \/ Ends(Tail(r))
<1> DEFINE m == Head(r)
           a == Append(q, m)
           Last(e) == e.type = "Expose" /\ e.count = 0
<1>1. m \in S
  OBVIOUS
<1> HIDE DEF m
<1>2. /\ Len(q) \in Nat /\ Len(a) = Len(q) + 1 /\ a[Len(a)] = m
      /\ \A i \in 1 .. Len(q) : a[i] = q[i]
  BY <1>1
<1> HIDE DEF a
<1>3. /\ Ends(r) => Ends(Tail(r)) \/ Last(m)
      /\ m.type = "Expose" /\ m.count # 0 => Ends(Tail(r))
  BY EndsOfTail DEF m
<1>4. Len(a) \in 1 .. Len(a) /\ \A i \in 1 .. Len(q) : i \in 1 .. Len(a) /\ a[i] = q[i]
  BY <1>2
<1>5. ASSUME NEW i \in 1 .. Len(a), a[i].type = "Expose", a[i].count # 0
      PROVE  Ends(Tail(r)) \/ \E j \in i + 1 .. Len(a) : Last(a[j])
  <2>1. CASE i = Len(a)
    BY <1>2, <1>3, <1>5, <2>1
  <2>2. CASE i # Len(a)
    <3>1. i \in 1 .. Len(q) /\ a[i] = q[i]
      BY <1>2, <2>2
    <3>2. Ends(r) \/ \E j \in i + 1 .. Len(q) : Last(q[j])
      BY <1>5, <3>1 DEF CountsDown
    <3>3. ASSUME Last(m) PROVE \E j \in i + 1 .. Len(a) : Last(a[j])
      <4>1. Len(a) \in i + 1 .. Len(a) /\ a[Len(a)] = m
        BY <1>2, <3>1
      <4> QED BY <3>3, <4>1
    <3>4. ASSUME NEW j \in i + 1 .. Len(q), Last(q[j]) PROVE \E h \in i + 1 .. Len(a) : Last(a[h])
      <4>1. j \in i + 1 .. Len(a) /\ a[j] = q[j]
        BY <1>2, <3>1
      <4> QED BY <3>4, <4>1
    <3> QED BY <1>3, <3>2, <3>3, <3>4
  <2> QED BY <2>1, <2>2
<1>6. Ends(q) \/ Ends(r) => Ends(a) \/ Ends(Tail(r))
  <2>1. Ends(q) => Ends(a)
    BY <1>4 DEF Ends
  <2>2. Last(m) => Ends(a)
    BY <1>2, <1>4 DEF Ends
  <2> QED BY <1>3, <2>1, <2>2
<1> QED BY <1>5, <1>6 DEF CountsDown, a, m
-----------------------------------------------------------------------------
(* Every step keeps it.                                                    *)

LEMMA LatestJoins ==
    ASSUME NEW S, NEW q \in Seq(S), NEW es \in Seq(S), NEW T, NEW v, NEW w, NEW x,
           Latest(T, q, v, w), Latest(T, es, w, x)
    PROVE  Latest(T, q \o es, v, x)
<1> DEFINE a == q \o es
<1>1. /\ Len(a) = Len(q) + Len(es) /\ Len(q) \in Nat /\ Len(es) \in Nat
      /\ \A i \in 1 .. Len(q) + Len(es) : a[i] = IF i <= Len(q) THEN q[i] ELSE es[i - Len(q)]
  BY ConcatProperties
<1> HIDE DEF a
<1>2. PICK k \in 0 .. Len(es) :
        /\ \A j \in k + 1 .. Len(es) : es[j].type \notin T
        /\ IF k = 0 THEN x = w ELSE es[k].type \in T /\ Says(es[k]) = x
  BY DEF Latest
<1>3. CASE k = 0
  <2>1. x = w /\ \A i \in 1 .. Len(es) : es[i].type \notin T
    BY <1>2, <1>3
  <2> QED BY <2>1, LatestJoin
<1>4. CASE k # 0
  <2> DEFINE h == k + Len(q)
  <2>1. h \in 0 .. Len(a) /\ h # 0 /\ a[h] = es[k]
    BY <1>1, <1>4
  <2>2. \A j \in h + 1 .. Len(a) : a[j].type \notin T
    <3> SUFFICES ASSUME NEW j \in h + 1 .. Len(a) PROVE a[j].type \notin T
      OBVIOUS
    <3>1. j - Len(q) \in k + 1 .. Len(es) /\ a[j] = es[j - Len(q)]
      BY <1>1
    <3> QED BY <1>2, <3>1
  <2>3. a[h].type \in T /\ Says(a[h]) = x
    BY <1>2, <1>4, <2>1
  <2> HIDE DEF h
  <2> QED BY <2>1, <2>2, <2>3 DEF Latest, a
<1> QED BY <1>3, <1>4

\* One message, and Expose events behind it.
LEMMA LatestOfGroup ==
    ASSUME NEW m \in Message, NEW g \in Seq(Message), NEW T, NEW v, "Expose" \notin T,
           \A i \in 1 .. Len(g) : g[i].type = "Expose"
    PROVE  /\ Latest(T, g, v, v)
           /\ Latest(T, <<m>>, v, IF m.type \in T THEN Says(m) ELSE v)
           /\ Latest(T, <<m>> \o g, v, IF m.type \in T THEN Says(m) ELSE v)
<1> DEFINE u == IF m.type \in T THEN Says(m) ELSE v
<1> HIDE DEF u
<1>1. <<m>> \in Seq(Message) /\ Len(<<m>>) = 1 /\ <<m>>[1] = m
  OBVIOUS
<1>2. Latest(T, g, v, v) /\ Latest(T, g, u, u)
  <2>1. 0 \in 0 .. Len(g) /\ \A j \in 0 + 1 .. Len(g) : g[j].type \notin T
    <3>1. Len(g) \in Nat
      OBVIOUS
    <3> QED BY <3>1
  <2> QED BY <2>1 DEF Latest
<1> DEFINE one == <<m>>
<1> HIDE DEF one
<1>3. Latest(T, one, v, u)
  <2>0. Len(one) = 1 /\ one[1] = m
    BY <1>1 DEF one
  <2>1. CASE m.type \in T
    <3>1. 1 \in 0 .. Len(one) /\ \A j \in 1 + 1 .. Len(one) : one[j].type \notin T
      BY <2>0
    <3> QED BY <2>0, <2>1, <3>1 DEF Latest, u
  <2>2. CASE m.type \notin T
    <3>1. 0 \in 0 .. Len(one) /\ \A j \in 0 + 1 .. Len(one) : one[j].type \notin T
      BY <2>0, <2>2
    <3> QED BY <2>0, <2>2, <3>1 DEF Latest, u
  <2> QED BY <2>1, <2>2
<1>4. one \in Seq(Message)
  BY <1>1 DEF one
<1>5. Latest(T, one \o g, v, u)
  BY <1>2, <1>3, <1>4, LatestJoins
<1> QED BY <1>2, <1>3, <1>5 DEF one, u

LEMMA GroupBehindCountsDown ==
    ASSUME NEW n \in 0 .. MaxSize, NEW A \in SUBSET Pixels(n), NEW g \in Exposed(A),
           NEW m \in Message, m.type # "Expose"
    PROVE  /\ CountsDown(<<m>>, FALSE)
           /\ CountsDown(<<m>> \o g, FALSE)
           /\ A \subseteq Regions("Expose", <<m>> \o g)
<1> DEFINE one == <<m>>
<1>1. one \in Seq(Message) /\ Len(one) = 1 /\ one[1] = m
  OBVIOUS
<1> HIDE DEF one
<1>2. g \in Seq(Message) /\ CountsDown(g, FALSE) /\ A \subseteq Regions("Expose", g)
  BY GroupCountsDown
<1>3. CountsDown(one, FALSE)
  BY <1>1 DEF CountsDown
<1>4. CountsDown(one \o g, FALSE)
  BY <1>1, <1>2, <1>3, EndsOfJoin
<1>5. Regions("Expose", g) \subseteq Regions("Expose", one \o g)
  BY <1>1, <1>2, RegionsOfJoin
<1> QED BY <1>2, <1>3, <1>4, <1>5 DEF one

LEMMA FieldTypes ==
    ASSUME Inv
    PROVE  /\ MaxSize \in Nat /\ MaxSize > 0
           /\ wire \in Seq(Message) /\ queue \in Seq(Message) /\ wsi \in Seq(WindowSystemEvent)
           /\ server \in [size : 1 .. MaxSize, mapped : BOOLEAN, damaged : SUBSET Pixels(MaxSize),
                          counter : 0 .. MaxChanges, frame : 0 .. MaxSize]
           /\ window \in Window
           /\ app \in [size : 1 .. MaxSize, exposed : BOOLEAN, dirty : SUBSET Pixels(MaxSize)]
BY FrameAssumption DEF Inv, TypeOK, Window

\* A change of the window, and the messages that say so.  hide() forgets at
\* once that the window is mapped.
LEMMA ChangeKeepsCurrent ==
    ASSUME Inv, Current, NEW es \in Seq(Message), wire' = wire \o es,
           UNCHANGED <<queue, wsi, app>>,
           window'.geometry = window.geometry, window'.m_exposeRegion = window.m_exposeRegion,
           \/ window'.m_mapped = window.m_mapped
           \/ ~window'.m_mapped /\ window'.m_mapped \in BOOLEAN
              /\ server'.mapped = FALSE /\ (server.mapped => Has(Mapping, es)),
           Latest(Sized, es, server.size, server'.size),
           Latest(Mapping, es, server.mapped, server'.mapped),
           CountsDown(es, FALSE),
           server'.damaged \subseteq Pixels(server'.size),
           server'.mapped => \A p \in server'.damaged :
                p \in Regions("Expose", es) \/ (server.mapped /\ p \in server.damaged),
           server'.mapped => \/ 1 \in server'.damaged
                             \/ server.mapped /\ server'.frame = server.frame /\ 1 \notin server.damaged
    PROVE  Current'
<1>1. /\ wire \in Seq(Message) /\ queue \in Seq(Message)
      /\ server.mapped \in BOOLEAN /\ window.m_mapped \in BOOLEAN
  BY FieldTypes DEF Window
<1> DEFINE w == wire \o es
<1>2. /\ wire' = w /\ w \in Seq(Message)
      /\ Ends(wire) => Ends(w)
      /\ CountsDown(wire, FALSE) => CountsDown(w, FALSE)
      /\ Regions("Expose", wire) \cup Regions("Expose", es) \subseteq Regions("Expose", w)
      /\ Has(Mapping, wire) => Has(Mapping, w)
      /\ Has(Mapping, es) => Has(Mapping, w)
  <2>1. w \in Seq(Message) /\ wire' = w
    BY <1>1
  <2>2. /\ Ends(wire) => Ends(w)
        /\ CountsDown(wire, FALSE) => CountsDown(w, FALSE)
    BY <1>1, EndsOfJoin
  <2>3. Regions("Expose", wire) \cup Regions("Expose", es) \subseteq Regions("Expose", w)
    BY <1>1, RegionsOfJoin
  <2>4. /\ Has(Mapping, wire) => Has(Mapping, w)
        /\ Has(Mapping, es) => Has(Mapping, w)
    BY <1>1, HasJoin
  <2> QED BY <2>1, <2>2, <2>3, <2>4
<1>3. /\ \A v : Latest(Sized, wire, v, server.size) => Latest(Sized, w, v, server'.size)
      /\ \A v : Latest(Mapping, wire, v, server.mapped) => Latest(Mapping, w, v, server'.mapped)
  BY <1>1, LatestJoins
<1> HIDE DEF w
<1>4. Sizes'
  BY <1>2, <1>3 DEF Current, Sizes
<1>5. Maps'
  <2>1. PICK u \in BOOLEAN : /\ Latest(Mapping, queue, window.m_mapped, u)
                             /\ Latest(Mapping, w, u, server'.mapped)
    BY <1>3 DEF Current, Maps
  <2>2. PICK x \in BOOLEAN : /\ Latest({"Exposure"}, wsi, app.exposed, x)
                             /\ x = window.m_mapped \/ Has(Mapping, queue) \/ Has(Mapping, w)
    BY <1>2 DEF Current, Maps
  <2>3. CASE window'.m_mapped = window.m_mapped
    BY <1>2, <2>1, <2>2, <2>3 DEF Maps
  <2>4. CASE /\ ~window'.m_mapped /\ window'.m_mapped \in BOOLEAN
             /\ server'.mapped = FALSE /\ (server.mapped => Has(Mapping, es))
    <3>0. window'.m_mapped = FALSE
      BY <2>4
    <3>1. /\ Has(Mapping, queue) => \A v : Latest(Mapping, queue, v, u)
          /\ ~Has(Mapping, queue) => u = window.m_mapped /\ \A v : Latest(Mapping, queue, v, v)
      BY <1>1, <2>1, LatestFrom
    <3>2. /\ Has(Mapping, w) => \A v : Latest(Mapping, w, v, server'.mapped)
          /\ ~Has(Mapping, w) => server'.mapped = u /\ \A v : Latest(Mapping, w, v, v)
      BY <1>2, <2>1, LatestFrom
    <3>3. \E y \in BOOLEAN : Latest(Mapping, queue, FALSE, y) /\ Latest(Mapping, w, y, server'.mapped)
      <4>1. CASE Has(Mapping, queue)
        BY <2>1, <3>1, <4>1
      <4>2. CASE ~Has(Mapping, queue)
        BY <2>4, <3>1, <3>2, <4>2
      <4> QED BY <4>1, <4>2
    <3>4. x = FALSE \/ Has(Mapping, queue) \/ Has(Mapping, w)
      BY <2>2, <2>4, <3>1, <3>2
    <3> QED BY <1>2, <2>2, <3>0, <3>3, <3>4 DEF Maps
  <2> QED BY <2>3, <2>4
<1>6. Groups'
  BY <1>2 DEF Current, Groups, CountsDown
<1>7. Known \subseteq Known' /\ Regions("Expose", es) \subseteq Known'
  BY <1>2 DEF Known
<1>8. Damage'
  BY <1>7 DEF Current, Damage
<1>9. Frames'
  BY DEF Current, Frames
<1> QED BY <1>4, <1>5, <1>6, <1>8, <1>9 DEF Current

LEMMA SyncRequestKeepsCurrent == ASSUME Inv, Current, SyncRequest PROVE Current'
<1> DEFINE m == Sync(wm.value + 1)
<1>1. /\ UNCHANGED <<server, queue, window, wsi, app, configured>> /\ wire' = wire \o <<m>>
  BY DEF SyncRequest, Send
<1>2. /\ m \in Message /\ m.type = "Sync"
  <2>1. wm.value \in Nat /\ wm.changes \in Nat /\ wm.value <= wm.changes /\ MaxChanges \in Nat
    BY FrameAssumption DEF Inv, TypeOK, Requests
  <2>2. wm.changes < MaxChanges
    BY DEF SyncRequest, Counted
  <2>3. wm.value + 1 \in 1 .. MaxChanges
    BY <2>1, <2>2
  <2> QED BY <2>3, MessageTypes
<1> HIDE DEF m
<1>3. <<m>> \in Seq(Message) /\ <<>> \in Seq(Message) /\ \A i \in 1 .. Len(<<>>) : <<>>[i].type = "Expose"
  BY <1>2
<1>4. /\ Latest(Sized, <<m>>, server.size, server.size)
      /\ Latest(Mapping, <<m>>, server.mapped, server.mapped)
  <2>1. \A T, v : "Expose" \notin T /\ "Sync" \notin T => Latest(T, <<m>>, v, v)
    BY <1>2, <1>3, LatestOfGroup
  <2> QED BY <2>1 DEF Sized, Mapping
<1>5. CountsDown(<<m>>, FALSE)
  BY <1>2 DEF CountsDown
<1>6. /\ server.damaged \subseteq Pixels(server.size)
      /\ server.mapped
  BY DEF Current, Damage, SyncRequest
<1>7. server' = server /\ window' = window /\ UNCHANGED <<queue, wsi, app>>
  BY <1>1
<1> DEFINE es == <<m>>
<1>8. /\ es \in Seq(Message) /\ wire' = wire \o es /\ CountsDown(es, FALSE)
      /\ Latest(Sized, es, server.size, server'.size)
      /\ Latest(Mapping, es, server.mapped, server'.mapped)
  BY <1>1, <1>3, <1>4, <1>5, <1>7
<1> HIDE DEF es
<1>9. /\ window'.geometry = window.geometry /\ window'.m_exposeRegion = window.m_exposeRegion
      /\ window'.m_mapped = window.m_mapped
      /\ server'.damaged \subseteq Pixels(server'.size)
      /\ \A p \in server'.damaged : server.mapped /\ p \in server.damaged
  BY <1>6, <1>7
<1>10. 1 \in server'.damaged \/ (server.mapped /\ server'.frame = server.frame /\ 1 \notin server.damaged)
  BY <1>6, <1>7
<1> QED BY <1>7, <1>8, <1>9, <1>10, ChangeKeepsCurrent

LEMMA ConfigureWindowKeepsCurrent ==
    ASSUME Inv, Current, NEW s \in 1 .. MaxSize, ConfigureWindow(s) PROVE Current'
<1> DEFINE m == Configure(s, wm.value)
           new == IF server.mapped THEN Pixels(s) \ Pixels(server.size) ELSE {}
<1>1. /\ UNCHANGED <<queue, window, wsi, app, configured>>
      /\ server' = [server EXCEPT !.size = s, !.damaged = (@ \cap Pixels(s)) \cup new]
  BY DEF ConfigureWindow
<1>2. PICK g \in Exposed(new) : wire' = wire \o (<<m>> \o g)
  BY DEF ConfigureWindow, Send
<1>3. m \in Message /\ m.type = "Configure" /\ Says(m) = s
  <2>1. wm.value \in 0 .. MaxChanges
    BY DEF Inv, TypeOK
  <2>2. m \in Message /\ m.type = "Configure"
    BY <2>1, MessageTypes
  <2> QED BY <2>2 DEF Configure, Says
<1> HIDE DEF m
<1>4. new \in SUBSET Pixels(s) /\ s \in 0 .. MaxSize
  OBVIOUS
<1>5. g \in Seq(Message) /\ \A i \in 1 .. Len(g) : g[i].type = "Expose"
  BY <1>4, GroupCountsDown
<1> DEFINE es == <<m>> \o g
<1>6. es \in Seq(Message)
  BY <1>3, <1>5
<1>7. CountsDown(es, FALSE) /\ new \subseteq Regions("Expose", es)
  BY <1>3, <1>4, GroupBehindCountsDown
<1>8. /\ Latest(Sized, es, server.size, s)
      /\ Latest(Mapping, es, server.mapped, server.mapped)
  <2>1. ASSUME NEW T, NEW v, "Expose" \notin T
        PROVE  Latest(T, es, v, IF "Configure" \in T THEN s ELSE v)
    <3>1. Latest(T, <<m>> \o g, v, IF m.type \in T THEN Says(m) ELSE v)
      BY <1>3, <1>5, <2>1, LatestOfGroup
    <3> QED BY <1>3, <3>1
  <2>2. "Expose" \notin Sized /\ "Configure" \in Sized /\ "Expose" \notin Mapping /\ "Configure" \notin Mapping
    BY DEF Sized, Mapping
  <2> HIDE DEF es
  <2>3. Latest(Sized, es, server.size, IF "Configure" \in Sized THEN s ELSE server.size)
    BY <2>1, <2>2
  <2>4. Latest(Mapping, es, server.mapped, IF "Configure" \in Mapping THEN s ELSE server.mapped)
    BY <2>1, <2>2
  <2> QED BY <2>2, <2>3, <2>4
<1>9. wire' = wire \o es
  BY <1>2
<1> HIDE DEF es, new
<1>10. /\ server'.size = s /\ server'.mapped = server.mapped /\ server'.frame = server.frame
       /\ server'.damaged = (server.damaged \cap Pixels(s)) \cup new
  BY <1>1, FieldTypes
<1>11. server'.damaged \subseteq Pixels(server'.size)
  BY <1>4, <1>10
<1>12. \A p \in server'.damaged : p \in Regions("Expose", es) \/ (server'.mapped => server.mapped /\ p \in server.damaged)
  BY <1>7, <1>10
<1>13. server'.mapped => \/ 1 \in server'.damaged
                         \/ server.mapped /\ server'.frame = server.frame /\ 1 \notin server.damaged
  <2>1. 1 \in Pixels(s)
    BY FrameAssumption DEF Pixels
  <2> QED BY <1>10, <2>1
<1>14. Latest(Sized, es, server.size, server'.size) /\ Latest(Mapping, es, server.mapped, server'.mapped)
  BY <1>8, <1>10
<1>15. /\ window'.geometry = window.geometry /\ window'.m_exposeRegion = window.m_exposeRegion
       /\ window'.m_mapped = window.m_mapped /\ UNCHANGED <<queue, wsi, app>>
  BY <1>1
<1> QED BY <1>6, <1>7, <1>9, <1>11, <1>12, <1>13, <1>14, <1>15, ChangeKeepsCurrent

LEMMA UncoverKeepsCurrent ==
    ASSUME Inv, Current, NEW A \in SUBSET Pixels(server.size), Uncover(A) PROVE Current'
<1>1. /\ UNCHANGED <<queue, window, wsi, app, configured>>
      /\ server' = [server EXCEPT !.damaged = @ \cup A] /\ server.mapped
  BY DEF Uncover
<1>2. PICK g \in Exposed(A) : wire' = wire \o g
  BY DEF Uncover, Send
<1>3. server.size \in 0 .. MaxSize
  BY FieldTypes
<1>4. /\ g \in Seq(Message) /\ \A i \in 1 .. Len(g) : g[i].type = "Expose"
      /\ CountsDown(g, FALSE) /\ A \subseteq Regions("Expose", g)
  BY <1>3, GroupCountsDown
<1>5. Notify("Map") \in Message
  BY MessageTypes
<1>6. Latest(Sized, g, server.size, server.size) /\ Latest(Mapping, g, server.mapped, server.mapped)
  <2>1. \A T, v : "Expose" \notin T => Latest(T, g, v, v)
    BY <1>4, <1>5, LatestOfGroup
  <2> QED BY <2>1 DEF Sized, Mapping
<1>7. /\ server'.size = server.size /\ server'.mapped = server.mapped /\ server'.frame = server.frame
      /\ server'.damaged = server.damaged \cup A
  BY <1>1, FieldTypes
<1>8. server'.damaged \subseteq Pixels(server'.size)
  BY <1>7 DEF Current, Damage
<1>9. \A p \in server'.damaged : p \in Regions("Expose", g) \/ (server.mapped /\ p \in server.damaged)
  BY <1>1, <1>4, <1>7
<1>10. 1 \in server'.damaged \/ (server.mapped /\ server'.frame = server.frame /\ 1 \notin server.damaged)
  BY <1>1, <1>7
<1>11. Latest(Sized, g, server.size, server'.size) /\ Latest(Mapping, g, server.mapped, server'.mapped)
  BY <1>6, <1>7
<1>12. /\ window'.geometry = window.geometry /\ window'.m_exposeRegion = window.m_exposeRegion
       /\ window'.m_mapped = window.m_mapped /\ UNCHANGED <<queue, wsi, app>>
  BY <1>1
<1> QED BY <1>2, <1>4, <1>8, <1>9, <1>10, <1>11, <1>12, ChangeKeepsCurrent

LEMMA MapWindowKeepsCurrent ==
    ASSUME Inv, Current, MapWindow, UNCHANGED <<queue, window, wsi, app, configured>> PROVE Current'
<1> DEFINE m == Notify("Map")
           all == Pixels(server.size)
<1>1. server' = [server EXCEPT !.mapped = TRUE, !.damaged = all] /\ ~server.mapped
  BY DEF MapWindow
<1>2. PICK g \in Exposed(all) : wire' = wire \o (<<m>> \o g)
  BY DEF MapWindow, Send
<1>3. m \in Message /\ m.type = "Map" /\ Says(m) = TRUE
  <2>1. m \in Message /\ m.type = "Map"
    BY MessageTypes
  <2> QED BY <2>1 DEF Says
<1> HIDE DEF m
<1>4. all \in SUBSET Pixels(server.size) /\ server.size \in 0 .. MaxSize
  BY FieldTypes
<1>5. g \in Seq(Message) /\ \A i \in 1 .. Len(g) : g[i].type = "Expose"
  BY <1>4, GroupCountsDown
<1> DEFINE es == <<m>> \o g
<1>6. es \in Seq(Message)
  BY <1>3, <1>5
<1>7. CountsDown(es, FALSE) /\ all \subseteq Regions("Expose", es)
  BY <1>3, <1>4, GroupBehindCountsDown
<1>8. /\ Latest(Sized, es, server.size, server.size)
      /\ Latest(Mapping, es, server.mapped, TRUE)
  <2>1. ASSUME NEW T, NEW v, "Expose" \notin T
        PROVE  Latest(T, es, v, IF "Map" \in T THEN TRUE ELSE v)
    <3>1. Latest(T, <<m>> \o g, v, IF m.type \in T THEN Says(m) ELSE v)
      BY <1>3, <1>5, <2>1, LatestOfGroup
    <3> QED BY <1>3, <3>1
  <2>2. "Expose" \notin Sized /\ "Map" \notin Sized /\ "Expose" \notin Mapping /\ "Map" \in Mapping
    BY DEF Sized, Mapping
  <2> HIDE DEF es
  <2>3. Latest(Sized, es, server.size, IF "Map" \in Sized THEN TRUE ELSE server.size)
    BY <2>1, <2>2
  <2>4. Latest(Mapping, es, server.mapped, IF "Map" \in Mapping THEN TRUE ELSE server.mapped)
    BY <2>1, <2>2
  <2> QED BY <2>2, <2>3, <2>4
<1>9. wire' = wire \o es
  BY <1>2
<1> HIDE DEF es
<1>10. server'.size = server.size /\ server'.mapped = TRUE /\ server'.damaged = all
  BY <1>1, FieldTypes
<1>11. /\ server'.damaged \subseteq Pixels(server'.size) /\ 1 \in server'.damaged
       /\ \A p \in server'.damaged : p \in Regions("Expose", es)
  <2>1. 1 \in all
    BY FieldTypes DEF Pixels
  <2> QED BY <1>7, <1>10, <2>1
<1>12. Latest(Sized, es, server.size, server'.size) /\ Latest(Mapping, es, server.mapped, server'.mapped)
  BY <1>8, <1>10
<1>13. /\ window'.geometry = window.geometry /\ window'.m_exposeRegion = window.m_exposeRegion
       /\ window'.m_mapped = window.m_mapped /\ UNCHANGED <<queue, wsi, app>>
  OBVIOUS
<1> QED BY <1>6, <1>7, <1>9, <1>11, <1>12, <1>13, ChangeKeepsCurrent

LEMMA UnmapWindowKeepsCurrent ==
    ASSUME Inv, Current, UnmapWindow, UNCHANGED <<queue, wsi, app, configured>>,
           window' \in {window, [window EXCEPT !.m_mapped = FALSE]}
    PROVE  Current'
<1> DEFINE es == IF server.mapped THEN <<Notify("Unmap")>> ELSE <<>>
           m == Notify("Unmap")
<1>1. /\ server' = [server EXCEPT !.mapped = FALSE, !.damaged = {}] /\ wire' = wire \o es
  BY DEF UnmapWindow, Send
<1>2. m \in Message /\ m.type = "Unmap" /\ Says(m) = FALSE
  <2>1. m \in Message /\ m.type = "Unmap"
    BY MessageTypes
  <2> QED BY <2>1 DEF Says
<1>3. server.mapped \in BOOLEAN
  BY FieldTypes
<1> HIDE DEF m
<1> DEFINE none == <<>>
<1>4. none \in Seq(Message) /\ Len(none) = 0
  OBVIOUS
<1> HIDE DEF none
<1>5. \A T, v : "Expose" \notin T => /\ Latest(T, none, v, v)
                                     /\ Latest(T, <<m>>, v, IF "Unmap" \in T THEN FALSE ELSE v)
  <2> SUFFICES ASSUME NEW T, NEW v, "Expose" \notin T
               PROVE  /\ Latest(T, none, v, v)
                      /\ Latest(T, <<m>>, v, IF "Unmap" \in T THEN FALSE ELSE v)
    OBVIOUS
  <2>1. m \in Message /\ none \in Seq(Message) /\ \A i \in 1 .. Len(none) : none[i].type = "Expose"
    BY <1>2, <1>4
  <2>2. /\ Latest(T, none, v, v)
        /\ Latest(T, <<m>>, v, IF m.type \in T THEN Says(m) ELSE v)
    BY <2>1, LatestOfGroup
  <2> QED BY <1>2, <2>2
<1>6. /\ Latest(Sized, none, server.size, server.size) /\ Latest(Sized, <<m>>, server.size, server.size)
      /\ Latest(Mapping, none, FALSE, FALSE) /\ Latest(Mapping, <<m>>, server.mapped, FALSE)
  <2>2. "Expose" \notin Sized /\ "Unmap" \notin Sized /\ "Expose" \notin Mapping /\ "Unmap" \in Mapping
    BY DEF Sized, Mapping
  <2>3. Latest(Sized, <<m>>, server.size, IF "Unmap" \in Sized THEN FALSE ELSE server.size)
    BY <1>5, <2>2
  <2>4. Latest(Mapping, <<m>>, server.mapped, IF "Unmap" \in Mapping THEN FALSE ELSE server.mapped)
    BY <1>5, <2>2
  <2>5. Latest(Sized, none, server.size, server.size) /\ Latest(Mapping, none, FALSE, FALSE)
    BY <1>5, <2>2
  <2> QED BY <2>2, <2>3, <2>4, <2>5
<1>7. /\ es \in Seq(Message) /\ CountsDown(es, FALSE)
      /\ Latest(Sized, es, server.size, server.size) /\ Latest(Mapping, es, server.mapped, FALSE)
      /\ server.mapped => Has(Mapping, es)
  <2>1. CASE server.mapped
    <3>1. es = <<m>>
      BY <2>1 DEF m
    <3>2. <<m>> \in Seq(Message) /\ Len(<<m>>) = 1 /\ <<m>>[1] = m
      BY <1>2
    <3>3. CountsDown(<<m>>, FALSE) /\ Has(Mapping, <<m>>)
      BY <1>2, <3>2 DEF CountsDown, Has, Mapping
    <3> HIDE DEF es
    <3> QED BY <1>6, <3>1, <3>2, <3>3
  <2>2. CASE ~server.mapped
    <3>1. es = none /\ server.mapped = FALSE
      BY <1>3, <2>2 DEF none
    <3>2. CountsDown(none, FALSE)
      BY <1>4 DEF CountsDown
    <3> HIDE DEF es
    <3> QED BY <1>4, <1>6, <3>1, <3>2
  <2> QED BY <2>1, <2>2
<1> HIDE DEF es
<1>8. server'.size = server.size /\ server'.mapped = FALSE /\ server'.damaged = {}
  BY <1>1, FieldTypes
<1>9. /\ window'.geometry = window.geometry /\ window'.m_exposeRegion = window.m_exposeRegion
      /\ window'.m_mapped = window.m_mapped \/ window'.m_mapped = FALSE
  BY FieldTypes DEF Window
<1>10. Latest(Sized, es, server.size, server'.size) /\ Latest(Mapping, es, server.mapped, server'.mapped)
  BY <1>7, <1>8
<1>11. UNCHANGED <<queue, wsi, app>>
  OBVIOUS
<1>12. /\ server'.damaged \subseteq Pixels(server'.size) /\ ~server'.mapped
       /\ \/ window'.m_mapped = window.m_mapped
          \/ /\ ~window'.m_mapped /\ window'.m_mapped \in BOOLEAN
             /\ server'.mapped = FALSE /\ (server.mapped => Has(Mapping, es))
  BY <1>7, <1>8, <1>9
<1> QED BY <1>1, <1>7, <1>9, <1>10, <1>11, <1>12, ChangeKeepsCurrent

LEMMA HasAppend ==
    ASSUME NEW S, NEW q \in Seq(S), NEW m \in S, NEW T
    PROVE  Has(T, q) \/ m.type \in T => Has(T, Append(q, m))
<1> DEFINE a == Append(q, m)
<1>1. /\ Len(q) \in Nat /\ Len(a) = Len(q) + 1 /\ a[Len(a)] = m
      /\ \A i \in 1 .. Len(q) : a[i] = q[i]
  OBVIOUS
<1> HIDE DEF a
<1>2. Len(a) \in 1 .. Len(a) /\ \A i \in 1 .. Len(q) : i \in 1 .. Len(a) /\ a[i] = q[i]
  BY <1>1
<1> QED BY <1>1, <1>2 DEF Has, a

\* What an event says of the window has the type of what it says it of.
LEMMA NewsAreTyped ==
    /\ \A e \in Message : /\ e.type \in Sized => Says(e) \in 1 .. MaxSize
                          /\ e.type \in Mapping => Says(e) \in BOOLEAN /\ Says(e) = (e.type = "Map")
    /\ \A e \in WindowSystemEvent : /\ e.type = "Geometry" => Says(e) = e.size /\ e.size \in 1 .. MaxSize
                                    /\ e.type = "Exposure" => Says(e) = e.exposed /\ e.exposed \in BOOLEAN
                                    /\ e.type \in {"Geometry", "Exposure"}
BY DEF Message, WindowSystemEvent, Says, Sized, Mapping

LEMMA PublishKeepsCurrent == ASSUME Inv, Current, Publish PROVE Current'
<1>1. /\ wire # <<>> /\ queue' = Append(queue, Head(wire)) /\ wire' = Tail(wire)
      /\ UNCHANGED <<server, wm, window, wsi, app, configured>>
  BY DEF Publish
<1>2. wire \in Seq(Message) /\ queue \in Seq(Message) /\ window.m_mapped \in BOOLEAN
  BY FieldTypes DEF Window
<1> DEFINE e == Head(wire)
           t == Tail(wire)
           a == Append(queue, e)
<1>3. e \in Message /\ t \in Seq(Message)
  BY <1>1, <1>2
<1> HIDE DEF e
<1>4. \A T, v, w : Latest(T, queue, v, w) => Latest(T, a, v, IF e.type \in T THEN Says(e) ELSE w)
  BY <1>2, <1>3, LatestAppend
<1>5. \A T, v, w : Latest(T, wire, v, w) => Latest(T, t, IF e.type \in T THEN Says(e) ELSE v, w)
  BY <1>1, <1>2, LatestTail DEF e
<1>6. \A T : Has(T, queue) \/ Has(T, wire) => Has(T, a) \/ Has(T, t)
  <2>1. \A T : Has(T, wire) => Has(T, t) \/ e.type \in T
    BY <1>1, <1>2, HasTail DEF e
  <2>2. \A T : Has(T, queue) \/ e.type \in T => Has(T, a)
    BY <1>2, <1>3, HasAppend
  <2> QED BY <2>1, <2>2
<1>7. Regions("Expose", wire) \cup Regions("Expose", queue)
        \subseteq Regions("Expose", t) \cup Regions("Expose", a)
  <2>1. /\ e.type = "Expose" => Regions("Expose", wire) = e.region \cup Regions("Expose", t)
        /\ e.type # "Expose" => Regions("Expose", wire) = Regions("Expose", t)
    BY <1>1, <1>2, RegionsOfTail DEF e
  <2>2. /\ Regions("Expose", queue) \subseteq Regions("Expose", a)
        /\ e.type = "Expose" => e.region \subseteq Regions("Expose", a)
    BY <1>2, <1>3, RegionsOfAppend
  <2> QED BY <2>1, <2>2
<1>8. /\ CountsDown(t, FALSE)
      /\ CountsDown(a, Ends(t))
      /\ Ends(queue) \/ Ends(wire) => Ends(a) \/ Ends(t)
  <2>1. CountsDown(wire, FALSE) /\ CountsDown(queue, Ends(wire))
    BY DEF Current, Groups
  <2>2. CountsDown(Tail(wire), FALSE)
    BY <1>1, <1>2, <2>1, EndsOfTail
  <2>3. /\ CountsDown(Append(queue, Head(wire)), Ends(Tail(wire)))
        /\ Ends(queue) \/ Ends(wire) => Ends(Append(queue, Head(wire))) \/ Ends(Tail(wire))
    BY <1>1, <1>2, <2>1, EndsOfMove
  <2> QED BY <2>2, <2>3 DEF e
<1>9. wire' = t /\ queue' = a
  BY <1>1 DEF e
<1> HIDE DEF a, t
<1>10. Sizes'
  <2>1. PICK u \in 1 .. MaxSize : /\ Latest(Sized, queue, window.geometry, u)
                                  /\ Latest(Sized, wire, u, server.size)
    BY DEF Current, Sizes
  <2> DEFINE x == IF e.type \in Sized THEN Says(e) ELSE u
  <2>2. x \in 1 .. MaxSize
    BY <1>3, NewsAreTyped
  <2>3. Latest(Sized, a, window.geometry, x) /\ Latest(Sized, t, x, server.size)
    BY <1>4, <1>5, <2>1
  <2> HIDE DEF x
  <2> QED BY <1>1, <1>9, <2>2, <2>3 DEF Current, Sizes
<1>11. Maps'
  <2>1. PICK u \in BOOLEAN : /\ Latest(Mapping, queue, window.m_mapped, u)
                             /\ Latest(Mapping, wire, u, server.mapped)
    BY DEF Current, Maps
  <2> DEFINE x == IF e.type \in Mapping THEN Says(e) ELSE u
  <2>2. x \in BOOLEAN
    BY <1>3, NewsAreTyped
  <2>3. Latest(Mapping, a, window.m_mapped, x) /\ Latest(Mapping, t, x, server.mapped)
    BY <1>4, <1>5, <2>1
  <2> HIDE DEF x
  <2> QED BY <1>1, <1>6, <1>9, <2>2, <2>3 DEF Current, Maps
<1>12. Groups'
  BY <1>1, <1>8, <1>9 DEF Current, Groups
<1>13. Known \subseteq Known'
  BY <1>1, <1>7, <1>9 DEF Known
<1>14. Damage' /\ Frames'
  BY <1>1, <1>13 DEF Current, Damage, Frames
<1> QED BY <1>10, <1>11, <1>12, <1>14 DEF Current

\* The handlers of the events that are no Expose events: the events they send
\* to Qt tell of what they change.
LEMMA HandlerKeepsCurrent ==
    ASSUME Inv, Current, queue # <<>>, NEW e, e = Head(queue), e.type # "Expose",
           queue' = Tail(queue), UNCHANGED <<server, wire, app>>,
           window'.m_exposeRegion = window.m_exposeRegion,
           window'.m_mapped = IF e.type \in Mapping THEN Says(e) ELSE window.m_mapped,
           \/ window'.geometry = IF e.type \in Sized THEN Says(e) ELSE window.geometry
           \/ window'.geometry = window.geometry /\ Has(Sized, Tail(queue)),
           NEW es \in Seq(WindowSystemEvent), wsi' = wsi \o es,
           Latest({"Geometry"}, es, window.geometry, window'.geometry),
           \/ e.type \notin Mapping /\ \A v : Latest({"Exposure"}, es, v, v)
           \/ \A v : Latest({"Exposure"}, es, v, window'.m_mapped)
    PROVE  Current'
<1>1. /\ wire \in Seq(Message) /\ queue \in Seq(Message) /\ wsi \in Seq(WindowSystemEvent)
      /\ window.m_mapped \in BOOLEAN
  BY FieldTypes DEF Window
<1> DEFINE t == Tail(queue)
           w == wsi \o es
<1>2. e \in Message /\ t \in Seq(Message) /\ w \in Seq(WindowSystemEvent)
  BY <1>1
<1>3. \A T, v, x : Latest(T, queue, v, x) => Latest(T, t, IF e.type \in T THEN Says(e) ELSE v, x)
  BY <1>1, LatestTail
<1>4. \A T, v, x, y : Latest(T, wsi, v, x) /\ Latest(T, es, x, y) => Latest(T, w, v, y)
  BY <1>1, LatestJoins
<1>5. \A T : Has(T, queue) => Has(T, t) \/ e.type \in T
  BY <1>1, HasTail
<1>6. Regions("Expose", queue) = Regions("Expose", t) /\ Regions("Exposure", wsi) \subseteq Regions("Exposure", w)
  <2>1. Regions("Expose", queue) = Regions("Expose", t)
    BY <1>1, RegionsOfTail
  <2>2. Regions("Exposure", wsi) \subseteq Regions("Exposure", w)
    BY <1>1, RegionsOfJoin
  <2> QED BY <2>1, <2>2
<1>7. CountsDown(t, Ends(wire)) /\ (Ends(queue) => Ends(t))
  <2>1. CountsDown(queue, Ends(wire)) /\ Ends(wire) \in BOOLEAN
    BY DEF Current, Groups, Ends
  <2> QED BY <1>1, <2>1, EndsOfTail
<1>8. \A T, v, x : Latest(T, t, v, x) /\ Has(T, t) => \A y : Latest(T, t, y, x)
  BY <1>2, LatestFrom
<1>9. queue' = t /\ wsi' = w
  OBVIOUS
<1> HIDE DEF t, w
<1>10. Sizes'
  <2>1. PICK u \in 1 .. MaxSize : /\ Latest(Sized, queue, window.geometry, u)
                                  /\ Latest(Sized, wire, u, server.size)
    BY DEF Current, Sizes
  <2>2. Latest(Sized, t, IF e.type \in Sized THEN Says(e) ELSE window.geometry, u)
    BY <1>3, <2>1
  <2>3. Latest(Sized, t, window'.geometry, u)
    BY <1>8, <2>2 DEF t
  <2>4. Latest({"Geometry"}, w, app.size, window'.geometry)
    BY <1>4 DEF Current, Sizes
  <2> QED BY <1>9, <2>1, <2>3, <2>4 DEF Sizes
<1>11. Maps'
  <2>1. PICK u \in BOOLEAN : /\ Latest(Mapping, queue, window.m_mapped, u)
                             /\ Latest(Mapping, wire, u, server.mapped)
    BY DEF Current, Maps
  <2>2. Latest(Mapping, t, window'.m_mapped, u)
    BY <1>3, <2>1
  <2>3. PICK x \in BOOLEAN : /\ Latest({"Exposure"}, wsi, app.exposed, x)
                             /\ x = window.m_mapped \/ Has(Mapping, queue) \/ Has(Mapping, wire)
    BY DEF Current, Maps
  <2>4. window'.m_mapped \in BOOLEAN
    BY <1>1, <1>2, NewsAreTyped
  <2>5. CASE \A v : Latest({"Exposure"}, es, v, window'.m_mapped)
    <3>1. Latest({"Exposure"}, w, app.exposed, window'.m_mapped)
      BY <1>4, <2>3, <2>5
    <3> QED BY <1>9, <2>1, <2>2, <2>4, <3>1 DEF Maps
  <2>6. CASE e.type \notin Mapping /\ \A v : Latest({"Exposure"}, es, v, v)
    <3>1. Latest({"Exposure"}, w, app.exposed, x)
      BY <1>4, <2>3, <2>6
    <3>2. x = window'.m_mapped \/ Has(Mapping, t) \/ Has(Mapping, wire)
      BY <1>5, <2>3, <2>6
    <3> QED BY <1>9, <2>1, <2>2, <2>3, <3>1, <3>2 DEF Maps
  <2> QED BY <2>5, <2>6
<1>12. Groups'
  BY <1>7, <1>9 DEF Current, Groups
<1>13. Known \subseteq Known'
  BY <1>6, <1>9 DEF Known
<1>14. Damage' /\ Frames'
  BY <1>13 DEF Current, Damage, Frames
<1> QED BY <1>10, <1>11, <1>12, <1>14 DEF Current

\* No window system event, or one that says v.
LEMMA LatestOfEvents ==
    /\ \A T, v : Latest(T, <<>>, v, v)
    /\ \A s \in 1 .. MaxSize : \A v : /\ Latest({"Geometry"}, <<Geometry(s)>>, v, s)
                                      /\ Latest({"Exposure"}, <<Geometry(s)>>, v, v)
    /\ \A A \in SUBSET Pixels(MaxSize), on \in BOOLEAN : \A v :
          /\ Latest({"Geometry"}, <<Exposure(A, on)>>, v, v)
          /\ Latest({"Exposure"}, <<Exposure(A, on)>>, v, on)
<1>1. ASSUME NEW e, NEW v, NEW T PROVE Latest(T, <<e>>, v, IF e.type \in T THEN Says(e) ELSE v)
  <2> DEFINE q == <<e>>
  <2>1. Len(q) = 1 /\ q[1] = e /\ 0 \in 0 .. Len(q) /\ 1 \in 0 .. Len(q)
    OBVIOUS
  <2> HIDE DEF q
  <2>2. CASE e.type \in T
    <3>1. \A j \in 1 + 1 .. Len(q) : q[j].type \notin T
      BY <2>1
    <3> QED BY <2>1, <2>2, <3>1 DEF Latest, q
  <2>3. CASE e.type \notin T
    <3>1. \A j \in 0 + 1 .. Len(q) : q[j].type \notin T
      BY <2>1, <2>3
    <3> QED BY <2>1, <2>3, <3>1 DEF Latest, q
  <2> QED BY <2>2, <2>3
<1>2. ASSUME NEW s \in 1 .. MaxSize, NEW v
      PROVE  /\ Latest({"Geometry"}, <<Geometry(s)>>, v, s)
             /\ Latest({"Exposure"}, <<Geometry(s)>>, v, v)
  <2>1. Geometry(s).type = "Geometry" /\ Says(Geometry(s)) = s
    BY DEF Geometry, Says
  <2> DEFINE e == Geometry(s)
  <2> HIDE DEF e
  <2>2. \A T : Latest(T, <<e>>, v, IF e.type \in T THEN Says(e) ELSE v)
    BY <1>1
  <2>3. e.type \in {"Geometry"} /\ e.type \notin {"Exposure"} /\ Says(e) = s
    BY <2>1 DEF e
  <2>4. /\ Latest({"Geometry"}, <<e>>, v, IF e.type \in {"Geometry"} THEN Says(e) ELSE v)
        /\ Latest({"Exposure"}, <<e>>, v, IF e.type \in {"Exposure"} THEN Says(e) ELSE v)
    BY <2>2
  <2> QED BY <2>3, <2>4 DEF e
<1>3. ASSUME NEW A \in SUBSET Pixels(MaxSize), NEW on \in BOOLEAN, NEW v
      PROVE  /\ Latest({"Geometry"}, <<Exposure(A, on)>>, v, v)
             /\ Latest({"Exposure"}, <<Exposure(A, on)>>, v, on)
  <2> DEFINE e == Exposure(A, on)
  <2>1. e.type = "Exposure" /\ Says(e) = on
    BY DEF Exposure, Says
  <2> HIDE DEF e
  <2>2. \A T : Latest(T, <<e>>, v, IF e.type \in T THEN Says(e) ELSE v)
    BY <1>1
  <2>3. e.type \notin {"Geometry"} /\ e.type \in {"Exposure"}
    BY <2>1
  <2>4. /\ Latest({"Geometry"}, <<e>>, v, IF e.type \in {"Geometry"} THEN Says(e) ELSE v)
        /\ Latest({"Exposure"}, <<e>>, v, IF e.type \in {"Exposure"} THEN Says(e) ELSE v)
    BY <2>2
  <2> QED BY <2>1, <2>3, <2>4 DEF e
<1> QED BY <1>2, <1>3, LatestOfNone

\* A compressed ConfigureNotify, and a request: Qt hears of neither.
LEMMA SilentKeepsCurrent ==
    ASSUME Inv, Current, queue # <<>>, NEW e, e = Head(queue),
           e.type = "Sync" \/ compressEvent(e, Tail(queue)),
           queue' = Tail(queue), UNCHANGED <<server, wire, app, wsi>>,
           window'.m_exposeRegion = window.m_exposeRegion,
           window'.m_mapped = window.m_mapped, window'.geometry = window.geometry
    PROVE  Current'
<1>1. e.type # "Expose" /\ e.type \notin Mapping
  BY DEF compressEvent, Mapping
<1>2. e.type \notin Sized \/ Has(Sized, Tail(queue))
  BY DEF compressEvent, Sized, Has, Events
<1> DEFINE none == <<>>
<1>3. none \in Seq(WindowSystemEvent) /\ wsi' = wsi \o none
  <2>1. wsi \in Seq(WindowSystemEvent)
    BY FieldTypes
  <2> QED BY <2>1
<1>4. /\ Latest({"Geometry"}, none, window.geometry, window'.geometry)
      /\ \A v : Latest({"Exposure"}, none, v, v)
  BY LatestOfEvents
<1> HIDE DEF none
<1>5. UNCHANGED <<server, wire, app>>
  OBVIOUS
<1> QED BY <1>1, <1>2, <1>3, <1>4, <1>5, HandlerKeepsCurrent

LEMMA ConfigureKeepsCurrent ==
    ASSUME Inv, Current, queue # <<>>, NEW e, e = Head(queue), e.type = "Configure",
           handleConfigureNotifyEvent(e, Tail(queue)), UNCHANGED <<server, wm, wire, app>>
    PROVE  Current'
<1> DEFINE shrunk == window.m_oldWindowSize # 0 /\ e.size < window.m_oldWindowSize
           extra == IF shrunk THEN <<Exposure(Pixels(e.size), window.m_mapped)>> ELSE <<>>
           geo == <<Geometry(e.size)>>
<1>1. /\ queue' = Tail(queue) /\ wsi' = wsi \o geo \o extra
      /\ window' = [window EXCEPT !.m_oldWindowSize = e.size, !.geometry = e.size,
                       !.m_syncState = IF @ = "SyncReceived" THEN "SyncAndConfigureReceived" ELSE @]
  BY DEF handleConfigureNotifyEvent
<1>2. e \in Message /\ e.size \in 1 .. MaxSize
  <2>1. e \in Message
    BY FirstEvent
  <2> QED BY <2>1 DEF Message
<1>3. window \in Window /\ wsi \in Seq(WindowSystemEvent) /\ Pixels(e.size) \in SUBSET Pixels(MaxSize)
  BY <1>2, FieldTypes DEF Pixels
<1>4. /\ window'.geometry = e.size /\ window'.m_mapped = window.m_mapped
      /\ window'.m_exposeRegion = window.m_exposeRegion
  BY <1>1, <1>3 DEF Window
<1>5. window.m_mapped \in BOOLEAN
  BY <1>3 DEF Window
<1>6. geo \in Seq(WindowSystemEvent) /\ extra \in Seq(WindowSystemEvent)
  <2>1. Geometry(e.size) \in WindowSystemEvent /\ Exposure(Pixels(e.size), window.m_mapped) \in WindowSystemEvent
    BY <1>2, <1>3, <1>5, WindowSystemEvents
  <2> QED BY <2>1
<1>7. \A v : Latest({"Geometry"}, geo, v, e.size) /\ Latest({"Exposure"}, geo, v, v)
  BY <1>2, LatestOfEvents
<1>8. \A v : /\ Latest({"Geometry"}, extra, v, v)
             /\ Latest({"Exposure"}, extra, v, IF shrunk THEN window.m_mapped ELSE v)
  <2>1. CASE shrunk
    <3>1. extra = <<Exposure(Pixels(e.size), window.m_mapped)>>
      BY <2>1
    <3>2. \A v : /\ Latest({"Geometry"}, <<Exposure(Pixels(e.size), window.m_mapped)>>, v, v)
                 /\ Latest({"Exposure"}, <<Exposure(Pixels(e.size), window.m_mapped)>>, v, window.m_mapped)
      BY <1>3, <1>5, LatestOfEvents
    <3> HIDE DEF extra
    <3> QED BY <2>1, <3>1, <3>2
  <2>2. CASE ~shrunk
    <3>1. extra = <<>>
      BY <2>2
    <3> HIDE DEF extra, shrunk
    <3> QED BY <2>2, <3>1, LatestOfEvents
  <2> QED BY <2>1, <2>2
<1> HIDE DEF extra, geo
<1> DEFINE es == geo \o extra
<1>9. es \in Seq(WindowSystemEvent) /\ wsi' = wsi \o es
  <2>1. (wsi \o geo) \o extra = wsi \o (geo \o extra)
    BY <1>3, <1>6, ConcatAssociative
  <2> QED BY <1>1, <1>6, <2>1
<1>10. \A v : /\ Latest({"Geometry"}, es, v, e.size)
              /\ Latest({"Exposure"}, es, v, IF shrunk THEN window.m_mapped ELSE v)
  BY <1>6, <1>7, <1>8, LatestJoins
<1> HIDE DEF es
<1>11. \/ \A v : Latest({"Exposure"}, es, v, v)
       \/ \A v : Latest({"Exposure"}, es, v, window'.m_mapped)
  BY <1>4, <1>10
<1>12. /\ e.type # "Expose" /\ e.type \notin Mapping /\ e.type \in Sized /\ Says(e) = e.size
  BY DEF Mapping, Sized, Says
<1>13. Latest({"Geometry"}, es, window.geometry, window'.geometry)
  BY <1>4, <1>10
<1>14. UNCHANGED <<server, wire, app>>
  OBVIOUS
<1> QED BY <1>1, <1>4, <1>9, <1>11, <1>12, <1>13, <1>14, HandlerKeepsCurrent

LEMMA MappingKeepsCurrent ==
    ASSUME Inv, Current, queue # <<>>, NEW e, e = Head(queue), e.type \in Mapping,
           NEW A \in SUBSET Pixels(MaxSize), NEW on \in BOOLEAN, on = (e.type = "Map"),
           SendExposure(A, on), window' = [window EXCEPT !.m_mapped = on],
           queue' = Tail(queue), UNCHANGED <<server, wm, wire, app>>
    PROVE  Current'
<1>1. window \in Window /\ wsi \in Seq(WindowSystemEvent) /\ e \in Message
  BY FieldTypes, FirstEvent
<1>2. /\ window'.m_mapped = on /\ window'.geometry = window.geometry
      /\ window'.m_exposeRegion = window.m_exposeRegion
  BY <1>1 DEF Window
<1>3. Says(e) = on /\ e.type \notin Sized /\ e.type # "Expose"
  <2>1. Says(e) = (e.type = "Map")
    BY <1>1, NewsAreTyped
  <2>2. e.type \notin Sized /\ e.type # "Expose"
    BY DEF Mapping, Sized
  <2> QED BY <2>1, <2>2
<1> DEFINE x == Exposure(A, on)
           es == <<x>>
<1>4. x \in WindowSystemEvent
  BY WindowSystemEvents
<1>5. \A v : Latest({"Geometry"}, es, v, v) /\ Latest({"Exposure"}, es, v, on)
  BY LatestOfEvents
<1>6. wsi' = Append(wsi, x)
  BY DEF SendExposure
<1> HIDE DEF x
<1>7. es \in Seq(WindowSystemEvent) /\ wsi' = wsi \o es
  <2>1. Append(wsi, x) = wsi \o <<x>>
    BY <1>1, <1>4, AppendIsConcat
  <2> QED BY <1>4, <1>6, <2>1
<1> HIDE DEF es
<1>8. /\ Latest({"Geometry"}, es, window.geometry, window'.geometry)
      /\ \A v : Latest({"Exposure"}, es, v, window'.m_mapped)
  BY <1>2, <1>5
<1>9. UNCHANGED <<server, wire, app>>
  OBVIOUS
<1> QED BY <1>2, <1>3, <1>7, <1>8, <1>9, HandlerKeepsCurrent

\* handleExposeEvent(): the Expose events of the queue become one region, and
\* the others keep their order.
LEMMA ExposeKeepsCurrent ==
    ASSUME Inv, Current, queue # <<>>, NEW e, e = Head(queue), e.type = "Expose",
           handleExposeEvent(e, Tail(queue)), UNCHANGED <<server, wm, wire, app>>
    PROVE  Current'
<1> DEFINE rest == Tail(queue)
           region == window.m_exposeRegion \cup e.region \cup Regions("Expose", rest)
           done == e.count = 0 \/ \E i \in Events("Expose", rest) : rest[i].count = 0
           x == Exposure(region, window.m_mapped)
<1>1. /\ wire \in Seq(Message) /\ queue \in Seq(Message) /\ wsi \in Seq(WindowSystemEvent)
      /\ window \in Window /\ e \in Message /\ rest \in Seq(Message)
  BY FieldTypes, FirstEvent
<1>2. /\ queue' \in Others(rest)
      /\ done => wsi' = Append(wsi, x) /\ window' = [window EXCEPT !.m_exposeRegion = {}]
      /\ ~done => wsi' = wsi /\ window' = [window EXCEPT !.m_exposeRegion = region]
  BY DEF handleExposeEvent, SendExposure
<1>3. PICK p \in Others(rest) : queue' = p
  BY <1>2
<1>4. region \in SUBSET Pixels(MaxSize) /\ window.m_mapped \in BOOLEAN
  <2>1. e.region \in SUBSET Pixels(MaxSize)
    BY <1>1 DEF Message
  <2> QED BY <1>1, <2>1, RegionsAreTyped DEF Window
<1>5. /\ x \in WindowSystemEvent /\ x.type = "Exposure" /\ x.region = region /\ Says(x) = window.m_mapped
  <2>1. x \in WindowSystemEvent
    BY <1>4, WindowSystemEvents
  <2> QED BY <2>1 DEF Exposure, Says
<1>6. /\ p \in Seq(Message) /\ \A i \in 1 .. Len(p) : p[i].type # "Expose"
      /\ \A T, v, w : "Expose" \notin T /\ Latest(T, queue, v, w) => Latest(T, p, v, w)
      /\ \A T : "Expose" \notin T /\ Has(T, queue) => Has(T, p)
  <2>1. p \in Seq(Message) /\ \A i \in 1 .. Len(p) : p[i].type # "Expose"
    BY <1>1, OthersAreInOrder
  <2>2. \A T, v, w : "Expose" \notin T /\ Latest(T, queue, v, w) => Latest(T, rest, v, w)
    BY <1>1, LatestTail
  <2>3. \A T : "Expose" \notin T /\ Has(T, queue) => Has(T, rest)
    BY <1>1, HasTail
  <2> HIDE DEF rest
  <2>4. ASSUME NEW T, "Expose" \notin T
        PROVE  /\ \A v, w : Latest(T, rest, v, w) => Latest(T, p, v, w)
               /\ Has(T, rest) => Has(T, p)
    BY <1>1, <2>4, LatestOfOthers
  <2> QED BY <2>1, <2>2, <2>3, <2>4
<1>7. Regions("Expose", queue) = e.region \cup Regions("Expose", rest)
  BY <1>1, RegionsOfTail
<1>8. ~done => Ends(wire)
  <2>1. CountsDown(queue, Ends(wire)) /\ Ends(wire) \in BOOLEAN
    BY DEF Current, Groups, Ends
  <2>2. Head(queue).type = "Expose" /\ Head(queue).count # 0 => Ends(wire) \/ Ends(rest)
    BY <1>1, <2>1, EndsOfTail
  <2>3. Ends(rest) => done
    BY DEF Ends, Events
  <2> QED BY <2>2, <2>3
<1> HIDE DEF rest, region, done, x
<1>9. /\ window'.geometry = window.geometry /\ window'.m_mapped = window.m_mapped
      /\ done => window'.m_exposeRegion = {}
      /\ ~done => window'.m_exposeRegion = region
  BY <1>1, <1>2 DEF Window
<1>10. /\ \A v, w : Latest({"Geometry"}, wsi, v, w) => Latest({"Geometry"}, wsi', v, w)
       /\ \A v, w : Latest({"Exposure"}, wsi, v, w)
             => Latest({"Exposure"}, wsi', v, IF done THEN window.m_mapped ELSE w)
       /\ Regions("Exposure", wsi) \subseteq Regions("Exposure", wsi')
       /\ done => region \subseteq Regions("Exposure", wsi')
  <2>1. CASE done
    <3>1. wsi' = Append(wsi, x)
      BY <1>2, <2>1
    <3>2. \A T, v, w : Latest(T, wsi, v, w) => Latest(T, Append(wsi, x), v, IF x.type \in T THEN Says(x) ELSE w)
      BY <1>1, <1>5, LatestAppend
    <3>3. /\ Regions("Exposure", wsi) \subseteq Regions("Exposure", Append(wsi, x))
          /\ region \subseteq Regions("Exposure", Append(wsi, x))
      BY <1>1, <1>5, RegionsOfAppend
    <3> DEFINE a == Append(wsi, x)
    <3> HIDE DEF a
    <3>4. x.type \notin {"Geometry"} /\ x.type \in {"Exposure"}
      BY <1>5
    <3>5. \A v, w : Latest({"Geometry"}, wsi, v, w) => Latest({"Geometry"}, a, v, w)
      BY <3>2, <3>4 DEF a
    <3>6. \A v, w : Latest({"Exposure"}, wsi, v, w) => Latest({"Exposure"}, a, v, window.m_mapped)
      BY <1>5, <3>2, <3>4 DEF a
    <3> QED BY <2>1, <3>1, <3>3, <3>5, <3>6 DEF a
  <2>2. CASE ~done
    <3>1. wsi' = wsi
      BY <1>2, <2>2
    <3> QED BY <2>2, <3>1
  <2> QED BY <2>1, <2>2
<1>11. Sizes'
  <2>1. "Expose" \notin Sized
    BY DEF Sized
  <2> QED BY <1>3, <1>6, <1>9, <1>10, <2>1 DEF Current, Sizes
<1>12. Maps'
  <2>1. "Expose" \notin Mapping
    BY DEF Mapping
  <2>2. PICK u \in BOOLEAN : /\ Latest(Mapping, queue, window.m_mapped, u)
                             /\ Latest(Mapping, wire, u, server.mapped)
    BY DEF Current, Maps
  <2>3. PICK y \in BOOLEAN : /\ Latest({"Exposure"}, wsi, app.exposed, y)
                             /\ y = window.m_mapped \/ Has(Mapping, queue) \/ Has(Mapping, wire)
    BY DEF Current, Maps
  <2> DEFINE z == IF done THEN window.m_mapped ELSE y
  <2>4. /\ z \in BOOLEAN /\ Latest({"Exposure"}, wsi', app.exposed, z)
        /\ z = window.m_mapped \/ Has(Mapping, p) \/ Has(Mapping, wire)
    BY <1>4, <1>6, <1>10, <2>1, <2>3
  <2>5. Latest(Mapping, p, window.m_mapped, u)
    BY <1>6, <2>1, <2>2
  <2> HIDE DEF z
  <2> QED BY <1>3, <1>9, <2>2, <2>4, <2>5 DEF Maps
<1>13. Groups'
  <2>1. CountsDown(p, Ends(wire))
    BY <1>6 DEF CountsDown
  <2>2. window'.m_exposeRegion # {} => Ends(wire)
    BY <1>8, <1>9
  <2>3. CountsDown(wire, FALSE)
    BY DEF Current, Groups
  <2> QED BY <1>3, <2>1, <2>2, <2>3 DEF Groups
<1>14. Known \subseteq Known'
  <2>1. window.m_exposeRegion \cup Regions("Expose", queue) \subseteq region
    BY <1>7 DEF region
  <2> QED BY <1>3, <1>9, <1>10, <2>1 DEF Known
<1>15. Damage' /\ Frames'
  BY <1>14 DEF Current, Damage, Frames
<1> QED BY <1>11, <1>12, <1>13, <1>15 DEF Current

LEMMA EventKeepsCurrent == ASSUME Inv, Current, processXcbEvents PROVE Current'
<1> DEFINE e == Head(queue)
           rest == Tail(queue)
<1>1. queue # <<>> /\ UNCHANGED <<server, wm, wire, app>>
  BY DEF processXcbEvents
<1>2. window \in Window
  BY FieldTypes
<1>3. CASE compressEvent(e, rest) /\ queue' = rest /\ UNCHANGED <<window, wsi, configured>>
  BY <1>1, <1>3, SilentKeepsCurrent
<1>4. CASE e.type = "Configure" /\ handleConfigureNotifyEvent(e, rest)
  BY <1>1, <1>4, ConfigureKeepsCurrent
<1>5. CASE e.type = "Expose" /\ handleExposeEvent(e, rest)
  BY <1>1, <1>5, ExposeKeepsCurrent
<1>6. CASE e.type = "Sync" /\ handleClientMessageEvent(e, rest)
  <2>1. /\ queue' = rest /\ wsi' = wsi
        /\ window' = [window EXCEPT !.m_syncValue = e.value, !.m_syncState = "SyncReceived"]
    BY <1>6 DEF handleClientMessageEvent
  <2>2. /\ window'.m_exposeRegion = window.m_exposeRegion
        /\ window'.m_mapped = window.m_mapped /\ window'.geometry = window.geometry
    BY <1>2, <2>1 DEF Window
  <2> QED BY <1>1, <1>6, <2>1, <2>2, SilentKeepsCurrent
<1>7. CASE e.type = "Map" /\ handleMapNotifyEvent(rest)
  <2>1. /\ SendExposure(Pixels(window.geometry), TRUE) /\ queue' = rest
        /\ window' = [window EXCEPT !.m_mapped = TRUE]
    BY <1>7 DEF handleMapNotifyEvent
  <2>2. Pixels(window.geometry) \in SUBSET Pixels(MaxSize)
    BY <1>2, FrameAssumption DEF Window, Pixels
  <2>3. e.type \in Mapping /\ TRUE = (e.type = "Map")
    BY <1>7 DEF Mapping
  <2> HIDE DEF e
  <2> QED BY <1>1, <2>1, <2>2, <2>3, MappingKeepsCurrent DEF e
<1>8. CASE e.type = "Unmap" /\ handleUnmapNotifyEvent(rest)
  <2>1. /\ SendExposure({}, FALSE) /\ queue' = rest
        /\ window' = [window EXCEPT !.m_mapped = FALSE]
    BY <1>8 DEF handleUnmapNotifyEvent
  <2>2. {} \in SUBSET Pixels(MaxSize)
    OBVIOUS
  <2>3. e.type \in Mapping /\ FALSE = (e.type = "Map")
    BY <1>8 DEF Mapping
  <2> HIDE DEF e
  <2> QED BY <1>1, <2>1, <2>2, <2>3, MappingKeepsCurrent DEF e
<1> QED BY <1>3, <1>4, <1>5, <1>6, <1>7, <1>8 DEF processXcbEvents

LEMMA DeliverKeepsCurrent == ASSUME Inv, Current, Deliver PROVE Current'
<1> DEFINE e == Head(wsi)
           t == Tail(wsi)
<1>1. wsi # <<>> /\ wsi' = t /\ UNCHANGED <<server, wm, wire, queue, window, configured>>
  BY DEF Deliver
<1>2. /\ wsi \in Seq(WindowSystemEvent) /\ server.damaged \subseteq Pixels(MaxSize)
      /\ app \in [size : 1 .. MaxSize, exposed : BOOLEAN, dirty : SUBSET Pixels(MaxSize)]
      /\ MaxSize \in Nat
  BY FieldTypes
<1>3. e \in WindowSystemEvent
  BY <1>1, <1>2
<1>4. \A T, v, w : Latest(T, wsi, v, w) => Latest(T, t, IF e.type \in T THEN Says(e) ELSE v, w)
  BY <1>1, <1>2, LatestTail
<1>5. /\ e.type = "Exposure" => Regions("Exposure", wsi) = e.region \cup Regions("Exposure", t)
      /\ e.type # "Exposure" => Regions("Exposure", wsi) = Regions("Exposure", t)
  BY <1>1, <1>2, RegionsOfTail
<1>6. CASE /\ e.type = "Geometry"
           /\ app' = [app EXCEPT !.size = e.size,
                                 !.dirty = IF e.size = app.size THEN @ ELSE Pixels(e.size)]
  <2>1. /\ app'.size = e.size /\ app'.exposed = app.exposed /\ Says(e) = e.size /\ e.size \in 1 .. MaxSize
        /\ app'.dirty = IF e.size = app.size THEN app.dirty ELSE Pixels(e.size)
    BY <1>2, <1>3, <1>6, NewsAreTyped
  <2>2. "Geometry" \in {"Geometry"} /\ "Geometry" \notin {"Exposure"}
    OBVIOUS
  <2> HIDE DEF e, t
  <2>3. /\ \A v, w : Latest({"Geometry"}, wsi, v, w) => Latest({"Geometry"}, t, e.size, w)
        /\ \A v, w : Latest({"Exposure"}, wsi, v, w) => Latest({"Exposure"}, t, v, w)
    <3>1. ASSUME NEW v, NEW w, Latest({"Geometry"}, wsi, v, w) PROVE Latest({"Geometry"}, t, e.size, w)
      <4>1. Latest({"Geometry"}, t, IF e.type \in {"Geometry"} THEN Says(e) ELSE v, w)
        BY <1>4, <3>1
      <4> QED BY <1>6, <2>1, <4>1
    <3>2. ASSUME NEW v, NEW w, Latest({"Exposure"}, wsi, v, w) PROVE Latest({"Exposure"}, t, v, w)
      <4>1. Latest({"Exposure"}, t, IF e.type \in {"Exposure"} THEN Says(e) ELSE v, w)
        BY <1>4, <3>2
      <4> QED BY <1>6, <2>2, <4>1
    <3> QED BY <3>1, <3>2
  <2>4. Sizes' /\ Maps' /\ Groups'
    <3>1. Sizes'
      BY <1>1, <2>1, <2>3 DEF Current, Sizes
    <3>2. Maps'
      BY <1>1, <2>1, <2>3 DEF Current, Maps
    <3>3. Groups'
      BY <1>1 DEF Current, Groups
    <3> QED BY <3>1, <3>2, <3>3
  <2>5. ASSUME NEW p \in server.damaged, p \in Known \/ app.size < p PROVE p \in Known' \/ app'.size < p
    <3>1. p \in Int /\ 1 <= p /\ e.size \in Int
      BY <1>2, <2>1 DEF Pixels
    <3>2. CASE e.size = app.size
      BY <1>1, <1>5, <1>6, <2>1, <2>5, <3>2 DEF Known
    <3>3. CASE e.size # app.size
      <4>1. p \in app'.dirty \/ app'.size < p
        BY <2>1, <3>1, <3>3 DEF Pixels
      <4> QED BY <4>1 DEF Known
    <3> QED BY <3>2, <3>3
  <2>6. Damage'
    BY <1>1, <2>5 DEF Current, Damage
  <2>7. Frames'
    <3>1. 1 \in Pixels(e.size)
      BY <2>1 DEF Pixels
    <3> QED BY <1>1, <2>1, <3>1 DEF Current, Frames
  <2> QED BY <2>4, <2>6, <2>7 DEF Current
<1>7. CASE /\ e.type = "Exposure"
           /\ app' = [app EXCEPT !.exposed = e.exposed, !.dirty = @ \cup e.region]
  <2>1. /\ app'.size = app.size /\ app'.exposed = e.exposed /\ Says(e) = e.exposed
        /\ app'.dirty = app.dirty \cup e.region
    BY <1>2, <1>3, <1>7, NewsAreTyped
  <2>2. "Exposure" \in {"Exposure"} /\ "Exposure" \notin {"Geometry"}
    OBVIOUS
  <2> HIDE DEF e, t
  <2>3. /\ \A v, w : Latest({"Exposure"}, wsi, v, w) => Latest({"Exposure"}, t, e.exposed, w)
        /\ \A v, w : Latest({"Geometry"}, wsi, v, w) => Latest({"Geometry"}, t, v, w)
    <3>1. ASSUME NEW v, NEW w, Latest({"Exposure"}, wsi, v, w) PROVE Latest({"Exposure"}, t, e.exposed, w)
      <4>1. Latest({"Exposure"}, t, IF e.type \in {"Exposure"} THEN Says(e) ELSE v, w)
        BY <1>4, <3>1
      <4> QED BY <1>7, <2>1, <4>1
    <3>2. ASSUME NEW v, NEW w, Latest({"Geometry"}, wsi, v, w) PROVE Latest({"Geometry"}, t, v, w)
      <4>1. Latest({"Geometry"}, t, IF e.type \in {"Geometry"} THEN Says(e) ELSE v, w)
        BY <1>4, <3>2
      <4> QED BY <1>7, <2>2, <4>1
    <3> QED BY <3>1, <3>2
  <2>4. Sizes'
    BY <1>1, <2>1, <2>3 DEF Current, Sizes
  <2>5. Maps'
    BY <1>1, <2>1, <2>3 DEF Current, Maps
  <2>6. Groups'
    BY <1>1 DEF Current, Groups
  <2>7. Known \subseteq Known'
    BY <1>1, <1>5, <1>7, <2>1 DEF Known
  <2>8. Damage' /\ Frames'
    BY <1>1, <2>1, <2>7 DEF Current, Damage, Frames
  <2> QED BY <2>4, <2>5, <2>6, <2>8 DEF Current
<1> QED BY <1>6, <1>7 DEF Deliver

LEMMA PaintKeepsCurrent == ASSUME Inv, Current, Paint PROVE Current'
<1> DEFINE clipped == app.dirty \cap Pixels(app.size)
<1>1. /\ UNCHANGED <<wm, wire, queue, wsi, configured>>
      /\ app' = [app EXCEPT !.dirty = {}] /\ flush(app.dirty)
  BY DEF Paint
<1>2. /\ server \in [size : 1 .. MaxSize, mapped : BOOLEAN, damaged : SUBSET Pixels(MaxSize),
                     counter : 0 .. MaxChanges, frame : 0 .. MaxSize]
      /\ window \in Window /\ MaxSize \in Nat
      /\ app \in [size : 1 .. MaxSize, exposed : BOOLEAN, dirty : SUBSET Pixels(MaxSize)]
  BY FieldTypes
<1>3. /\ app'.size = app.size /\ app'.exposed = app.exposed /\ app'.dirty = {}
      /\ app.size \in 1 .. MaxSize
  BY <1>1, <1>2
<1> HIDE DEF clipped
<1>4. /\ server'.size = server.size /\ server'.mapped = server.mapped
      /\ server'.damaged = server.damaged \ clipped
      /\ clipped = {} => server'.frame = server.frame
      /\ clipped # {} => server'.frame = app.size
      /\ window'.geometry = window.geometry /\ window'.m_mapped = window.m_mapped
      /\ window'.m_exposeRegion = window.m_exposeRegion
  <2>1. CASE clipped = {}
    <3>1. server' = server /\ window' = window
      BY <1>1, <2>1 DEF flush, clipped
    <3> QED BY <2>1, <3>1
  <2>2. CASE clipped # {}
    <3>1. /\ server' = [server EXCEPT !.damaged = @ \ clipped, !.frame = app.size,
                                     !.counter = IF Answers THEN window.m_syncValue ELSE @]
          /\ window' = IF Answers THEN [window EXCEPT !.m_syncValue = 0, !.m_syncState = "NoSyncNeeded"]
                       ELSE window
      BY <1>1, <2>2 DEF flush, clipped
    <3>2. /\ server'.size = server.size /\ server'.mapped = server.mapped
          /\ server'.damaged = server.damaged \ clipped /\ server'.frame = app.size
      BY <1>2, <3>1
    <3>3. /\ window'.geometry = window.geometry /\ window'.m_mapped = window.m_mapped
          /\ window'.m_exposeRegion = window.m_exposeRegion
      BY <1>2, <3>1 DEF Window
    <3> QED BY <2>2, <3>2, <3>3
  <2> QED BY <2>1, <2>2
<1>5. Sizes' /\ Maps'
  BY <1>1, <1>3, <1>4 DEF Current, Sizes, Maps
<1>6. Groups'
  BY <1>1, <1>4 DEF Current, Groups
<1>7. ASSUME NEW p \in server'.damaged, p \in Known \/ app.size < p PROVE p \in Known' \/ app'.size < p
  <2>1. CASE p \in app.dirty
    <3>1. p \notin Pixels(app.size) /\ p \in Pixels(MaxSize)
      BY <1>2, <1>4, <1>7, <2>1 DEF clipped
    <3>2. app.size < p
      BY <1>2, <1>3, <3>1 DEF Pixels
    <3> QED BY <1>3, <3>2
  <2>2. CASE p \notin app.dirty
    BY <1>1, <1>3, <1>4, <1>7, <2>2 DEF Known
  <2> QED BY <2>1, <2>2
<1>8. Damage'
  <2>1. server'.mapped => \A p \in server'.damaged : p \in Known \/ app.size < p
    BY <1>4 DEF Current, Damage
  <2>2. server'.mapped => \A p \in server'.damaged : p \in Known' \/ app'.size < p
    BY <1>7, <2>1
  <2> QED BY <1>4, <2>2 DEF Current, Damage
<1>9. Frames'
  <2>1. 1 \in Pixels(app.size)
    BY <1>3 DEF Pixels
  <2> QED BY <1>3, <1>4, <2>1 DEF Current, Frames, clipped
<1> QED BY <1>5, <1>6, <1>8, <1>9 DEF Current
-----------------------------------------------------------------------------
(* The theorems about what is shown.                                       *)

LEMMA InitIsCurrent == Init => Current
<1> SUFFICES ASSUME Init PROVE Current
  OBVIOUS
<1>1. \A T, v : Latest(T, <<>>, v, v)
  BY LatestOfNone
<1>2. /\ wire = <<>> /\ queue = <<>> /\ wsi = <<>>
      /\ server.size = 1 /\ server.mapped = FALSE /\ server.damaged = {}
      /\ window.geometry = 1 /\ window.m_mapped = FALSE /\ window.m_exposeRegion = {}
      /\ app.size = 1 /\ app.exposed = FALSE
  BY DEF Init
<1>3. Sizes
  <2>1. 1 \in 1 .. MaxSize
    BY FrameAssumption
  <2> QED BY <1>1, <1>2, <2>1 DEF Sizes
<1>4. Maps
  BY <1>1, <1>2 DEF Maps
<1>5. Groups
  BY <1>2 DEF Groups, CountsDown
<1>6. Damage /\ Frames
  BY <1>2 DEF Damage, Frames
<1> QED BY <1>3, <1>4, <1>5, <1>6 DEF Current

LEMMA StepKeepsCurrent == Inv /\ Current /\ [Next]_vars => Current'
<1> SUFFICES ASSUME Inv, Current, [Next]_vars PROVE Current'
  OBVIOUS
<1>1. CASE SyncRequest
  BY <1>1, SyncRequestKeepsCurrent
<1>2. CASE \E s \in 1 .. MaxSize : ConfigureWindow(s)
  BY <1>2, ConfigureWindowKeepsCurrent
<1>3. CASE \E A \in SUBSET Pixels(server.size) : Uncover(A)
  BY <1>3, UncoverKeepsCurrent
<1>4. CASE Deiconify \/ show
  BY <1>4, MapWindowKeepsCurrent DEF Deiconify, show
<1>5. CASE Iconify
  BY <1>5, UnmapWindowKeepsCurrent DEF Iconify
<1>6. CASE hide
  BY <1>6, UnmapWindowKeepsCurrent DEF hide
<1>7. CASE Publish
  BY <1>7, PublishKeepsCurrent
<1>8. CASE processXcbEvents
  BY <1>8, EventKeepsCurrent
<1>9. CASE Deliver
  BY <1>9, DeliverKeepsCurrent
<1>10. CASE Paint
  BY <1>10, PaintKeepsCurrent
<1>11. CASE UNCHANGED vars
  <2>1. UNCHANGED <<server, wm, wire, queue, window, wsi, app, configured>>
    BY <1>11 DEF vars
  <2> QED BY <2>1 DEF Current, Sizes, Maps, Groups, Damage, Frames, Known
<1> QED
  BY <1>1, <1>2, <1>3, <1>4, <1>5, <1>6, <1>7, <1>8, <1>9, <1>10, <1>11 DEF Next

LEMMA KeptDamage == Inv /\ Current => DamageIsKept
<1> SUFFICES ASSUME Inv, Current PROVE DamageIsKept
  OBVIOUS
<1>1. /\ wire \in Seq(Message) /\ queue \in Seq(Message) /\ wsi \in Seq(WindowSystemEvent)
      /\ server.size \in Nat /\ app.size \in Nat
  BY FieldTypes
<1>2. ASSUME server.mapped, ~ToBeResized PROVE server.damaged \subseteq Known
  <2>1. /\ \A i \in 1 .. Len(wire) : wire[i].type = "Configure" => wire[i].size = app.size
        /\ \A i \in 1 .. Len(queue) : queue[i].type = "Configure" => queue[i].size = app.size
        /\ \A i \in 1 .. Len(wsi) : wsi[i].type = "Geometry" => wsi[i].size = app.size
    BY <1>2 DEF ToBeResized, Events
  <2>2. /\ \A i \in 1 .. Len(wire) : wire[i].type \in Sized => Says(wire[i]) = app.size
        /\ \A i \in 1 .. Len(queue) : queue[i].type \in Sized => Says(queue[i]) = app.size
        /\ \A i \in 1 .. Len(wsi) : wsi[i].type \in {"Geometry"} => Says(wsi[i]) = app.size
    BY <2>1 DEF Sized, Says
  <2>3. PICK u \in 1 .. MaxSize : /\ Latest(Sized, queue, window.geometry, u)
                                  /\ Latest(Sized, wire, u, server.size)
    BY DEF Current, Sizes
  <2>4. window.geometry = app.size
    <3>1. Latest({"Geometry"}, wsi, app.size, window.geometry)
      BY DEF Current, Sizes
    <3> QED BY <1>1, <2>2, <3>1, LatestOfSame
  <2>5. u = app.size
    <3>1. Latest(Sized, queue, app.size, u)
      BY <2>3, <2>4
    <3> QED BY <1>1, <2>2, <3>1, LatestOfSame
  <2>6. server.size = app.size
    <3>1. Latest(Sized, wire, app.size, server.size)
      BY <2>3, <2>5
    <3> QED BY <1>1, <2>2, <3>1, LatestOfSame
  <2>7. ASSUME NEW p \in server.damaged PROVE p \in Known
    <3>1. p \in Known \/ app.size < p
      BY <1>2 DEF Current, Damage
    <3>2. p \in Pixels(app.size)
      BY <2>6 DEF Current, Damage
    <3>3. ~(app.size < p)
      BY <1>1, <3>2 DEF Pixels
    <3> QED BY <3>1, <3>3
  <2> QED BY <2>7
<1>3. window.m_exposeRegion # {} => \E q \in {wire, queue} : \E i \in Events("Expose", q) : q[i].count = 0
  <2>1. Ends(wire) => \E i \in Events("Expose", wire) : wire[i].count = 0
    BY DEF Ends, Events
  <2>2. Ends(queue) => \E i \in Events("Expose", queue) : queue[i].count = 0
    BY DEF Ends, Events
  <2> QED BY <2>1, <2>2 DEF Current, Groups
<1> QED BY <1>2, <1>3 DEF DamageIsKept, Known

LEMMA CurrentAtRest == Inv /\ Current => RestIsCurrent
<1> SUFFICES ASSUME Inv, Current, wire = <<>>, queue = <<>>, wsi = <<>>
             PROVE  /\ app.size = server.size
                    /\ window.m_mapped = server.mapped /\ app.exposed = server.mapped
                    /\ server.mapped /\ app.dirty = {}
                         => server.damaged = {} /\ server.frame = server.size
  BY DEF RestIsCurrent
<1>1. app.size = server.size
  BY LatestOfNone DEF Current, Sizes
<1>2. window.m_mapped = server.mapped
  BY LatestOfNone DEF Current, Maps
<1>3. app.exposed = server.mapped
  <2>1. ~Has(Mapping, <<>>)
    BY DEF Has
  <2> QED BY <1>2, <2>1, LatestOfNone DEF Current, Maps
<1>4. ASSUME server.mapped, app.dirty = {} PROVE server.damaged = {} /\ server.frame = server.size
  <2>1. window.m_exposeRegion = {}
    <3>1. ~Ends(<<>>)
      BY DEF Ends
    <3> QED BY <3>1 DEF Current, Groups
  <2>2. Known = {}
    <3>1. \A t : Regions(t, <<>>) = {}
      BY DEF Regions, Events
    <3> QED BY <1>4, <2>1, <3>1 DEF Known
  <2>3. ASSUME NEW p \in server.damaged PROVE FALSE
    <3>1. app.size < p
      BY <1>4, <2>2 DEF Current, Damage
    <3>2. p \in Pixels(app.size) /\ app.size \in Nat
      BY <1>1, FieldTypes DEF Current, Damage
    <3> QED BY <3>1, <3>2 DEF Pixels
  <2>4. server.damaged = {}
    BY <2>3
  <2> QED BY <1>1, <1>4, <2>4 DEF Current, Frames
<1> QED BY <1>1, <1>2, <1>3, <1>4

\* No part of the window stays blank.  Every pixel the server has lost is
\* announced by an Expose event on the wire or in the queue, is in the region
\* handleExposeEvent() accumulates, in a window system event or in what the
\* application has still to paint, unless a resize is coming that repaints the
\* whole window; and an accumulated region waits for the last event of its
\* group, which is on its way.
THEOREM NothingStaysBlank == Spec => []DamageIsKept
<1>1. Inv /\ Current /\ [Next]_vars => (Inv /\ Current)'
  BY StepKeeps, StepKeepsCurrent
<1>2. Init => Inv /\ Current
  BY InitHolds, InitIsCurrent
<1> QED BY <1>1, <1>2, KeptDamage, PTL DEF Spec

\* Once the wire, the event queue and Qt's queue are empty, QXcbWindow and the
\* QWindow have the size and the state the window has at the server, and an
\* application that has painted all it was asked to shows a whole frame of
\* that size: no compressed ConfigureNotify, no overtaking Expose event and no
\* hide() before its UnmapNotify leaves an old answer behind.
THEOREM RestShowsTheWindow == Spec => []RestIsCurrent
<1>1. Inv /\ Current /\ [Next]_vars => (Inv /\ Current)'
  BY StepKeeps, StepKeepsCurrent
<1>2. Init => Inv /\ Current
  BY InitHolds, InitIsCurrent
<1> QED BY <1>1, <1>2, CurrentAtRest, PTL DEF Spec
=============================================================================
