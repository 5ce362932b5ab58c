------------------------- MODULE BackingStoreProofs -------------------------
(***************************************************************************)
(* Proofs about BackingStore for any number of blocks, drawings, calls and *)
(* requests in the queue.  First, m_dirtyShm holds all that the server has *)
(* still to read of the shared image, and nobody writes there.  Then, what *)
(* comes of the queue once it is executed: the regions tell where every    *)
(* block is, and the window shows what Canvas promises.                    *)
(***************************************************************************)
EXTENDS BackingStore, SequenceTheorems, WellFoundedInduction, TLAPS

Wf(m) ==
    m = [image |-> m.image, size |-> m.size, segmentSize |-> m.segmentSize, gc |-> m.gc,
         clientSideScroll |-> m.clientSideScroll, scrolledRegion |-> m.scrolledRegion,
         pendingFlush |-> m.pendingFlush, dirtyShm |-> m.dirtyShm,
         server |-> m.server, queue |-> m.queue]

IsSequence(q) == q \in Seq({q[i] : i \in 1 .. Len(q)})

\* What is still to be read of a segment is dirty, and there is a segment.
Marked(q, m) ==
    \A i \in 1 .. Len(q) : q[i].op = "shm" => q[i].area \subseteq m.dirtyShm \intersect Block /\ hasShm(m)

Safe(m) == Wf(m) /\ m.size \in 0 .. N /\ IsSequence(m.queue) /\ Marked(m.queue, m)

\* No block of the region is still to be read.
Unread(q, region) ==
    \A i \in 1 .. Len(q) : q[i].op = "shm" => q[i].area \intersect region = {}

-----------------------------------------------------------------------------
(* The queue. *)

LEMMA Appended ==
    ASSUME NEW q, IsSequence(q), NEW r
    PROVE  /\ IsSequence(Append(q, r))
           /\ Len(Append(q, r)) = Len(q) + 1 /\ Len(q) \in Nat
           /\ \A i \in 1 .. Len(q) : Append(q, r)[i] = q[i]
           /\ Append(q, r)[Len(q) + 1] = r
<1> DEFINE S == {q[i] : i \in 1 .. Len(q)} \union {r}
<1>1. q \in Seq(S)
  <2>1. /\ Len(q) \in Nat
        /\ q = [i \in 1 .. Len(q) |-> q[i]]
    BY DEF IsSequence
  <2>2. \A i \in 1 .. Len(q) : q[i] \in S
    OBVIOUS
  <2> QED BY <2>1, <2>2
<1>2. /\ Append(q, r) \in Seq(S) /\ Len(Append(q, r)) = Len(q) + 1 /\ Len(q) \in Nat
      /\ \A i \in 1 .. Len(q) : Append(q, r)[i] = q[i]
      /\ Append(q, r)[Len(q) + 1] = r
  BY <1>1
<1>3. IsSequence(Append(q, r))
  BY <1>2 DEF IsSequence
<1> QED BY <1>2, <1>3

\* What does not read the image leaves what is marked and unread as it is.
LEMMA RequestIsSafe ==
    ASSUME NEW m, Safe(m), NEW r, r.op # "shm"
    PROVE  /\ Safe(Request(m, r))
           /\ Request(m, r) = [m EXCEPT !.queue = Request(m, r).queue]
           /\ \A region : Unread(m.queue, region) => Unread(Request(m, r).queue, region)
<1>1. CASE r.area = {}
  BY <1>1 DEF Request, Safe, Wf
<1>2. CASE r.area # {}
  <2>1. /\ IsSequence(Append(m.queue, r))
        /\ Len(Append(m.queue, r)) = Len(m.queue) + 1 /\ Len(m.queue) \in Nat
        /\ \A i \in 1 .. Len(m.queue) : Append(m.queue, r)[i] = m.queue[i]
        /\ Append(m.queue, r)[Len(m.queue) + 1] = r
    BY Appended DEF Safe
  <2>2. Request(m, r) = [m EXCEPT !.queue = Append(m.queue, r)]
    BY <1>2 DEF Request
  <2>3. /\ Wf(Request(m, r)) /\ Request(m, r).queue = Append(m.queue, r)
        /\ Request(m, r).dirtyShm = m.dirtyShm
        /\ Request(m, r).segmentSize = m.segmentSize /\ Request(m, r).size = m.size
    BY <2>2 DEF Safe, Wf
  <2>4. Marked(Request(m, r).queue, Request(m, r))
    BY <2>1, <2>3 DEF Marked, hasShm, Safe
  <2>5. ASSUME NEW region, Unread(m.queue, region)
        PROVE  Unread(Request(m, r).queue, region)
    BY <2>1, <2>3, <2>5 DEF Unread
  <2> QED BY <2>1, <2>2, <2>3, <2>4, <2>5 DEF Safe
<1> QED BY <1>1, <1>2

LEMMA AcceptedIsPart ==
    ASSUME NEW m, NEW region
    PROVE  Accepted(m, region) \subseteq region \intersect Bounds(m)
BY DEF Accepted, Rects

LEMMA ShmPutIsSafe ==
    ASSUME NEW m, Safe(m), hasShm(m), NEW to, NEW region
    PROVE  /\ Safe(shmPutImage(m, to, region))
           /\ shmPutImage(m, to, region).image = m.image
           /\ shmPutImage(m, to, region).size = m.size
           /\ hasShm(shmPutImage(m, to, region))
<1> DEFINE r == Share(to, Accepted(m, region))
           p == shmPutImage(m, to, region)
<1>1. r.op = "shm" /\ r.area \subseteq region \intersect Block
  BY AcceptedIsPart, BoundsAssumption DEF Share, Safe, Bounds, Block
<1>2. CASE ~m.gc \/ r.area = {}
  <2>1. p = [m EXCEPT !.dirtyShm = @ \union region]
    BY <1>2 DEF shmPutImage, Request
  <2>2. /\ Wf(p) /\ p.queue = m.queue /\ p.dirtyShm = m.dirtyShm \union region
        /\ p.segmentSize = m.segmentSize /\ p.image = m.image /\ p.size = m.size
    BY <2>1 DEF Safe, Wf
  <2> QED BY <2>2 DEF Safe, Marked, hasShm
<1>3. CASE m.gc /\ r.area # {}
  <2>1. /\ IsSequence(Append(m.queue, r))
        /\ Len(Append(m.queue, r)) = Len(m.queue) + 1 /\ Len(m.queue) \in Nat
        /\ \A i \in 1 .. Len(m.queue) : Append(m.queue, r)[i] = m.queue[i]
        /\ Append(m.queue, r)[Len(m.queue) + 1] = r
    BY Appended DEF Safe
  <2>2. p = [[m EXCEPT !.queue = Append(m.queue, r)] EXCEPT !.dirtyShm = @ \union region]
    BY <1>3 DEF shmPutImage, Request
  <2>3. /\ Wf(p) /\ p.queue = Append(m.queue, r) /\ p.dirtyShm = m.dirtyShm \union region
        /\ p.segmentSize = m.segmentSize /\ p.image = m.image /\ p.size = m.size
    BY <2>2 DEF Safe, Wf
  <2>4. Marked(p.queue, p)
    BY <1>1, <2>1, <2>3 DEF Marked, hasShm, Safe
  <2> QED BY <2>1, <2>3, <2>4 DEF Safe, hasShm
<1> QED BY <1>2, <1>3

-----------------------------------------------------------------------------
(* The methods that wait for the server. *)

LEMMA SyncIsSafe ==
    ASSUME NEW m, Safe(m)
    PROVE  /\ Safe(sync(m)) /\ sync(m).queue = <<>>
           /\ sync(m) = [m EXCEPT !.server = Final(m), !.queue = <<>>]
           /\ sync(m).image = m.image /\ sync(m).segmentSize = m.segmentSize
           /\ sync(m).size = m.size
<1> DEFINE f == Final(m)
<1> HIDE DEF f
<1>1. sync(m) = [m EXCEPT !.server = f, !.queue = <<>>]
  BY DEF sync, f
<1>2. /\ Wf(sync(m)) /\ sync(m).queue = <<>> /\ sync(m).image = m.image
      /\ sync(m).segmentSize = m.segmentSize /\ sync(m).size = m.size
  BY <1>1 DEF Safe, Wf
<1> QED BY <1>1, <1>2 DEF Safe, IsSequence, Marked, f

\* After syncIfShared() the region is not read, whether it had to wait or not.
LEMMA SyncIfSharedIsSafe ==
    ASSUME NEW m, Safe(m), NEW region
    PROVE  /\ Safe(syncIfShared(m, region))
           /\ syncIfShared(m, region).image = m.image
           /\ syncIfShared(m, region).segmentSize = m.segmentSize
           /\ syncIfShared(m, region).size = m.size
           /\ Unread(syncIfShared(m, region).queue, region)
           /\ m.dirtyShm \intersect region # {} /\ hasShm(m)
              => syncIfShared(m, region).queue = <<>>
           /\ \A other : Unread(m.queue, other) => Unread(syncIfShared(m, region).queue, other)
<1> DEFINE p == syncIfShared(m, region)
<1>1. CASE hasShm(m) /\ m.dirtyShm \intersect region # {}
  <2>1. p = [sync(m) EXCEPT !.dirtyShm = {}]
    BY <1>1 DEF syncIfShared
  <2>2. /\ Wf(p) /\ p.queue = <<>> /\ p.image = m.image /\ p.segmentSize = m.segmentSize
        /\ p.size = m.size
    BY <2>1, SyncIsSafe DEF Safe, Wf
  <2> QED BY <2>2 DEF Safe, IsSequence, Marked, Unread
<1>2. CASE ~(hasShm(m) /\ m.dirtyShm \intersect region # {})
  <2>1. p = m
    BY <1>2 DEF syncIfShared
  <2>2. Unread(m.queue, region)
    BY <1>2 DEF Safe, Marked, Unread
  <2> QED BY <1>2, <2>1, <2>2
<1> QED BY <1>1, <1>2

LEMMA PreparePaintIsSafe ==
    ASSUME NEW m, Safe(m), NEW region
    PROVE  /\ Safe(preparePaint(m, region))
           /\ preparePaint(m, region).image = m.image
           /\ preparePaint(m, region).size = m.size
           /\ preparePaint(m, region).queue = syncIfShared(m, region).queue
<1> DEFINE q == syncIfShared(m, region)
           p == preparePaint(m, region)
<1>1. Safe(q) /\ q.image = m.image /\ q.size = m.size
  BY SyncIfSharedIsSafe
<1>2. p = [q EXCEPT !.scrolledRegion = @ \ region, !.pendingFlush = @ \union region]
  BY DEF preparePaint
<1> HIDE DEF p, q
<1>3. /\ Wf(p) /\ p.queue = q.queue /\ p.image = q.image /\ p.dirtyShm = q.dirtyShm
      /\ p.segmentSize = q.segmentSize /\ p.size = q.size
  BY <1>1, <1>2 DEF Safe, Wf
<1>4. Safe(p)
  BY <1>1, <1>3 DEF Safe, Marked, hasShm
<1> QED BY <1>1, <1>3, <1>4 DEF p, q

LEMMA SettingIsSafe ==
    ASSUME NEW m, Safe(m), NEW v
    PROVE  /\ Safe([m EXCEPT !.gc = v]) /\ Safe([m EXCEPT !.clientSideScroll = v])
           /\ Safe([m EXCEPT !.pendingFlush = v]) /\ Safe([m EXCEPT !.scrolledRegion = v])
           /\ Safe([m EXCEPT !.image = v])
<1> DEFINE p1 == [m EXCEPT !.gc = v]
           p2 == [m EXCEPT !.clientSideScroll = v]
           p3 == [m EXCEPT !.pendingFlush = v]
           p4 == [m EXCEPT !.scrolledRegion = v]
           p5 == [m EXCEPT !.image = v]
<1>1. \A p \in {p1, p2, p3, p4, p5} :
        /\ Wf(p) /\ p.queue = m.queue /\ p.dirtyShm = m.dirtyShm
        /\ p.segmentSize = m.segmentSize /\ p.size = m.size
  BY DEF Safe, Wf
<1> HIDE DEF p1, p2, p3, p4, p5
<1>2. \A p \in {p1, p2, p3, p4, p5} : Safe(p)
  BY <1>1 DEF Safe, Marked, hasShm
<1> QED BY <1>2 DEF p1, p2, p3, p4, p5

LEMMA EnsureGCIsSafe ==
    ASSUME NEW m, Safe(m)
    PROVE  /\ Safe(ensureGC(m)) /\ ensureGC(m) = [m EXCEPT !.gc = TRUE]
           /\ ensureGC(m).image = m.image /\ ensureGC(m).queue = m.queue
           /\ ensureGC(m).size = m.size /\ ensureGC(m).segmentSize = m.segmentSize
<1>1. Safe([m EXCEPT !.gc = TRUE])
  BY SettingIsSafe
<1>2. /\ [m EXCEPT !.gc = TRUE].image = m.image /\ [m EXCEPT !.gc = TRUE].queue = m.queue
      /\ [m EXCEPT !.gc = TRUE].size = m.size
      /\ [m EXCEPT !.gc = TRUE].segmentSize = m.segmentSize
  BY DEF Safe, Wf
<1> QED BY <1>1, <1>2 DEF ensureGC

LEMMA FlushFullRegionIsSafe ==
    ASSUME NEW m, Safe(m), NEW region
    PROVE  /\ Safe(flushFullRegion(m, region)) /\ flushFullRegion(m, region).image = m.image
           /\ flushFullRegion(m, region).segmentSize = m.segmentSize
           /\ flushFullRegion(m, region).size = m.size
<1> DEFINE r == Send(m.image, "pixmap", region \intersect Bounds(m))
<1>1. r.op # "shm"
  BY DEF Send
<1>2. Safe(Request(m, r)) /\ Request(m, r) = [m EXCEPT !.queue = Request(m, r).queue]
  BY <1>1, RequestIsSafe
<1> HIDE DEF r
<1>3. /\ Request(m, r).image = m.image /\ Request(m, r).segmentSize = m.segmentSize
      /\ Request(m, r).size = m.size
  BY <1>2 DEF Safe, Wf
<1> QED BY <1>2, <1>3 DEF flushFullRegion, r

LEMMA FlushPixmapIsSafe ==
    ASSUME NEW m, Safe(m), NEW region
    PROVE  /\ Safe(flushPixmap(m, region)) /\ flushPixmap(m, region).image = m.image
           /\ flushPixmap(m, region).segmentSize = m.segmentSize
           /\ flushPixmap(m, region).size = m.size
<1> DEFINE q == flushFullRegion(m, m.pendingFlush \intersect region)
           v == q.pendingFlush \ region
<1>1. Safe(q) /\ q.image = m.image /\ q.segmentSize = m.segmentSize /\ q.size = m.size
  BY FlushFullRegionIsSafe
<1>2. flushPixmap(m, region) = [q EXCEPT !.pendingFlush = v]
  BY DEF flushPixmap
<1> HIDE DEF q, v
<1>3. Safe([q EXCEPT !.pendingFlush = v])
  BY <1>1, SettingIsSafe
<1> QED BY <1>1, <1>2, <1>3 DEF Safe, Wf

\* The image is left alone, or everything has been read.
LEMMA FlushScrolledRegionIsSafe ==
    ASSUME NEW m, Safe(m), NEW clientSide
    PROVE  /\ Safe(flushScrolledRegion(m, clientSide))
           /\ flushScrolledRegion(m, clientSide).size = m.size
           /\ \/ flushScrolledRegion(m, clientSide).image = m.image
              \/ clientSide /\ flushScrolledRegion(m, clientSide).queue = <<>>
<1> DEFINE turned == [m EXCEPT !.clientSideScroll = clientSide]
           synced == syncIfShared(turned, m.scrolledRegion)
           fetched == sync(synced)
           got == Accepted(m, m.scrolledRegion)
           ready == ensureGC(synced)
           p == flushScrolledRegion(m, clientSide)
<1>1. /\ Safe(turned) /\ turned.image = m.image /\ turned.size = m.size
      /\ turned.segmentSize = m.segmentSize
  <2>1. Safe(turned)
    BY SettingIsSafe
  <2> QED BY <2>1 DEF Safe, Wf
<1>2. /\ Safe(synced) /\ synced.image = m.image /\ synced.size = m.size
      /\ synced.segmentSize = m.segmentSize
  <2> HIDE DEF turned
  <2> QED BY <1>1, SyncIfSharedIsSafe
<1>3. CASE m.clientSideScroll = clientSide \/ m.scrolledRegion = {}
  BY <1>1, <1>3 DEF flushScrolledRegion
<1>4. CASE ~(m.clientSideScroll = clientSide \/ m.scrolledRegion = {}) /\ clientSide
  <2> DEFINE new == [b \in Block |-> IF b \in got THEN fetched.server.pixmap[b]
                                     ELSE fetched.image[b]]
  <2>1. p = [[fetched EXCEPT !.image = new] EXCEPT !.scrolledRegion = {}]
    BY <1>4 DEF flushScrolledRegion
  <2> HIDE DEF new, turned, synced
  <2>2. Safe(fetched) /\ fetched.queue = <<>> /\ fetched.size = m.size
    BY <1>2, SyncIsSafe
  <2> HIDE DEF fetched
  <2>3. Safe([fetched EXCEPT !.image = new])
    BY <2>2, SettingIsSafe
  <2> DEFINE none == {}
             drawn == [fetched EXCEPT !.image = new]
  <2> HIDE DEF none, drawn
  <2>4. Safe(p)
    <3>1. Safe([drawn EXCEPT !.scrolledRegion = none])
      BY <2>3, SettingIsSafe DEF drawn
    <3> QED BY <2>1, <3>1 DEF drawn, none
  <2>5. p.queue = <<>> /\ p.size = m.size
    BY <2>1, <2>2 DEF Safe, Wf
  <2> QED BY <1>4, <2>4, <2>5
<1>5. CASE ~(m.clientSideScroll = clientSide \/ m.scrolledRegion = {}) /\ ~clientSide
  <2>1. p = IF hasShm(m) THEN shmPutImage(ready, "pixmap", m.scrolledRegion)
            ELSE flushFullRegion(ready, m.scrolledRegion)
    BY <1>5 DEF flushScrolledRegion
  <2> HIDE DEF turned, synced
  <2>2. /\ Safe(ready) /\ ready.image = m.image /\ ready.size = m.size
        /\ ready.segmentSize = m.segmentSize
    BY <1>2, EnsureGCIsSafe
  <2> HIDE DEF ready
  <2>3. CASE hasShm(m)
    <3>1. hasShm(ready)
      BY <2>2, <2>3 DEF hasShm
    <3> QED BY <2>1, <2>2, <2>3, <3>1, ShmPutIsSafe
  <2>4. CASE ~hasShm(m)
    BY <2>1, <2>2, <2>4, FlushFullRegionIsSafe
  <2> QED BY <2>3, <2>4
<1> QED BY <1>3, <1>4, <1>5

-----------------------------------------------------------------------------
(* The image: from m to p no block changes that p's queue still reads. *)

Untouched(p, m) ==
    \A i \in 1 .. Len(p.queue) : p.queue[i].op = "shm" =>
        \A b \in p.queue[i].area : p.image[b] = m.image[b]

LEMMA SameImage ==
    ASSUME NEW p, NEW m, p.image = m.image
    PROVE  Untouched(p, m)
BY DEF Untouched

LEMMA ChangedWhereUnread ==
    ASSUME NEW p, NEW m, Safe(p), NEW area, Unread(p.queue, area),
           \A b \in Block \ area : p.image[b] = m.image[b]
    PROVE  Untouched(p, m)
BY DEF Untouched, Safe, Marked, Unread

LEMMA NothingIsUnread ==
    ASSUME NEW m, m.queue = <<>> \/ (Safe(m) /\ ~hasShm(m)), NEW area
    PROVE  Unread(m.queue, area)
BY DEF Unread, Safe, Marked

LEMMA ScrollPixmapIsSafe ==
    ASSUME NEW m, Safe(m), NEW area, NEW d
    PROVE  /\ Safe(scrollPixmap(m, area, d)) /\ scrollPixmap(m, area, d).image = m.image
           /\ scrollPixmap(m, area, d).size = m.size
<1> DEFINE dst == Moved(area, d) \intersect Bounds(m)
           pixmap == IF hasShm(m) THEN shmPutImage(m, "pixmap", m.pendingFlush \intersect area)
                     ELSE flushPixmap(m, area)
           ready == ensureGC(pixmap)
           r == Copy("pixmap", dst, Min(dst) - Min(area))
<1>1. Safe(pixmap) /\ pixmap.image = m.image /\ pixmap.size = m.size
  BY ShmPutIsSafe, FlushPixmapIsSafe
<1>2. scrollPixmap(m, area, d) = IF dst = {} THEN ready ELSE Request(ready, r)
  BY DEF scrollPixmap
<1>3. r.op # "shm"
  BY DEF Copy
<1> HIDE DEF pixmap, dst, r
<1>4. Safe(ready) /\ ready.image = m.image /\ ready.size = m.size
  BY <1>1, EnsureGCIsSafe
<1> HIDE DEF ready
<1>5. Safe(Request(ready, r)) /\ Request(ready, r) = [ready EXCEPT !.queue = Request(ready, r).queue]
  BY <1>3, <1>4, RequestIsSafe
<1>6. Request(ready, r).image = m.image /\ Request(ready, r).size = m.size
  BY <1>4, <1>5 DEF Safe, Wf
<1> QED BY <1>2, <1>4, <1>5, <1>6

\* The server does not read the destination only: what Expected() asks for.
NotReadAlone(m, area, d) ==
    \/ ~hasShm(m) \/ ~m.clientSideScroll
    \/ m.dirtyShm \intersect area # {}
    \/ m.dirtyShm \intersect (Moved(area, d) \intersect Bounds(m)) = {}

LEMMA ScrollImageIsSafe ==
    ASSUME NEW m, Safe(m), m.clientSideScroll, NEW area \in SUBSET Block, NEW d \in Int
    PROVE  LET p == scrollImage(IF hasShm(m) THEN preparePaint(m, area) ELSE m, area, d)
           IN  Safe(p) /\ p.size = m.size /\ (NotReadAlone(m, area, d) => Untouched(p, m))
<1> DEFINE dst == Moved(area, d) \intersect Bounds(m)
           q == IF hasShm(m) THEN preparePaint(m, area) ELSE m
           new == [b \in Block |-> IF b - d \in area /\ b \in Bounds(q) THEN q.image[b - d]
                                   ELSE q.image[b]]
           p == scrollImage(q, area, d)
<1>1. /\ Safe(q) /\ q.image = m.image /\ q.size = m.size
      /\ hasShm(m) => q.queue = syncIfShared(m, area).queue
      /\ ~hasShm(m) => q = m
  BY PreparePaintIsSafe
<1>2. p = [q EXCEPT !.image = new]
  BY DEF scrollImage
<1>3. \A b \in Block \ dst : new[b] = m.image[b]
  <2> SUFFICES ASSUME NEW b \in Block \ dst, b - d \in area, b \in Bounds(q) PROVE FALSE
    BY <1>1
  <2>1. b \in Int /\ b = (b - d) + d
    BY DEF Block
  <2>2. b \in Moved(area, d)
    BY <2>1 DEF Moved
  <2> QED BY <1>1, <2>2 DEF Bounds
<1>4. ASSUME NotReadAlone(m, area, d) PROVE Unread(q.queue, dst)
  <2>1. CASE ~hasShm(m)
    BY <1>1, <2>1, NothingIsUnread
  <2>2. CASE hasShm(m) /\ m.dirtyShm \intersect area # {}
    BY <1>1, <2>2, SyncIfSharedIsSafe, NothingIsUnread
  <2>3. CASE hasShm(m) /\ m.dirtyShm \intersect dst = {}
    <3>1. Unread(m.queue, dst)
      BY <2>3 DEF Unread, Safe, Marked
    <3> QED BY <1>1, <2>3, <3>1, SyncIfSharedIsSafe
  <2> QED BY <1>4, <2>1, <2>2, <2>3 DEF NotReadAlone
<1> HIDE DEF new, q, dst
<1>5. Safe(p)
  <2>1. Safe([q EXCEPT !.image = new])
    BY <1>1, SettingIsSafe
  <2> QED BY <1>2, <2>1
<1>6. p.image = new /\ p.queue = q.queue /\ p.size = m.size
  BY <1>1, <1>2 DEF Safe, Wf
<1>7. ASSUME NotReadAlone(m, area, d) PROVE Untouched(p, m)
  <2>1. Unread(p.queue, dst) /\ \A b \in Block \ dst : p.image[b] = m.image[b]
    BY <1>3, <1>4, <1>6, <1>7
  <2> HIDE DEF p
  <2> QED BY <1>5, <2>1, ChangedWhereUnread
<1> QED BY <1>5, <1>6, <1>7 DEF q

LEMMA ScrollIsSafe ==
    ASSUME NEW m, Safe(m), NEW area \in SUBSET Block, NEW d \in Int
    PROVE  LET p == scroll(m, area, d)
           IN  Safe(p) /\ p.size = m.size /\ (NotReadAlone(m, area, d) => Untouched(p, m))
<1> DEFINE q == IF ~m.clientSideScroll THEN scrollPixmap(m, area, d)
                ELSE scrollImage(IF hasShm(m) THEN preparePaint(m, area) ELSE m, area, d)
           scrolled == q.scrolledRegion \union (Moved(area, d) \intersect Bounds(m))
           pending == IF hasShm(m) THEN (q.pendingFlush \ area) \ scrolled ELSE q.pendingFlush
           p == scroll(m, area, d)
<1>1. /\ Safe(q) /\ q.size = m.size
      /\ NotReadAlone(m, area, d) => Untouched(q, m)
  <2>1. CASE m.clientSideScroll
    BY <2>1, ScrollImageIsSafe
  <2>2. CASE ~m.clientSideScroll
    BY <2>2, ScrollPixmapIsSafe, SameImage
  <2> QED BY <2>1, <2>2
<1>2. p = [[q EXCEPT !.scrolledRegion = scrolled] EXCEPT !.pendingFlush = pending]
  <2>1. p = [q EXCEPT !.scrolledRegion = scrolled, !.pendingFlush = pending]
    BY DEF scroll
  <2> HIDE DEF q, scrolled, pending
  <2> QED BY <2>1
<1> HIDE DEF q, scrolled, pending
<1> DEFINE q1 == [q EXCEPT !.scrolledRegion = scrolled]
<1>3. Safe(q1)
  BY <1>1, SettingIsSafe
<1> HIDE DEF q1
<1>4. Safe([q1 EXCEPT !.pendingFlush = pending])
  BY <1>3, SettingIsSafe
<1>5. Safe(p)
  BY <1>2, <1>4 DEF q1
<1>6. p.image = q.image /\ p.queue = q.queue /\ p.size = q.size
  BY <1>1, <1>2 DEF Safe, Wf
<1> QED BY <1>1, <1>5, <1>6 DEF Untouched

LEMMA PutIsSafe ==
    ASSUME NEW m, Safe(m), NEW region, NEW offset
    PROVE  /\ Safe(put(m, region, offset)) /\ put(m, region, offset).image = m.image
           /\ put(m, region, offset).size = m.size
<1> DEFINE area == Moved(region, offset)
           ready == ensureGC(m)
           flushed == flushPixmap(ready, region)
           r1 == Copy("window", area \intersect m.scrolledRegion, 0)
           r2 == Copy("window", area, 0)
<1>1. /\ Safe(ready) /\ ready.image = m.image /\ ready.size = m.size
      /\ ready.segmentSize = m.segmentSize
  BY EnsureGCIsSafe
<1>2. put(m, region, offset) = IF hasShm(m)
                               THEN shmPutImage(Request(ready, r1), "window", area \ m.scrolledRegion)
                               ELSE Request(flushed, r2)
  BY DEF put
<1>3. r1.op # "shm" /\ r2.op # "shm"
  BY DEF Copy
<1> HIDE DEF ready, area, r1, r2
<1>4. CASE hasShm(m)
  <2> DEFINE q == Request(ready, r1)
  <2>1. Safe(q) /\ q = [ready EXCEPT !.queue = q.queue]
    BY <1>1, <1>3, RequestIsSafe
  <2> HIDE DEF q
  <2>2. q.image = m.image /\ q.size = m.size /\ hasShm(q)
    BY <1>1, <1>4, <2>1 DEF Safe, Wf, hasShm
  <2> QED BY <1>2, <1>4, <2>1, <2>2, ShmPutIsSafe DEF q
<1>5. CASE ~hasShm(m)
  <2> DEFINE q == Request(flushed, r2)
  <2>1. Safe(flushed) /\ flushed.image = m.image /\ flushed.size = m.size
    BY <1>1, FlushPixmapIsSafe
  <2> HIDE DEF flushed
  <2>2. Safe(q) /\ q = [flushed EXCEPT !.queue = q.queue]
    BY <1>3, <2>1, RequestIsSafe
  <2> HIDE DEF q
  <2>3. q.image = m.image /\ q.size = m.size
    BY <2>1, <2>2 DEF Safe, Wf
  <2> QED BY <1>2, <1>5, <2>2, <2>3 DEF q, flushed
<1> QED BY <1>4, <1>5

-----------------------------------------------------------------------------
(* The specification. *)

\* What is being painted is not read: beginPaint() has waited for it.
PaintedIsUnread == painting = <<>> \/ \E region : painting = <<region>> /\ Unread(queue, region)

Inv == Wf(img) /\ Safe(This) /\ PaintedIsUnread

LEMMA BecomeIsSafe ==
    ASSUME NEW m, Safe(m), Become(m)
    PROVE  /\ Wf(img') /\ Safe(This)' /\ queue' = m.queue /\ img'.image = m.image
<1>1. img' = [m EXCEPT !.server = <<>>, !.queue = <<>>] /\ server' = m.server /\ queue' = m.queue
  BY DEF Become
<1>2. Wf(img') /\ img'.image = m.image
  BY <1>1 DEF Safe, Wf
<1>3. This' = m
  BY <1>1 DEF This, Safe, Wf
<1> QED BY <1>1, <1>2, <1>3 DEF Safe

LEMMA ThisIsImg ==
    ASSUME Wf(img)
    PROVE  /\ This.image = img.image /\ This.queue = queue /\ This.size = img.size
           /\ This.segmentSize = img.segmentSize /\ This.dirtyShm = img.dirtyShm
           /\ This.clientSideScroll = img.clientSideScroll
BY DEF This, Wf

\* A step to m that leaves what is read untouched.
Kept == \A i \in 1 .. Len(queue') : queue'[i].op = "shm" =>
            \A b \in queue'[i].area : img'.image[b] = img.image[b]

LEMMA BecomeKeeps ==
    ASSUME Wf(img), NEW m, Safe(m), Become(m), Untouched(m, This)
    PROVE  Kept
BY BecomeIsSafe, ThisIsImg DEF Untouched, Kept

LEMMA ThisIsWf ==
    ASSUME NEW m, Wf(m), NEW s, NEW q
    PROVE  /\ Wf([m EXCEPT !.server = s, !.queue = q])
           /\ [m EXCEPT !.server = s, !.queue = q].queue = q
<1> DEFINE p == [m EXCEPT !.server = s, !.queue = q]
<1>1. p = [m EXCEPT !.server = s, !.queue = q]
  OBVIOUS
<1> HIDE DEF p
<1>2. Wf(p) /\ p.queue = q
  BY <1>1 DEF Wf
<1> QED BY <1>2 DEF p

LEMMA InitInv == Init => Inv
<1> SUFFICES ASSUME Init PROVE Inv
  OBVIOUS
<1>1. Wf(img) /\ queue = <<>> /\ painting = <<>> /\ img.size = 0
  BY DEF Init, Wf
<1>2. Wf(This) /\ This.queue = <<>> /\ This.size = 0
  <2>1. This.size = img.size /\ This.queue = queue
    BY <1>1, ThisIsImg
  <2>2. Wf([img EXCEPT !.server = server, !.queue = queue])
    BY <1>1, ThisIsWf
  <2> QED BY <1>1, <2>1, <2>2 DEF This
<1>3. IsSequence(<<>>) /\ Marked(<<>>, This)
  BY DEF IsSequence, Marked
<1>4. 0 \in 0 .. N
  BY BoundsAssumption
<1> QED BY <1>1, <1>2, <1>3, <1>4 DEF Inv, Safe, PaintedIsUnread

\* What a call from Qt outside beginPaint() and endPaint() has to show.
LEMMA CallIsSafe ==
    ASSUME Inv, Idle, painting' = painting, NEW m, Safe(m), Become(m)
    PROVE  Inv' /\ (Untouched(m, This) => Kept)
BY BecomeIsSafe, BecomeKeeps DEF Inv, Idle, PaintedIsUnread

LEMMA BeginPaintStep ==
    ASSUME Inv, NEW region \in Rectangles, beginPaint(region)
    PROVE  Inv' /\ Kept
<1> DEFINE ready == preparePaint(This, region)
           new == IF HasAlpha THEN Drawing!Covered(ready.image, region, Drawing!Blank)
                  ELSE ready.image
           m == [ready EXCEPT !.image = new]
<1>1. Become(m) /\ painting' = Append(painting, region) /\ painting = <<>>
  BY DEF beginPaint, Idle
<1>2. /\ Safe(ready) /\ ready.image = This.image
      /\ Unread(ready.queue, region)
  BY PreparePaintIsSafe, SyncIfSharedIsSafe DEF Inv
<1>3. \A b \in Block \ region : new[b] = This.image[b]
  BY <1>2 DEF Drawing!Covered, Block, Drawing!Block
<1> HIDE DEF ready, new
<1>4. Safe(m)
  BY <1>2, SettingIsSafe
<1>5. m.image = new /\ m.queue = ready.queue
  BY <1>2 DEF Safe, Wf
<1> HIDE DEF m
<1>6. Untouched(m, This)
  BY <1>2, <1>3, <1>4, <1>5, ChangedWhereUnread
<1>7. Kept /\ Wf(img') /\ Safe(This)' /\ queue' = m.queue
  BY <1>1, <1>4, <1>6, BecomeIsSafe, BecomeKeeps DEF Inv
<1>8. painting' = <<region>> /\ Unread(queue', region)
  BY <1>1, <1>2, <1>5, <1>7
<1> QED BY <1>7, <1>8 DEF Inv, PaintedIsUnread

LEMMA EndPaintStep ==
    ASSUME Inv, endPaint
    PROVE  Inv' /\ Kept
<1>1. PICK region : painting = <<region>> /\ Unread(queue, region)
  BY DEF Inv, PaintedIsUnread, endPaint
<1> DEFINE new == Drawing!Covered(This.image, region, draws')
           drawn == [This EXCEPT !.image = new]
           m == preparePaint(drawn, region)
<1>2. Last(painting) = region /\ Front(painting) = <<>>
  BY <1>1 DEF Last, Front
<1>3. Become(m) /\ painting' = <<>>
  BY <1>2 DEF endPaint
<1>4. \A b \in Block \ region : new[b] = This.image[b]
  BY DEF Drawing!Covered, Block, Drawing!Block
<1> HIDE DEF new
<1>5. Safe(drawn)
  BY SettingIsSafe DEF Inv
<1>6. drawn.image = new /\ drawn.queue = queue
  BY ThisIsImg DEF Inv, Safe, Wf
<1> HIDE DEF drawn
<1>7. Safe(m) /\ m.image = new /\ Unread(m.queue, region)
  BY <1>1, <1>5, <1>6, PreparePaintIsSafe, SyncIfSharedIsSafe
<1> HIDE DEF m
<1>8. Untouched(m, This)
  BY <1>4, <1>7, ChangedWhereUnread
<1>9. Kept /\ Wf(img') /\ Safe(This)'
  BY <1>3, <1>7, <1>8, BecomeIsSafe, BecomeKeeps DEF Inv
<1> QED BY <1>3, <1>9 DEF Inv, PaintedIsUnread

LEMMA ScrollStep ==
    ASSUME Inv, NEW area \in Rectangles, NEW d \in {-1, 1}, Scroll(area, d)
    PROVE  Inv' /\ ("unsynced" \notin Liberties => Kept)
<1> DEFINE m == scroll(This, area, d)
<1>1. area \in SUBSET Block /\ d \in Int
  BY BoundsAssumption DEF Rectangles, Interval, Bounds, Block, Inv, Safe, This, Wf
<1>2. Safe(m) /\ (NotReadAlone(This, area, d) => Untouched(m, This))
  BY <1>1, ScrollIsSafe DEF Inv
<1>3. ASSUME "unsynced" \notin Liberties PROVE NotReadAlone(This, area, d)
  <2>1. \/ ~hasShm(img) \/ ~img.clientSideScroll
        \/ img.dirtyShm \intersect area # {}
        \/ img.dirtyShm \intersect (Moved(area, d) \intersect Bounds(img)) = {}
    BY <1>3 DEF Scroll, Expected
  <2> QED BY <2>1, ThisIsImg DEF NotReadAlone, Inv, hasShm, Bounds
<1>4. Idle /\ Become(m) /\ painting' = painting
  BY DEF Scroll
<1> HIDE DEF m
<1> QED BY <1>2, <1>3, <1>4, CallIsSafe

LEMMA FlushStep ==
    ASSUME Inv, NEW region, NEW offset, flush(region, offset)
    PROVE  Inv' /\ Kept
<1> DEFINE q == flushScrolledRegion(This, FALSE)
           m == put(q, region, offset)
<1>1. Safe(q) /\ q.image = This.image
  BY FlushScrolledRegionIsSafe DEF Inv
<1> HIDE DEF q
<1>2. Safe(m) /\ m.image = This.image
  BY <1>1, PutIsSafe
<1>3. Idle /\ Become(m) /\ painting' = painting
  BY DEF flush, q
<1> HIDE DEF m
<1> QED BY <1>2, <1>3, CallIsSafe, SameImage

LEMMA FlushNothingStep ==
    ASSUME Inv, flushNothing
    PROVE  Inv' /\ Kept
<1> DEFINE q == flushScrolledRegion(This, FALSE)
<1>1. Safe(q) /\ q.image = This.image
  BY FlushScrolledRegionIsSafe DEF Inv
<1>2. Idle /\ Become(q) /\ painting' = painting
  BY DEF flushNothing
<1> HIDE DEF q
<1> QED BY <1>1, <1>2, CallIsSafe, SameImage

LEMMA ComposeStep ==
    ASSUME Inv, NEW region, composeAndFlush(region)
    PROVE  Inv' /\ Kept
<1> DEFINE q == flushScrolledRegion(This, TRUE)
           r == Send(q.image, "window", region)
           m == Request(q, r)
<1>1. Safe(q) /\ (q.image = This.image \/ q.queue = <<>>)
  BY FlushScrolledRegionIsSafe DEF Inv
<1>2. r.op # "shm"
  BY DEF Send
<1>3. Idle /\ Become(m) /\ painting' = painting
  BY DEF composeAndFlush
<1> HIDE DEF q, r
<1>4. /\ Safe(m) /\ m = [q EXCEPT !.queue = m.queue]
      /\ Unread(q.queue, Block) => Unread(m.queue, Block)
  BY <1>1, <1>2, RequestIsSafe
<1> HIDE DEF m
<1>5. Untouched(m, This)
  <2>1. CASE q.image = This.image
    BY <1>1, <1>4, <2>1, SameImage DEF Safe, Wf
  <2>2. CASE q.queue = <<>>
    BY <1>4, <2>2, NothingIsUnread, ChangedWhereUnread
  <2> QED BY <1>1, <2>1, <2>2
<1> QED BY <1>3, <1>4, <1>5, CallIsSafe

\* The store after a change of size, but for the request that clears the pixmap.
Keeps(m, segment) == segment = m.segmentSize /\ segment > 0

Waited(m, segment) ==
    IF ~Keeps(m, segment) /\ (m.segmentSize > 0 \/ segment > 0) THEN sync(m) ELSE m

Fresh(m, size, segment) ==
    [Waited(m, segment) EXCEPT
        !.size = size, !.segmentSize = segment, !.gc = FALSE,
        !.image = IF Keeps(m, segment) THEN @ ELSE [b \in Block |-> Undefined]]

\* A segment that is kept is the one of the same image; otherwise the server
\* has read all there was, or there was no segment to read.
LEMMA FreshIsSafe ==
    ASSUME NEW m, Safe(m), NEW size \in 0 .. N, NEW segment
    PROVE  /\ Safe(Fresh(m, size, segment)) /\ Fresh(m, size, segment).size = size
           /\ Fresh(m, size, segment).queue = Waited(m, segment).queue
           /\ Fresh(m, size, segment).server = Waited(m, segment).server
           /\ Fresh(m, size, segment).clientSideScroll = Waited(m, segment).clientSideScroll
           /\ Fresh(m, size, segment).scrolledRegion = Waited(m, segment).scrolledRegion
           /\ Waited(m, segment).image = m.image
           /\ Keeps(m, segment) => Fresh(m, size, segment).image = m.image
           /\ ~Keeps(m, segment) => Unread(Fresh(m, size, segment).queue, Block)
<1> DEFINE kept == Keeps(m, segment)
           waited == Waited(m, segment)
           new == IF kept THEN waited.image ELSE [b \in Block |-> Undefined]
           fresh == Fresh(m, size, segment)
<1>1. Safe(waited) /\ waited.image = m.image /\ waited.segmentSize = m.segmentSize
  BY SyncIsSafe DEF Waited
<1>2. kept \/ waited.queue = <<>> \/ ~hasShm(waited)
  <2>1. CASE ~kept /\ (m.segmentSize > 0 \/ segment > 0)
    BY <2>1, SyncIsSafe DEF Waited
  <2>2. CASE ~kept /\ ~(m.segmentSize > 0 \/ segment > 0)
    BY <1>1, <2>2 DEF hasShm
  <2> QED BY <2>1, <2>2
<1>3. fresh = [waited EXCEPT !.size = size, !.segmentSize = segment, !.gc = FALSE,
                             !.image = new]
  BY DEF Fresh
<1> HIDE DEF fresh, waited, new
<1>4. /\ Wf(fresh) /\ fresh.queue = waited.queue /\ fresh.dirtyShm = waited.dirtyShm
      /\ fresh.size = size /\ fresh.segmentSize = segment /\ fresh.image = new
      /\ fresh.server = waited.server /\ fresh.clientSideScroll = waited.clientSideScroll
      /\ fresh.scrolledRegion = waited.scrolledRegion
  <2> DEFINE f1 == [waited EXCEPT !.size = size]
             f2 == [f1 EXCEPT !.segmentSize = segment]
             no == FALSE
             f3 == [f2 EXCEPT !.gc = no]
             Same(f) == /\ Wf(f) /\ f.queue = waited.queue /\ f.dirtyShm = waited.dirtyShm
                        /\ f.server = waited.server
                        /\ f.clientSideScroll = waited.clientSideScroll
                        /\ f.scrolledRegion = waited.scrolledRegion
  <2>1. Same(f1) /\ f1.size = size
    BY <1>1 DEF Safe, Wf
  <2> HIDE DEF f1, no
  <2>2. Same(f2) /\ f2.size = size /\ f2.segmentSize = segment
    BY <2>1 DEF Wf
  <2> HIDE DEF f2
  <2>3. Same(f3) /\ f3.size = size /\ f3.segmentSize = segment
    BY <2>2 DEF Wf
  <2>4. fresh = [f3 EXCEPT !.image = new]
    BY <1>3 DEF f1, f2, no
  <2> HIDE DEF f3
  <2> QED BY <2>3, <2>4 DEF Wf
<1>5. ~kept => Unread(waited.queue, Block)
  BY <1>1, <1>2, NothingIsUnread
<1>6. Marked(fresh.queue, fresh)
  <2>1. CASE kept
    <3>1. segment = waited.segmentSize
      BY <1>1, <2>1 DEF Keeps
    <3> QED BY <1>1, <1>4, <3>1 DEF Safe, Marked, hasShm
  <2>2. CASE ~kept
    <3>1. waited.queue = <<>> \/ ~hasShm(waited)
      BY <1>2, <2>2
    <3> QED BY <1>1, <1>4, <3>1 DEF Safe, Marked
  <2> QED BY <2>1, <2>2
<1>7. Safe(fresh)
  BY <1>1, <1>4, <1>6 DEF Safe
<1> QED BY <1>1, <1>4, <1>5, <1>7 DEF fresh, waited, new

LEMMA ResizeStep ==
    ASSUME Inv, NEW size \in 0 .. N, resize(size)
    PROVE  Inv' /\ Kept
<1> DEFINE none == [b \in Block |-> Undefined]
           r == Send(none, "pixmap", Block)
<1>1. PICK segment :
        Become(IF size = 0 THEN Fresh(This, size, segment)
               ELSE Request(Fresh(This, size, segment), r))
  <2>1. PICK segment \in Segments(size) :
          LET kept == segment = img.segmentSize /\ segment > 0
              waits == ~kept /\ (img.segmentSize > 0 \/ segment > 0)
              waited == IF waits THEN sync(This) ELSE This
              fresh == [waited EXCEPT
                           !.size = size, !.segmentSize = segment, !.gc = FALSE,
                           !.image = IF kept THEN @ ELSE none]
          IN Become(IF size = 0 THEN fresh ELSE Request(fresh, r))
    BY DEF resize
  <2>2. This.segmentSize = img.segmentSize
    BY ThisIsImg DEF Inv
  <2> QED BY <2>1, <2>2 DEF Fresh, Waited, Keeps
<1> DEFINE fresh == Fresh(This, size, segment)
           kept == Keeps(This, segment)
           m == IF size = 0 THEN fresh ELSE Request(fresh, r)
<1>2. Become(m) /\ Idle /\ painting' = painting
  BY <1>1 DEF resize
<1>3. /\ Safe(fresh)
      /\ kept => fresh.image = This.image
      /\ ~kept => Unread(fresh.queue, Block)
  BY FreshIsSafe DEF Inv
<1>4. r.op # "shm"
  BY DEF Send
<1> HIDE DEF fresh, kept, r
<1>5. /\ Safe(Request(fresh, r))
      /\ Request(fresh, r) = [fresh EXCEPT !.queue = Request(fresh, r).queue]
      /\ Unread(fresh.queue, Block) => Unread(Request(fresh, r).queue, Block)
  BY <1>3, <1>4, RequestIsSafe
<1>6. /\ Safe(m) /\ (kept => m.image = This.image) /\ (~kept => Unread(m.queue, Block))
  <2>1. Request(fresh, r).image = fresh.image
    BY <1>3, <1>5 DEF Safe, Wf
  <2> QED BY <1>3, <1>5, <2>1
<1> HIDE DEF m
<1>7. Untouched(m, This)
  <2>1. CASE kept
    BY <1>6, <2>1, SameImage
  <2>2. CASE ~kept
    BY <1>6, <2>2, ChangedWhereUnread
  <2> QED BY <2>1, <2>2
<1> QED BY <1>2, <1>6, <1>7, CallIsSafe

LEMMA ExecuteStep ==
    ASSUME Inv, Execute
    PROVE  Inv' /\ Kept
<1>1. queue # <<>> /\ queue' = Tail(queue) /\ img' = img /\ painting' = painting
  BY DEF Execute
<1>2. Wf(This) /\ IsSequence(queue) /\ Marked(queue, This) /\ This.size \in 0 .. N
  BY ThisIsImg DEF Inv, Safe
<1>3. /\ Len(queue') = Len(queue) - 1 /\ Len(queue) \in Nat
      /\ \A i \in 1 .. Len(queue') : i + 1 \in 1 .. Len(queue) /\ queue'[i] = queue[i + 1]
      /\ queue' \in Seq({queue[i] : i \in 1 .. Len(queue)})
  <2> DEFINE S == {queue[i] : i \in 1 .. Len(queue)}
  <2>1. queue \in Seq(S) /\ queue # <<>>
    BY <1>1, <1>2 DEF IsSequence
  <2> HIDE DEF S
  <2>2. /\ Tail(queue) \in Seq(S) /\ Len(Tail(queue)) = Len(queue) - 1 /\ Len(queue) \in Nat
        /\ \A i \in 1 .. Len(Tail(queue)) : Tail(queue)[i] = queue[i + 1]
    BY <2>1
  <2>3. \A i \in 1 .. Len(Tail(queue)) : i + 1 \in 1 .. Len(queue)
    BY <2>2
  <2> QED BY <1>1, <2>2, <2>3 DEF S
<1>4. IsSequence(queue')
  <2> DEFINE q == queue'
  <2>1. q = [i \in 1 .. Len(q) |-> q[i]] /\ Len(q) \in Nat
    BY <1>3
  <2> HIDE DEF q
  <2>2. q \in Seq({q[i] : i \in 1 .. Len(q)})
    BY <2>1
  <2> QED BY <2>2 DEF IsSequence, q
<1>5. /\ Wf(img') /\ Wf(This') /\ This'.queue = queue' /\ This'.size = This.size
      /\ This'.dirtyShm = This.dirtyShm /\ This'.segmentSize = This.segmentSize
  <2>1. Wf(img) /\ Wf(img')
    BY <1>1 DEF Inv
  <2>2. Wf([img' EXCEPT !.server = server', !.queue = queue'])
    BY <2>1, ThisIsWf
  <2>3. /\ This'.queue = queue' /\ This'.size = img'.size
        /\ This'.dirtyShm = img'.dirtyShm /\ This'.segmentSize = img'.segmentSize
    BY <2>1 DEF This, Wf
  <2> QED BY <1>1, <2>1, <2>2, <2>3, ThisIsImg DEF This
<1>6. Marked(queue', This')
  BY <1>2, <1>3, <1>5 DEF Marked, hasShm
<1>7. \A region : Unread(queue, region) => Unread(queue', region)
  BY <1>3 DEF Unread
<1>8. Kept
  BY <1>1 DEF Kept
<1> QED BY <1>1, <1>2, <1>4, <1>5, <1>6, <1>7, <1>8 DEF Inv, Safe, PaintedIsUnread

LEMMA InvStep ==
    ASSUME Inv, [Next]_vars
    PROVE  Inv' /\ ("unsynced" \notin Liberties => Kept)
<1>1. CASE UNCHANGED vars
  BY <1>1 DEF vars, Inv, This, Safe, Wf, IsSequence, Marked, hasShm, PaintedIsUnread,
              Unread, Kept
<1>2. CASE Next
  BY <1>2, BeginPaintStep, EndPaintStep, ScrollStep, FlushStep, FlushNothingStep, ComposeStep,
     ResizeStep, ExecuteStep DEF Next
<1> QED BY <1>1, <1>2

LEMMA Invariance == Spec => []Inv
<1> QED BY InitInv, InvStep, PTL DEF Spec

LEMMA QueueIsSequence ==
    ASSUME Inv
    PROVE  DOMAIN queue = 1 .. Len(queue)
<1>1. IsSequence(queue)
  BY ThisIsImg DEF Inv, Safe
<1> QED BY <1>1 DEF IsSequence

\* m_dirtyShm covers what the server has still to read of the shared image,
\* through every paint, scroll, flush, composition and change of size: the
\* wait in preparePaint() is never skipped wrongly.
THEOREM DirtyCoversWhatIsRead == Spec => []SharedIsDirty
<1>1. Inv => SharedIsDirty
  <2> SUFFICES ASSUME Inv PROVE SharedIsDirty
    OBVIOUS
  <2>1. Marked(queue, This) /\ This.dirtyShm = img.dirtyShm
    BY ThisIsImg DEF Inv, Safe
  <2> QED BY <2>1, QueueIsSequence DEF SharedIsDirty, Marked
<1> QED BY <1>1, Invariance, PTL

\* No step of the store changes a block of the image that the server has still
\* to read, provided that a scroll in the image never finds the server reading
\* the destination alone.
THEOREM NothingTears ==
    ASSUME "unsynced" \notin Liberties
    PROVE  Spec => NoTearing
<1>1. Inv /\ [Next]_vars /\ Inv' =>
        [\A i \in DOMAIN queue' : queue'[i].op = "shm" =>
            \A b \in queue'[i].area : img'.image[b] = img.image[b]]_vars
  <2> SUFFICES ASSUME Inv, [Next]_vars, Inv'
               PROVE  \A i \in DOMAIN queue' : queue'[i].op = "shm" =>
                          \A b \in queue'[i].area : img'.image[b] = img.image[b]
    OBVIOUS
  <2>1. Kept
    BY InvStep
  <2>2. DOMAIN queue' = 1 .. Len(queue')
    BY QueueIsSequence
  <2> QED BY <2>1, <2>2 DEF Kept
<1> QED BY <1>1, Invariance, PTL DEF Spec, NoTearing

-----------------------------------------------------------------------------
(* What the server shows once it has executed the queue.  The order of the *)
(* natural numbers gives induction over the queue.                         *)

LEMMA Least ==
    ASSUME NEW S \in SUBSET Nat, S # {}
    PROVE  \E k \in S : \A j \in S : k <= j
<1>1. PICK k \in S : \A j \in S : <<j, k>> \notin OpToRel(<, Nat)
  BY WFMin, NatLessThanWellFounded, Zenon
<1>2. \A j \in S : ~ (j < k)
  BY <1>1, Zenon DEF OpToRel
<1> QED BY <1>2

\* A set that holds 0, and with a number the next, holds n.
LEMMA UpTo ==
    ASSUME NEW n \in Nat, NEW S, 0 \in S, \A i \in 1 .. n : i - 1 \in S => i \in S
    PROVE  n \in S
<1> DEFINE T == {i \in 0 .. n : i \notin S}
<1>1. ASSUME T # {} PROVE FALSE
  <2>0. T \in SUBSET Nat
    OBVIOUS
  <2>1. PICK k \in T : \A j \in T : k <= j
    <3> HIDE DEF T
    <3> QED BY <1>1, <2>0, Least
  <2>2. k \in 1 .. n /\ k \notin S
    BY <2>1
  <2>3. k - 1 \in 0 .. n /\ k - 1 \notin T
    BY <2>1, <2>2
  <2> QED BY <2>2, <2>3
<1> QED BY <1>1

\* after: the states of the server, from srv, as it executes the first n
\* requests of q
Execution(after, n, srv, q, image) ==
    after = [i \in 0 .. n |-> IF i = 0 THEN srv ELSE Executed(after[i - 1], q[i], image)]

LEMMA ExecutionExists ==
    ASSUME NEW srv, NEW q, NEW image, NEW n \in Nat
    PROVE  \E after : Execution(after, n, srv, q, image)
<1> DEFINE S == {k \in Nat : \E after : Execution(after, k, srv, q, image)}
<1>1. 0 \in S
  <2> DEFINE after == [i \in 0 .. 0 |-> srv]
  <2>1. Execution(after, 0, srv, q, image)
    BY DEF Execution
  <2> QED BY <2>1
<1>2. ASSUME NEW k \in 1 .. n, k - 1 \in S
      PROVE  k \in S
  <2>1. PICK before : Execution(before, k - 1, srv, q, image)
    BY <1>2
  <2> DEFINE after == [i \in 0 .. k |-> IF i = k THEN Executed(before[k - 1], q[k], image)
                                        ELSE before[i]]
  <2>2. \A i \in 0 .. k - 1 : after[i] = before[i]
    OBVIOUS
  <2>3. \A i \in 0 .. k - 1 :
          before[i] = IF i = 0 THEN srv ELSE Executed(before[i - 1], q[i], image)
    BY <2>1 DEF Execution
  <2>4. \A i \in 0 .. k :
          after[i] = IF i = 0 THEN srv ELSE Executed(after[i - 1], q[i], image)
    <3> SUFFICES ASSUME NEW i \in 0 .. k
                 PROVE  after[i] = IF i = 0 THEN srv ELSE Executed(after[i - 1], q[i], image)
      OBVIOUS
    <3>1. CASE i = k
      <4>1. after[i] = Executed(before[k - 1], q[k], image)
        BY <3>1
      <4>2. after[i - 1] = before[k - 1]
        BY <2>2, <3>1
      <4> QED BY <3>1, <4>1, <4>2
    <3>2. CASE i # k
      <4>1. after[i] = before[i] /\ (i # 0 => after[i - 1] = before[i - 1])
        BY <2>2, <3>2
      <4> HIDE DEF after
      <4> QED BY <2>3, <3>2, <4>1
    <3> QED BY <3>1, <3>2
  <2>5. Execution(after, k, srv, q, image)
    <3>1. after = [i \in 0 .. k |-> after[i]]
      OBVIOUS
    <3> HIDE DEF after
    <3> QED BY <2>4, <3>1 DEF Execution
  <2> QED BY <2>5
<1> HIDE DEF S
<1>3. n \in S
  BY <1>1, <1>2, UpTo
<1> QED BY <1>3 DEF S

LEMMA FinalIs ==
    ASSUME NEW m, Len(m.queue) \in Nat
    PROVE  \E after : /\ Execution(after, Len(m.queue), m.server, m.queue, m.image)
                      /\ Final(m) = after[Len(m.queue)]
<1> DEFINE after == CHOOSE a : Execution(a, Len(m.queue), m.server, m.queue, m.image)
<1>1. Execution(after, Len(m.queue), m.server, m.queue, m.image)
  BY ExecutionExists, Zenon
<1>2. Final(m) = after[Len(m.queue)]
  BY DEF Final, Execution
<1> QED BY <1>1, <1>2

LEMMA ExecutionStep ==
    ASSUME NEW after, NEW n \in Nat, NEW srv, NEW q, NEW image,
           Execution(after, n, srv, q, image)
    PROVE  /\ after[0] = srv
           /\ \A i \in 1 .. n : after[i] = Executed(after[i - 1], q[i], image)
<1>1. \A i \in 0 .. n : after[i] = IF i = 0 THEN srv ELSE Executed(after[i - 1], q[i], image)
  BY DEF Execution
<1> QED BY <1>1

LEMMA FinalOfNone ==
    ASSUME NEW m, m.queue = <<>>
    PROVE  Final(m) = m.server
<1>1. Len(m.queue) = 0
  OBVIOUS
<1> QED BY <1>1, FinalIs, ExecutionStep

\* A request more is executed last.
LEMMA FinalOfAppend ==
    ASSUME NEW m, NEW p, NEW r, IsSequence(m.queue),
           p.queue = Append(m.queue, r), p.server = m.server, p.image = m.image
    PROVE  Final(p) = Executed(Final(m), r, m.image)
<1> DEFINE n == Len(m.queue)
<1>1. /\ Len(p.queue) = n + 1 /\ n \in Nat
      /\ \A i \in 1 .. n : p.queue[i] = m.queue[i]
      /\ p.queue[n + 1] = r
  BY Appended
<1>2. PICK f : Execution(f, n, m.server, m.queue, m.image) /\ Final(m) = f[n]
  BY <1>1, FinalIs
<1>3. PICK g : Execution(g, n + 1, m.server, p.queue, m.image) /\ Final(p) = g[n + 1]
  <2>1. Len(p.queue) \in Nat
    BY <1>1
  <2>2. PICK g : /\ Execution(g, Len(p.queue), p.server, p.queue, p.image)
                 /\ Final(p) = g[Len(p.queue)]
    BY <2>1, FinalIs
  <2> QED BY <1>1, <2>2
<1> HIDE DEF n
<1>n. n \in Nat /\ n + 1 \in Nat
  BY <1>1
<1>4. /\ f[0] = m.server
      /\ \A i \in 1 .. n : f[i] = Executed(f[i - 1], m.queue[i], m.image)
  BY <1>1, <1>2, ExecutionStep
<1>5. /\ g[0] = m.server
      /\ \A i \in 1 .. n + 1 : g[i] = Executed(g[i - 1], p.queue[i], m.image)
  <2> DEFINE k == n + 1
  <2>1. k \in Nat /\ Execution(g, k, m.server, p.queue, m.image)
    BY <1>n, <1>3
  <2> HIDE DEF k
  <2>2. /\ g[0] = m.server
        /\ \A i \in 1 .. k : g[i] = Executed(g[i - 1], p.queue[i], m.image)
    BY <2>1, ExecutionStep
  <2> QED BY <2>2 DEF k
<1> DEFINE S == {i \in 0 .. n : f[i] = g[i]}
<1>6. 0 \in S
  BY <1>1, <1>4, <1>5
<1>7. \A i \in 1 .. n : i - 1 \in S => i \in S
  BY <1>1, <1>4, <1>5
<1> HIDE DEF S
<1>8. n \in S
  BY <1>n, <1>6, <1>7, UpTo
<1>9. g[n + 1] = Executed(g[n], r, m.image)
  BY <1>1, <1>5
<1> QED BY <1>2, <1>3, <1>8, <1>9 DEF S

\* Executing the first request changes nothing of what comes out.
LEMMA FinalOfTail ==
    ASSUME NEW m, NEW p, IsSequence(m.queue), m.queue # <<>>, p.queue = Tail(m.queue),
           p.server = Executed(m.server, Head(m.queue), m.image), p.image = m.image
    PROVE  Final(p) = Final(m)
<1> DEFINE n == Len(m.queue)
<1>1. /\ Len(p.queue) = n - 1 /\ n \in Nat /\ n >= 1
      /\ \A i \in 1 .. n - 1 : p.queue[i] = m.queue[i + 1]
      /\ Head(m.queue) = m.queue[1]
  BY DEF IsSequence
<1>2. PICK f : Execution(f, n, m.server, m.queue, m.image) /\ Final(m) = f[n]
  BY <1>1, FinalIs
<1>3. PICK g : Execution(g, n - 1, p.server, p.queue, m.image) /\ Final(p) = g[n - 1]
  <2>1. Len(p.queue) \in Nat
    BY <1>1
  <2>2. PICK g : /\ Execution(g, Len(p.queue), p.server, p.queue, p.image)
                 /\ Final(p) = g[Len(p.queue)]
    BY <2>1, FinalIs
  <2> QED BY <1>1, <2>2
<1> HIDE DEF n
<1>n. n \in Nat /\ n - 1 \in Nat
  BY <1>1
<1>4. /\ f[0] = m.server
      /\ \A i \in 1 .. n : f[i] = Executed(f[i - 1], m.queue[i], m.image)
  BY <1>1, <1>2, ExecutionStep
<1>5. /\ g[0] = p.server
      /\ \A i \in 1 .. n - 1 : g[i] = Executed(g[i - 1], p.queue[i], m.image)
  <2> DEFINE k == n - 1
             srv == p.server
             q == p.queue
  <2>1. k \in Nat /\ Execution(g, k, srv, q, m.image)
    BY <1>n, <1>3
  <2> HIDE DEF k, srv, q
  <2>2. /\ g[0] = srv
        /\ \A i \in 1 .. k : g[i] = Executed(g[i - 1], q[i], m.image)
    BY <2>1, ExecutionStep
  <2> QED BY <2>2 DEF k, srv, q
<1> DEFINE S == {i \in 0 .. n - 1 : g[i] = f[i + 1]}
<1>6. 0 \in S
  BY <1>1, <1>4, <1>5
<1>7. \A i \in 1 .. n - 1 : i - 1 \in S => i \in S
  BY <1>1, <1>4, <1>5
<1> HIDE DEF S
<1>8. n - 1 \in S
  BY <1>n, <1>6, <1>7, UpTo
<1>9. g[n - 1] = f[n]
  BY <1>1, <1>8 DEF S
<1> QED BY <1>2, <1>3, <1>9

Drawables == {"pixmap", "window"}

IsServer(s) == s = [x \in Drawables |-> s[x]]

From(s, r, image) ==
    CASE r.op = "put" -> r.data [] r.op = "shm" -> image [] r.op = "copy" -> s["pixmap"]

LEMMA ExecutedIs ==
    ASSUME NEW s, IsServer(s), NEW r, NEW image, r.to \in Drawables
    PROVE  /\ IsServer(Executed(s, r, image))
           /\ \A x \in Drawables \ {r.to} : Executed(s, r, image)[x] = s[x]
           /\ \A b \in Block : Executed(s, r, image)[r.to][b] =
                 IF b \in r.area THEN From(s, r, image)[b - r.by] ELSE s[r.to][b]
<1> DEFINE w == From(s, r, image)
           t == r.to
           new == [b \in Block |-> IF b \in r.area THEN w[b - r.by] ELSE s[t][b]]
<1>1. Executed(s, r, image) = [s EXCEPT ![t] = new]
  BY DEF Executed, From
<1> HIDE DEF t, new
<1>2. t \in Drawables
  BY DEF t
<1>3. /\ IsServer([s EXCEPT ![t] = new])
      /\ \A x \in Drawables \ {t} : [s EXCEPT ![t] = new][x] = s[x]
      /\ [s EXCEPT ![t] = new][t] = new
  BY <1>2 DEF IsServer
<1>4. \A b \in Block : new[b] = IF b \in r.area THEN w[b - r.by] ELSE s[t][b]
  BY DEF new
<1> HIDE DEF w
<1>5. \A b \in Block : Executed(s, r, image)[t][b] = IF b \in r.area THEN w[b - r.by] ELSE s[t][b]
  BY <1>1, <1>3, <1>4
<1> QED BY <1>1, <1>3, <1>5 DEF t, w

\* The requests write to the two drawables, and the shared image is put where
\* it belongs.
WellMade(q) ==
    \A i \in 1 .. Len(q) : q[i].to \in Drawables /\ (q[i].op = "shm" => q[i].by = 0)

\* Two images give the same if they agree where the server has still to read.
LEMMA FinalOfImages ==
    ASSUME NEW m, NEW p, IsSequence(m.queue), WellMade(m.queue),
           p.queue = m.queue, p.server = m.server,
           \A i \in 1 .. Len(m.queue) : m.queue[i].op = "shm" =>
               \A b \in m.queue[i].area \intersect Block : p.image[b] = m.image[b]
    PROVE  Final(p) = Final(m)
<1> DEFINE n == Len(m.queue)
           q == m.queue
<1>1. n \in Nat
  BY DEF IsSequence
<1>2. PICK f : Execution(f, n, m.server, q, m.image) /\ Final(m) = f[n]
  BY <1>1, FinalIs
<1>3. PICK g : Execution(g, n, m.server, q, p.image) /\ Final(p) = g[n]
  BY <1>1, FinalIs
<1>4. \A i \in 1 .. n : \A s : Executed(s, q[i], m.image) = Executed(s, q[i], p.image)
  <2> SUFFICES ASSUME NEW i \in 1 .. n, NEW s
               PROVE  Executed(s, q[i], m.image) = Executed(s, q[i], p.image)
    OBVIOUS
  <2> DEFINE r == q[i]
             old == [b \in Block |-> IF b \in r.area THEN m.image[b - r.by] ELSE s[r.to][b]]
             new == [b \in Block |-> IF b \in r.area THEN p.image[b - r.by] ELSE s[r.to][b]]
  <2>1. CASE r.op = "shm"
    <3>1. r.by = 0 /\ \A b \in r.area \intersect Block : p.image[b] = m.image[b]
      BY <2>1 DEF WellMade
    <3>2. \A b \in Block : b - 0 = b
      BY BoundsAssumption DEF Block
    <3>3. old = new
      BY <3>1, <3>2
    <3>4. /\ Executed(s, r, m.image) = [s EXCEPT ![r.to] = old]
          /\ Executed(s, r, p.image) = [s EXCEPT ![r.to] = new]
      BY <2>1 DEF Executed
    <3> HIDE DEF old, new
    <3> QED BY <3>3, <3>4
  <2>2. CASE r.op # "shm"
    BY <2>2 DEF Executed
  <2> QED BY <2>1, <2>2
<1> HIDE DEF n, q
<1>5. /\ f[0] = m.server
      /\ \A i \in 1 .. n : f[i] = Executed(f[i - 1], q[i], m.image)
  BY <1>1, <1>2, ExecutionStep
<1>6. /\ g[0] = m.server
      /\ \A i \in 1 .. n : g[i] = Executed(g[i - 1], q[i], p.image)
  BY <1>1, <1>3, ExecutionStep
<1> DEFINE S == {i \in 0 .. n : f[i] = g[i]}
<1>7. 0 \in S
  BY <1>1, <1>5, <1>6
<1>8. \A i \in 1 .. n : i - 1 \in S => i \in S
  <2> SUFFICES ASSUME NEW i \in 1 .. n, i - 1 \in S
               PROVE  i \in S
    OBVIOUS
  <2>1. f[i] = Executed(g[i - 1], q[i], m.image)
    BY <1>5
  <2>2. g[i] = Executed(g[i - 1], q[i], m.image)
    BY <1>4, <1>6
  <2> QED BY <2>1, <2>2
<1> HIDE DEF S
<1>9. n \in S
  BY <1>1, <1>7, <1>8, UpTo
<1> QED BY <1>2, <1>3, <1>9 DEF S

LEMMA FinalIsServer ==
    ASSUME NEW m, IsSequence(m.queue), WellMade(m.queue), IsServer(m.server)
    PROVE  IsServer(Final(m))
<1> DEFINE n == Len(m.queue)
           q == m.queue
<1>1. n \in Nat /\ \A i \in 1 .. n : q[i].to \in Drawables
  BY DEF IsSequence, WellMade
<1>2. PICK f : Execution(f, n, m.server, q, m.image) /\ Final(m) = f[n]
  BY <1>1, FinalIs
<1> HIDE DEF n, q
<1>3. /\ f[0] = m.server
      /\ \A i \in 1 .. n : f[i] = Executed(f[i - 1], q[i], m.image)
  BY <1>1, <1>2, ExecutionStep
<1> DEFINE S == {i \in 0 .. n : IsServer(f[i])}
<1>4. 0 \in S
  BY <1>1, <1>3
<1>5. \A i \in 1 .. n : i - 1 \in S => i \in S
  BY <1>1, <1>3, ExecutedIs
<1> HIDE DEF S
<1>6. n \in S
  BY <1>1, <1>4, <1>5, UpTo
<1> QED BY <1>2, <1>6 DEF S

-----------------------------------------------------------------------------
(* Rectangles, which are intervals of blocks. *)

LEMMA MinIs ==
    ASSUME NEW S \in SUBSET Int, NEW a \in S, \A x \in S : a <= x
    PROVE  Min(S) = a
<1> DEFINE IsMin(x) == x \in S /\ \A y \in S : x <= y
<1>1. Min(S) = CHOOSE x : IsMin(x)
  BY DEF Min
<1>2. IsMin(a)
  OBVIOUS
<1>3. \A x : IsMin(x) => x = a
  OBVIOUS
<1> HIDE DEF IsMin
<1>4. IsMin(CHOOSE x : IsMin(x))
  BY <1>2, Zenon
<1> QED BY <1>1, <1>3, <1>4

LEMMA MaxIs ==
    ASSUME NEW S \in SUBSET Int, NEW a \in S, \A x \in S : x <= a
    PROVE  Max(S) = a
<1> DEFINE IsMax(x) == x \in S /\ \A y \in S : x >= y
<1>1. Max(S) = CHOOSE x : IsMax(x)
  BY DEF Max
<1>2. IsMax(a)
  OBVIOUS
<1>3. \A x : IsMax(x) => x = a
  OBVIOUS
<1> HIDE DEF IsMax
<1>4. IsMax(CHOOSE x : IsMax(x))
  BY <1>2, Zenon
<1> QED BY <1>1, <1>3, <1>4

\* A block of a region is in one of its rectangles.
LEMMA RectsCover ==
    ASSUME NEW size \in Nat, NEW region \in SUBSET (1 .. size), NEW b \in region
    PROVE  \E r \in Rects(region) : b \in r
<1> DEFINE A == {a \in Nat : a <= b /\ \A x \in a .. b : x \in region}
           C == {c \in Nat : b <= c /\ c + 1 \notin region}
<1>1. b \in Nat /\ b >= 1 /\ b <= size
  OBVIOUS
<1>2. b \in A /\ A \in SUBSET Nat
  BY <1>1
<1>3. size \in C /\ C \in SUBSET Nat
  BY <1>1
<1>4. PICK a \in A : \A j \in A : a <= j
  <2> HIDE DEF A
  <2> QED BY <1>2, Least
<1>5. PICK c \in C : \A j \in C : c <= j
  <2> HIDE DEF C
  <2> QED BY <1>3, Least
<1>6. a - 1 \notin region
  <2> SUFFICES ASSUME a - 1 \in region PROVE FALSE
    OBVIOUS
  <2>1. a - 1 \in Nat /\ a - 1 <= b
    BY <1>4
  <2>2. \A x \in a - 1 .. b : x \in region
    BY <1>4
  <2>3. a - 1 \in A
    BY <2>1, <2>2
  <2> QED BY <1>4, <2>3
<1>7. \A x \in b .. c : x \in region
  <2> SUFFICES ASSUME NEW x \in b .. c, x # b PROVE x \in region
    OBVIOUS
  <2>1. x - 1 \in Nat /\ b <= x - 1 /\ x - 1 < c
    BY <1>1, <1>5
  <2>2. x - 1 \notin C
    BY <1>5, <2>1
  <2>3. (x - 1) + 1 = x
    BY <2>1
  <2> QED BY <2>1, <2>2, <2>3
<1> DEFINE r == a .. c
<1>8. a \in Nat /\ c \in Nat /\ a <= b /\ b <= c /\ c + 1 \notin region
  BY <1>4, <1>5
<1>9. r \subseteq region
  <2> SUFFICES ASSUME NEW x \in a .. c PROVE x \in region
    OBVIOUS
  <2>1. x \in a .. b \/ x \in b .. c
    BY <1>1, <1>8
  <2> QED BY <1>4, <1>7, <2>1
<1>10. Min(r) = a /\ Max(r) = c
  <2>1. r \in SUBSET Int /\ a \in r /\ c \in r /\ \A x \in r : a <= x /\ x <= c
    BY <1>8
  <2> HIDE DEF r
  <2> QED BY <2>1, MinIs, MaxIs
<1>11. r = Interval(a, c) /\ a \in region /\ c \in region /\ b \in r
  BY <1>1, <1>8, <1>9 DEF Interval
<1> HIDE DEF r
<1>12. r \in Rects(region)
  BY <1>6, <1>8, <1>9, <1>10, <1>11 DEF Rects
<1> QED BY <1>11, <1>12

\* The server accepts what lies in the store.
LEMMA AcceptedIsAll ==
    ASSUME NEW m, m.size \in 0 .. N, NEW region, region \subseteq Bounds(m)
    PROVE  Accepted(m, region) = region
<1>1. m.size \in Nat /\ region \in SUBSET (1 .. m.size)
  BY BoundsAssumption DEF Bounds
<1>2. \A b \in region : \E r \in Rects(region) : b \in r
  BY <1>1, RectsCover
<1>3. \A r \in Rects(region) : r \subseteq region
  BY DEF Rects
<1> QED BY <1>2, <1>3 DEF Accepted

\* Where a copy of the pixmap comes from, when the area is not moved beyond the
\* first block.
LEMMA CopyStart ==
    ASSUME NEW m, m.size \in 0 .. N, NEW a \in Bounds(m), NEW c \in Bounds(m), a <= c,
           NEW d \in {-1, 1}, a + d >= 1,
           Moved(a .. c, d) \intersect Bounds(m) # {}
    PROVE  /\ Min(Moved(a .. c, d) \intersect Bounds(m)) = a + d
           /\ Min(a .. c) = a
<1> DEFINE dst == Moved(a .. c, d) \intersect Bounds(m)
<1>1. a \in Int /\ c \in Int /\ d \in Int /\ m.size \in Nat
  BY BoundsAssumption DEF Bounds
<1>2. \A x \in dst : x \in Int /\ a + d <= x /\ x <= m.size
  BY <1>1 DEF Moved, Bounds
<1>3. a + d \in dst
  <2>1. a + d <= m.size
    BY <1>1, <1>2
  <2>2. a \in a .. c
    BY <1>1
  <2> QED BY <1>1, <2>1, <2>2 DEF Moved, Bounds
<1>4. Min(a .. c) = a
  <2> DEFINE S == a .. c
  <2>1. S \in SUBSET Int /\ a \in S /\ \A x \in S : a <= x
    BY <1>1
  <2> HIDE DEF S
  <2>2. Min(S) = a
    BY <2>1, MinIs
  <2> QED BY <2>2 DEF S
<1>5. dst \in SUBSET Int
  BY <1>2
<1> HIDE DEF dst
<1>6. Min(dst) = a + d
  BY <1>2, <1>3, <1>5, MinIs
<1> QED BY <1>4, <1>6 DEF dst

-----------------------------------------------------------------------------
(* What the methods do to the two drawables, once all is executed. *)

Good(m) == Safe(m) /\ IsServer(m.server) /\ WellMade(m.queue)

\* the same object, but for the requests and m_dirtyShm
Alike(p, m) ==
    /\ p.image = m.image /\ p.size = m.size /\ p.segmentSize = m.segmentSize /\ p.gc = m.gc
    /\ p.clientSideScroll = m.clientSideScroll
    /\ p.scrolledRegion = m.scrolledRegion /\ p.pendingFlush = m.pendingFlush

\* From m to p the area of a drawable got what "from" has by blocks further up.
Wrote(p, m, to, area, from, by) ==
    /\ \A x \in Drawables \ {to} : Final(p)[x] = Final(m)[x]
    /\ \A b \in Block : Final(p)[to][b] = IF b \in area THEN from[b - by] ELSE Final(m)[to][b]

LEMMA FinalIsGood ==
    ASSUME NEW m, Good(m)
    PROVE  IsServer(Final(m))
BY FinalIsServer DEF Good, Safe

LEMMA SameFinal ==
    ASSUME NEW m, NEW p, Good(m), p.queue = m.queue, p.server = m.server, p.image = m.image
    PROVE  Final(p) = Final(m)
BY FinalOfImages DEF Good, Safe

\* What is appended to the queue is executed last.
LEMMA AppendWrites ==
    ASSUME NEW m, Good(m), NEW p, NEW r, r.to \in Drawables, r.op = "shm" => r.by = 0,
           p.queue = Append(m.queue, r), p.server = m.server, p.image = m.image
    PROVE  /\ WellMade(p.queue) /\ IsServer(p.server)
           /\ Wrote(p, m, r.to, r.area, From(Final(m), r, m.image), r.by)
<1>1. IsSequence(m.queue) /\ WellMade(m.queue) /\ IsServer(m.server)
  BY DEF Good, Safe
<1>2. Final(p) = Executed(Final(m), r, m.image)
  BY <1>1, FinalOfAppend
<1>3. WellMade(p.queue)
  <2>1. /\ Len(p.queue) = Len(m.queue) + 1 /\ Len(m.queue) \in Nat
        /\ \A i \in 1 .. Len(m.queue) : p.queue[i] = m.queue[i]
        /\ p.queue[Len(m.queue) + 1] = r
    BY <1>1, Appended
  <2>2. \A i \in 1 .. Len(p.queue) : i \in 1 .. Len(m.queue) \/ i = Len(m.queue) + 1
    BY <2>1
  <2> QED BY <1>1, <2>1, <2>2 DEF WellMade
<1>4. Wrote(p, m, r.to, r.area, From(Final(m), r, m.image), r.by)
  BY <1>2, FinalIsGood, ExecutedIs DEF Wrote
<1> QED BY <1>1, <1>3, <1>4

LEMMA RequestWrites ==
    ASSUME NEW m, Good(m), NEW r, r.to \in Drawables, r.op # "shm"
    PROVE  /\ Good(Request(m, r)) /\ Alike(Request(m, r), m)
           /\ Wrote(Request(m, r), m, r.to, r.area, From(Final(m), r, m.image), r.by)
<1> DEFINE p == Request(m, r)
<1>1. Safe(p) /\ p = [m EXCEPT !.queue = p.queue] /\ Wf(m)
  BY RequestIsSafe DEF Good, Safe
<1>2. Alike(p, m) /\ p.server = m.server
  <2> HIDE DEF p
  <2> QED BY <1>1 DEF Wf, Alike
<1>3. CASE r.area = {}
  <2>1. p = m
    BY <1>3 DEF Request
  <2> QED BY <1>2, <1>3, <2>1 DEF Wrote
<1>4. CASE r.area # {}
  <2>1. p.queue = Append(m.queue, r)
    BY <1>1, <1>4 DEF Request, Wf
  <2>2. p.image = m.image
    BY <1>2 DEF Alike
  <2> HIDE DEF p
  <2>3. /\ WellMade(p.queue) /\ IsServer(p.server)
        /\ Wrote(p, m, r.to, r.area, From(Final(m), r, m.image), r.by)
    BY <1>2, <2>1, <2>2, AppendWrites
  <2> QED BY <1>1, <1>2, <2>3 DEF Good, p
<1> QED BY <1>3, <1>4

LEMMA ShmPutWrites ==
    ASSUME NEW m, Good(m), hasShm(m), m.gc, NEW to \in Drawables,
           NEW region, region \subseteq Bounds(m)
    PROVE  /\ Good(shmPutImage(m, to, region)) /\ Alike(shmPutImage(m, to, region), m)
           /\ Wrote(shmPutImage(m, to, region), m, to, region, m.image, 0)
<1> DEFINE r == Share(to, region)
           p == shmPutImage(m, to, region)
<1>1. Safe(p)
  BY ShmPutIsSafe DEF Good
<1>2. Accepted(m, region) = region
  BY AcceptedIsAll DEF Good, Safe
<1>3. Wf(m)
  BY DEF Good, Safe
<1>4. r.to = to /\ r.area = region /\ r.op = "shm" /\ r.by = 0
  BY DEF Share
<1>5. p = [Request(m, r) EXCEPT !.dirtyShm = @ \union region]
  BY <1>2 DEF shmPutImage
<1>6. CASE r.area = {}
  <2>1. p = [m EXCEPT !.dirtyShm = @ \union region]
    BY <1>5, <1>6 DEF Request
  <2>2. Alike(p, m) /\ p.server = m.server /\ p.queue = m.queue /\ p.image = m.image
    BY <1>3, <2>1 DEF Alike, Wf
  <2> HIDE DEF p
  <2>3. Final(p) = Final(m)
    BY <2>2, SameFinal
  <2> QED BY <1>1, <1>4, <1>6, <2>2, <2>3 DEF Good, Wrote, p
<1>7. CASE r.area # {}
  <2>1. p = [[m EXCEPT !.queue = Append(m.queue, r)] EXCEPT !.dirtyShm = @ \union region]
    BY <1>5, <1>7 DEF Request
  <2> HIDE DEF r
  <2>2. /\ Alike(p, m) /\ p.server = m.server /\ p.queue = Append(m.queue, r)
        /\ p.image = m.image
    BY <1>3, <2>1 DEF Alike, Wf
  <2> HIDE DEF p
  <2>3. /\ WellMade(p.queue) /\ IsServer(p.server)
        /\ Wrote(p, m, to, region, From(Final(m), r, m.image), 0)
    BY <1>4, <2>2, AppendWrites
  <2>4. From(Final(m), r, m.image) = m.image
    BY <1>4 DEF From
  <2> QED BY <1>1, <2>2, <2>3, <2>4 DEF Good, p
<1> QED BY <1>6, <1>7

LEMMA FlushFullRegionWrites ==
    ASSUME NEW m, Good(m), m.gc, NEW region, region \subseteq Bounds(m)
    PROVE  /\ Good(flushFullRegion(m, region)) /\ Alike(flushFullRegion(m, region), m)
           /\ Wrote(flushFullRegion(m, region), m, "pixmap", region, m.image, 0)
<1> DEFINE r == Send(m.image, "pixmap", region)
<1>1. region \intersect Bounds(m) = region
  OBVIOUS
<1>2. flushFullRegion(m, region) = Request(m, r)
  BY <1>1 DEF flushFullRegion
<1>3. r.op = "put" /\ r.to = "pixmap" /\ r.area = region /\ r.by = 0 /\ r.data = m.image
  BY DEF Send
<1> HIDE DEF r
<1>4. From(Final(m), r, m.image) = m.image
  BY <1>3 DEF From
<1>5. r.op # "shm" /\ r.to \in Drawables
  BY <1>3 DEF Drawables
<1> QED BY <1>2, <1>3, <1>4, <1>5, RequestWrites

LEMMA SettingWrites ==
    ASSUME NEW m, Good(m), NEW v
    PROVE  /\ Good([m EXCEPT !.gc = v]) /\ Final([m EXCEPT !.gc = v]) = Final(m)
           /\ Good([m EXCEPT !.clientSideScroll = v])
           /\ Final([m EXCEPT !.clientSideScroll = v]) = Final(m)
           /\ Good([m EXCEPT !.pendingFlush = v])
           /\ Final([m EXCEPT !.pendingFlush = v]) = Final(m)
           /\ Good([m EXCEPT !.scrolledRegion = v])
           /\ Final([m EXCEPT !.scrolledRegion = v]) = Final(m)
<1> DEFINE p1 == [m EXCEPT !.gc = v]
           p2 == [m EXCEPT !.clientSideScroll = v]
           p3 == [m EXCEPT !.pendingFlush = v]
           p4 == [m EXCEPT !.scrolledRegion = v]
<1>1. \A p \in {p1, p2, p3, p4} :
        p.queue = m.queue /\ p.server = m.server /\ p.image = m.image
  BY DEF Good, Safe, Wf
<1>2. \A p \in {p1, p2, p3, p4} : Safe(p)
  <2>1. Safe(m)
    BY DEF Good
  <2>2. Safe(p1) /\ Safe(p2) /\ Safe(p3) /\ Safe(p4)
    BY <2>1, SettingIsSafe
  <2> HIDE DEF p1, p2, p3, p4
  <2> QED BY <2>2
<1> HIDE DEF p1, p2, p3, p4
<1>3. \A p \in {p1, p2, p3, p4} : Good(p) /\ Final(p) = Final(m)
  BY <1>1, <1>2, SameFinal DEF Good
<1> QED BY <1>3 DEF p1, p2, p3, p4

LEMMA SyncWrites ==
    ASSUME NEW m, Good(m)
    PROVE  /\ Good(sync(m)) /\ Alike(sync(m), m) /\ Final(sync(m)) = Final(m)
           /\ sync(m).server = Final(m) /\ sync(m).queue = <<>>
           /\ sync(m).dirtyShm = m.dirtyShm
<1> DEFINE f == Final(m)
           p == sync(m)
<1>1. Wf(m) /\ IsServer(f)
  BY FinalIsGood DEF Good, Safe
<1>2. p = [m EXCEPT !.server = f, !.queue = <<>>]
  BY DEF sync
<1>3. Safe(p) /\ p.queue = <<>>
  BY SyncIsSafe DEF Good
<1> HIDE DEF p, f
<1>4. p.server = f /\ Alike(p, m) /\ p.dirtyShm = m.dirtyShm
  BY <1>1, <1>2 DEF Wf, Alike
<1>5. Final(p) = f
  BY <1>3, <1>4, FinalOfNone
<1>6. Good(p)
  <2>1. \A i \in 1 .. Len(p.queue) : FALSE
    BY <1>3
  <2> QED BY <1>1, <1>3, <1>4, <2>1 DEF Good, WellMade
<1> QED BY <1>3, <1>4, <1>5, <1>6 DEF p, f

LEMMA SyncIfSharedWrites ==
    ASSUME NEW m, Good(m), NEW region
    PROVE  /\ Good(syncIfShared(m, region)) /\ Alike(syncIfShared(m, region), m)
           /\ Final(syncIfShared(m, region)) = Final(m)
<1> DEFINE p == syncIfShared(m, region)
           q == sync(m)
<1>1. CASE hasShm(m) /\ m.dirtyShm \intersect region # {}
  <2>1. p = [q EXCEPT !.dirtyShm = {}]
    BY <1>1 DEF syncIfShared
  <2>2. Good(q) /\ Alike(q, m) /\ Final(q) = Final(m) /\ Wf(q)
    BY SyncWrites DEF Good, Safe
  <2>3. Safe(p)
    BY SyncIfSharedIsSafe DEF Good
  <2> HIDE DEF p, q
  <2>4. Alike(p, q) /\ p.server = q.server /\ p.queue = q.queue /\ p.image = q.image
    BY <2>1, <2>2 DEF Wf, Alike
  <2>5. Final(p) = Final(q)
    BY <2>2, <2>4, SameFinal
  <2> QED BY <2>2, <2>3, <2>4, <2>5 DEF Good, Alike, p
<1>2. CASE ~(hasShm(m) /\ m.dirtyShm \intersect region # {})
  BY <1>2 DEF syncIfShared, Alike
<1> QED BY <1>1, <1>2

LEMMA PreparePaintWrites ==
    ASSUME NEW m, Good(m), NEW region
    PROVE  /\ Good(preparePaint(m, region)) /\ Final(preparePaint(m, region)) = Final(m)
           /\ Alike(preparePaint(m, region),
                    [m EXCEPT !.scrolledRegion = @ \ region, !.pendingFlush = @ \union region])
<1> DEFINE q == syncIfShared(m, region)
           p == preparePaint(m, region)
           n == [m EXCEPT !.scrolledRegion = @ \ region, !.pendingFlush = @ \union region]
<1>1. Good(q) /\ Alike(q, m) /\ Final(q) = Final(m) /\ Wf(q) /\ Wf(m)
  BY SyncIfSharedWrites DEF Good, Safe
<1>2. p = [q EXCEPT !.scrolledRegion = @ \ region, !.pendingFlush = @ \union region]
  BY DEF preparePaint
<1>3. Safe(p)
  BY PreparePaintIsSafe DEF Good
<1> HIDE DEF p, q
<1>4. /\ p.server = q.server /\ p.queue = q.queue /\ p.image = q.image
      /\ Alike(p, n)
  BY <1>1, <1>2 DEF Wf, Alike
<1>5. Final(p) = Final(q)
  BY <1>1, <1>4, SameFinal
<1> QED BY <1>1, <1>3, <1>4, <1>5 DEF Good, p

-----------------------------------------------------------------------------
(* The regions tell where each block is: for a canvas c, a block that was  *)
(* drawn is in the image unless it was scrolled on the server since and is *)
(* not pending, and in the pixmap unless it is pending, or was scrolled in *)
(* the image; a block scrolled on the server is in the pixmap even then.   *)

InImage(m, b) == m.clientSideScroll \/ b \notin m.scrolledRegion \/ b \in m.pendingFlush

InPixmap(m, b) ==
    \/ b \notin m.pendingFlush /\ ~(m.clientSideScroll /\ b \in m.scrolledRegion)
    \/ ~m.clientSideScroll /\ b \in m.scrolledRegion

Regions(m, c) ==
    /\ m.clientSideScroll \in BOOLEAN
    /\ m.scrolledRegion \subseteq Bounds(m)
    /\ \A b \in Bounds(m) : c[b] # Undefined =>
          /\ InImage(m, b) => m.image[b] = c[b]
          /\ InPixmap(m, b) => Final(m)["pixmap"][b] = c[b]

LEMMA SameRegions ==
    ASSUME NEW m, NEW p, NEW c, Regions(m, c), Alike(p, m),
           \A b \in Block : Final(p)["pixmap"][b] = Final(m)["pixmap"][b], m.size \in 0 .. N
    PROVE  Regions(p, c)
<1>1. Bounds(p) = Bounds(m) /\ Bounds(m) \subseteq Block
  BY BoundsAssumption DEF Alike, Bounds, Block
<1> QED BY <1>1 DEF Alike, Regions, InImage, InPixmap

LEMMA BlockIsInt == \A b \in Block : b \in Int /\ b - 0 = b
BY BoundsAssumption DEF Block

\* the blocks of a store are among those of the largest
LEMMA BoundsAreBlocks ==
    ASSUME NEW m, Good(m)
    PROVE  m.size \in 0 .. N /\ Bounds(m) \subseteq Block
BY BoundsAssumption DEF Good, Safe, Bounds, Block

\* Whichever side scrolls from here on, the scrolled blocks are there.
LEMMA FlushScrolledRegionWrites ==
    ASSUME NEW m, Good(m), NEW c, Regions(m, c), NEW clientSide \in BOOLEAN
    PROVE  /\ Good(flushScrolledRegion(m, clientSide))
           /\ Regions(flushScrolledRegion(m, clientSide), c)
           /\ flushScrolledRegion(m, clientSide).clientSideScroll = clientSide
           /\ flushScrolledRegion(m, clientSide).size = m.size
           /\ flushScrolledRegion(m, clientSide).segmentSize = m.segmentSize
           /\ Final(flushScrolledRegion(m, clientSide))["window"] = Final(m)["window"]
<1> DEFINE turned == [m EXCEPT !.clientSideScroll = clientSide]
           synced == syncIfShared(turned, m.scrolledRegion)
           fetched == sync(synced)
           got == Accepted(m, m.scrolledRegion)
           ready == ensureGC(synced)
           p == flushScrolledRegion(m, clientSide)
<1>1. Good(turned) /\ Final(turned) = Final(m)
  BY SettingWrites
<1>2. Alike(turned, [m EXCEPT !.clientSideScroll = clientSide])
  BY DEF Alike
<1>3. /\ turned.image = m.image /\ turned.size = m.size /\ turned.segmentSize = m.segmentSize
      /\ turned.clientSideScroll = clientSide /\ turned.scrolledRegion = m.scrolledRegion
      /\ turned.pendingFlush = m.pendingFlush
  BY DEF Good, Safe, Wf
<1> HIDE DEF turned
<1>4. Good(synced) /\ Alike(synced, turned) /\ Final(synced) = Final(m)
  BY <1>1, SyncIfSharedWrites
<1>5. got = m.scrolledRegion /\ m.size \in 0 .. N /\ Bounds(m) \subseteq Block
  BY AcceptedIsAll, BoundsAreBlocks DEF Regions
<1>6. CASE m.clientSideScroll = clientSide \/ m.scrolledRegion = {}
  <2>1. p = turned
    BY <1>6 DEF flushScrolledRegion, turned
  <2>2. Bounds(turned) = Bounds(m)
    BY <1>3 DEF Bounds
  <2>3. Regions(turned, c)
    BY <1>1, <1>3, <1>6, <2>2 DEF Regions, InImage, InPixmap
  <2> QED BY <1>1, <1>3, <2>1, <2>3
<1>7. CASE ~(m.clientSideScroll = clientSide \/ m.scrolledRegion = {}) /\ clientSide
  <2> DEFINE none == {}
             new == [b \in Block |-> IF b \in got THEN fetched.server.pixmap[b]
                                     ELSE fetched.image[b]]
             drawn == [fetched EXCEPT !.image = new]
  <2>1. p = [drawn EXCEPT !.scrolledRegion = none]
    BY <1>7 DEF flushScrolledRegion, turned
  <2>2. Good(fetched) /\ Alike(fetched, synced) /\ Final(fetched) = Final(m)
        /\ fetched.server = Final(m) /\ fetched.queue = <<>>
    <3> HIDE DEF synced
    <3> QED BY <1>4, SyncWrites
  <2>3. \A b \in Block : new[b] = IF b \in m.scrolledRegion THEN Final(m)["pixmap"][b]
                                  ELSE m.image[b]
    <3>1. fetched.image = m.image
      BY <1>3, <1>4, <2>2 DEF Alike
    <3> QED BY <1>5, <2>2, <3>1
  <2> HIDE DEF new, none, fetched
  <2>4. Wf(fetched)
    BY <2>2 DEF Good, Safe
  <2>5. /\ p.queue = <<>> /\ p.server = Final(m) /\ p.image = new /\ p.size = m.size
        /\ p.segmentSize = m.segmentSize /\ p.clientSideScroll = clientSide
        /\ p.scrolledRegion = none /\ p.pendingFlush = m.pendingFlush
    <3>1. /\ p.queue = fetched.queue /\ p.server = fetched.server /\ p.image = new
          /\ p.size = fetched.size /\ p.segmentSize = fetched.segmentSize
          /\ p.clientSideScroll = fetched.clientSideScroll
          /\ p.scrolledRegion = none /\ p.pendingFlush = fetched.pendingFlush
      BY <2>1, <2>4 DEF Wf
    <3> QED BY <1>3, <1>4, <2>2, <3>1 DEF Alike
  <2>6. Safe(p)
    BY FlushScrolledRegionIsSafe DEF Good
  <2> HIDE DEF p
  <2>7. Final(p) = Final(m)
    BY <2>5, FinalOfNone
  <2>8. Good(p)
    <3>1. \A i \in 1 .. Len(p.queue) : FALSE
      BY <2>5
    <3>2. IsServer(Final(m))
      BY FinalIsGood
    <3> QED BY <2>5, <2>6, <3>1, <3>2 DEF Good, WellMade
  <2>9. Regions(p, c)
    <3>1. Bounds(p) = Bounds(m) /\ p.scrolledRegion = {}
      BY <2>5 DEF Bounds, none
    <3>2. ~m.clientSideScroll /\ clientSide
      BY <1>7 DEF Regions
    <3>3. ASSUME NEW b \in Bounds(m), c[b] # Undefined
          PROVE  /\ p.image[b] = c[b]
                 /\ InPixmap(p, b) => Final(p)["pixmap"][b] = c[b]
      <4>1. b \in Block
        BY <1>5
      <4>2. /\ InImage(m, b) => m.image[b] = c[b]
            /\ InPixmap(m, b) => Final(m)["pixmap"][b] = c[b]
        BY <3>3 DEF Regions
      <4>3. CASE b \in m.scrolledRegion
        BY <2>3, <2>5, <2>7, <3>2, <4>1, <4>2, <4>3 DEF InPixmap
      <4>4. CASE b \notin m.scrolledRegion
        BY <2>3, <2>5, <2>7, <3>2, <4>1, <4>2, <4>4 DEF InPixmap, InImage
      <4> QED BY <4>3, <4>4
    <3> QED BY <2>5, <3>1, <3>3 DEF Regions
  <2> QED BY <2>5, <2>7, <2>8, <2>9 DEF p
<1>8. CASE ~(m.clientSideScroll = clientSide \/ m.scrolledRegion = {}) /\ ~clientSide
  <2>1. p = IF hasShm(m) THEN shmPutImage(ready, "pixmap", m.scrolledRegion)
            ELSE flushFullRegion(ready, m.scrolledRegion)
    BY <1>8 DEF flushScrolledRegion, turned
  <2> HIDE DEF synced
  <2>2. Good(ready) /\ Final(ready) = Final(m)
    BY <1>4, SettingWrites DEF ensureGC
  <2>3. /\ ready.image = m.image /\ ready.size = m.size /\ ready.segmentSize = m.segmentSize
        /\ ready.clientSideScroll = clientSide /\ ready.scrolledRegion = m.scrolledRegion
        /\ ready.pendingFlush = m.pendingFlush /\ ready.gc = TRUE
    <3>1. Wf(synced)
      BY <1>4 DEF Good, Safe
    <3>2. /\ ready.image = synced.image /\ ready.size = synced.size
          /\ ready.segmentSize = synced.segmentSize
          /\ ready.clientSideScroll = synced.clientSideScroll
          /\ ready.scrolledRegion = synced.scrolledRegion
          /\ ready.pendingFlush = synced.pendingFlush /\ ready.gc = TRUE
      BY <3>1 DEF ensureGC, Wf
    <3> QED BY <1>3, <1>4, <3>2 DEF Alike
  <2> HIDE DEF ready
  <2>4. m.scrolledRegion \subseteq Bounds(ready) /\ (hasShm(ready) <=> hasShm(m))
    BY <2>3 DEF Regions, Bounds, hasShm
  <2>5. /\ Good(p) /\ Alike(p, ready)
        /\ Wrote(p, ready, "pixmap", m.scrolledRegion, m.image, 0)
    <3>1. CASE hasShm(m)
      BY <2>1, <2>2, <2>3, <2>4, <3>1, ShmPutWrites DEF Drawables
    <3>2. CASE ~hasShm(m)
      BY <2>1, <2>2, <2>3, <2>4, <3>2, FlushFullRegionWrites
    <3> QED BY <3>1, <3>2
  <2> HIDE DEF p
  <2>6. /\ Final(p)["window"] = Final(m)["window"]
        /\ \A b \in Block : Final(p)["pixmap"][b] =
              IF b \in m.scrolledRegion THEN m.image[b] ELSE Final(m)["pixmap"][b]
    BY <2>2, <2>5, BlockIsInt DEF Wrote, Drawables
  <2>7. /\ p.image = m.image /\ p.size = m.size /\ p.segmentSize = m.segmentSize
        /\ p.clientSideScroll = clientSide /\ p.scrolledRegion = m.scrolledRegion
        /\ p.pendingFlush = m.pendingFlush
    BY <2>3, <2>5 DEF Alike
  <2>8. Regions(p, c)
    <3>1. Bounds(p) = Bounds(m)
      BY <2>7 DEF Bounds
    <3>2. m.clientSideScroll /\ ~clientSide
      BY <1>8 DEF Regions
    <3>3. ASSUME NEW b \in Bounds(m), c[b] # Undefined
          PROVE  /\ InImage(p, b) => p.image[b] = c[b]
                 /\ InPixmap(p, b) => Final(p)["pixmap"][b] = c[b]
      <4>1. b \in Block
        BY <1>5
      <4>2. /\ InImage(m, b) => m.image[b] = c[b]
            /\ InPixmap(m, b) => Final(m)["pixmap"][b] = c[b]
        BY <3>3 DEF Regions
      <4>3. m.image[b] = c[b]
        BY <3>2, <4>2 DEF InImage
      <4> QED BY <2>6, <2>7, <3>2, <4>1, <4>2, <4>3 DEF InPixmap
    <3> QED BY <2>7, <3>1, <3>3 DEF Regions
  <2> QED BY <2>5, <2>6, <2>7, <2>8 DEF p
<1> QED BY <1>6, <1>7, <1>8

\* Pending blocks are brought to the pixmap.
LEMMA FlushPixmapWrites ==
    ASSUME NEW m, Good(m), m.gc, NEW region, region \subseteq Bounds(m)
    PROVE  /\ Good(flushPixmap(m, region))
           /\ Alike(flushPixmap(m, region), [m EXCEPT !.pendingFlush = @ \ region])
           /\ Wrote(flushPixmap(m, region), m, "pixmap", m.pendingFlush \intersect region,
                    m.image, 0)
<1> DEFINE sent == m.pendingFlush \intersect region
           q == flushFullRegion(m, sent)
           v == q.pendingFlush \ region
           p == flushPixmap(m, region)
           n == [m EXCEPT !.pendingFlush = @ \ region]
<1>1. Good(q) /\ Alike(q, m) /\ Wrote(q, m, "pixmap", sent, m.image, 0)
  <2>1. sent \subseteq Bounds(m)
    OBVIOUS
  <2> HIDE DEF sent
  <2> QED BY <2>1, FlushFullRegionWrites
<1>2. p = [q EXCEPT !.pendingFlush = v]
  BY DEF flushPixmap
<1>3. Wf(q) /\ Wf(m)
  BY <1>1 DEF Good, Safe
<1>4. v = m.pendingFlush \ region
  BY <1>1 DEF Alike
<1> HIDE DEF p, q, v
<1>5. Alike(p, n)
  BY <1>1, <1>2, <1>3, <1>4 DEF Alike, Wf
<1>6. Good(p) /\ Final(p) = Final(q)
  BY <1>1, <1>2, SettingWrites
<1>7. Wrote(p, m, "pixmap", sent, m.image, 0)
  BY <1>1, <1>6 DEF Wrote
<1> QED BY <1>5, <1>6, <1>7 DEF p

\* An image drawn on where the server has nothing to read gives the same.
LEMMA RepaintWrites ==
    ASSUME NEW m, Good(m), NEW new,
           \A i \in 1 .. Len(m.queue) : m.queue[i].op = "shm" =>
               \A b \in m.queue[i].area \intersect Block : new[b] = m.image[b]
    PROVE  /\ Good([m EXCEPT !.image = new]) /\ Final([m EXCEPT !.image = new]) = Final(m)
           /\ [m EXCEPT !.image = new].image = new
<1> DEFINE p == [m EXCEPT !.image = new]
<1>1. p.queue = m.queue /\ p.server = m.server /\ p.image = new
  BY DEF Good, Safe, Wf
<1>2. Safe(p)
  BY SettingIsSafe DEF Good
<1>3. Final(p) = Final(m)
  <2> HIDE DEF p
  <2> QED BY <1>1, FinalOfImages DEF Good, Safe
<1> QED BY <1>1, <1>2, <1>3 DEF Good

-----------------------------------------------------------------------------
(* Scrolling; c is the canvas before. *)

\* What Expected() asks for, of any object, of the area from a to z.
Scrollable(m, a, z, d) ==
    /\ a \in Bounds(m) /\ z \in Bounds(m) /\ a <= z /\ d \in {-1, 1}
    /\ m.clientSideScroll \/ m.gc
    /\ a + d >= 1
    /\ hasShm(m) \/ m.clientSideScroll
       \/ (Moved(a .. z, d) \intersect Bounds(m)) \intersect (m.pendingFlush \ (a .. z)) = {}
    /\ NotReadAlone(m, a .. z, d)

LEMMA DestinationIs ==
    ASSUME NEW m, Good(m), NEW a, NEW z, NEW d, Scrollable(m, a, z, d), NEW b \in Block
    PROVE  /\ b - d \in a .. z /\ b <= m.size <=> b \in Moved(a .. z, d) \intersect Bounds(m)
           /\ b \in Moved(a .. z, d) <=> b - d \in a .. z
           /\ a .. z \subseteq Bounds(m)
           /\ b - d \in a .. z => b - d \in Bounds(m)
<1>1. b \in Int /\ b >= 1 /\ d \in Int /\ m.size \in Nat
  BY BoundsAssumption, BoundsAreBlocks DEF Block, Scrollable
<1>2. \A x \in a .. z : x \in Int /\ (b = x + d <=> b - d = x)
  BY <1>1 DEF Scrollable, Bounds
<1>3. b \in Moved(a .. z, d) <=> b - d \in a .. z
  BY <1>2 DEF Moved
<1>4. a .. z \subseteq Bounds(m)
  BY <1>1 DEF Scrollable, Bounds
<1> QED BY <1>1, <1>3, <1>4 DEF Bounds

\* Scrolling the pixmap, with what was pending of the area brought there.
LEMMA ScrollPixmapWrites ==
    ASSUME NEW m, Good(m), NEW a, NEW z, NEW d, Scrollable(m, a, z, d), ~m.clientSideScroll
    PROVE  LET area == a .. z
               dst == Moved(area, d) \intersect Bounds(m)
               p == scrollPixmap(m, area, d)
               Put(b) == IF b \in m.pendingFlush \intersect area THEN m.image[b]
                         ELSE Final(m)["pixmap"][b]
           IN  /\ Good(p)
               /\ p.image = m.image /\ p.size = m.size /\ p.segmentSize = m.segmentSize
               /\ p.clientSideScroll = m.clientSideScroll
               /\ p.scrolledRegion = m.scrolledRegion
               /\ hasShm(m) => p.pendingFlush = m.pendingFlush
               /\ ~hasShm(m) => p.pendingFlush = m.pendingFlush \ area
               /\ Final(p)["window"] = Final(m)["window"]
               /\ \A b \in Block : Final(p)["pixmap"][b] = IF b \in dst THEN Put(b - d) ELSE Put(b)
<1> DEFINE area == a .. z
           dst == Moved(area, d) \intersect Bounds(m)
           sent == m.pendingFlush \intersect area
           q == IF hasShm(m) THEN shmPutImage(m, "pixmap", sent) ELSE flushPixmap(m, area)
           ready == ensureGC(q)
           r == Copy("pixmap", dst, Min(dst) - Min(area))
           p == scrollPixmap(m, area, d)
           Put(b) == IF b \in sent THEN m.image[b] ELSE Final(m)["pixmap"][b]
<1>1. m.size \in 0 .. N /\ Bounds(m) \subseteq Block /\ area \subseteq Bounds(m)
  <2>1. m.size \in 0 .. N /\ Bounds(m) \subseteq Block /\ a \in Block
    BY BoundsAreBlocks DEF Scrollable
  <2> QED BY <2>1, DestinationIs
<1>2. /\ Good(q) /\ Wrote(q, m, "pixmap", sent, m.image, 0)
      /\ hasShm(m) => Alike(q, m)
      /\ ~hasShm(m) => Alike(q, [m EXCEPT !.pendingFlush = @ \ area])
  <2>0. m.gc /\ sent \subseteq Bounds(m)
    BY <1>1 DEF Scrollable
  <2> HIDE DEF area, sent
  <2>1. CASE hasShm(m)
    BY <1>1, <2>0, <2>1, ShmPutWrites DEF Drawables
  <2>2. CASE ~hasShm(m)
    BY <1>1, <2>0, <2>2, FlushPixmapWrites DEF sent
  <2> QED BY <2>1, <2>2
<1> HIDE DEF q, area, sent
<1>3. /\ q.image = m.image /\ q.size = m.size /\ q.segmentSize = m.segmentSize
      /\ q.clientSideScroll = m.clientSideScroll /\ q.scrolledRegion = m.scrolledRegion
      /\ hasShm(m) => q.pendingFlush = m.pendingFlush
      /\ ~hasShm(m) => q.pendingFlush = m.pendingFlush \ area
  BY <1>2 DEF Alike, Good, Safe, Wf
<1>4. /\ Final(q)["window"] = Final(m)["window"]
      /\ \A b \in Block : Final(q)["pixmap"][b] = Put(b)
  BY <1>2, BlockIsInt DEF Wrote, Drawables
<1>5. Good(ready) /\ Final(ready) = Final(q)
  BY <1>2, SettingWrites DEF ensureGC
<1>6. /\ ready.image = q.image /\ ready.size = q.size /\ ready.segmentSize = q.segmentSize
      /\ ready.clientSideScroll = q.clientSideScroll /\ ready.scrolledRegion = q.scrolledRegion
      /\ ready.pendingFlush = q.pendingFlush
  BY <1>2 DEF ensureGC, Good, Safe, Wf
<1> HIDE DEF ready, Put
<1>7. p = IF dst = {} THEN ready ELSE Request(ready, r)
  BY DEF scrollPixmap, ready, q, area, sent
<1>8. CASE dst = {}
  BY <1>3, <1>4, <1>5, <1>6, <1>7, <1>8 DEF area, sent, Put
<1>9. CASE dst # {}
  <2>1. Min(dst) - Min(area) = d
    <3>1. a \in Int /\ d \in Int
      BY BoundsAssumption DEF Scrollable, Bounds
    <3>2. Min(dst) = a + d /\ Min(area) = a
      <4>1. Moved(a .. z, d) \intersect Bounds(m) # {}
        BY <1>9 DEF area
      <4>2. /\ a \in Bounds(m) /\ z \in Bounds(m) /\ a <= z /\ d \in {-1, 1}
            /\ a + d >= 1
        BY DEF Scrollable
      <4>3. /\ Min(Moved(a .. z, d) \intersect Bounds(m)) = a + d
            /\ Min(a .. z) = a
        BY <1>1, <4>1, <4>2, CopyStart
      <4> QED BY <4>3 DEF area
    <3> QED BY <3>1, <3>2
  <2>2. r.op = "copy" /\ r.to = "pixmap" /\ r.area = dst /\ r.by = d
    BY <2>1 DEF Copy
  <2> HIDE DEF r, dst, p
  <2>3. From(Final(ready), r, ready.image) = Final(q)["pixmap"]
    BY <1>5, <2>2 DEF From
  <2>4. /\ Good(p) /\ Alike(p, ready)
        /\ Wrote(p, ready, "pixmap", dst, Final(q)["pixmap"], d)
    BY <1>5, <1>7, <1>9, <2>2, <2>3, RequestWrites DEF Drawables
  <2>5. \A b \in Block : b \in dst => b - d \in Block
    BY <1>1, DestinationIs DEF dst, area
  <2>6. /\ Final(p)["window"] = Final(m)["window"]
        /\ \A b \in Block : Final(p)["pixmap"][b] = IF b \in dst THEN Put(b - d) ELSE Put(b)
    BY <1>4, <1>5, <2>4, <2>5 DEF Wrote, Drawables
  <2>7. /\ p.image = m.image /\ p.size = m.size /\ p.segmentSize = m.segmentSize
        /\ p.clientSideScroll = m.clientSideScroll /\ p.scrolledRegion = m.scrolledRegion
        /\ hasShm(m) => p.pendingFlush = m.pendingFlush
        /\ ~hasShm(m) => p.pendingFlush = m.pendingFlush \ area
    BY <1>3, <1>6, <2>4 DEF Alike
  <2> QED BY <2>4, <2>6, <2>7 DEF p, dst, area, sent, Put
<1> QED BY <1>8, <1>9

\* Scrolling the image, with what the server has to read of the area waited for.
LEMMA ScrollImageWrites ==
    ASSUME NEW m, Good(m), NEW a, NEW z, NEW d, Scrollable(m, a, z, d), m.clientSideScroll
    PROVE  LET area == a .. z
               dst == Moved(area, d) \intersect Bounds(m)
               p == scrollImage(IF hasShm(m) THEN preparePaint(m, area) ELSE m, area, d)
           IN  /\ Good(p)
               /\ p.size = m.size /\ p.segmentSize = m.segmentSize
               /\ p.clientSideScroll = m.clientSideScroll
               /\ hasShm(m) => /\ p.scrolledRegion = m.scrolledRegion \ area
                               /\ p.pendingFlush = m.pendingFlush \union area
               /\ ~hasShm(m) => /\ p.scrolledRegion = m.scrolledRegion
                                /\ p.pendingFlush = m.pendingFlush
               /\ Final(p) = Final(m)
               /\ \A b \in Block : p.image[b] = IF b \in dst THEN m.image[b - d] ELSE m.image[b]
<1> DEFINE area == a .. z
           dst == Moved(area, d) \intersect Bounds(m)
           q == IF hasShm(m) THEN preparePaint(m, area) ELSE m
           new == [b \in Block |-> IF b - d \in area /\ b \in Bounds(q) THEN q.image[b - d]
                                   ELSE q.image[b]]
           p == scrollImage(q, area, d)
<1>1. /\ Good(q) /\ Final(q) = Final(m)
      /\ hasShm(m) => Alike(q, [m EXCEPT !.scrolledRegion = @ \ area, !.pendingFlush = @ \union area])
      /\ ~hasShm(m) => q = m
  <2> HIDE DEF area
  <2> QED BY PreparePaintWrites
<1>2. area \in SUBSET Block /\ d \in Int
  <2>1. Bounds(m) \subseteq Block /\ a \in Block
    BY BoundsAreBlocks DEF Scrollable
  <2> QED BY <2>1, DestinationIs DEF Scrollable
<1>3. Untouched(p, m)
  <2>1. NotReadAlone(m, area, d) /\ Safe(m)
    BY DEF Scrollable, Good
  <2> HIDE DEF area
  <2> QED BY <1>2, <2>1, ScrollImageIsSafe
<1>4. p = [q EXCEPT !.image = new]
  BY DEF scrollImage
<1> HIDE DEF q, area, new
<1>5. /\ q.image = m.image /\ q.size = m.size /\ q.segmentSize = m.segmentSize
      /\ q.clientSideScroll = m.clientSideScroll
      /\ hasShm(m) => /\ q.scrolledRegion = m.scrolledRegion \ area
                      /\ q.pendingFlush = m.pendingFlush \union area
      /\ ~hasShm(m) => /\ q.scrolledRegion = m.scrolledRegion
                       /\ q.pendingFlush = m.pendingFlush
  BY <1>1 DEF Alike, Good, Safe, Wf
<1>6. \A b \in Block : new[b] = IF b \in dst THEN m.image[b - d] ELSE m.image[b]
  <2> SUFFICES ASSUME NEW b \in Block
               PROVE  new[b] = IF b \in dst THEN m.image[b - d] ELSE m.image[b]
    OBVIOUS
  <2>1. b \in dst <=> b - d \in area /\ b \in Bounds(m)
    BY DestinationIs DEF area
  <2>2. Bounds(q) = Bounds(m)
    BY <1>5 DEF Bounds
  <2> QED BY <1>5, <2>1, <2>2 DEF new
<1> HIDE DEF dst, p
<1>7. /\ p.queue = q.queue /\ p.size = q.size /\ p.segmentSize = q.segmentSize
      /\ p.clientSideScroll = q.clientSideScroll
      /\ p.scrolledRegion = q.scrolledRegion /\ p.pendingFlush = q.pendingFlush
      /\ p.image = new
  BY <1>1, <1>4 DEF Good, Safe, Wf
<1>8. Good(p) /\ Final(p) = Final(q)
  <2>1. \A i \in 1 .. Len(q.queue) : q.queue[i].op = "shm" =>
          \A b \in q.queue[i].area \intersect Block : new[b] = q.image[b]
    BY <1>3, <1>5, <1>7 DEF Untouched
  <2> QED BY <1>1, <1>4, <2>1, RepaintWrites
<1> QED BY <1>1, <1>5, <1>6, <1>7, <1>8 DEF p, q, dst, area

\* The canvas after a scroll.
LEMMA ScrolledIs ==
    ASSUME NEW m, Good(m), NEW a, NEW z, NEW d, Scrollable(m, a, z, d), NEW c, NEW b \in Block
    PROVE  Drawing!Scrolled(c, m.size, a .. z, d)[b] =
               IF b \in Moved(a .. z, d) \intersect Bounds(m) THEN c[b - d]
               ELSE IF b \in a .. z THEN Undefined ELSE c[b]
<1>1. Drawing!Block = Block /\ Drawing!Undefined = Undefined
  BY DEF Drawing!Block, Block, Undefined
<1>2. b - d \in a .. z /\ b <= m.size <=> b \in Moved(a .. z, d) \intersect Bounds(m)
  BY DestinationIs
<1> DEFINE area == a .. z
           dst == Moved(area, d) \intersect Bounds(m)
<1>3. b - d \in area /\ b <= m.size <=> b \in dst
  BY <1>2
<1> HIDE DEF area, dst
<1>4. Drawing!Scrolled(c, m.size, area, d)[b] =
          IF b \in dst THEN c[b - d] ELSE IF b \in area THEN Undefined ELSE c[b]
  BY <1>1, <1>3 DEF Drawing!Scrolled
<1> QED BY <1>4 DEF area, dst

LEMMA ScrollWrites ==
    ASSUME NEW m, Good(m), NEW a, NEW z, NEW d, Scrollable(m, a, z, d),
           NEW c, Regions(m, c)
    PROVE  LET p == scroll(m, a .. z, d)
           IN  /\ Good(p) /\ Regions(p, Drawing!Scrolled(c, m.size, a .. z, d))
               /\ p.size = m.size
               /\ Final(p)["window"] = Final(m)["window"]
<1> DEFINE area == a .. z
           dst == Moved(area, d) \intersect Bounds(m)
           Put(b) == IF b \in m.pendingFlush \intersect area THEN m.image[b]
                     ELSE Final(m)["pixmap"][b]
           q == IF ~m.clientSideScroll THEN scrollPixmap(m, area, d)
                ELSE scrollImage(IF hasShm(m) THEN preparePaint(m, area) ELSE m, area, d)
           scrolled == q.scrolledRegion \union dst
           pending == IF hasShm(m) THEN (q.pendingFlush \ area) \ scrolled ELSE q.pendingFlush
           p == scroll(m, area, d)
           new == Drawing!Scrolled(c, m.size, area, d)
<1>1. ASSUME m.clientSideScroll
      PROVE  /\ Good(q) /\ q.size = m.size /\ q.clientSideScroll = m.clientSideScroll
             /\ scrolled = IF hasShm(m) THEN (m.scrolledRegion \ area) \union dst
                           ELSE m.scrolledRegion \union dst
             /\ q.pendingFlush = IF hasShm(m) THEN m.pendingFlush \union area ELSE m.pendingFlush
             /\ Final(q) = Final(m)
             /\ \A b \in Block : q.image[b] = IF b \in dst THEN m.image[b - d] ELSE m.image[b]
  <2> DEFINE moved == scrollImage(IF hasShm(m) THEN preparePaint(m, area) ELSE m, area, d)
  <2>1. q = moved
    BY <1>1
  <2>2. /\ Good(moved) /\ moved.size = m.size /\ moved.clientSideScroll = m.clientSideScroll
        /\ Final(moved) = Final(m)
    BY <1>1, ScrollImageWrites
  <2>a. hasShm(m) => /\ moved.scrolledRegion = m.scrolledRegion \ area
                     /\ moved.pendingFlush = m.pendingFlush \union area
    BY <1>1, ScrollImageWrites
  <2>b. ~hasShm(m) => /\ moved.scrolledRegion = m.scrolledRegion
                      /\ moved.pendingFlush = m.pendingFlush
    BY <1>1, ScrollImageWrites
  <2>3. \A b \in Block : moved.image[b] = IF b \in dst THEN m.image[b - d] ELSE m.image[b]
    BY <1>1, ScrollImageWrites, SMT
  <2> HIDE DEF moved, q, dst, area
  <2> QED BY <2>1, <2>2, <2>3, <2>a, <2>b
<1>2. ASSUME ~m.clientSideScroll
      PROVE  /\ Good(q) /\ q.size = m.size /\ q.clientSideScroll = m.clientSideScroll
             /\ scrolled = m.scrolledRegion \union dst
             /\ q.pendingFlush = IF hasShm(m) THEN m.pendingFlush ELSE m.pendingFlush \ area
             /\ q.image = m.image
             /\ Final(q)["window"] = Final(m)["window"]
             /\ \A b \in Block : Final(q)["pixmap"][b] = IF b \in dst THEN Put(b - d) ELSE Put(b)
  <2> DEFINE moved == scrollPixmap(m, area, d)
  <2>1. q = moved
    BY <1>2
  <2>2. /\ Good(moved) /\ moved.size = m.size /\ moved.clientSideScroll = m.clientSideScroll
        /\ moved.scrolledRegion = m.scrolledRegion /\ moved.image = m.image
        /\ Final(moved)["window"] = Final(m)["window"]
    BY <1>2, ScrollPixmapWrites
  <2>a. /\ hasShm(m) => moved.pendingFlush = m.pendingFlush
        /\ ~hasShm(m) => moved.pendingFlush = m.pendingFlush \ area
    BY <1>2, ScrollPixmapWrites
  <2>3. \A b \in Block : Final(moved)["pixmap"][b] = IF b \in dst THEN Put(b - d) ELSE Put(b)
    BY <1>2, ScrollPixmapWrites, SMT
  <2> HIDE DEF moved, q, dst, area, Put
  <2> QED BY <2>1, <2>2, <2>3, <2>a
<1>3. /\ Good(q) /\ q.size = m.size /\ q.clientSideScroll = m.clientSideScroll
      /\ Final(q)["window"] = Final(m)["window"]
  <2> HIDE DEF q
  <2> QED BY <1>1, <1>2
<1>4. p = [[q EXCEPT !.scrolledRegion = scrolled] EXCEPT !.pendingFlush = pending]
  <2>1. p = [q EXCEPT !.scrolledRegion = scrolled, !.pendingFlush = pending]
    BY DEF scroll
  <2> HIDE DEF q, scrolled, pending
  <2> QED BY <2>1
<1>5. \A b \in Block : /\ new[b] = IF b \in dst THEN c[b - d]
                                   ELSE IF b \in area THEN Undefined ELSE c[b]
                       /\ b \in dst => b - d \in area /\ b - d \in Bounds(m)
  BY ScrolledIs, DestinationIs
<1>6. /\ m.size \in 0 .. N /\ Bounds(m) \subseteq Block /\ dst \subseteq Bounds(m)
      /\ hasShm(m) \/ m.clientSideScroll \/ dst \intersect (m.pendingFlush \ area) = {}
  BY BoundsAreBlocks DEF Scrollable
<1>7. pending = IF hasShm(m) THEN (q.pendingFlush \ area) \ scrolled ELSE q.pendingFlush
  OBVIOUS
<1> HIDE DEF q, scrolled, pending, area, dst, new
<1> DEFINE q1 == [q EXCEPT !.scrolledRegion = scrolled]
<1>8. Good(q1) /\ Final(q1) = Final(q)
  BY <1>3, SettingWrites
<1>9. Good(p) /\ Final(p) = Final(q)
  <2> HIDE DEF q1
  <2>1. Good([q1 EXCEPT !.pendingFlush = pending])
        /\ Final([q1 EXCEPT !.pendingFlush = pending]) = Final(q1)
    BY <1>8, SettingWrites
  <2> QED BY <1>4, <1>8, <2>1 DEF q1
<1>10. /\ p.image = q.image /\ p.size = m.size /\ p.clientSideScroll = m.clientSideScroll
       /\ p.scrolledRegion = scrolled /\ p.pendingFlush = pending
  BY <1>3, <1>4 DEF Good, Safe, Wf
<1> HIDE DEF p, Put
<1>11. Bounds(p) = Bounds(m)
  BY <1>10 DEF Bounds
<1>12. scrolled \subseteq Bounds(p)
  BY <1>1, <1>2, <1>6, <1>11 DEF Regions
<1>13. ASSUME NEW b \in Bounds(m), new[b] # Undefined
       PROVE  /\ InImage(p, b) => p.image[b] = new[b]
              /\ InPixmap(p, b) => Final(p)["pixmap"][b] = new[b]
  <2>1. b \in Block /\ (b \notin dst => b \notin area)
    BY <1>5, <1>6, <1>13
  <2>2. ASSUME NEW x \in Bounds(m), c[x] # Undefined
        PROVE  /\ InImage(m, x) => m.image[x] = c[x]
               /\ InPixmap(m, x) => Final(m)["pixmap"][x] = c[x]
    BY <2>2 DEF Regions
  <2>3. CASE m.clientSideScroll
    <3>1. CASE b \in dst
      <4>1. b - d \in Bounds(m) /\ new[b] = c[b - d]
        BY <1>5, <2>1, <3>1
      <4>2. p.image[b] = m.image[b - d] /\ m.image[b - d] = c[b - d]
        BY <1>1, <1>10, <1>13, <2>1, <2>2, <2>3, <3>1, <4>1 DEF InImage
      <4>3. ~InPixmap(p, b)
        BY <1>1, <1>10, <2>3, <3>1 DEF InPixmap
      <4> QED BY <4>1, <4>2, <4>3
    <3>2. CASE b \notin dst
      <4>1. new[b] = c[b] /\ p.image[b] = m.image[b]
        BY <1>1, <1>5, <1>10, <2>1, <2>3, <3>2
      <4>2. InImage(m, b) /\ (InPixmap(p, b) => InPixmap(m, b))
        BY <1>1, <1>7, <1>10, <2>1, <2>3, <3>2 DEF InImage, InPixmap
      <4>3. Final(p) = Final(m)
        BY <1>1, <1>9, <2>3
      <4> QED BY <1>13, <2>2, <4>1, <4>2, <4>3
    <3> QED BY <3>1, <3>2
  <2>4. CASE ~m.clientSideScroll
    <3>1. CASE b \in dst
      <4>1. b - d \in Bounds(m) /\ b - d \in area /\ new[b] = c[b - d]
        BY <1>5, <2>1, <3>1
      <4>2. ~InImage(p, b)
        BY <1>2, <1>6, <1>7, <1>10, <2>4, <3>1 DEF InImage
      <4>3. Final(p)["pixmap"][b] = Put(b - d)
        BY <1>2, <1>9, <2>1, <2>4, <3>1
      <4>4. Put(b - d) = c[b - d]
        BY <1>13, <2>2, <2>4, <4>1 DEF Put, InImage, InPixmap
      <4> QED BY <4>1, <4>2, <4>3, <4>4
    <3>2. CASE b \notin dst
      <4>1. new[b] = c[b] /\ p.image[b] = m.image[b]
        BY <1>2, <1>5, <1>10, <2>1, <2>4, <3>2
      <4>2. (InImage(p, b) => InImage(m, b)) /\ (InPixmap(p, b) => InPixmap(m, b))
        BY <1>2, <1>7, <1>10, <2>1, <2>4, <3>2 DEF InImage, InPixmap
      <4>3. Final(p)["pixmap"][b] = Final(m)["pixmap"][b]
        BY <1>2, <1>9, <2>1, <2>4, <3>2 DEF Put
      <4> QED BY <1>13, <2>2, <4>1, <4>2, <4>3
    <3> QED BY <3>1, <3>2
  <2> QED BY <2>3, <2>4
<1>14. Regions(p, new)
  BY <1>10, <1>11, <1>12, <1>13 DEF Regions
<1> QED BY <1>3, <1>9, <1>10, <1>14 DEF p, new, area

\* A flush: where c has something, the window shows it.
LEMMA PutWrites ==
    ASSUME NEW m, Good(m), NEW c, Regions(m, c), ~m.clientSideScroll,
           NEW region, NEW offset, Moved(region, offset) \subseteq Bounds(m),
           hasShm(m) \/ Moved(region, offset) = region
    PROVE  LET p == put(m, region, offset)
               area == Moved(region, offset)
           IN  /\ Good(p) /\ Regions(p, c)
               /\ \A b \in Block :
                     IF b \in area
                     THEN c[b] # Undefined => Final(p)["window"][b] = c[b]
                     ELSE Final(p)["window"][b] = Final(m)["window"][b]
<1> DEFINE area == Moved(region, offset)
           ready == ensureGC(m)
           p == put(m, region, offset)
<1>1. m.size \in 0 .. N /\ Bounds(m) \subseteq Block
  BY BoundsAreBlocks
<1>2. Good(ready) /\ Final(ready) = Final(m)
  BY SettingWrites DEF ensureGC
<1>3. /\ ready.image = m.image /\ ready.size = m.size /\ ready.segmentSize = m.segmentSize
      /\ ready.clientSideScroll = m.clientSideScroll
      /\ ready.scrolledRegion = m.scrolledRegion /\ ready.pendingFlush = m.pendingFlush
      /\ ready.gc = TRUE
  BY DEF ensureGC, Good, Safe, Wf
<1>4. Bounds(ready) = Bounds(m) /\ (hasShm(ready) <=> hasShm(m))
  BY <1>3 DEF Bounds, hasShm
<1> HIDE DEF ready
<1>5. Regions(ready, c)
  BY <1>2, <1>3, <1>4 DEF Regions, InImage, InPixmap
<1>6. CASE hasShm(m)
  <2> DEFINE r == Copy("window", area \intersect m.scrolledRegion, 0)
             q == Request(ready, r)
             rest == area \ m.scrolledRegion
  <2>1. /\ r.op = "copy" /\ r.to = "window" /\ r.area = area \intersect m.scrolledRegion
        /\ r.by = 0
    BY DEF Copy
  <2>2. p = shmPutImage(q, "window", rest)
    BY <1>6 DEF put, ready
  <2> HIDE DEF r, area
  <2>3. From(Final(ready), r, ready.image) = Final(m)["pixmap"]
    BY <1>2, <2>1 DEF From
  <2>4. /\ Good(q) /\ Alike(q, ready)
        /\ Wrote(q, ready, "window", area \intersect m.scrolledRegion, Final(m)["pixmap"], 0)
    <3>1. r.to \in Drawables /\ r.op # "shm"
      BY <2>1 DEF Drawables
    <3>2. /\ Good(q) /\ Alike(q, ready)
          /\ Wrote(q, ready, r.to, r.area, From(Final(ready), r, ready.image), r.by)
      BY <1>2, <3>1, RequestWrites, Zenon
    <3> HIDE DEF q
    <3> QED BY <2>1, <2>3, <3>2
  <2> HIDE DEF q, p
  <2>5. hasShm(q) /\ q.gc /\ rest \subseteq Bounds(q) /\ q.image = m.image
    BY <1>3, <1>6, <2>4 DEF Alike, hasShm, Bounds, area
  <2> HIDE DEF rest
  <2>6. Good(p) /\ Alike(p, q) /\ Wrote(p, q, "window", rest, m.image, 0)
    BY <2>2, <2>4, <2>5, ShmPutWrites DEF Drawables
  <2>7. /\ Final(p)["pixmap"] = Final(m)["pixmap"]
        /\ \A b \in Block : Final(p)["window"][b] =
              IF b \in rest THEN m.image[b]
              ELSE IF b \in area \intersect m.scrolledRegion THEN Final(m)["pixmap"][b]
              ELSE Final(m)["window"][b]
    BY <1>2, <2>4, <2>6, BlockIsInt DEF Wrote, Drawables
  <2>8. Alike(p, ready)
    BY <2>4, <2>6 DEF Alike
  <2>9. Regions(p, c)
    BY <1>1, <1>2, <1>3, <1>5, <2>7, <2>8, SameRegions
  <2>10. ASSUME NEW b \in area, c[b] # Undefined
         PROVE  Final(p)["window"][b] = c[b]
    <3>1. b \in Bounds(m) /\ b \in Block
      BY <1>1 DEF area
    <3>2. CASE b \in m.scrolledRegion
      BY <2>7, <2>10, <3>1, <3>2 DEF rest, Regions, InPixmap
    <3>3. CASE b \notin m.scrolledRegion
      BY <2>7, <2>10, <3>1, <3>3 DEF rest, Regions, InImage
    <3> QED BY <3>2, <3>3
  <2> QED BY <2>6, <2>7, <2>9, <2>10 DEF p, rest, area
<1>7. CASE ~hasShm(m)
  <2> DEFINE q == flushPixmap(ready, region)
             r == Copy("window", area, 0)
  <2>1. r.op = "copy" /\ r.to = "window" /\ r.area = area /\ r.by = 0
    BY DEF Copy
  <2>2. p = Request(q, r)
    BY <1>7 DEF put, ready
  <2>3. area = region
    BY <1>7
  <2> HIDE DEF area, r
  <2>4. /\ Good(q) /\ Alike(q, [ready EXCEPT !.pendingFlush = @ \ region])
        /\ Wrote(q, ready, "pixmap", ready.pendingFlush \intersect region, ready.image, 0)
    <3>1. region \subseteq Bounds(ready) /\ ready.gc
      BY <1>3, <1>4, <2>3 DEF area
    <3> QED BY <1>2, <3>1, FlushPixmapWrites
  <2> HIDE DEF q
  <2>5. /\ q.image = m.image /\ q.size = m.size /\ q.clientSideScroll = m.clientSideScroll
        /\ q.scrolledRegion = m.scrolledRegion /\ q.pendingFlush = m.pendingFlush \ region
    BY <1>2, <1>3, <2>4 DEF Alike, Good, Safe, Wf
  <2>6. /\ Final(q)["window"] = Final(m)["window"]
        /\ \A b \in Block : Final(q)["pixmap"][b] =
              IF b \in m.pendingFlush \intersect region THEN m.image[b]
              ELSE Final(m)["pixmap"][b]
    BY <1>2, <1>3, <2>4, BlockIsInt DEF Wrote, Drawables
  <2>7. Regions(q, c)
    <3>1. Bounds(q) = Bounds(m)
      BY <2>5 DEF Bounds
    <3>2. ASSUME NEW b \in Bounds(m), c[b] # Undefined
          PROVE  /\ InImage(q, b) => q.image[b] = c[b]
                 /\ InPixmap(q, b) => Final(q)["pixmap"][b] = c[b]
      <4>1. /\ InImage(m, b) => m.image[b] = c[b]
            /\ InPixmap(m, b) => Final(m)["pixmap"][b] = c[b]
        BY <3>2 DEF Regions
      <4>2. b \in Block
        BY <1>1
      <4>3. InImage(q, b) => InImage(m, b)
        BY <2>5 DEF InImage
      <4>4. CASE b \in m.pendingFlush \intersect region
        BY <2>5, <2>6, <4>1, <4>2, <4>3, <4>4 DEF InImage
      <4>5. CASE b \notin m.pendingFlush \intersect region
        <5>1. InPixmap(q, b) => InPixmap(m, b)
          BY <2>5, <4>5 DEF InPixmap
        <5> QED BY <2>5, <2>6, <4>1, <4>2, <4>3, <4>5, <5>1
      <4> QED BY <4>4, <4>5
    <3> QED BY <2>5, <3>1, <3>2 DEF Regions
  <2>8. From(Final(q), r, q.image) = Final(q)["pixmap"]
    BY <2>1 DEF From
  <2>9. /\ Good(p) /\ Alike(p, q)
        /\ Wrote(p, q, "window", area, Final(q)["pixmap"], 0)
    BY <2>1, <2>2, <2>4, <2>8, RequestWrites DEF Drawables
  <2> HIDE DEF p
  <2>10. /\ Final(p)["pixmap"] = Final(q)["pixmap"]
         /\ \A b \in Block : Final(p)["window"][b] =
               IF b \in area THEN Final(q)["pixmap"][b] ELSE Final(m)["window"][b]
    BY <2>6, <2>9, BlockIsInt DEF Wrote, Drawables
  <2>11. Regions(p, c)
    BY <1>1, <2>5, <2>7, <2>9, <2>10, SameRegions
  <2>12. ASSUME NEW b \in area, c[b] # Undefined
         PROVE  Final(p)["window"][b] = c[b]
    <3>1. b \in Bounds(q) /\ b \in Block
      BY <1>1, <2>5 DEF Bounds, area
    <3>2. InPixmap(q, b)
      BY <2>3, <2>5 DEF InPixmap
    <3> QED BY <2>7, <2>10, <2>12, <3>1, <3>2 DEF Regions
  <2> QED BY <2>9, <2>10, <2>11, <2>12 DEF p, area
<1> QED BY <1>6, <1>7

-----------------------------------------------------------------------------
(* The steps of the store are steps of the canvas. *)

\* A region that is being painted was announced, and counts as one drawing more.
PaintCounted ==
    \/ painting = <<>>
    \/ draws < MaxDraw /\ \E region \in SUBSET Block : painting = <<region>>

RInv == Inv /\ Good(This) /\ Regions(This, canvas) /\ PaintCounted

\* what the window shows once the server has caught up
Shown == Final(This)["window"]

LEMMA BecomeIsGood ==
    ASSUME NEW m, Good(m), Become(m)
    PROVE  Wf(img') /\ This' = m /\ queue' = m.queue /\ Shown' = Final(m)["window"]
<1>1. img' = [m EXCEPT !.server = <<>>, !.queue = <<>>] /\ server' = m.server /\ queue' = m.queue
  BY DEF Become
<1>2. Wf(img')
  BY <1>1 DEF Good, Safe, Wf
<1>3. This' = m
  BY <1>1 DEF This, Good, Safe, Wf
<1> QED BY <1>1, <1>2, <1>3 DEF Shown

LEMMA InitRInv == Init => RInv
<1> SUFFICES ASSUME Init PROVE RInv
  OBVIOUS
<1>1. Inv
  BY InitInv
<1>2. queue = <<>> /\ painting = <<>>
      /\ server = [pixmap |-> [b \in Block |-> Undefined], window |-> [b \in Block |-> Undefined]]
      /\ canvas = [b \in Block |-> Undefined]
      /\ img.clientSideScroll = FALSE /\ img.scrolledRegion = {}
  BY DEF Init
<1>3. /\ This.queue = queue /\ This.server = server /\ This.clientSideScroll = FALSE
      /\ This.scrolledRegion = {}
  BY <1>1, <1>2 DEF Inv, This, Wf
<1>4. IsServer(server)
  BY <1>2 DEF IsServer, Drawables
<1>5. WellMade(queue)
  BY <1>2 DEF WellMade
<1>6. Good(This)
  BY <1>1, <1>3, <1>4, <1>5 DEF Good, Inv
<1>7. Bounds(This) \subseteq Block
  BY <1>6, BoundsAreBlocks
<1>8. \A b \in Bounds(This) : canvas[b] = Undefined
  BY <1>2, <1>7
<1>9. Regions(This, canvas)
  BY <1>3, <1>8 DEF Regions
<1>10. PaintCounted
  <2>1. painting = <<>>
    BY DEF Init
  <2> QED BY <2>1 DEF PaintCounted
<1> QED BY <1>1, <1>6, <1>9, <1>10 DEF RInv

\* Painting: region is drawn on, at first by beginPaint(), then by the application.
LEMMA PaintWrites ==
    ASSUME NEW m, Good(m), NEW c, Regions(m, c), NEW region, NEW new, NEW d,
           Unread(m.queue, region), \A b \in Block \ region : new[b] = m.image[b],
           \A b \in Block \ region : d[b] = c[b],
           \A b \in Block \intersect region : d[b] # Undefined => new[b] = d[b]
    PROVE  LET p == preparePaint([m EXCEPT !.image = new], region)
           IN  Good(p) /\ Regions(p, d) /\ Final(p) = Final(m)
<1> DEFINE drawn == [m EXCEPT !.image = new]
           p == preparePaint(drawn, region)
<1>1. Good(drawn) /\ Final(drawn) = Final(m)
  <2>1. \A i \in 1 .. Len(m.queue) : m.queue[i].op = "shm" =>
            \A b \in m.queue[i].area \intersect Block : new[b] = m.image[b]
    BY DEF Unread
  <2> QED BY <2>1, RepaintWrites
<1>2. /\ drawn.image = new /\ drawn.size = m.size
      /\ drawn.clientSideScroll = m.clientSideScroll
      /\ drawn.scrolledRegion = m.scrolledRegion /\ drawn.pendingFlush = m.pendingFlush
  BY DEF Good, Safe, Wf
<1> HIDE DEF drawn
<1>3. /\ Good(p) /\ Final(p) = Final(drawn)
      /\ Alike(p, [drawn EXCEPT !.scrolledRegion = @ \ region, !.pendingFlush = @ \union region])
  BY <1>1, PreparePaintWrites
<1> HIDE DEF p
<1>4. /\ p.image = new /\ p.size = m.size /\ p.clientSideScroll = m.clientSideScroll
      /\ p.scrolledRegion = m.scrolledRegion \ region
      /\ p.pendingFlush = m.pendingFlush \union region
  BY <1>1, <1>2, <1>3 DEF Alike, Good, Safe, Wf
<1>5. Bounds(p) = Bounds(m) /\ Bounds(m) \subseteq Block
  BY <1>4, BoundsAreBlocks DEF Bounds
<1>6. ASSUME NEW b \in Bounds(m), d[b] # Undefined
      PROVE  /\ InImage(p, b) => p.image[b] = d[b]
             /\ InPixmap(p, b) => Final(p)["pixmap"][b] = d[b]
  <2>1. CASE b \in region
    BY <1>4, <1>5, <1>6, <2>1 DEF InPixmap
  <2>2. CASE b \notin region
    <3>1. d[b] = c[b] /\ p.image[b] = m.image[b] /\ Final(p) = Final(m)
      BY <1>1, <1>3, <1>4, <1>5, <2>2
    <3>2. (InImage(p, b) => InImage(m, b)) /\ (InPixmap(p, b) => InPixmap(m, b))
      BY <1>4, <2>2 DEF InImage, InPixmap
    <3> QED BY <1>6, <3>1, <3>2 DEF Regions
  <2> QED BY <2>1, <2>2
<1>7. Regions(p, d)
  BY <1>4, <1>5, <1>6 DEF Regions
<1> QED BY <1>1, <1>3, <1>7 DEF p, drawn

LEMMA EndPaintDraws ==
    ASSUME RInv, endPaint
    PROVE  RInv' /\ Shown' = Shown /\ \E region \in SUBSET Block :
               /\ draws < MaxDraw /\ draws' = draws + 1
               /\ canvas' = Drawing!Covered(canvas, region, draws + 1)
<1>1. PICK region : painting = <<region>> /\ Unread(queue, region)
  BY DEF RInv, Inv, PaintedIsUnread, endPaint
<1>2. region \in SUBSET Block /\ draws < MaxDraw
  <2>1. PICK other \in SUBSET Block : painting = <<other>> /\ draws < MaxDraw
    BY <1>1 DEF RInv, PaintCounted
  <2>2. other = region
    BY <1>1, <2>1
  <2> QED BY <2>1, <2>2
<1> DEFINE new == Drawing!Covered(This.image, region, draws')
           m == preparePaint([This EXCEPT !.image = new], region)
<1>3. Last(painting) = region /\ Front(painting) = <<>>
  BY <1>1 DEF Last, Front
<1>4. /\ Become(m) /\ painting' = <<>> /\ draws' = draws + 1
      /\ canvas' = Drawing!Covered(canvas, region, draws')
  BY <1>3 DEF endPaint
<1>5. /\ \A b \in Block \ region : new[b] = This.image[b] /\ canvas'[b] = canvas[b]
      /\ \A b \in Block \intersect region : new[b] = canvas'[b]
  BY <1>4 DEF Drawing!Covered, Block, Drawing!Block
<1>6. Unread(This.queue, region)
  BY <1>1, ThisIsImg DEF RInv, Inv
<1> HIDE DEF new
<1>7. Good(m) /\ Regions(m, canvas') /\ Final(m) = Final(This)
  BY <1>5, <1>6, PaintWrites DEF RInv
<1> HIDE DEF m
<1>8. This' = m /\ Shown' = Final(m)["window"]
  BY <1>4, <1>7, BecomeIsGood
<1>9. Inv'
  BY EndPaintStep DEF RInv
<1>10. Good(This)' /\ Regions(This, canvas)'
  BY <1>7, <1>8
<1>11. PaintCounted'
  BY <1>4 DEF PaintCounted
<1>12. RInv'
  BY <1>9, <1>10, <1>11 DEF RInv
<1>13. Shown' = Shown
  BY <1>7, <1>8 DEF Shown
<1> HIDE DEF m
<1> QED BY <1>2, <1>4, <1>12, <1>13

LEMMA BeginPaintAnnounces ==
    ASSUME RInv, NEW region \in Rectangles, beginPaint(region)
    PROVE  RInv' /\ Shown' = Shown /\ region \in SUBSET Block
           /\ canvas' = Drawing!Announced(canvas, region) /\ draws' = draws
<1> DEFINE ready == preparePaint(This, region)
           new == IF HasAlpha THEN Drawing!Covered(ready.image, region, Drawing!Blank)
                  ELSE ready.image
           m == [ready EXCEPT !.image = new]
<1>1. /\ Become(m) /\ painting' = Append(painting, region) /\ painting = <<>>
      /\ draws < MaxDraw /\ draws' = draws
      /\ canvas' = Drawing!Announced(canvas, region)
  BY DEF beginPaint, Idle
<1>2. region \in SUBSET Block
  <2>1. Bounds(img) \subseteq Block
    BY BoundsAreBlocks, ThisIsImg DEF RInv, Inv, Bounds
  <2> QED BY <2>1, BoundsAssumption DEF Rectangles, Interval, Bounds, Block
<1>3. Good(ready) /\ Final(ready) = Final(This) /\ Unread(ready.queue, region)
      /\ ready.image = This.image
      /\ Alike(ready, [This EXCEPT !.scrolledRegion = @ \ region, !.pendingFlush = @ \union region])
  <2>1. Good(This) /\ Safe(This)
    BY DEF RInv, Good
  <2>2. ready.queue = syncIfShared(This, region).queue /\ ready.image = This.image
    BY <2>1, PreparePaintIsSafe
  <2>3. Unread(syncIfShared(This, region).queue, region)
    BY <2>1, SyncIfSharedIsSafe
  <2>4. /\ Good(ready) /\ Final(ready) = Final(This)
        /\ Alike(ready, [This EXCEPT !.scrolledRegion = @ \ region,
                                     !.pendingFlush = @ \union region])
    BY <2>1, PreparePaintWrites
  <2> HIDE DEF ready
  <2> QED BY <2>2, <2>3, <2>4
<1>4. /\ ready.size = This.size /\ ready.clientSideScroll = This.clientSideScroll
      /\ ready.scrolledRegion = This.scrolledRegion \ region
      /\ ready.pendingFlush = This.pendingFlush \union region
  BY <1>3 DEF Alike, RInv, Good, Safe, Wf
<1>5. /\ \A b \in Block \ region : new[b] = This.image[b] /\ canvas'[b] = canvas[b]
      /\ \A b \in Block \intersect region : canvas'[b] # Undefined => new[b] = canvas'[b]
  <2>1. CASE HasAlpha
    BY <1>1, <1>3, <2>1 DEF Drawing!Announced, Drawing!Covered, Block, Drawing!Block
  <2>2. CASE ~HasAlpha
    BY <1>1, <1>3, <2>2 DEF Drawing!Announced, Drawing!Covered, Block, Drawing!Block,
                            Undefined
  <2> QED BY <2>1, <2>2
<1> HIDE DEF ready, new
<1>6. Good(m) /\ Final(m) = Final(This)
  <2>1. \A i \in 1 .. Len(ready.queue) : ready.queue[i].op = "shm" =>
            \A b \in ready.queue[i].area \intersect Block : new[b] = ready.image[b]
    BY <1>3, <1>5 DEF Unread
  <2> QED BY <1>3, <2>1, RepaintWrites
<1>7. /\ m.image = new /\ m.size = This.size /\ m.clientSideScroll = This.clientSideScroll
      /\ m.scrolledRegion = This.scrolledRegion \ region
      /\ m.pendingFlush = This.pendingFlush \union region
  BY <1>3, <1>4 DEF Good, Safe, Wf
<1> HIDE DEF m
<1>8. Bounds(m) = Bounds(This) /\ Bounds(This) \subseteq Block
  BY <1>7, BoundsAreBlocks DEF Bounds, RInv
<1>9. ASSUME NEW b \in Bounds(m), canvas'[b] # Undefined
      PROVE  /\ InImage(m, b) => m.image[b] = canvas'[b]
             /\ InPixmap(m, b) => Final(m)["pixmap"][b] = canvas'[b]
  <2>1. CASE b \in region
    BY <1>5, <1>7, <1>8, <1>9, <2>1 DEF InPixmap
  <2>2. CASE b \notin region
    <3>1. canvas'[b] = canvas[b] /\ m.image[b] = This.image[b]
      BY <1>5, <1>7, <1>8, <2>2
    <3>2. (InImage(m, b) => InImage(This, b)) /\ (InPixmap(m, b) => InPixmap(This, b))
      BY <1>7, <2>2 DEF InImage, InPixmap
    <3>3. b \in Bounds(This) /\ canvas[b] # Undefined
      BY <1>8, <1>9, <3>1
    <3>4. /\ InImage(This, b) => This.image[b] = canvas[b]
          /\ InPixmap(This, b) => Final(This)["pixmap"][b] = canvas[b]
      BY <3>3 DEF RInv, Regions
    <3> QED BY <1>6, <3>1, <3>2, <3>4
  <2> QED BY <2>1, <2>2
<1>10. Regions(m, canvas')
  <2>1. m.clientSideScroll \in BOOLEAN /\ m.scrolledRegion \subseteq Bounds(m)
    BY <1>7, <1>8 DEF RInv, Regions
  <2> QED BY <1>9, <2>1 DEF Regions
<1>11. This' = m /\ Shown' = Final(m)["window"]
  BY <1>1, <1>6, BecomeIsGood
<1>12. Good(This)' /\ Regions(This, canvas)'
  BY <1>6, <1>10, <1>11
<1>13. Inv'
  BY BeginPaintStep DEF RInv
<1>14. PaintCounted'
  <2>1. painting' = <<region>>
    BY <1>1
  <2> QED BY <1>1, <1>2, <2>1 DEF PaintCounted
<1> QED BY <1>1, <1>2, <1>6, <1>11, <1>12, <1>13, <1>14 DEF RInv, Shown

LEMMA CallDraws ==
    ASSUME RInv, Idle, painting' = painting, NEW m, Good(m), Become(m), Regions(m, canvas'), Inv'
    PROVE  RInv' /\ Shown' = Final(m)["window"]
<1>1. This' = m /\ Shown' = Final(m)["window"]
  BY BecomeIsGood
<1>2. Good(This)' /\ Regions(This, canvas)'
  BY <1>1
<1>3. PaintCounted'
  BY DEF Idle, PaintCounted
<1> QED BY <1>1, <1>2, <1>3 DEF RInv

LEMMA ScrollScrolls ==
    ASSUME RInv, Liberties = {}, NEW area \in Rectangles, NEW d \in {-1, 1}, Scroll(area, d)
    PROVE  RInv' /\ Shown' = Shown /\ img.size \in Block /\ area \in SUBSET Block
           /\ canvas' = Drawing!Scrolled(canvas, img.size, area, d) /\ draws' = draws
<1> DEFINE m == scroll(This, area, d)
<1>1. Wf(img) /\ Good(This) /\ Regions(This, canvas)
  BY DEF RInv, Inv
<1>2. PICK a \in Bounds(img), z \in Bounds(img) : area = a .. z /\ a .. z # {}
  <2>1. PICK a \in Bounds(img), z \in Bounds(img) : area = a .. z
    BY DEF Rectangles, Interval
  <2>2. area # {}
    BY DEF Rectangles
  <2> QED BY <2>1, <2>2
<1>3. /\ This.size = img.size /\ This.size \in 0 .. N
      /\ Bounds(This) = Bounds(img) /\ Bounds(This) \subseteq Block
  BY <1>1, ThisIsImg, BoundsAreBlocks DEF Bounds
<1>4. a \in Int /\ z \in Int /\ a <= z /\ 1 <= a /\ a <= img.size /\ z <= img.size
  BY <1>2, <1>3, BoundsAssumption DEF Bounds
<1>5. Scrollable(This, a, z, d)
  <2>1. /\ img.clientSideScroll \/ img.gc
        /\ Min(area) + d >= 1
        /\ hasShm(img) \/ img.clientSideScroll
           \/ (Moved(area, d) \intersect Bounds(img)) \intersect (img.pendingFlush \ area) = {}
        /\ ~hasShm(img) \/ ~img.clientSideScroll \/ img.dirtyShm \intersect area # {}
           \/ img.dirtyShm \intersect (Moved(area, d) \intersect Bounds(img)) = {}
    BY DEF Scroll, Expected
  <2>2. Min(area) = a
    <3>1. area \in SUBSET Int /\ a \in area /\ \A x \in area : a <= x
      BY <1>2, <1>4
    <3> QED BY <3>1, MinIs
  <2>3. /\ This.clientSideScroll = img.clientSideScroll /\ This.gc = img.gc
        /\ This.pendingFlush = img.pendingFlush /\ This.dirtyShm = img.dirtyShm
        /\ (hasShm(This) <=> hasShm(img))
    BY <1>1 DEF This, Wf, hasShm
  <2>4. a \in Bounds(This) /\ z \in Bounds(This)
    BY <1>3
  <2> QED BY <1>2, <1>3, <1>4, <2>1, <2>2, <2>3, <2>4 DEF Scrollable, NotReadAlone
<1>6. /\ Good(m) /\ Regions(m, Drawing!Scrolled(canvas, This.size, area, d))
      /\ Final(m)["window"] = Final(This)["window"]
  BY <1>1, <1>2, <1>5, ScrollWrites
<1>7. /\ Idle /\ Become(m) /\ painting' = painting /\ draws' = draws
      /\ canvas' = Drawing!Scrolled(canvas, img.size, area, d)
  BY DEF Scroll
<1>8. Inv'
  BY ScrollStep DEF RInv
<1> HIDE DEF m
<1>9. RInv' /\ Shown' = Final(m)["window"]
  BY <1>3, <1>6, <1>7, <1>8, CallDraws
<1>10. img.size \in Block /\ area \in SUBSET Block
  BY <1>2, <1>3, <1>4, BoundsAssumption DEF Block, Bounds
<1> QED BY <1>6, <1>7, <1>9, <1>10 DEF Shown

LEMMA MovedByNone ==
    ASSUME NEW region \in SUBSET Int
    PROVE  Moved(region, 0) = region
<1>1. \A b \in region : b + 0 = b
  OBVIOUS
<1> QED BY <1>1 DEF Moved

LEMMA FlushShows ==
    ASSUME RInv, Liberties = {}, NEW region \in Rectangles, NEW offset \in Offsets,
           flush(region, offset)
    PROVE  RInv' /\ canvas' = canvas /\ draws' = draws
           /\ \E area \in SUBSET Block : \A b \in Block :
                  IF b \in area THEN canvas[b] # Undefined => Shown'[b] = canvas[b]
                  ELSE Shown'[b] = Shown[b]
<1> DEFINE q == flushScrolledRegion(This, FALSE)
           m == put(q, region, offset)
           area == Moved(region, offset)
<1>1. Wf(img) /\ Good(This) /\ Regions(This, canvas)
  BY DEF RInv, Inv
<1>2. /\ Good(q) /\ Regions(q, canvas) /\ q.clientSideScroll = FALSE /\ q.size = This.size
      /\ Final(q)["window"] = Shown
  BY <1>1, FlushScrolledRegionWrites DEF Shown
<1>3. offset = 0
  BY DEF Offsets
<1>4. Bounds(q) = Bounds(img) /\ Bounds(q) \subseteq Block
  BY <1>1, <1>2, ThisIsImg, BoundsAreBlocks DEF Bounds
<1>5. area = region /\ area \subseteq Bounds(q)
  <2>1. region \in SUBSET Int
    <3>1. PICK a \in Bounds(img), z \in Bounds(img) : region = a .. z
      BY DEF Rectangles, Interval
    <3> QED BY <3>1
  <2>2. area = region
    BY <1>3, <2>1, MovedByNone
  <2>3. area \subseteq Bounds(img)
    BY DEF flush
  <2> QED BY <1>4, <2>2, <2>3
<1>6. Idle /\ Become(m) /\ painting' = painting /\ canvas' = canvas /\ draws' = draws
  BY DEF flush
<1>7. Inv'
  BY FlushStep DEF RInv
<1> HIDE DEF q
<1>8. /\ Good(m) /\ Regions(m, canvas)
      /\ \A b \in Block :
            IF b \in area THEN canvas[b] # Undefined => Final(m)["window"][b] = canvas[b]
            ELSE Final(m)["window"][b] = Final(q)["window"][b]
  BY <1>2, <1>5, PutWrites
<1> HIDE DEF m
<1>9. RInv' /\ Shown' = Final(m)["window"]
  BY <1>6, <1>7, <1>8, CallDraws
<1>10. area \in SUBSET Block
  BY <1>4, <1>5
<1> HIDE DEF area
<1> QED BY <1>2, <1>6, <1>8, <1>9, <1>10

LEMMA FlushNothingShows ==
    ASSUME RInv, flushNothing
    PROVE  RInv' /\ Shown' = Shown /\ canvas' = canvas /\ draws' = draws
<1> DEFINE q == flushScrolledRegion(This, FALSE)
<1>1. Good(This) /\ Regions(This, canvas)
  BY DEF RInv
<1>2. Good(q) /\ Regions(q, canvas) /\ Final(q)["window"] = Shown
  BY <1>1, FlushScrolledRegionWrites DEF Shown
<1>3. Idle /\ Become(q) /\ painting' = painting /\ canvas' = canvas /\ draws' = draws
  BY DEF flushNothing
<1>4. Inv'
  BY FlushNothingStep DEF RInv
<1> HIDE DEF q
<1>5. RInv' /\ Shown' = Final(q)["window"]
  BY <1>2, <1>3, <1>4, CallDraws
<1> QED BY <1>2, <1>3, <1>5

LEMMA ComposeShows ==
    ASSUME RInv, NEW region \in Rectangles, composeAndFlush(region)
    PROVE  RInv' /\ canvas' = canvas /\ draws' = draws
           /\ \E area \in SUBSET Block : \A b \in Block :
                  IF b \in area THEN canvas[b] # Undefined => Shown'[b] = canvas[b]
                  ELSE Shown'[b] = Shown[b]
<1> DEFINE q == flushScrolledRegion(This, TRUE)
           r == Send(q.image, "window", region)
           m == Request(q, r)
<1>1. Wf(img) /\ Good(This) /\ Regions(This, canvas)
  BY DEF RInv, Inv
<1>2. /\ Good(q) /\ Regions(q, canvas) /\ q.clientSideScroll = TRUE /\ q.size = This.size
      /\ Final(q)["window"] = Shown
  BY <1>1, FlushScrolledRegionWrites DEF Shown
<1>3. region \subseteq Bounds(q) /\ Bounds(q) \subseteq Block
  <2>1. Bounds(q) = Bounds(img) /\ Bounds(q) \subseteq Block
    BY <1>1, <1>2, ThisIsImg, BoundsAreBlocks DEF Bounds
  <2>2. region \subseteq Bounds(img)
    <3>1. PICK a \in Bounds(img), z \in Bounds(img) : region = a .. z
      BY DEF Rectangles, Interval
    <3>2. img.size \in Int
      BY <1>1, ThisIsImg, BoundsAreBlocks
    <3> QED BY <3>1, <3>2 DEF Bounds
  <2> QED BY <2>1, <2>2
<1>4. Idle /\ Become(m) /\ painting' = painting /\ canvas' = canvas /\ draws' = draws
  BY DEF composeAndFlush
<1>5. Inv'
  BY ComposeStep DEF RInv
<1>6. r.op = "put" /\ r.to = "window" /\ r.area = region /\ r.by = 0 /\ r.data = q.image
  BY DEF Send
<1> HIDE DEF q, r
<1>7. r.to \in Drawables /\ r.op # "shm" /\ From(Final(q), r, q.image) = q.image
  BY <1>6 DEF Drawables, From
<1>8. Good(m) /\ Alike(m, q) /\ Wrote(m, q, "window", region, q.image, 0)
  <2>1. Good(m) /\ Alike(m, q)
        /\ Wrote(m, q, r.to, r.area, From(Final(q), r, q.image), r.by)
    BY <1>2, <1>7, RequestWrites, Zenon
  <2> HIDE DEF m
  <2> QED BY <1>6, <1>7, <2>1
<1> HIDE DEF m
<1>9. /\ Final(m)["pixmap"] = Final(q)["pixmap"]
      /\ \A b \in Block : Final(m)["window"][b] = IF b \in region THEN q.image[b] ELSE Shown[b]
  BY <1>2, <1>8, BlockIsInt DEF Wrote, Drawables
<1>10. Regions(m, canvas)
  <2>1. q.size \in 0 .. N
    BY <1>2, BoundsAreBlocks
  <2> QED BY <1>2, <1>8, <1>9, <2>1, SameRegions
<1>11. RInv' /\ Shown' = Final(m)["window"]
  BY <1>4, <1>5, <1>8, <1>10, CallDraws
<1>12. \A b \in region : canvas[b] # Undefined => q.image[b] = canvas[b]
  BY <1>2, <1>3 DEF Regions, InImage
<1> QED BY <1>3, <1>4, <1>9, <1>11, <1>12

\* A change of size leaves the window as it is, whatever becomes of the segment.
LEMMA ResizeForgets ==
    ASSUME RInv, Liberties = {}, NEW size \in 0 .. N, resize(size)
    PROVE  RInv' /\ Shown' = Shown /\ draws' = draws
           /\ canvas' = [b \in Block |-> Undefined]
<1> DEFINE none == [b \in Block |-> Undefined]
           r == Send(none, "pixmap", Block)
<1>1. Wf(img) /\ Good(This) /\ Regions(This, canvas) /\ Wf(This)
  BY DEF RInv, Inv, Good, Safe
<1>2. PICK segment :
        /\ Become(IF size = 0 THEN Fresh(This, size, segment)
                  ELSE Request(Fresh(This, size, segment), r))
        /\ Idle /\ painting' = painting /\ draws' = draws /\ canvas' = none
        /\ img.scrolledRegion \subseteq 1 .. size
  <2>1. PICK segment \in Segments(size) :
          LET kept == segment = img.segmentSize /\ segment > 0
              waits == ~kept /\ (img.segmentSize > 0 \/ segment > 0)
              waited == IF waits THEN sync(This) ELSE This
              fresh == [waited EXCEPT
                           !.size = size, !.segmentSize = segment, !.gc = FALSE,
                           !.image = IF kept THEN @ ELSE none]
          IN /\ Become(IF size = 0 THEN fresh ELSE Request(fresh, r))
             /\ Idle /\ painting' = painting /\ draws' = draws /\ canvas' = none
             /\ img.scrolledRegion \subseteq 1 .. size
    BY DEF resize
  <2>2. This.segmentSize = img.segmentSize
    BY <1>1, ThisIsImg
  <2> QED BY <2>1, <2>2 DEF Fresh, Waited, Keeps
<1> DEFINE fresh == Fresh(This, size, segment)
           waited == Waited(This, segment)
           m == IF size = 0 THEN fresh ELSE Request(fresh, r)
<1>3. /\ Safe(fresh) /\ fresh.queue = waited.queue /\ fresh.size = size
      /\ fresh.server = waited.server /\ fresh.clientSideScroll = waited.clientSideScroll
      /\ fresh.scrolledRegion = waited.scrolledRegion
      /\ Keeps(This, segment) => fresh.image = waited.image
      /\ ~Keeps(This, segment) => Unread(fresh.queue, Block)
  BY <1>1, FreshIsSafe DEF Good
<1>4. Good(waited) /\ Alike(waited, This) /\ Final(waited) = Final(This)
  BY <1>1, SyncWrites DEF Waited, Alike
<1> HIDE DEF fresh, waited, r, none
<1>5. Good(fresh) /\ Final(fresh) = Final(waited)
  <2>1. \A i \in 1 .. Len(waited.queue) : waited.queue[i].op = "shm" =>
            \A b \in waited.queue[i].area \intersect Block : fresh.image[b] = waited.image[b]
    BY <1>3 DEF Unread
  <2>2. IsSequence(waited.queue) /\ WellMade(waited.queue)
    BY <1>4 DEF Good, Safe
  <2>3. Final(fresh) = Final(waited)
    BY <1>3, <2>1, <2>2, FinalOfImages
  <2> QED BY <1>3, <1>4, <2>3 DEF Good
<1>6. /\ Good(m) /\ Final(m)["window"] = Final(This)["window"]
      /\ m.size = size /\ m.clientSideScroll = This.clientSideScroll
      /\ m.scrolledRegion = This.scrolledRegion
  <2>1. r.op = "put" /\ r.to = "pixmap"
    BY DEF Send, r
  <2>2. Good(Request(fresh, r)) /\ Alike(Request(fresh, r), fresh)
        /\ Wrote(Request(fresh, r), fresh, r.to, r.area, From(Final(fresh), r, fresh.image), r.by)
    BY <1>5, <2>1, RequestWrites DEF Drawables
  <2>3. Final(Request(fresh, r))["window"] = Final(fresh)["window"]
    BY <2>1, <2>2 DEF Wrote, Drawables
  <2>4. m = fresh \/ m = Request(fresh, r)
    OBVIOUS
  <2> HIDE DEF m
  <2> QED BY <1>3, <1>4, <1>5, <2>2, <2>3, <2>4 DEF Alike
<1>7. Become(m)
  BY <1>2 DEF fresh
<1> HIDE DEF m
<1>8. Regions(m, canvas')
  <2>1. m.scrolledRegion \subseteq Bounds(m) /\ m.clientSideScroll \in BOOLEAN
    <3>1. This.scrolledRegion = img.scrolledRegion
      BY <1>1 DEF This, Wf
    <3> QED BY <1>1, <1>2, <1>6, <3>1 DEF Regions, Bounds
  <2>2. \A b \in Bounds(m) : canvas'[b] = Undefined
    BY <1>2, <1>6, BoundsAreBlocks DEF none
  <2> QED BY <2>1, <2>2 DEF Regions
<1>9. Inv'
  BY ResizeStep DEF RInv
<1>10. RInv' /\ Shown' = Final(m)["window"]
  BY <1>2, <1>6, <1>7, <1>8, <1>9, CallDraws
<1> QED BY <1>2, <1>6, <1>10 DEF Shown, none

\* What the server executes is what was counted on.
LEMMA ExecuteShows ==
    ASSUME RInv, Execute
    PROVE  RInv' /\ Shown' = Shown /\ canvas' = canvas /\ draws' = draws
<1>1. Wf(img) /\ Good(This) /\ Regions(This, canvas) /\ Wf(This)
  BY DEF RInv, Inv, Good, Safe
<1>2. /\ queue # <<>> /\ queue' = Tail(queue) /\ img' = img /\ painting' = painting
      /\ server' = Executed(server, Head(queue), img.image)
      /\ canvas' = canvas /\ draws' = draws
  BY DEF Execute
<1>3. This.queue = queue /\ This.server = server /\ This.image = img.image
  BY <1>1 DEF This, Wf
<1>4. This'.queue = queue' /\ This'.server = server' /\ Alike(This', This)
  BY <1>1, <1>2 DEF This, Wf, Alike
<1>5. IsSequence(queue) /\ WellMade(queue) /\ IsServer(server)
  BY <1>1, <1>3 DEF Good, Safe
<1> DEFINE m == This
           p == This'
<1>6. p.queue = Tail(m.queue) /\ p.image = m.image
      /\ p.server = Executed(m.server, Head(m.queue), m.image) /\ m.queue # <<>>
      /\ IsSequence(m.queue)
  BY <1>2, <1>3, <1>4, <1>5 DEF Alike
<1> HIDE DEF m, p
<1>7. Final(p) = Final(m)
  BY <1>6, FinalOfTail
<1>8. /\ Len(queue') = Len(queue) - 1 /\ Len(queue) \in Nat /\ Len(queue) >= 1
      /\ \A i \in 1 .. Len(queue') : i + 1 \in 1 .. Len(queue) /\ queue'[i] = queue[i + 1]
      /\ Head(queue) = queue[1]
  BY <1>2, <1>5 DEF IsSequence
<1>9. WellMade(queue') /\ IsServer(server')
  <2>1. 1 \in 1 .. Len(queue)
    BY <1>8
  <2>2. Head(queue).to \in Drawables
    BY <1>5, <1>8, <2>1 DEF WellMade
  <2>3. IsServer(server')
    BY <1>2, <1>5, <2>2, ExecutedIs
  <2>4. WellMade(queue')
    BY <1>5, <1>8 DEF WellMade
  <2> QED BY <2>3, <2>4
<1>10. Inv'
  BY ExecuteStep DEF RInv
<1>11. Good(This)'
  BY <1>4, <1>9, <1>10 DEF Good, Inv
<1>12. Regions(p, canvas)
  <2>1. m.size \in 0 .. N
    BY <1>1, BoundsAreBlocks DEF m
  <2> QED BY <1>1, <1>4, <1>7, <2>1, SameRegions DEF m, p
<1>13. Regions(This, canvas)'
  BY <1>2, <1>12 DEF p
<1>14. Shown' = Shown
  BY <1>7 DEF Shown, m, p
<1>15. PaintCounted'
  BY <1>2 DEF RInv, PaintCounted
<1> QED BY <1>2, <1>10, <1>11, <1>13, <1>14, <1>15 DEF RInv

LEMMA ShownIs == Shown = Final(This).window /\ Shown' = (Final(This).window)'
BY DEF Shown

LEMMA PromiseNames ==
    /\ Promise!Block = Block /\ Promise!Undefined = Undefined
    /\ \A c, region, v : Promise!Covered(c, region, v) = Drawing!Covered(c, region, v)
    /\ \A c, region : Promise!Announced(c, region) = Drawing!Announced(c, region)
    /\ \A c, size, area, d :
          Promise!Scrolled(c, size, area, d) = Drawing!Scrolled(c, size, area, d)
BY DEF Promise!Block, Block, Promise!Undefined, Undefined, Promise!Covered, Drawing!Covered,
       Drawing!Block, Promise!Announced, Drawing!Announced, Promise!Blank, Drawing!Blank,
       Promise!Scrolled, Drawing!Scrolled, Drawing!Undefined

\* RInv is inductive, and a step of the store is a step of the canvas or none.
LEMMA CanvasStep ==
    ASSUME RInv, Liberties = {}, [Next]_vars
    PROVE  RInv' /\ [Promise!Next]_(Promise!vars)
<1>1. CASE UNCHANGED vars
  <2>1. /\ img' = img /\ server' = server /\ queue' = queue /\ painting' = painting
        /\ canvas' = canvas /\ draws' = draws
    BY <1>1 DEF vars
  <2>2. This' = This
    BY <2>1 DEF This
  <2>3. Inv'
    BY InvStep DEF RInv
  <2>4. RInv'
    BY <2>1, <2>2, <2>3 DEF RInv, PaintCounted
  <2> QED BY <2>1, <2>2, <2>4 DEF Promise!vars
<1>2. ASSUME NEW region \in Rectangles, beginPaint(region)
      PROVE  RInv' /\ Promise!Next
  <2>1. RInv' /\ Shown' = Shown /\ region \in SUBSET Block
        /\ canvas' = Drawing!Announced(canvas, region) /\ draws' = draws
    BY <1>2, BeginPaintAnnounces
  <2>2. Promise!Announce(region)
    BY <2>1, ShownIs, PromiseNames DEF Promise!Announce
  <2> QED BY <2>1, <2>2, PromiseNames DEF Promise!Next
<1>3. ASSUME NEW region \in Rectangles, composeAndFlush(region)
      PROVE  RInv' /\ Promise!Next
  <2>1. RInv' /\ canvas' = canvas /\ draws' = draws
    BY <1>3, ComposeShows
  <2>2. PICK area \in SUBSET Block : \A b \in Block :
            IF b \in area THEN canvas[b] # Undefined => Shown'[b] = canvas[b]
            ELSE Shown'[b] = Shown[b]
    BY <1>3, ComposeShows
  <2>3. Promise!Flush(area)
    BY <2>1, <2>2, ShownIs, PromiseNames DEF Promise!Flush
  <2> QED BY <2>1, <2>3, PromiseNames DEF Promise!Next
<1>4. ASSUME NEW region \in Rectangles, NEW offset \in Offsets, flush(region, offset)
      PROVE  RInv' /\ Promise!Next
  <2>1. RInv' /\ canvas' = canvas /\ draws' = draws
    BY <1>4, FlushShows
  <2>2. PICK area \in SUBSET Block : \A b \in Block :
            IF b \in area THEN canvas[b] # Undefined => Shown'[b] = canvas[b]
            ELSE Shown'[b] = Shown[b]
    BY <1>4, FlushShows
  <2>3. Promise!Flush(area)
    BY <2>1, <2>2, ShownIs, PromiseNames DEF Promise!Flush
  <2> QED BY <2>1, <2>3, PromiseNames DEF Promise!Next
<1>5. CASE endPaint
  <2>1. RInv' /\ Shown' = Shown
    BY <1>5, EndPaintDraws
  <2>2. PICK region \in SUBSET Block :
            /\ draws < MaxDraw /\ draws' = draws + 1
            /\ canvas' = Drawing!Covered(canvas, region, draws + 1)
    BY <1>5, EndPaintDraws
  <2>3. Promise!Draw(region)
    BY <2>1, <2>2, ShownIs, PromiseNames DEF Promise!Draw
  <2> QED BY <2>1, <2>3, PromiseNames DEF Promise!Next
<1>6. ASSUME NEW area \in Rectangles, NEW d \in {-1, 1}, Scroll(area, d)
      PROVE  RInv' /\ Promise!Next
  <2>1. RInv' /\ Shown' = Shown /\ img.size \in Block /\ area \in SUBSET Block
        /\ canvas' = Drawing!Scrolled(canvas, img.size, area, d) /\ draws' = draws
    BY <1>6, ScrollScrolls
  <2>2. Promise!Scroll(img.size, area, d)
    BY <2>1, ShownIs, PromiseNames DEF Promise!Scroll
  <2>3. d \in -N .. N
    BY BoundsAssumption
  <2> QED BY <2>1, <2>2, <2>3, PromiseNames DEF Promise!Next
<1>7. ASSUME NEW size \in 0 .. N, resize(size)
      PROVE  RInv' /\ Promise!Next
  <2>1. RInv' /\ Shown' = Shown /\ draws' = draws /\ canvas' = [b \in Block |-> Undefined]
    BY <1>7, ResizeForgets
  <2>2. Promise!Resize
    BY <2>1, ShownIs, PromiseNames DEF Promise!Resize
  <2> QED BY <2>1, <2>2 DEF Promise!Next
<1>8. CASE Execute
  <2>1. RInv' /\ Shown' = Shown /\ canvas' = canvas /\ draws' = draws
    BY <1>8, ExecuteShows
  <2> QED BY <2>1, ShownIs DEF Promise!vars
<1>9. CASE flushNothing
  <2>1. RInv' /\ Shown' = Shown /\ canvas' = canvas /\ draws' = draws
    BY <1>9, FlushNothingShows
  <2> QED BY <2>1, ShownIs DEF Promise!vars
<1> QED BY <1>1, <1>2, <1>3, <1>4, <1>5, <1>6, <1>7, <1>8, <1>9 DEF Next

LEMMA RInvHolds ==
    ASSUME Liberties = {}
    PROVE  Spec => []RInv
<1>1. RInv /\ [Next]_vars => RInv'
  BY CanvasStep
<1> QED BY <1>1, InitRInv, PTL DEF Spec

\* The three regions tell, through every paint, scroll, flush, composition and
\* change of size, where the drawing of a block is: in the image, in the pixmap
\* once the queue is executed, or in both.
THEOREM RegionsAreRight ==
    ASSUME Liberties = {}
    PROVE  Spec => []RegionsTellWhere
<1>1. RInv => RegionsTellWhere
  <2> SUFFICES ASSUME RInv PROVE RegionsTellWhere
    OBVIOUS
  <2>1. Wf(img) /\ Regions(This, canvas)
    BY DEF RInv, Inv
  <2>2. /\ Bounds(This) = Bounds(img) /\ This.image = img.image
        /\ This.clientSideScroll = img.clientSideScroll
        /\ This.scrolledRegion = img.scrolledRegion /\ This.pendingFlush = img.pendingFlush
    BY <2>1 DEF This, Wf, Bounds
  <2>3. Uploaded = Final(This)["pixmap"]
    BY DEF Uploaded
  <2>4. ASSUME NEW b \in Defined
        PROVE  /\ InImage(This, b) => img.image[b] = canvas[b]
               /\ InPixmap(This, b) => Uploaded[b] = canvas[b]
    BY <2>1, <2>2, <2>3 DEF Regions, Defined
  <2>5. ScrolledIsStored
    BY <2>2, <2>4 DEF ScrolledIsStored, InPixmap
  <2> QED BY <2>2, <2>4, <2>5 DEF RegionsTellWhere, InImage, InPixmap
<1> QED BY <1>1, RInvHolds, PTL

\* The backing store implements Canvas, the server's delay and its two copies
\* hidden: a flushed block comes to show what was drawn there last, and no
\* paint, scroll or change of size alters what an earlier flush will show.
THEOREM StoreImplementsCanvas ==
    ASSUME Liberties = {}
    PROVE  Spec => ImplementsCanvas
<1>1. Init => Promise!Init
  <2> SUFFICES ASSUME Init PROVE Promise!Init
    OBVIOUS
  <2>1. /\ queue = <<>> /\ draws = 0 /\ canvas = [b \in Block |-> Undefined]
        /\ server = [pixmap |-> [b \in Block |-> Undefined],
                     window |-> [b \in Block |-> Undefined]]
    BY DEF Init
  <2>2. Wf(img)
    BY InitInv DEF Inv
  <2>3. This.queue = <<>> /\ This.server = server
    BY <2>1, <2>2 DEF This, Wf
  <2>4. Final(This).window = [b \in Block |-> Undefined]
    BY <2>1, <2>3, FinalOfNone
  <2> QED BY <2>1, <2>4, PromiseNames DEF Promise!Init
<1>2. RInv /\ [Next]_vars => [Promise!Next]_(Promise!vars)
  BY CanvasStep
<1> QED BY <1>1, <1>2, RInvHolds, PTL DEF Spec, ImplementsCanvas, Promise!Spec

=============================================================================
