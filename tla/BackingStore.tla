---------------------------- MODULE BackingStore ----------------------------
(***************************************************************************)
(* QXcbBackingStore and its QXcbBackingStoreImage (qxcbbackingstore.cpp):  *)
(* the image the application paints into, the pixmap of the same size on   *)
(* the server, and the window.  The server executes the requests in order  *)
(* but later; a request with shared memory makes it read the image only    *)
(* then.  Three regions say which copy of a block counts: m_pendingFlush   *)
(* (the pixmap is behind), m_scrolledRegion (the image is behind) and      *)
(* m_dirtyShm (the server may still read the image).                       *)
(*                                                                         *)
(* A method of QXcbBackingStoreImage is an operator from the object to the *)
(* object, so that they call each other as in the code; the methods of     *)
(* QXcbBackingStore, which Qt calls, are the actions.                      *)
(*                                                                         *)
(* A store is a column of blocks, a region a set of them, a rectangle an   *)
(* interval.  Scrolled areas are one rectangle, as Qt's repaint manager    *)
(* passes them.  Windows on the store are all drawn in its coordinates.    *)
(***************************************************************************)
EXTENDS Integers, FiniteSets, SequencesExt, FiniteSetsExt

CONSTANTS
    N,          \* the blocks of the largest store
    MaxDraw,    \* the drawings of the application (a bound)
    MaxCalls,   \* the scrolls, flushes and changes of size (a bound)
    MaxQueue,   \* an application does not outrun the server further (a bound)
    HasAlpha,   \* the format of the image has an alpha channel
    Liberties   \* what the application is allowed that the code does not
                \* expect of it: see Expected

VARIABLES
    img,        \* the QXcbBackingStoreImage
    server,     \* the pixmap and the window, as executed so far
    queue,      \* the requests the server has not executed
    painting,   \* m_paintRegions: the regions between beginPaint and endPaint
    canvas,     \* what the application drew (history)
    draws,      \* the drawings so far, which number what is drawn
    calls       \* the other calls so far

vars == <<img, server, queue, painting, canvas, draws, calls>>

Drawing == INSTANCE Canvas WITH shown <- server.window

Block == 1 .. N
Undefined == Drawing!Undefined
Region == SUBSET Block

ASSUME BoundsAssumption ==
    /\ N \in Nat \ {0}
    /\ {MaxDraw, MaxCalls, MaxQueue} \subseteq Nat
    /\ HasAlpha \in BOOLEAN

-----------------------------------------------------------------------------
(* the server *)

\* A request writes the blocks of area in the drawable "to", from what came
\* with it, from the shared image, or from the pixmap, by blocks further up.
Send(data, to, area) == [op |-> "put", to |-> to, area |-> area, by |-> 0, data |-> data]
Share(to, area) == [op |-> "shm", to |-> to, area |-> area, by |-> 0, data |-> <<>>]
Copy(to, area, by) == [op |-> "copy", to |-> to, area |-> area, by |-> by, data |-> <<>>]

Executed(srv, request, image) ==
    LET from == CASE request.op = "put" -> request.data
                  [] request.op = "shm" -> image
                  [] request.op = "copy" -> srv.pixmap
    IN [srv EXCEPT ![request.to] =
           [b \in Block |-> IF b \in request.area THEN from[b - request.by] ELSE @[b]]]

\* the server once it has executed everything in the queue of m
Final(m) ==
    LET after[i \in 0 .. Len(m.queue)] ==
            IF i = 0 THEN m.server ELSE Executed(after[i - 1], m.queue[i], m.image)
    IN after[Len(m.queue)]

-----------------------------------------------------------------------------
(* QXcbBackingStoreImage; m is the object with its connection *)

This == [img EXCEPT !.server = server, !.queue = queue]

hasShm(m) == m.segmentSize > 0

Bounds(m) == 1 .. m.size

\* connection()->sync(), or the reply of a later request: all is executed
sync(m) == [m EXCEPT !.server = Final(m), !.queue = <<>>]

Request(m, request) ==
    IF request.area = {} THEN m ELSE [m EXCEPT !.queue = Append(@, request)]

Interval(a, b) == a .. b

Rects(region) ==
    {r \in {Interval(a, b) : a \in region, b \in region} :
        /\ r # {} /\ r \subseteq region
        /\ Min(r) - 1 \notin region /\ Max(r) + 1 \notin region}

\* the server refuses a rectangle that leaves the image or the pixmap
Accepted(m, region) == UNION {r \in Rects(region) : r \subseteq Bounds(m)}

ensureGC(m) == [m EXCEPT !.gc = TRUE]

\* mutant of shmPutImage: the region is set, not added to
shmPutImage_Forgets(m, to, region) ==
    LET sent == IF m.gc THEN Request(m, Share(to, Accepted(m, region))) ELSE m
    IN [sent EXCEPT !.dirtyShm = region]

\* without a graphics context the request is an error, and draws nothing
shmPutImage(m, to, region) ==
    LET sent == IF m.gc THEN Request(m, Share(to, Accepted(m, region))) ELSE m
    IN [sent EXCEPT !.dirtyShm = @ \union region]

flushFullRegion(m, region) ==
    IF m.gc THEN Request(m, Send(m.image, "pixmap", region \intersect Bounds(m))) ELSE m

flushPixmap(m, region) ==
    [flushFullRegion(m, m.pendingFlush \intersect region) EXCEPT !.pendingFlush = @ \ region]

syncIfShared(m, region) ==
    IF hasShm(m) /\ m.dirtyShm \intersect region # {}
    THEN [sync(m) EXCEPT !.dirtyShm = {}]
    ELSE m

\* mutant of preparePaint: what is painted over still counts as scrolled
preparePaint_StaysScrolled(m, region) ==
    [syncIfShared(m, region) EXCEPT !.pendingFlush = @ \union region]

preparePaint(m, region) ==
    [syncIfShared(m, region) EXCEPT
        !.scrolledRegion = @ \ region,
        !.pendingFlush = @ \union region]

\* The scrolled blocks are fetched from the pixmap, or brought to it.
flushScrolledRegion(m, clientSide) ==
    LET turned == [m EXCEPT !.clientSideScroll = clientSide]
        synced == syncIfShared(turned, m.scrolledRegion)
        fetched == sync(synced)
        got == Accepted(m, m.scrolledRegion)
        ready == ensureGC(synced)
    IN IF m.clientSideScroll = clientSide \/ m.scrolledRegion = {}
       THEN turned
       ELSE IF clientSide
       THEN [fetched EXCEPT
                !.image = [b \in Block |-> IF b \in got THEN fetched.server.pixmap[b] ELSE @[b]],
                !.scrolledRegion = {}]
       ELSE IF hasShm(m)
       THEN shmPutImage(ready, "pixmap", m.scrolledRegion)
       ELSE flushFullRegion(ready, m.scrolledRegion)

Moved(area, d) == {b + d : b \in area}

\* qt_scrollRectInImage()
scrollImage(m, area, d) ==
    [m EXCEPT !.image = [b \in Block |-> IF b - d \in area /\ b \in Bounds(m)
                                         THEN @[b - d] ELSE @[b]]]

\* The copy starts at the first block of the area and at the first block of
\* the clipped destination.
scrollPixmap(m, area, d) ==
    LET dst == Moved(area, d) \intersect Bounds(m)
        put == IF hasShm(m)
               THEN shmPutImage(m, "pixmap", m.pendingFlush \intersect area)
               ELSE flushPixmap(m, area)
    IN IF dst = {} THEN ensureGC(put)
       ELSE Request(ensureGC(put), Copy("pixmap", dst, Min(dst) - Min(area)))

\* mutant of scroll: what the scroll has moved or covered stays pending
scroll_StaysPending(m, area, d) ==
    LET moved == IF ~m.clientSideScroll THEN scrollPixmap(m, area, d)
                 ELSE scrollImage(IF hasShm(m) THEN preparePaint(m, area) ELSE m, area, d)
    IN [moved EXCEPT !.scrolledRegion = @ \union (Moved(area, d) \intersect Bounds(m))]

scroll(m, area, d) ==
    LET moved == IF ~m.clientSideScroll THEN scrollPixmap(m, area, d)
                 ELSE scrollImage(IF hasShm(m) THEN preparePaint(m, area) ELSE m, area, d)
        scrolled == moved.scrolledRegion \union (Moved(area, d) \intersect Bounds(m))
    IN [moved EXCEPT
           !.scrolledRegion = scrolled,
           !.pendingFlush = IF hasShm(m) THEN (@ \ area) \ scrolled ELSE @]

\* The region is in the coordinates of the window, offset blocks into the
\* store; so is what flushPixmap() is called with.
put(m, region, offset) ==
    LET area == Moved(region, offset)
        ready == ensureGC(m)
        flushed == flushPixmap(ready, region)
    IN IF hasShm(m)
       THEN shmPutImage(Request(ready, Copy("window", area \intersect m.scrolledRegion, 0)),
                        "window", area \ m.scrolledRegion)
       ELSE Request(flushed, Copy("window", area, 0))

-----------------------------------------------------------------------------
(* QXcbBackingStore *)

Become(m) ==
    /\ img' = [m EXCEPT !.server = <<>>, !.queue = <<>>]
    /\ server' = m.server
    /\ queue' = m.queue

Idle == painting = <<>> /\ Len(queue) < MaxQueue

\* the regions of the calls (a bound: a region is one rectangle)
Rectangles == {Interval(a, b) : a \in Bounds(img), b \in Bounds(img)} \ {{}}

\* A scroll the code copes with; each liberty is an assumption it makes:
\*   early      something was flushed since the store got its size
\*   clipped    the area is not moved beyond the first block
\*   unflushed  (no shared memory) the destination is not still to be flushed
\*   unsynced   (in the image) the server does not read the destination only
Expected(area, d) ==
    LET dst == Moved(area, d) \intersect Bounds(img)
    IN /\ \/ "early" \in Liberties \/ img.clientSideScroll \/ img.gc
       /\ \/ "clipped" \in Liberties \/ Min(area) + d >= 1
       /\ \/ "unflushed" \in Liberties \/ hasShm(img) \/ img.clientSideScroll
          \/ dst \intersect (img.pendingFlush \ area) = {}
       /\ \/ "unsynced" \in Liberties \/ ~hasShm(img) \/ ~img.clientSideScroll
          \/ img.dirtyShm \intersect area # {} \/ img.dirtyShm \intersect dst = {}

Count == calls < MaxCalls /\ calls' = calls + 1

beginPaint(region) ==
    LET ready == preparePaint(This, region)
    IN /\ Idle
       /\ draws < MaxDraw
       /\ painting' = Append(painting, region)
       /\ Become([ready EXCEPT !.image =
             IF HasAlpha THEN Drawing!Covered(@, region, Drawing!Blank) ELSE @])
       /\ canvas' = Drawing!Announced(canvas, region)
       /\ UNCHANGED <<draws, calls>>

\* The application has drawn on paintDevice() since beginPaint(), here at
\* the last moment.
endPaint ==
    /\ painting # <<>>
    /\ painting' = Front(painting)
    /\ draws' = draws + 1
    /\ canvas' = Drawing!Covered(canvas, Last(painting), draws')
    /\ Become(preparePaint([This EXCEPT !.image = Drawing!Covered(@, Last(painting), draws')],
                           Last(painting)))
    /\ UNCHANGED calls

Scroll(area, d) ==
    /\ Idle
    /\ Count
    /\ Expected(area, d)
    /\ Become(scroll(This, area, d))
    /\ canvas' = Drawing!Scrolled(canvas, img.size, area, d)
    /\ UNCHANGED <<painting, draws>>

Offsets == IF "child" \in Liberties THEN {0, 1} ELSE {0}

\* The flush of a window offset blocks into the store; the liberty "child"
\* is a window of its own there, without shared memory.
flush(region, offset) ==
    /\ Idle
    /\ Count
    /\ Moved(region, offset) \subseteq Bounds(img)
    /\ "child" \in Liberties \/ hasShm(img) \/ offset = 0
    /\ Become(put(flushScrolledRegion(This, FALSE), region, offset))
    /\ UNCHANGED <<painting, canvas, draws>>

\* A flush of which the window or the store leaves nothing: the scrolled
\* blocks go to the pixmap, and no more.
flushNothing ==
    /\ Idle
    /\ Count
    /\ Bounds(img) # {}
    /\ Become(flushScrolledRegion(This, FALSE))
    /\ UNCHANGED <<painting, canvas, draws>>

\* The base class composes the window from the image and textures.
composeAndFlush(region) ==
    LET m == flushScrolledRegion(This, TRUE)
    IN /\ Idle
       /\ Count
       /\ Become(Request(m, Send(m.image, "window", region)))
       /\ UNCHANGED <<painting, canvas, draws>>

\* The segment is kept if it is large enough and less than twice too large;
\* another is asked for otherwise, which may fail.  The three regions are
\* not touched.  The liberty "shrunk" is a store that leaves part of the
\* scrolled region outside.
Segments(size) ==
    IF size = 0 THEN {0}
    ELSE IF img.segmentSize >= size /\ img.segmentSize \div 2 < size THEN {img.segmentSize}
    ELSE {0, size}

resize(size) ==
    \E segment \in Segments(size) :
        LET kept == segment = img.segmentSize /\ segment > 0
            waits == ~kept /\ (img.segmentSize > 0 \/ segment > 0)
            waited == IF waits THEN sync(This) ELSE This
            fresh == [waited EXCEPT
                         !.size = size, !.segmentSize = segment, !.gc = FALSE,
                         !.image = IF kept THEN @ ELSE [b \in Block |-> Undefined]]
            none == [b \in Block |-> Undefined]
        IN /\ Idle
           /\ Count
           /\ size # img.size
           /\ "shrunk" \in Liberties \/ img.scrolledRegion \subseteq 1 .. size
           /\ Become(IF size = 0 THEN fresh ELSE Request(fresh, Send(none, "pixmap", Block)))
           /\ canvas' = none
           /\ UNCHANGED <<painting, draws>>

\* the server executes the next request
Execute ==
    /\ queue # <<>>
    /\ server' = Executed(server, Head(queue), img.image)
    /\ queue' = Tail(queue)
    /\ UNCHANGED <<img, painting, canvas, draws, calls>>

-----------------------------------------------------------------------------

Init ==
    /\ img = [image |-> [b \in Block |-> Undefined], size |-> 0, segmentSize |-> 0,
              gc |-> FALSE, clientSideScroll |-> FALSE,
              scrolledRegion |-> {}, pendingFlush |-> {}, dirtyShm |-> {},
              server |-> <<>>, queue |-> <<>>]
    /\ server = [pixmap |-> [b \in Block |-> Undefined], window |-> [b \in Block |-> Undefined]]
    /\ queue = <<>>
    /\ painting = <<>>
    /\ canvas = [b \in Block |-> Undefined]
    /\ draws = 0
    /\ calls = 0

Next ==
    \/ \E region \in Rectangles : beginPaint(region) \/ composeAndFlush(region)
    \/ \E region \in Rectangles, offset \in Offsets : flush(region, offset)
    \/ flushNothing
    \/ endPaint
    \/ \E area \in Rectangles, d \in {-1, 1} : Scroll(area, d)
    \/ \E size \in 0 .. N : resize(size)
    \/ Execute

Spec == Init /\ [][Next]_vars

-----------------------------------------------------------------------------
(* the properties *)

\* the state, the object and its connection well formed
TypeOK ==
    /\ img.image \in [Block -> Drawing!Content]
    /\ {img.scrolledRegion, img.pendingFlush, img.dirtyShm} \subseteq Region
    /\ img.size \in 0 .. N /\ img.segmentSize \in 0 .. N
    /\ server \in [{"pixmap", "window"} -> [Block -> Drawing!Content]]
    /\ canvas \in [Block -> Drawing!Content]

\* "to prevent X from reading from the image region while we're writing to
\* it": whatever the server has still to read of the shared image is in
\* m_dirtyShm, so that preparePaint() waits for it.
SharedIsDirty ==
    \A i \in DOMAIN queue : queue[i].op = "shm" => queue[i].area \subseteq img.dirtyShm

\* ... and nobody writes a block of the image that the server has still to read.
NoTearing ==
    [][\A i \in DOMAIN queue' : queue'[i].op = "shm" =>
            \A b \in queue'[i].area : img'.image[b] = img.image[b]]_vars

Defined == {b \in Bounds(img) : canvas[b] # Undefined}

Uploaded == Final(This).pixmap

\* "This is the scrolled region which is stored in server-side pixmap": when
\* the server scrolls, a block of m_scrolledRegion that was drawn is in the
\* pixmap, once the requests are executed.
ScrolledIsStored ==
    ~img.clientSideScroll =>
        \A b \in Defined \intersect img.scrolledRegion : Uploaded[b] = canvas[b]

\* The three regions tell where each block is: in the image unless it was
\* scrolled on the server, and in the pixmap too unless it is pending or was
\* scrolled in the image.
RegionsTellWhere ==
    /\ ScrolledIsStored
    /\ \A b \in Defined :
          /\ img.clientSideScroll \/ b \notin img.scrolledRegion
             => img.image[b] = canvas[b]
          /\ b \notin img.pendingFlush /\ ~(img.clientSideScroll /\ b \in img.scrolledRegion)
             => Uploaded[b] = canvas[b]

\* What the window shows once the server has caught up is what Canvas says:
\* a flushed block shows the last drawing, and nothing the application does
\* afterwards changes what an earlier flush shows.
Promise == INSTANCE Canvas WITH shown <- Final(This).window
ImplementsCanvas == Promise!Spec

=============================================================================
