# A verification model of the MeeGo X11 platform plugin

The repository is a Qt 5 QPA plugin for X11: the code that stands between a Qt
application and an X server.  Its protocols are concurrent in two ways: a reader
thread shares a lock-free event list with the main thread, and the main thread
shares selections, windows, counters and memory segments with the X server and
with other clients, none of which waits for it.  These modules model that part
of the code in TLA+, check it with TLC on small instances, and prove the most
important results with TLAPS for every value of the constants.

`PROJECT.json` gives for each definition the lines it stands for, for each run its
properties, for each property a plausible bug that breaks it, and the hazards
the properties are for.

## 1. The system

| component (`src/`) | state it keeps | operations | modelled by |
|---|---|---|---|
| event queue (`qxcbeventqueue.*`) | linked list of events, node pool, three atomics, mutex and condition, peeker ids | reader thread; `takeFirst`, `peek`, `waitForNewEvents`, `flushBufferedEvents`, wake-up, destructor | `EventQueue`, `PeekQueue`, `EventChannel` |
| event loop (`qxcbconnection.cpp`, `qxcbeventdispatcher.*`) | the pass over the queue | `processXcbEvents`, `compressEvent`, `handleXcbEvent`, error exit, `poll` | `EventLoop` |
| clipboard (`qxcbclipboard.*`) | data, times and owner per mode; INCR transactions; requestor window | `setMimeData`, `getSelection`, request / clear / XFixes / PropertyNotify handlers, timers, destructor | `ClipboardWait`, `SelectionOwner`, `SelectionTransfer`, `SelectionOwnership` |
| window (`qxcbwindow.*`) | mapping, `_NET_WM_SYNC_REQUEST` counter, expose region, deferred activation | map, configure, client messages, end of painting | `FrameSync` (not the deferred activation) |
| backing store (`qxcbbackingstore.*`) | image, shared segment, pending, dirty and scrolled regions | paint, flush, scroll, resize | `BackingStore`, `Canvas` |
| session manager (`qxcbsessionmanager.*`) | XSMP flags, nested loop | callbacks, interaction, phase 2, cancel | `SessionManager` |
| screens (`qxcbscreen.*`, `qxcbconnection_screens.cpp`) | lists of screens and virtual desktops | RandR notifications, `initializeScreens` | `Screens` |
| XInput, keyboard, MIME, cursors, images, settings, WM support, integration, atoms | tables, caches | translation, parsing, server I/O | not modelled (section 6) |
| vendored `xcb` | | | not modelled; the connection appears as `wire`, `sent`, `broken` and the requests of each module |

How they interact:

* The **reader thread** waits in `xcb_wait_for_event`, links a node per event, publishes
  the batch by storing `m_tail`, signals the condition and wakes the dispatcher.
* The **main thread** sleeps in the dispatcher's `poll`, flushes (`m_flushedTail :=
  m_tail`), takes events one by one, and hands each to a handler.  A handler may
  look into the queue (`peek`), remove events from its middle, or wait
  for further events, as the clipboard does for up to five seconds, while it serves
  the requests of other clients.
* Two **applications** exchange a selection through properties on a window, with
  notifications, timers of 5 s on both sides, and either can stop at any point.
* The **session manager** sends its messages whenever it likes: libSM's callbacks run in any
  event loop of the application, that of an interaction the last callback waits for included.
* The **server** decides by time who owns a selection, and tells by events that
  arrive later than the next decision.  It executes requests later than they are made,
  shared memory is read only then, and its replies about outputs may be newer than the
  notifications the client has yet to read.
* The **window manager** numbers its requests, configures the window, and waits for the sync counter
  to reach the number before it goes on.
* **Qt** stands between a window and its application with a queue of its own, and repaints
  through the backing store, whose flush ends in the counter.

Hard behaviours: the order of two atomics against the fields of nodes that are
recycled by position; the wake-up that races with a sleep; an exit
while the reader is about to call the dispatcher; a callback that changes the
list under the loop that calls it; requests that time out and are answered
afterwards; notifications that are told apart by milliseconds; beliefs about an
ownership the server has meanwhile given away; requests that overtake the painting of an earlier one, and
Expose events that overtake everything; memory that is painted while a request to read it is unread; three
regions that together say which copy of a pixel counts; outputs that change while the notifications of the
change before are handled.

What makes each component correct:

* queue: each event is in exactly one place and comes out once, in order, save for
  excluded user input; no node is used twice at a time; no signal or wake-up is lost;
  the destructor leaks nothing, ends, and outlives no dispatcher.
* event loop: compression never drops the last state; a broken connection ends it.
* wait: requests are served in order, the awaited event is not lost, the wait ends.
* transfer: the data arrive whole or not at all; the dispatch table never holds a dead
  transaction; both sides end.
* ownership: an owner has the data; each object is freed once; cached formats are the
  owner's.
* session: every SaveYourself is answered once; the client believes in an interaction only
  while the manager does, or has asked for it and was told to quit; a cancelled shutdown is told.
* window: no damage is forgotten; no counter value is announced before its configuration was handled, none
  goes back; every request is answered; when all is handled the frame shown is whole.
* backing store: the server never reads what is being painted; a flush shows the last paint, and scrolling
  moves what was painted.
* screens: connection and virtual desktops list the same screens with one primary in front; once the
  notifications are handled the screens are the outputs that show something.

## 2. The modules

**`EventQueue`** - both threads with a program counter each (`reader`, `main`), one step per
access to a location the other thread can touch.  Field, atomic and member names are
those of the class; `event` and `next` are functions on node addresses (pool slots
`1 .. PoolSize` and `HeapNodes`).  The reader's actions follow `run()`:
`xcb_wait_for_event`, `ReaderLocks`, `isCloseConnectionEvent`,
`qXcbEventNodeFactory` (`NodeFromPool` / `NodeFromHeap`), `LinkNode`, `PublishTail`, ...
The main thread is the most general client: any public operation at any time.  `order`,
`headPos`, `flushPos`, `taken` and `removed` are auxiliary and read by properties only.
Stores with release and loads with acquire are modelled as sequentially consistent
single steps; the reader's writes before a release are visible to a main thread that
acquires the same variable, which is the only way the code passes nodes.

**`EventChannel`** - what the queue promises, with no nodes, threads or locks.  `EventQueue`
implements it: the property `ImplementsChannel` is the abstract specification under
the refinement mapping written at the end of `EventQueue`.

**`EventLoop`** extends `EventQueue` and restricts the main thread to the dispatcher's loop and
`processXcbEvents()`.  What an event is (`KindOf`) is chosen in the initial state among `Kindings`.
Handlers are opaque: each may wait or remove events with a peeker.

**`PeekQueue`** extends `EventQueue` with `peekEventQueue()` itself: peeker ids, the cached
index of each, and peekers whose callback processes events (`m_queueModified`).

**`ClipboardWait`** extends `EventQueue` and restricts the main thread to
`waitForClipboardEvent()`: the two peeks of an iteration, the owner check, the sleep.

**`SelectionOwner`** - the giving side of a transfer and as much of the server as both sides share:
properties, notifications, a clock.  One action per request handled, per
(target, property) pair sent, per notification, per timer.  **`SelectionTransfer`**
extends it with the asking side, `getSelection()` down to
`clipboardReadIncrementalProperty()` and `getTimestamp()`, and a third client that sends MULTIPLE
requests or names `CLIP_TEMPORARY`.  A datum is its sequence of parts.  `Mixes` says how many requests
the asking side (`own`) and the third client (`foreign`) make.

**`SelectionOwnership`** - `setMimeData`, the two notifications of an ownership, the cached formats and the
destructor, against a server that grants or ignores a request by its time and clients
that name any time they like.  It assumes that XFixes is there, as every current
server has it.  `CLIP_TEMPORARY` notifications that other applications may cause on the root
window are not part of `SelectionTransfer`.

**`SessionManager`** - the static flags and callbacks of `qxcbsessionmanager.cpp`, one action per callback and per
member function a handler of `commitDataRequest()` or `saveStateRequest()` may call; `call` is the place
`sm_performSaveYourself()` has reached.  The application may be told to quit (`Quit`) in any event loop, its own, that of a wait or of a
dialog, and in a handler; the nested `exec()` then returns, or a later one returns at once.  `assumed` is a history variable: an
interaction was taken because a wait ended that way.  The session manager is the environment: it starts saves of
any kind, grants interactions one at a time, cancels, kills, and as XSMP demands starts no save before the last one is
answered.  Session keys, commands and properties are left out.

**`FrameSync`** - one top-level window between the window manager and its frame.  Three queues lie between
a change at the server and the picture that answers it: `wire` and `queue` (of `EventQueue`, here plain
sequences) and `wsi`, Qt's own.  The handlers of Expose (with the peek that pulls later Expose events
out of the queue), ConfigureNotify (with its compression), MapNotify, UnmapNotify and of the `_NET_WM_SYNC_REQUEST` message are
operators of the event and the rest of the queue; `processXcbEvents` applies the one that fits.  `flush`
is the end of `QXcbBackingStore::flush()`, clipping included, with `updateSyncRequestCounter()`.  The application, the server and the window
manager are the environment; `configured` is a history variable.

**`BackingStore`** - `QXcbBackingStore` and `QXcbBackingStoreImage` with the pixmap and the window at the server, which executes
requests in order but later (`queue`); a shared-memory put reads the image only then.  The methods of the
image are operators from object to object, so that they call each other as in the code; those of the store, which Qt
calls, are the actions.  `Expected` lists what the code takes for granted of its caller, and `Liberties` which of
that a run drops (none does; see the observations).  **`Canvas`** is the abstract specification: a picture
that is drawn, scrolled and shown, with no copies at all.  `BackingStore` implements it under the mapping of `ImplementsCanvas`.

**`Screens`** - the lists of screens against an X server whose outputs are plugged, driven by a crtc, moved, switched off and made primary.
Methods of the connection are operators from the client's state to the client's state; a screen is a record with
what `QXcbScreen` keeps of its output.  Queries are answered with the server's state of the moment, during `initializeScreens()`
one output at a time, while notifications of earlier changes are still under way.

**`MC*`** modules only give constants their values.  **`*Proofs`** hold theorems (section 4).

## 3. The runs

| run | instance | shows |
|---|---|---|
| `event_queue` | pool of 2, 2 heap nodes, 3 events, two mixes of user input | seven properties of the queue, among them the refinement of `EventChannel` |
| `peek_queue` | two peekers, one level of `peekEventQueue` | the walk stays in the list and the cached index skips nothing |
| `event_loop` | the same queue, two mixes of errors, motions, configures and peeked events | compression; wake-ups, the error exit and the destructor as liveness |
| `event_loop_broken` | the same | *violated*: finding 1 |
| `clipboard_wait` | 4 events, two requests, one awaited | order, the awaited event, termination |
| `clipboard_wait_sleep` | the same | *violated*: finding 2 |
| `selection_transfer` | two pastes, or one request of a third client; a text (1 part) or an image (2 parts), two milliseconds | seven properties of the transfer; that both sides end is liveness |
| `selection_ownership` | two modes, two objects, three calls, two changes of owner, two times | safety of the ownership |
| `session_manager` | two saves of every kind, two interactions or dialogs, a quit at any place | answers, interactions, the nested loop, cancellation, termination |
| `backing_store` | a store of two blocks, two drawings, five other calls, three unread requests | the refinement of `Canvas`, no tearing, where the regions say a block is |
| `screens` | two virtual desktops, one of them without outputs, three outputs on two crtcs, three changes | the lists agree, and follow the outputs once all is handled |
| `frame_sync` | sizes 1 and 2, five requests and changes, five messages under way | no damage lost, an honest counter, a whole frame at rest; that a request is answered is liveness |

**Bounds.**  A pool of two is the smallest in which `m_poolIndex` wraps and the pool runs out
while nodes are linked; with three events (plus the initial node and the close message) both
happen, the heap is used in the middle of the ring, and a restored node is used again.  Heap
addresses are interchangeable (symmetry; not used in the runs with liveness properties).
The mixes of user input put an excluded event alone, last, and in front of another.  Two
parts are enough for an overwritten, a missing and a doubled part; two pastes for everything a
timed-out transfer leaves to the next.  One paste together with one request of a third client was explored for the
safety properties as well (839 thousand states), without a violation.  The clock may stand still, so that two events
share a millisecond; two times give before, same and after.  For the ownership a larger instance
(three changes of owner, three times, two calls) was explored for 21 million states without a violation.
Two saves are enough for what one leaves to the next, and two interactions or dialogs for a message that comes
outside the wait it belongs to.
Two blocks are enough for a scroll that moves one over the other, for a destination that covers half of the store and
for a change of size; three unread requests are what it takes to scroll in the image while a shared-memory request
for it is unread.  Three blocks with two drawings, four calls and two requests (819 thousand states) and a format with an alpha
channel were explored as well, without a violation.  Three outputs on two crtcs leave one output without a
crtc, and two desktops make "the first" differ from "the primary"; an instance with outputs on both desktops (2.6
million states) was explored without a violation.  For the window, two sizes give a growth, a shrink and a resize back; five changes
give two requests that overtake each other with a change of mapping or an exposure among them.  Three sizes with four
changes (717 thousand states), and behaviours of nine changes drawn at random, were explored without a violation.
`CHECK_DEADLOCK FALSE` is set where everything may be done: the selection modules, `SessionManager`, and the three
modules above, whose environments make a bounded number of changes.

**Fairness.**  `EventLoop`: weak fairness of the main thread's loop, of an exit once begun, of the reader
thread and of the creation of the dispatcher - threads are scheduled, and the timeout of
a handler's wait is finite.  Nothing is assumed of the server, and nothing makes `poll` return but the
reader's wake-up (`PollOther` is not fair), which is what makes `WakeUpDelivers` a statement about
lost wake-ups.  `ClipboardWait`: the main thread, the reader, and time, which passes and so ends the wait.
`SelectionTransfer`: both event loops run, timers fire, a destructor once begun ends.
`SessionManager`: handlers return, dialogs close, event loops process messages, and the manager
takes messages in and grants what it is asked for - nothing makes it start, cancel or kill.  `FrameSync`: the reader publishes, the main thread handles
events and delivers Qt's, and an application paints what it was asked to paint; nothing makes the server or the window
manager do anything.  No strong fairness is used.

**Findings** (each with a run whose counterexample shows it):

1. `qxcbeventqueue.cpp:253` - a connection that breaks before the event dispatcher exists is never
   handled: the reader's last wake-up has nobody to wake, and nobody wakes the dispatcher
   created afterwards, contrary to the comment at 240-242.
2. `qxcbclipboard.cpp:809` - `waitForNewEvents()` compares `m_flushedTail` before and after its own
   flush, but the second peek of the iteration has flushed already: an awaited event that came
   between the peeks is slept on.

**Observations** made with the modules, outside the runs above.  Each is reproduced by changing one line of a cfg, or with a
cfg that is kept for it:

* `SelectionMultiple.cfg` (`OneTransactionPerWindow`): `qxcbclipboard.cpp:485` allows INCR transfers within MULTIPLE, contrary to the comment above
  it; two transactions then share a window and the first loses its notifications.
* `SelectionOwnsMode.cfg` (`OwnsModeAssertion`): `setMimeData()` with an outdated time (`qxcbclipboard.cpp:371`) is refused by the server but believed by
  the application, against the assertion of `ownsMode()` (392).
* `SelectionStaleTime.cfg` (`TimestampIsFresh`): `getTimestamp()` (`qxcbconnection.cpp:639`) may return the time of an earlier call's leftover
  notification instead of the server's.
* `BackingStore` with a member of `Liberties`: each of `early` (a scroll before the first flush), `clipped` (one from beyond the
  edge), `unflushed`, `child` (flushing a child window's part through the store) and `shrunk` breaks `ImplementsCanvas`; with `unsynced` (a scroll in the
  image, with a shared segment, to a destination the server has yet to read) `NoTearing` fails as well.  Qt's repaint manager keeps to `Expected` in all but unusual cases, and the code
  does not check.
* `Screens` with `Clones = TRUE`: two outputs on one crtc break `ScreensFollowOutputs`, for `findScreenForCrtc()` returns only the first
  screen of the crtc.
* `FrameSync`: a frame that was begun at the old size when the ConfigureNotify was handled is what the counter
  announces, so that the property speaks of the ConfigureNotify and not of a frame painted after it; a resize that compression turns back to the same size is
  answered only with the next paint, for a flush of nothing returns early; and an Expose event overtaking its ConfigureNotify is clipped to the old size, so that the
  new strip is painted only because the application repaints when it is resized (an assumption of the model).

**`peek_queue` in more detail.**  The run lets a peeker process events, but not call `peekEventQueue()` again
(`MaxDepth = 1`) nor generate and remove ids (`IdsInCallback = FALSE`) from its callback, as no peeker of the
repository does.  With `MaxDepth = 2` the inner call resets `m_queueModified` under the outer loop, which
then leaves the list; with `IdsInCallback = TRUE` an id generated again in the callback inherits the index
that the outer call stores on return, and its peeker skips events.  Both constants are there to show it.

**What the properties let pass.**  A transfer on a window whose earlier request was answered too late
(`gaveUp`) may get the late answer: the code keeps the window, as its comment at
`qxcbclipboard.cpp:872` partly says.  Changes of owner within one millisecond cannot be told apart by the protocol
(`FormatsAreCurrent`, `OwnsModeAssertion`, `MissingOnlyByTie` say so).  A checkpoint that opens an interaction, does not
release it and requests a second phase forgets it: `resetSmState()` clears `sm_interactionActive`, no `InteractDone`
is sent, and the manager lets nobody else interact (`InteractionAgrees` names the case; for a shutdown the flags
survive the first phase).  A `QCoreApplication::quit()` inside the nested loop of `allowsInteraction()` or
`allowsErrorInteraction()` ends the loop with `sm_smActive` still set, and line 417 (447), whose comment says "not cancelled",
takes that for a grant: the function returns true, `sm_interactionActive` is set, and `qt_sm_blockUserInput` cleared, while no
`Interact` has come.  The model shows what follows: the handler interacts while another client may; `release()` or the end of the save
sends an `InteractDone` for an interaction that was not granted; and since the request is still with the manager, it may
grant it afterwards, also when the save is over (`manager = "saved"`), to a client that will not give it back before its connection closes.  `InteractionAgrees`
says exactly how far the two differ then: the client's interaction is one whose request is still to be answered (`assumed /\ Requested`).
It is no finding only because nothing in the repository says what the two functions return after a quit.  What does hold in spite of it is that the save is answered once
and that a cancelled shutdown is told.  Should a manager break the protocol and start a save while the client has yet to
answer a cancelled one, the flags of the two saves mix.

## 4. The proofs

All proof modules are checked by TLAPS to the last leaf; they assume only the named ASSUMEs of the modules
(a non-empty pool, disjoint addresses, enough heap for the bounded number of events, two modes, ...),
which TLC evaluates in the runs.

* **`EventQueueProofs`** - `IInv == TypeOK /\ Control /\ Chain /\ Walk /\ NodesInOnePlace /\ Ring /\ Bars /\ NoLostSignal`.
  `NodesInOnePlace` is not inductive: that a node taken from the pool is free depends on the reader
  taking pool nodes in the order the main thread restores them (`Ring`: the pool nodes in use are those
  handed out last, as many as the counters say, and the list holds them in that order), on the
  list being the sequence `order` from `headPos` on (`Chain`), and on what each program counter's
  locals mean (`Control`, `Bars`).  `Walk` places the peeker's cursor within what was flushed.
  From `IInv`: `TypeCorrect`, `NodesAreInOnePlace`, `PoolIsConserved`, `NextIsNotRaced`, `NoSignalIsLost`,
  `DispatcherIsAlive`, and the action property `NodesAreStable`.
  `OInv` strengthens `IInv` by where event *n* can be (`Numbering`, `Closing`, `Admitted`,
  `Passed`, `Parked`, `Drained`): an event's number is its position in `order` less one, so that
  "taken once and in order" follows from the order of positions.  Theorems: `EventsAreInOnePlace`,
  `EventsComeInOrder`, `DestructorLeaksNothing`.
  `QueueImplementsChannel` is the refinement of `EventChannel`, an action at a time: `PublishTail` publishes (`Fresh`: the last event linked is
  still there), a flush reveals, `Consume` takes or parks the head, a peeker withdraws, and whatever else the threads do is a stutter (`ChannelStep`).
  The mapping is what `Remaining` leaves of the positions of the list; that it splits at a position and loses
  one member where a node is emptied (`RemainingAround`, `RemainingCleared`) is
  shown along the list by the order of the naturals (`UpTo`), for `Remaining` is a recursive function.
* **`QueueClientProofs`** - the clients of the queue.  Each of their steps is shown to be a step of `EventQueue` (`WaitIsQueue`, `PeekIsQueue`,
  `LoopIsQueue`), so that `OInv` holds in them and a proof only adds what the client knows.  `ServedInOrder` needs that nothing the walk has
  passed is a request (`InTurn`), though an event may be appended behind it and requests
  served earlier lie before it; `AwaitedIsKept` that nothing else takes from the list during the wait (`Waiting`).
  `CachedPeekSkipsNothing` and the two others about `peekEventQueue()` rest on `PInv`: `m_queueModified` is
  set by whatever dequeues, so while it is not set the loop's node is in the list (`Walking`), and what the loop has
  passed its peeker has been called with (`Called`).  They have `MaxDepth = 1` as a hypothesis, the last one `IdsInCallback = FALSE`
  too: the code relies on a peeker that does neither, and all of the repository's are such (see the observations for what happens otherwise).
  `CompressionKeepsLast` is inductive with `InHandIsTaken` and `Dropped`: the event found by the peek comes after the
  one in hand, for what was taken lies before the head of the list (`Passed`), and it takes the place of the event in hand for
  whatever was dropped in favour of that; a handler's peeker removes no event of a compressible kind (`KindAssumption`).
* **`TransferProofs`** - `TransactionsNeverDangle`: `NoDanglingTransaction` with `Objects` (ids of transactions are
  those given out, so that a new one is never mistaken for an old) is inductive because the end of a transaction
  removes the entry of its window whichever object the entry is.  Then `SelectionIsCompleteOrEmpty`, `TransactionsAreReached` and `PartsStay`, from one invariant `XInv`
  about each window of `getSelection()` on which no answer came too late.  It says what may be under way for the window, by
  where the call is (`Phase`): nothing between calls (`Unused`); then one request, in the queue or in the owner's hands, or
  one answer (`Asking`); then what was put in answer (`Served`); then either a part not read yet or the one deletion that asks
  for the next (`Moving`), where what was read, with what is in the property, is exactly what the transaction has sent.  A
  transfer that was broken off leaves a window that no longer exists and will not be used again (`Left`), so its late parts
  reach nothing.  `OnlyATieLosesParts` (`MissingOnlyByTie`) adds what is known of times: no notification is ahead of the server's clock, and
  INCR is not written ahead of it (`Clock`); once the client has set a transfer's time by it, a queued announcement with a later time belongs to the part that is in the
  property (`Announced`), and older ones are skipped.  `TypeCorrect` adds that a transaction's data are those of a format
  (`Sources`), from which what is written is one of `Values` (`WhatIsWritten`).  Steps of the one side are shown to keep what concerns every other window by one lemma (`KeepsOrderly`).  The
  numbers of windows are those of the calls (`NewWindowsAssumption`): a window destroyed is never made again.
* **`OwnershipProofs`** - `OwnerServes` and `ObjectsFreedOnce`.  `OwnerHasData` alone is not inductive: a
  `SelectionClear` could take the data of an owner.  It cannot because every `SelectionClear` on its way is at most as
  late as the last change of owner (`ClearsAreOld`), which for an owner is its own timestamp and not zero
  (`OwnershipHasTime`), so that the handler finds it too old; and the owner's own request is never ignored because the
  application's time never falls behind its timestamps (`OwnTimesAreKnown`).
  `CachedFormatsAreCurrent` is `FormatsAreCurrent` with `StaleIsTold`: while formats of an earlier owner are cached, the
  notification of the last change is still on its way, or that change has the time of our own ownership.  A notification the
  handler ignores is such a one, for `m_timestamp` is never ahead of the last change; a `SelectionClear` that is believed
  is not, by `ClearsAreOld`.
* **`BackingStoreProofs`** - `DirtyCoversWhatIsRead` (what the server has still to read of the segment lies in `m_dirtyShm`) and, from it,
  `NothingTears`, with the liberty `unsynced` excluded by hypothesis.  The invariant is `Wf(This) /\ Safe(This) /\ PaintedIsUnread`: since the methods are operators from object
  to object, `Safe` is stated of such an object and each method is shown to keep it, whichever other methods it calls.  `PaintedIsUnread` is needed because painting goes
  on after `beginPaint()` has returned: that a region between `beginPaint()` and `endPaint()` is not read depends on no
  request for it being made in between.
  `RegionsAreRight` (`RegionsTellWhere`) and `StoreImplementsCanvas` (the refinement of `Canvas`) are for an application that
  takes none of the liberties.  What the server will have done (`Final`) is defined by recursion along the queue; its facts - a request
  appended is executed last (`FinalOfAppend`), one executed makes no difference (`FinalOfTail`), an image written
  where nothing is to be read makes none (`FinalOfImages`) - are proved from the least number that would refute them, which the library has
  for the order of the naturals as a fact about sets.  The invariant `RInv` is stronger than the
  property where two regions meet: a block scrolled on the server is in the pixmap even if it is pending too, and then the image has it as
  well, for `preparePaint()` and a second scroll each rely on one of the two.  The simulation has a lemma for each method
  (`BeginPaintAnnounces`, `FlushShows`, `ComposeShows`, `ScrollScrolls`, `ResizeForgets`, `ExecuteShows`).
* **`FrameSyncProofs`** - `CounterNeverEarly` (`CounterIsHonest` for any number of requests) and the type invariant.  That the
  counter does not go back is not inductive: it needs that every message of a request still under way is younger than the
  request the window has (`Due`), that messages keep their order through both queues although Expose events are
  taken from the middle (`Ordered`, and `Part` for what a peek leaves of a queue), and that a request the window has is older than the counter or forgotten.
  `NothingStaysBlank` (`DamageIsKept`) and `RestShowsTheWindow` (`RestIsCurrent`) follow from `Current`: along each of the three queues the
  news of size and of mapping lead from what its reader knows to what its writer knows (`Latest`: an event in the queue is followed by
  the last one, whichever are compressed in between), the last Expose event of a group is behind the others
  (`Groups`), what is damaged is known somewhere or a resize is coming (`Damage`), and a frame of another size has a pixel left to paint (`Frames`).
* **`SessionProofs`** - `AnswersExpected` (`AnswersAreExpected` for any number of saves).  The invariant `OnePlace` says that a save is in
  one place at a time, a message to the client, its call of `sm_performSaveYourself()` or an answer to the manager, and in
  none while the manager waits for no answer; so that an answer is neither given twice nor to a save that is
  over, whatever messages the nested loops process.  `Loop` is needed because `exitEventLoop()` changes the call wherever it is, and so
  must find one that waits.  `InteractionsAgree` and `CancelsAreTold` rest on what each side may conclude from the messages still under way:
  the messages that reset the client's flags come before the save the manager waits for (`ResetsCome`), a wait has one request, in one
  place (`Tokens`), the flags are those of the manager's save (`Flags`), what the client has was granted (`Rights`), and what was granted is held, given back or
  forgotten (`Grants`).  `Tokens`, `Rights` and `Grants` (together `Agreed`) hold until a quit in the middle of a wait, after which no callback runs; what remains
  is that the request of an interaction waited for, or taken so, is behind what was given back, with the manager, or answered (`Wanted`); of a cancellation, that it is in front of the answer it belongs to (`Told`).
* **`ScreensProofs`** - for any virtual desktops, outputs and crtcs and any number of changes.  `ListsStayInStep`: each method of the connection is
  shown to take lists in step (`Whole`) to such lists (`Updated`, `Created`, `Destroyed`: what each does to the client), and those of
  `initializeScreens()` to keep what holds while they are built (`Filling`, `Begun`).  It needs that a screen has its output, and
  a fake one its desktop, for itself (`Own`), from which also follows that there is a `QXcbScreen` left to create.
  `ScreensSettle` and `PrimarySettles` are `ScreensFollowOutputs` and `PrimaryFollowsOutput` where no two outputs share a crtc (the hypothesis `~Clones`; see the
  observations for what happens otherwise).  Neither is inductive, for they speak of a client that has handled everything.  `Follows` is what holds
  before: the last notification to come of an output and of a crtc is how it is (`Told`); the screen of an output of which none is to come and which
  `initializeScreens()` has read is as the server shows it (`Match`); while it starts, it knows the primary output or will hear of it (`Flagged`);
  and the client takes a crtc from one output before it gives it to the next (`Handed`) - without that, the notification of a crtc
  could reach the screen of the wrong output, and its geometry would be lost.

Proved and in no run, because a run would only repeat a theorem: the type invariants (`TypeCorrect`), `PoolConserved`,
`NothingLeaks` and `PublishedNodesStable` of the event queue.

Only model-checked: the liveness properties (`WaitEnds`, `GetSelectionReturns`, `TransactionsEnd`, `WakeUpDelivers`, `DestructorTerminates`,
`SaveIsAnswered`, `RequestIsAnswered`), for the prover has no rules for fairness and ENABLED.  Every invariant and action property a
passing run checks is a theorem, as are the two refinements; those with a hypothesis on the client or the server's
screens are named with it above.

## 5. The plan

Done: the event queue, its loop and its abstract channel, the clipboard with its waits, transfers and ownership,
the session manager, the frames of a window, the backing store and its abstract canvas, the screens; the theorems above.  What is left, in this order:

1. The deferred activation and focus of a window (`requestActivateWindow()`, `m_deferredActivation`, the delayed focus-out of `QXcbConnection`), its
   states, and the destruction of a screen under its windows.
2. `XInput` - devices, touch points and scroll valuators across hierarchy changes; `XSettings` - the parser
   and its callbacks against a reference definition; `MimeFormats` - the conversions of `qxcbmime.cpp` likewise.
3. The theorems of the new modules.

New modules are parameterised by constants with named assumptions, have one action per handler, and use
recursive functions or folds only, so that they can be proved about.

## 6. Not modelled

* **Vendored `xcb`** (`src/xcb/`): most of the lines of the repository, generated marshalling of X requests and replies.  What the plugin relies on - requests
  are executed in order, replies are of the moment, a wait can be broken - is in the environment of each module.
* **XInput 2**: mostly a translation of device events; its state (touch points, scroll valuators) is on the plan.
* **Keyboard**: tables of xkbcommon and the translation of key codes; no protocol but the reload of a keymap.
* **MIME conversion, images, cursors**: pure functions on bytes and pixels, and caches of server objects.
* **X settings, window manager support**: one property read and parsed as a whole; a list read at every change.
* **Integration and native interface, basic connection, atoms**: construction in sequence, queries of extensions, accessors.
* **Of the modelled components**: of the window, focus, states, XEmbed, pointer and touch events, setting a geometry from the client's side, and `postSyncWindowRequest()`, which nothing
  calls; `FrameSync` takes the sync extension and a screen for every geometry as present, values of requests as not zero and painting as not nested.  Of the backing store, OpenGL textures and the flush of a
  child window drawn elsewhere than in the store.  Of the screens, everything a screen computes from its geometry.
