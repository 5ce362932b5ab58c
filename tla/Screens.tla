------------------------------- MODULE Screens ------------------------------
(***************************************************************************)
(* The screens of a connection (qxcbconnection_screens.cpp, qxcbscreen.cpp *)
(* and the lists of QXcbVirtualDesktop): one QXcbScreen per output that is *)
(* connected and enabled, a fake one on a virtual desktop that has none.   *)
(*                                                                         *)
(* The X server changes its outputs and sends notifications; the client    *)
(* handles them in order, later, and asks for what they do not say: the    *)
(* replies are of the moment of the request and may be newer than          *)
(* notifications still to come.  This goes for initializeScreens() too,    *)
(* which reads one output after the other.                                 *)
(*                                                                         *)
(* Each method of the connection is an operator from the client's state to *)
(* the client's state.  The mode of a crtc, its size, place and rotation   *)
(* are one number, its geometry.                                           *)
(***************************************************************************)
EXTENDS Integers, FiniteSets, SequencesExt, Functions

CONSTANTS
    OutputsOf,    \* per virtual desktop, its outputs as the server lists them
    CrtcsOf,      \* per virtual desktop, the set of its crtcs
    PrimaryNumber,\* primaryScreenNumber(), a virtual desktop
    None,         \* XCB_NONE
    Clones,       \* whether two outputs may share a crtc
    MaxGeometry,  \* the geometries a crtc takes (a bound)
    MaxChanges    \* the changes of the server's outputs (a bound)

Desktop == DOMAIN OutputsOf
Output == UNION {Range(OutputsOf[d]) : d \in Desktop}
Crtc == UNION {CrtcsOf[d] : d \in Desktop}
Slot == 1 .. (Cardinality(Output) + Len(OutputsOf))  \* the QXcbScreen objects

IndexOf(seq, x) == CHOOSE i \in DOMAIN seq : seq[i] = x

DesktopOf(output) == CHOOSE d \in Desktop : output \in Range(OutputsOf[d])

\* An output belongs to one virtual desktop, which lists it once.
ASSUME ScreensAssumption ==
    /\ OutputsOf \in Seq(Seq(Output))
    /\ \A d \in Desktop : IsInjective(OutputsOf[d])
    /\ \A d, e \in Desktop : d # e => Range(OutputsOf[d]) \cap Range(OutputsOf[e]) = {}
    /\ PrimaryNumber \in Desktop
    /\ DOMAIN CrtcsOf = Desktop
    /\ None \notin Output \union Crtc
    /\ MaxGeometry \in Nat \ {0} /\ MaxChanges \in Nat

VARIABLES
    connected,  \* the server: per output, whether a monitor is plugged in,
    crtcOf,     \*   the crtc that drives it, or None,
    geometry,   \*   per crtc its geometry, 0 when it is off,
    rrPrimary,  \*   and the primary output of the primary desktop
    changes,    \*   (how often it changed)
    events,     \* the notifications not handled yet
    starting,   \* where initializeScreens() is
    client      \* the screens the client has, and its lists of them

server == <<connected, crtcOf, geometry, rrPrimary>>
Ready == starting.desktop \notin Desktop

vars == <<server, changes, events, starting, client>>

Fake == [desktop |-> 1, output |-> None, crtc |-> None, geometry |-> 0, primary |-> FALSE]

-----------------------------------------------------------------------------
(* the X server (external): a change notifies the crtcs, then the outputs, *)
(* as they are after it                                                    *)

CrtcEvent(crtc) == [type |-> "crtc", crtc |-> crtc, geometry |-> geometry'[crtc]]
OutputEvent(output) ==
    [type |-> "output", output |-> output, connected |-> connected'[output],
     crtc |-> crtcOf'[output]]

Change(notified) ==
    /\ changes < MaxChanges
    /\ changes' = changes + 1
    /\ events' = events \o notified
    /\ UNCHANGED <<starting, client>>

Plug(output) ==
    /\ connected' = [connected EXCEPT ![output] = ~@]
    /\ UNCHANGED <<crtcOf, geometry, rrPrimary>>
    /\ Change(<<OutputEvent(output)>>)

Enable(output, crtc, g) ==
    /\ connected[output] /\ crtcOf[output] = None
    /\ geometry[crtc] = 0 \/ (Clones /\ geometry[crtc] = g)
    /\ crtcOf' = [crtcOf EXCEPT ![output] = crtc]
    /\ geometry' = [geometry EXCEPT ![crtc] = g]
    /\ UNCHANGED <<connected, rrPrimary>>
    /\ Change(<<CrtcEvent(crtc), OutputEvent(output)>>)

Disable(output) ==
    LET crtc == crtcOf[output]
    IN /\ crtc # None
       /\ crtcOf' = [crtcOf EXCEPT ![output] = None]
       /\ geometry' = [geometry EXCEPT ![crtc] = IF crtc \in Range(crtcOf') THEN @ ELSE 0]
       /\ UNCHANGED <<connected, rrPrimary>>
       /\ Change(<<CrtcEvent(crtc), OutputEvent(output)>>)

Reshape(crtc, g) ==
    /\ geometry[crtc] \notin {0, g}
    /\ geometry' = [geometry EXCEPT ![crtc] = g]
    /\ UNCHANGED <<connected, crtcOf, rrPrimary>>
    /\ Change(<<CrtcEvent(crtc)>>)

SetPrimaryOutput(output) ==
    /\ output # rrPrimary
    /\ rrPrimary' = output
    /\ UNCHANGED <<connected, crtcOf, geometry>>
    /\ \E told \in SetToSeqs({output, rrPrimary} \ {None}) :
          /\ \A i, j \in DOMAIN told :
                i < j => IndexOf(OutputsOf[PrimaryNumber], told[i])
                           < IndexOf(OutputsOf[PrimaryNumber], told[j])
          /\ Change([i \in DOMAIN told |-> OutputEvent(told[i])])

-----------------------------------------------------------------------------
(* the lists; c is the state of the client *)

findScreenForCrtc(c, crtc) == {s \in Range(c.screens) : c.at[s].crtc = crtc}
findScreenForOutput(c, output) == {s \in Range(c.screens) : c.at[s].output = output}

The(set) == CHOOSE s \in set : TRUE

FreeSlot(c) == CHOOSE s \in Slot : s \notin Range(c.screens)

removeOne(seq, x) == RemoveAt(seq, IndexOf(seq, x))

\* swapItemsAt(0, indexOf(x))
SwapToFront(seq, x) ==
    [seq EXCEPT ![1] = x, ![IndexOf(seq, x)] = Head(seq)]

\* prepended or appended
Inserted(seq, x, first) == IF first THEN <<x>> \o seq ELSE Append(seq, x)

setPrimary(c, s, primary) == [c EXCEPT !.at[s].primary = primary]

-----------------------------------------------------------------------------
(* the methods of QXcbConnection *)

checkOutputIsPrimary(output) == rrPrimary = output

\* handlePrimaryScreenChanged() reorders QGuiApplication's list (external)
primaryScreenChanged(c, s) == [c EXCEPT !.gui = SwapToFront(@, s)]

\* the reply of a crtc that is off is an empty rectangle, of None an error
updateGeometry(c, s) ==
    IF c.at[s].crtc = None THEN c
    ELSE [c EXCEPT !.at[s].geometry = geometry[c.at[s].crtc]]

\* mutant of updateScreen: nobody asks for the primary output
updateScreen_KeepsPrimary(c, s, event) ==
    updateGeometry([c EXCEPT !.at[s].crtc = event.crtc], s)

updateScreen(c, s, event) ==
    LET shaped == updateGeometry([c EXCEPT !.at[s].crtc = event.crtc], s)
        demoted == IF Head(c.screens) = s THEN shaped
                   ELSE setPrimary(shaped, Head(c.screens), FALSE)
        promoted == [setPrimary(demoted, s, TRUE) EXCEPT
                        !.screens = SwapToFront(@, s),
                        !.siblings[c.at[s].desktop] = SwapToFront(@, s)]
    IN IF /\ c.at[s].desktop = PrimaryNumber
          /\ ~c.at[s].primary
          /\ checkOutputIsPrimary(event.output)
       THEN primaryScreenChanged(promoted, s)
       ELSE shaped

\* new QXcbScreen, with the reply to xcb_randr_get_output_info()
NewScreen(desktop, output) ==
    [Fake EXCEPT
        !.desktop = desktop, !.output = output, !.crtc = crtcOf[output],
        !.geometry = IF crtcOf[output] = None THEN 0 ELSE geometry[crtcOf[output]]]

createScreen(c, desktop, event) ==
    LET s == FreeSlot(c)
        primary == desktop = PrimaryNumber /\ checkOutputIsPrimary(event.output)
        demoted == IF primary THEN setPrimary(c, Head(c.screens), FALSE) ELSE c
    IN [demoted EXCEPT
           !.at[s] = [NewScreen(desktop, event.output) EXCEPT !.primary = primary],
           !.screens = Inserted(@, s, primary),
           !.siblings[desktop] = Inserted(@, s, primary),
           !.gui = Inserted(@, s, primary)]

\* mutant of destroyScreen: the new primary screen is not moved to the front
destroyScreen_LeavesOrder(c, s) ==
    LET desktop == c.at[s].desktop
        removed == [c EXCEPT !.screens = removeOne(@, s), !.siblings[desktop] = removeOne(@, s)]
        next == Head(removed.siblings[desktop])
        left == IF c.at[s].primary THEN primaryScreenChanged(setPrimary(removed, next, TRUE), next)
                ELSE removed
    IN IF Len(c.siblings[desktop]) = 1
       THEN [c EXCEPT !.at[s].output = None, !.at[s].crtc = None]
       ELSE [left EXCEPT !.gui = removeOne(@, s)]

destroyScreen(c, s) ==
    LET desktop == c.at[s].desktop
        removed == [c EXCEPT !.screens = removeOne(@, s), !.siblings[desktop] = removeOne(@, s)]
        next == Head(removed.siblings[desktop])
        replaced == primaryScreenChanged(
                        [setPrimary(removed, next, TRUE) EXCEPT !.screens = SwapToFront(@, next)],
                        next)
        left == IF c.at[s].primary THEN replaced ELSE removed
    IN IF Len(c.siblings[desktop]) = 1
       THEN [c EXCEPT !.at[s].output = None, !.at[s].crtc = None]
       ELSE [left EXCEPT !.gui = removeOne(@, s)]

\* a CRTC with no mode is told of by the notification of its output
crtcChanged(c, event) ==
    LET found == findScreenForCrtc(c, event.crtc)
    IN IF found # {} /\ event.geometry # 0
       THEN [c EXCEPT !.at[The(found)].geometry = event.geometry]
       ELSE c

\* mutant of outputAppeared: no fake screen is looked for
outputAppeared_KeepsFake(c, event) == createScreen(c, DesktopOf(event.output), event)

\* a new output: the fake screen of its desktop becomes its screen
outputAppeared(c, event) ==
    LET desktop == DesktopOf(event.output)
        fakes == {s \in Range(c.siblings[desktop]) : c.at[s].output = None}
        s == The(fakes)
        physical == [c EXCEPT !.at[s].output = event.output, !.at[s].crtc = crtcOf[event.output]]
    IN IF fakes # {} THEN updateScreen(physical, s, event)
       ELSE createScreen(c, desktop, event)

\* disabled for good, or only while the mode is switched
outputDisabled(c, s, event) ==
    IF crtcOf[event.output] = None THEN destroyScreen(c, s)
    ELSE [c EXCEPT !.at[s].crtc = None]

outputChanged(c, event) ==
    LET found == findScreenForOutput(c, event.output)
        s == The(found)
    IN IF found = {}
       THEN IF event.connected /\ event.crtc # None THEN outputAppeared(c, event) ELSE c
       ELSE IF ~event.connected THEN destroyScreen(c, s)
       ELSE IF event.crtc = None THEN outputDisabled(c, s, event)
       ELSE updateScreen(c, s, event)

updateScreens ==
    /\ Ready
    /\ events # <<>>
    /\ events' = Tail(events)
    /\ client' = IF Head(events).type = "crtc" THEN crtcChanged(client, Head(events))
                 ELSE outputChanged(client, Head(events))
    /\ UNCHANGED <<server, changes, starting>>

-----------------------------------------------------------------------------
(* initializeScreens(), a step per request: the primary output of a        *)
(* desktop, each of its outputs, and the end of the desktop                *)

At(desktop, next, primary) == [desktop |-> desktop, next |-> next, primary |-> primary]

flaggedPrimary(c) == {s \in Range(c.screens) : c.at[s].primary}

readPrimary ==
    /\ ~Ready /\ starting.next = 0
    /\ starting' = [starting EXCEPT !.next = 1,
                       !.primary = IF starting.desktop = PrimaryNumber THEN rrPrimary ELSE None]
    /\ UNCHANGED <<server, changes, events, client>>

\* There can be several outputs: the first, or the exact match, is primary.
readOutput ==
    LET d == starting.desktop
        output == OutputsOf[d][starting.next]
        s == FreeSlot(client)
        old == flaggedPrimary(client)
        primary == d = PrimaryNumber /\ (old = {} \/ output = starting.primary)
        demoted == IF primary /\ old # {} THEN setPrimary(client, The(old), FALSE) ELSE client
    IN /\ ~Ready /\ starting.next \in DOMAIN OutputsOf[d]
       /\ starting' = [starting EXCEPT !.next = @ + 1]
       /\ client' = IF ~connected[output] \/ crtcOf[output] = None THEN client
                    ELSE [demoted EXCEPT
                             !.at[s] = [NewScreen(d, output) EXCEPT !.primary = primary],
                             !.screens = Append(@, s),
                             !.siblings[d] = Inserted(@, s, primary)]
       /\ UNCHANGED <<server, changes, events>>

\* a desktop without outputs gets a fake screen
endDesktop ==
    LET d == starting.desktop
        s == FreeSlot(client)
        filled == IF client.siblings[d] # <<>> THEN client
                  ELSE [client EXCEPT
                           !.at[s] = [Fake EXCEPT !.desktop = d, !.primary = (d = PrimaryNumber)],
                           !.screens = Append(@, s),
                           !.siblings[d] = <<s>>]
        first == The(flaggedPrimary(filled))
        ordered == <<first>> \o removeOne(filled.screens, first)
    IN /\ ~Ready /\ starting.next > Len(OutputsOf[d])
       /\ starting' = At(d + 1, 0, None)
       /\ client' = IF d < Len(OutputsOf) THEN filled
                    ELSE [filled EXCEPT !.screens = ordered, !.gui = ordered]
       /\ UNCHANGED <<server, changes, events>>

-----------------------------------------------------------------------------

\* an output has a crtc of its desktop for itself
Driven ==
    {f \in [Output -> Crtc \union {None}] :
        \A o \in Output : f[o] # None =>
            f[o] \in CrtcsOf[DesktopOf(o)] /\ \A p \in Output \ {o} : f[p] # f[o]}

Init ==
    /\ connected \in [Output -> BOOLEAN]
    /\ crtcOf \in Driven
    /\ geometry = [c \in Crtc |-> IF c \in Range(crtcOf) THEN 1 ELSE 0]
    /\ rrPrimary \in Range(OutputsOf[PrimaryNumber]) \union {None}
    /\ changes = 0
    /\ events = <<>>
    /\ starting = At(1, 0, None)
    /\ client = [at |-> [s \in Slot |-> Fake], screens |-> <<>>,
                 siblings |-> [d \in Desktop |-> <<>>], gui |-> <<>>]

Next ==
    \/ \E output \in Output : Plug(output) \/ Disable(output)
    \/ \E d \in Desktop : \E output \in Range(OutputsOf[d]), crtc \in CrtcsOf[d] :
          \E g \in 1 .. MaxGeometry : Enable(output, crtc, g)
    \/ \E crtc \in Crtc, g \in 1 .. MaxGeometry : Reshape(crtc, g)
    \/ \E output \in Range(OutputsOf[PrimaryNumber]) \union {None} : SetPrimaryOutput(output)
    \/ updateScreens
    \/ readPrimary
    \/ readOutput
    \/ endDesktop

Spec == Init /\ [][Next]_vars

-----------------------------------------------------------------------------
(* the properties *)

\* The lists agree: the same screens on the connection, on its desktops and
\* in QGuiApplication, and on every desktop at least one, so that at(0) and
\* first() of the code are there.
SameScreens ==
    Ready =>
        /\ IsInjective(client.screens) /\ IsInjective(client.gui)
        /\ Range(client.gui) = Range(client.screens)
        /\ \A d \in Desktop :
              /\ client.siblings[d] # <<>>
              /\ IsInjective(client.siblings[d])
              /\ Range(client.siblings[d]) = {s \in Range(client.screens) : client.at[s].desktop = d}

\* "Ensure the primary screen is first on the list": there is one primary
\* screen, on the primary desktop (the assertion of primaryScreen()), and it
\* is the first of the connection, of its desktop and of QGuiApplication.
OnePrimary ==
    Ready =>
        LET first == Head(client.screens)
        IN /\ flaggedPrimary(client) = {first}
           /\ client.at[first].desktop = PrimaryNumber
           /\ Head(client.siblings[PrimaryNumber]) = first
           /\ Head(client.gui) = first

\* updateScreens() and destroyScreen() leave the lists in step, whatever comes.
ListsAgree == SameScreens /\ OnePrimary

Shown(d) == {o \in Range(OutputsOf[d]) : connected[o] /\ crtcOf[o] # None}

Settled == Ready /\ events = <<>>

\* "Synchronizes the screen list, adds new screens, removes deleted ones":
\* with no notification left, each desktop has one screen per output shown,
\* with its crtc and geometry, or its one fake screen.
ScreensFollowOutputs ==
    Settled =>
        \A d \in Desktop :
            LET of(o) == {s \in Range(client.siblings[d]) : client.at[s].output = o}
            IN IF Shown(d) = {} THEN of(None) = Range(client.siblings[d]) /\ Len(client.siblings[d]) = 1
               ELSE /\ of(None) = {}
                    /\ Len(client.siblings[d]) = Cardinality(Shown(d))
                    /\ \A o \in Shown(d) : \E s \in of(o) :
                          /\ client.at[s].crtc = crtcOf[o]
                          /\ client.at[s].geometry = geometry[crtcOf[o]]

\* ... and the primary screen is that of the primary output, if it is shown.
PrimaryFollowsOutput ==
    Settled /\ rrPrimary \in Shown(PrimaryNumber) =>
        client.at[Head(client.screens)].output = rrPrimary
=============================================================================
