---------------------------- MODULE SessionManager ----------------------------
(***************************************************************************)
(* QXcbSessionManager: the callbacks of libSM, the static flags they share, *)
(* and the nested event loop in which allowsInteraction() waits to be       *)
(* granted an interaction.  Messages of the manager are processed wherever  *)
(* the application runs an event loop: also under a save that has not       *)
(* finished, in the loop of the wait or in that of a dialog.  As XSMP       *)
(* demands, the manager starts no save before the client has answered the   *)
(* last one, so sm_performSaveYourself() does not nest.                     *)
(***************************************************************************)
EXTENDS Naturals, Sequences

CONSTANTS MaxSaves,  \* bound: SaveYourself messages
          MaxCalls   \* bound: interactions asked for and dialogs opened

ASSUME SessionAssumption == {MaxSaves, MaxCalls} \subseteq Nat

VARIABLES
  (* the static variables of qxcbsessionmanager.cpp *)
  sm_interactionActive, sm_smActive, sm_interactStyle, sm_saveType, sm_cancel,
  sm_waitingForInteraction, sm_isshutdown, sm_phase2, sm_in_phase2, qt_sm_blockUserInput,
  m_eventLoop,  \* points to the loop of a wait; FALSE is nullptr
  call,         \* sm_performSaveYourself(): where it is, in which phase, and
                \* where it goes on after an event loop of its own
  calls,
  life,         \* running, quitting (all event loops) or closed
  (* the connection *)
  toClient, toManager,
  (* the session manager *)
  manager,      \* what it waits for
  shutdown, style, \* what the last SaveYourself said
  asked,        \* InteractRequest messages to answer
  granted,      \* the client may interact
  saves,
  (* auxiliary *)
  told,         \* the client has cancelled this shutdown
  second,       \* this save has a second phase
  assumed       \* the client has taken an interaction because a wait ended in a quit

loopFlags   == <<sm_waitingForInteraction, sm_interactionActive, qt_sm_blockUserInput>>
saveFlags   == <<sm_smActive, sm_interactStyle, sm_isshutdown, sm_phase2, sm_in_phase2>>
callFlags   == <<sm_saveType, sm_cancel>>
managerVars == <<manager, shutdown, style, asked, granted, saves, told, second, assumed>>
vars == <<loopFlags, saveFlags, callFlags, m_eventLoop, call, calls, life,
          toClient, toManager, managerVars>>

NoCall == [at |-> "none", type |-> "Local", phase2 |-> FALSE, back |-> "none"]

Init ==
  /\ sm_waitingForInteraction = FALSE /\ sm_interactionActive = FALSE
  /\ qt_sm_blockUserInput = FALSE
  /\ sm_smActive = FALSE /\ sm_interactStyle = "None" /\ sm_isshutdown = FALSE
  /\ sm_phase2 = FALSE /\ sm_in_phase2 = FALSE
  /\ sm_saveType = "Global" /\ sm_cancel = FALSE
  /\ m_eventLoop = FALSE /\ call = NoCall /\ calls = 0 /\ life = "running"
  /\ toClient = <<>> /\ toManager = <<>>
  /\ manager = "idle" /\ shutdown = FALSE /\ style = "None" /\ asked = 0 /\ granted = FALSE
  /\ saves = 0 /\ told = FALSE /\ second = FALSE /\ assumed = FALSE

resetSmState ==
  /\ sm_waitingForInteraction' = FALSE /\ sm_interactionActive' = FALSE
  /\ qt_sm_blockUserInput' = FALSE
  /\ sm_smActive' = FALSE /\ sm_interactStyle' = "None" /\ sm_isshutdown' = FALSE
  /\ sm_phase2' = FALSE /\ sm_in_phase2' = FALSE

SaveYourself(type, sd, st) ==
  [type |-> "SaveYourself", saveType |-> type, shutdown |-> sd, style |-> st]
Message(type)          == [type |-> type]
InteractDone(cancel)   == [type |-> "InteractDone", cancel |-> cancel]
SaveYourselfDone(good) == [type |-> "SaveYourselfDone", success |-> good]

-----------------------------------------------------------------------------
(* The session manager.                                                     *)

Sends(m) == toClient' = Append(toClient, m) /\ UNCHANGED toManager

ClientVars == <<loopFlags, saveFlags, callFlags, m_eventLoop, call, calls, life, assumed>>

StartSave ==
  /\ saves < MaxSaves /\ manager = "idle"
  /\ \E type \in {"Local", "Global", "Both"}, sd \in BOOLEAN, st \in {"None", "Errors", "Any"} :
       Sends(SaveYourself(type, sd, st)) /\ shutdown' = sd /\ style' = st
  /\ manager' = "saving" /\ saves' = saves + 1
  /\ asked' = 0 /\ granted' = FALSE /\ told' = FALSE /\ second' = FALSE
  /\ UNCHANGED ClientVars

Grant ==
  /\ asked > 0 /\ ~granted
  /\ Sends(Message("Interact"))
  /\ asked' = asked - 1 /\ granted' = TRUE
  /\ UNCHANGED <<ClientVars, manager, shutdown, style, saves, told, second>>

StartPhase2 ==
  /\ manager = "phase2"
  /\ Sends(Message("SaveYourselfPhase2"))
  /\ manager' = "saving"
  /\ UNCHANGED <<ClientVars, shutdown, style, asked, granted, saves, told, second>>

Complete ==
  /\ manager = "saved" /\ ~shutdown
  /\ Sends(Message("SaveComplete"))
  /\ manager' = "idle"
  /\ UNCHANGED <<ClientVars, shutdown, style, asked, granted, saves, told, second>>

\* another client, or the user, cancels the shutdown
CancelShutdown ==
  /\ shutdown /\ manager \in {"saving", "phase2", "saved"}
  /\ Sends(Message("ShutdownCancelled"))
  /\ manager' = IF manager = "saving" THEN "cancelled" ELSE "idle"
  /\ asked' = 0 /\ granted' = FALSE
  /\ UNCHANGED <<ClientVars, shutdown, style, saves, told, second>>

Kill ==
  /\ shutdown /\ manager \in {"saving", "phase2", "saved"} /\ ~told
  /\ Sends(Message("Die"))
  /\ manager' = "gone"
  /\ UNCHANGED <<ClientVars, shutdown, style, asked, granted, saves, told, second>>

\* the answer to a save, whether or not it is still wanted
Answered(by) ==
  manager' = CASE manager = "saving" -> by [] manager = "cancelled" -> "idle" [] OTHER -> manager

Receive ==
  /\ toManager # <<>> /\ toManager' = Tail(toManager)
  /\ LET m == Head(toManager)
     IN \/ /\ m.type = "InteractRequest"
           /\ asked' = IF manager = "saving" THEN asked + 1 ELSE asked
           /\ UNCHANGED <<manager, granted, told, second>>
        \/ /\ m.type = "InteractDone"
           /\ granted' = FALSE /\ told' = (told \/ m.cancel)
           /\ UNCHANGED <<manager, asked, second>>
        \/ /\ m.type = "Phase2Request" /\ Answered("phase2")
           /\ second' = TRUE /\ UNCHANGED <<asked, granted, told>>
        \/ /\ m.type = "SaveYourselfDone" /\ Answered("saved")
           /\ UNCHANGED <<asked, granted, told, second>>
        \/ /\ m.type = "ConnectionClosed" /\ manager' = "gone"
           /\ UNCHANGED <<asked, granted, told, second>>
  /\ UNCHANGED <<ClientVars, toClient, shutdown, style, saves>>


-----------------------------------------------------------------------------
(* The calls of the application.                                            *)

At(where) == call.at \in where
Goes(to) == call' = [call EXCEPT !.at = to]
Leaves(to, back) == call' = [call EXCEPT !.at = to, !.back = back]

\* sm_performSaveYourself() calls the handlers of commitDataRequest() and of
\* saveStateRequest()
Handlers == {"commitData", "saveState"}
FirstHandler(type) == IF type = "Local" THEN "saveState" ELSE "commitData"

sm_performSaveYourself(type, phase2) ==
  call' = [at |-> FirstHandler(type), type |-> type, phase2 |-> phase2, back |-> "none"]

\* an interaction is asked for, and a loop begins; then the call goes on
\* at back
Wait(back) ==
  /\ ~sm_interactionActive /\ ~sm_waitingForInteraction
  /\ toManager' = Append(toManager, Message("InteractRequest"))
  /\ sm_waitingForInteraction' = TRUE
  /\ m_eventLoop' = TRUE /\ Leaves("waiting", back)
  /\ UNCHANGED <<sm_interactionActive, qt_sm_blockUserInput, saveFlags, callFlags, life, toClient,
                 managerVars>>

\* where the request is not made nothing changes
allowsInteraction ==
  /\ At(Handlers) /\ calls < MaxCalls /\ calls' = calls + 1
  /\ sm_interactStyle = "Any" /\ Wait(call.at)

\* mutant of ErrorsMayBeAsked: the condition of allowsInteraction()
AnyMayBeAsked == sm_interactStyle = "Any"

ErrorsMayBeAsked == sm_interactStyle \in {"Any", "Errors"}

allowsErrorInteraction ==
  /\ At(Handlers) /\ calls < MaxCalls /\ calls' = calls + 1
  /\ ErrorsMayBeAsked /\ Wait(call.at)

\* mutant of NotCancelled: a shutdown cancelled meanwhile is not noticed
AnyWakeUp == TRUE

NotCancelled == sm_smActive

WaitOver == m_eventLoop' = FALSE /\ sm_waitingForInteraction' = FALSE

\* exec() has returned: its callback ended it, or the application was told to quit,
\* and then the flags are still those of a wait that was not cancelled
WaitEnds ==
  /\ At({"woken"}) \/ (life = "quitting" /\ At({"waiting"}))
  /\ WaitOver
  /\ IF NotCancelled
     THEN sm_interactionActive' = TRUE /\ qt_sm_blockUserInput' = FALSE
     ELSE UNCHANGED <<sm_interactionActive, qt_sm_blockUserInput>>
  /\ assumed' = (assumed \/ (At({"waiting"}) /\ NotCancelled))
  /\ Goes(call.back)
  /\ UNCHANGED <<saveFlags, callFlags, calls, life, toClient, toManager,
                 manager, shutdown, style, asked, granted, saves, told, second>>

release ==
  /\ At(Handlers) /\ sm_interactionActive
  /\ toManager' = Append(toManager, InteractDone(FALSE))
  /\ sm_interactionActive' = FALSE
  /\ qt_sm_blockUserInput' = (qt_sm_blockUserInput \/ (sm_smActive /\ sm_isshutdown))
  /\ UNCHANGED <<sm_waitingForInteraction, saveFlags, callFlags, m_eventLoop, call, calls, life,
                 toClient, managerVars>>

cancel ==
  /\ At(Handlers) /\ sm_cancel' = TRUE
  /\ UNCHANGED <<loopFlags, saveFlags, sm_saveType, m_eventLoop, call, calls, life, toClient,
                 toManager, managerVars>>

requestPhase2 ==
  /\ At(Handlers) /\ sm_phase2' = TRUE
  /\ UNCHANGED <<loopFlags, sm_smActive, sm_interactStyle, sm_isshutdown, sm_in_phase2, callFlags,
                 m_eventLoop, call, calls, life, toClient, toManager, managerVars>>

CallOnly == UNCHANGED <<loopFlags, saveFlags, callFlags, m_eventLoop, life, toClient, toManager,
                         managerVars>>

\* the handler runs an event loop of its own
Dialog ==
  /\ At(Handlers) /\ calls < MaxCalls /\ calls' = calls + 1
  /\ Leaves("dialog", call.at) /\ CallOnly

DialogCloses == At({"dialog"}) /\ Goes(call.back) /\ CallOnly /\ UNCHANGED calls

HandlerReturns ==
  /\ At(Handlers)
  /\ Goes(IF call.at = "commitData" /\ call.type = "Both" /\ ~(sm_isshutdown /\ sm_cancel)
          THEN "saveState" ELSE "finish")
  /\ CallOnly /\ UNCHANGED calls

-----------------------------------------------------------------------------
(* The end of sm_performSaveYourself().                                     *)

\* the return to sm_saveYourselfCallback(), or to the callback of phase 2
Returns(active, block) ==
  /\ call' = NoCall
  /\ IF call.phase2 \/ sm_isshutdown
     THEN /\ sm_interactionActive' = active /\ qt_sm_blockUserInput' = block
          /\ UNCHANGED <<sm_waitingForInteraction, saveFlags>>
     ELSE resetSmState
  /\ UNCHANGED <<callFlags, m_eventLoop, calls, life, toClient, managerVars>>

\* mutant of WantsPhase2: sm_in_phase2 is not looked at
WantsAnother == sm_phase2

WantsPhase2 == sm_phase2 /\ ~sm_in_phase2

\* mutant of Phase2Requested: the answer of the other branch follows
RequestedAndDone ==
  toManager' = toManager \o <<Message("Phase2Request"), SaveYourselfDone(~sm_cancel)>>

Phase2Requested == toManager' = Append(toManager, Message("Phase2Request"))

RequestPhase2 ==
  /\ At({"finish"}) /\ WantsPhase2
  /\ Phase2Requested /\ Returns(sm_interactionActive, FALSE)

\* InteractDone if there is an interaction, and SaveYourselfDone
Done(cancels) ==
  /\ toManager' = toManager
       \o (IF sm_interactionActive THEN <<InteractDone(cancels)>> ELSE <<>>)
       \o <<SaveYourselfDone(~sm_cancel)>>
  /\ Returns(FALSE, qt_sm_blockUserInput)

\* a shutdown is cancelled, and an interaction is needed to say so
NeedsInteraction == ~sm_interactionActive /\ sm_cancel /\ sm_isshutdown

Finish ==
  /\ At({"finish"}) /\ ~WantsPhase2
  /\ NeedsInteraction => sm_waitingForInteraction \/ ~ErrorsMayBeAsked
  /\ Done(sm_isshutdown /\ sm_cancel)

AskToCancel ==
  /\ At({"finish"}) /\ ~WantsPhase2
  /\ NeedsInteraction /\ ErrorsMayBeAsked
  /\ Wait("asked") /\ UNCHANGED calls

Asked == At({"asked"}) /\ Done(TRUE)

-----------------------------------------------------------------------------
(* The callbacks.  A message is processed in any event loop.                *)

EventLoops == {"none", "waiting", "dialog"}

Processes(type) ==
  /\ life = "running" /\ At(EventLoops)
  /\ toClient # <<>> /\ Head(toClient).type = type
  /\ toClient' = Tail(toClient) /\ UNCHANGED <<calls, managerVars>>

sm_saveYourselfCallback ==
  /\ Processes("SaveYourself")
  /\ LET m == Head(toClient)
     IN /\ sm_smActive' = TRUE /\ sm_isshutdown' = m.shutdown /\ sm_saveType' = m.saveType
        /\ sm_interactStyle' = m.style /\ sm_cancel' = FALSE
        /\ qt_sm_blockUserInput' = (qt_sm_blockUserInput \/ m.shutdown)
        /\ sm_performSaveYourself(m.saveType, FALSE)
  /\ UNCHANGED <<sm_waitingForInteraction, sm_interactionActive, sm_phase2, sm_in_phase2,
                 m_eventLoop, life, toManager>>

sm_saveYourselfPhase2Callback ==
  /\ Processes("SaveYourselfPhase2")
  /\ sm_in_phase2' = TRUE
  /\ qt_sm_blockUserInput' = (qt_sm_blockUserInput \/ sm_isshutdown)
  /\ sm_performSaveYourself(sm_saveType, TRUE)
  /\ UNCHANGED <<sm_waitingForInteraction, sm_interactionActive, sm_smActive, sm_interactStyle,
                 sm_isshutdown, sm_phase2, callFlags, m_eventLoop, life, toManager>>

exitEventLoop ==
  IF sm_waitingForInteraction THEN Goes("woken") ELSE UNCHANGED call

sm_interactCallback ==
  /\ Processes("Interact") /\ exitEventLoop
  /\ UNCHANGED <<loopFlags, saveFlags, callFlags, m_eventLoop, life, toManager>>

sm_shutdownCancelledCallback ==
  /\ Processes("ShutdownCancelled") /\ exitEventLoop /\ resetSmState
  /\ UNCHANGED <<callFlags, m_eventLoop, life, toManager>>

sm_saveCompleteCallback ==
  /\ Processes("SaveComplete") /\ resetSmState
  /\ UNCHANGED <<callFlags, m_eventLoop, call, life, toManager>>

\* the application is told to quit, and every event loop ends
sm_dieCallback ==
  /\ Processes("Die") /\ resetSmState /\ life' = "quitting"
  /\ UNCHANGED <<callFlags, m_eventLoop, call, toManager>>

\* QCoreApplication::quit(), in any event loop of the application or in a handler:
\* every loop that runs returns, and exec() of a later one at once
Quit ==
  /\ life = "running" /\ At(EventLoops \cup {"woken"} \cup Handlers)
  /\ life' = "quitting"
  /\ UNCHANGED <<loopFlags, saveFlags, callFlags, m_eventLoop, call, calls, toClient, toManager,
                 managerVars>>

\* ~QXcbSessionManager
Close ==
  /\ life = "quitting" /\ At({"none"}) /\ life' = "closed"
  /\ toManager' = Append(toManager, Message("ConnectionClosed"))
  /\ UNCHANGED <<loopFlags, saveFlags, callFlags, m_eventLoop, call, calls, toClient, managerVars>>

-----------------------------------------------------------------------------

Application ==
  \/ allowsInteraction \/ allowsErrorInteraction \/ release \/ cancel \/ requestPhase2 \/ Dialog

\* what goes on by itself
ClientStep ==
  \/ WaitEnds \/ DialogCloses \/ HandlerReturns \/ RequestPhase2 \/ Finish \/ AskToCancel \/ Asked
  \/ sm_saveYourselfCallback \/ sm_saveYourselfPhase2Callback \/ sm_interactCallback
  \/ sm_shutdownCancelledCallback \/ sm_saveCompleteCallback \/ sm_dieCallback \/ Close

ManagerStep == StartPhase2 \/ Complete \/ Grant \/ Receive

Next ==
  \/ Application \/ ClientStep \/ Quit
  \/ ManagerStep \/ StartSave \/ CancelShutdown \/ Kill

\* The application's handlers and dialogs come to an end, its event loops process
\* messages, and the manager answers what it is asked.
Spec == Init /\ [][Next]_vars /\ WF_vars(ClientStep) /\ WF_vars(ManagerStep)

-----------------------------------------------------------------------------
(* Properties.                                                              *)

Comes(type) == \E i \in DOMAIN toClient : toClient[i].type = type
Requested == asked > 0 \/ \E i \in DOMAIN toManager : toManager[i].type = "InteractRequest"
IsAnswer(m) == m.type \in {"SaveYourselfDone", "Phase2Request"}

\* Every answer on its way is the one answer the manager waits for: a save in two
\* phases, one that was cancelled in the middle of an interaction, and the one
\* after it are each answered once.
AnswersAreExpected ==
  \A i \in DOMAIN toManager : IsAnswer(toManager[i]) =>
    /\ manager \in {"saving", "cancelled", "gone"}
    /\ \A j \in DOMAIN toManager : IsAnswer(toManager[j]) => i = j

\* The client takes an interaction for granted only if the manager does, until it
\* hears that it was cancelled; and it has given it back when it has answered.  A
\* checkpoint that was told of a second phase within an open interaction has not:
\* its first phase forgets the interaction.  Nor does an application agree with the
\* manager that was told to quit while it waited: allowsInteraction() returns true
\* while the request is still to be answered, and the manager may grant what was
\* given back long ago.  While the client waits there is a running loop for the
\* callback that ends the wait.
InteractionAgrees ==
  /\ sm_waitingForInteraction => m_eventLoop /\ At({"waiting", "woken"})
  /\ sm_interactionActive =>
       granted \/ Comes("ShutdownCancelled") \/ manager = "gone" \/ (assumed /\ Requested)
  /\ manager = "saved" => ~granted \/ (second /\ ~shutdown) \/ assumed

\* A save that fails because the user cancelled the shutdown has told the manager
\* so, in an interaction, if interactions were allowed for errors at all.
CancelIsTold ==
  \A i \in DOMAIN toManager :
    /\ toManager[i].type = "SaveYourselfDone" /\ ~toManager[i].success
    /\ manager = "saving" /\ shutdown /\ style # "None"
    => told \/ \E j \in 1 .. i - 1 : toManager[j].type = "InteractDone" /\ toManager[j].cancel

\* Every SaveYourself comes to an end, through event loops, cancellations and
\* second phases.
SaveIsAnswered == manager \in {"saving", "phase2"} ~> manager \notin {"saving", "phase2"}
=============================================================================
