--------------------------- MODULE SessionProofs ---------------------------
(***************************************************************************)
(* Proofs about SessionManager for any number of saves and interactions:   *)
(* a save is in one place at a time - a message to the client, its call of *)
(* sm_performSaveYourself(), or an answer on its way - and in none when    *)
(* the manager expects no answer; the right to interact is in one place    *)
(* too, until a quit in the middle of a wait lets the client take it; and  *)
(* a save that fails because of a cancelled shutdown says so.              *)
(***************************************************************************)
EXTENDS SessionManager, SequenceTheorems, TLAPS

SaveTypes == {"Local", "Global", "Both"}
Styles    == {"None", "Errors", "Any"}

ToClient ==
  [type : {"SaveYourself"}, saveType : SaveTypes, shutdown : BOOLEAN, style : Styles]
  \cup [type : {"Interact", "SaveYourselfPhase2", "SaveComplete", "ShutdownCancelled", "Die"}]

ToManager ==
  [type : {"InteractRequest", "Phase2Request", "ConnectionClosed"}]
  \cup [type : {"InteractDone"}, cancel : BOOLEAN]
  \cup [type : {"SaveYourselfDone"}, success : BOOLEAN]

Requests == {"SaveYourself", "SaveYourselfPhase2"}
Answers  == {"SaveYourselfDone", "Phase2Request"}

None(T, q)   == \A i \in 1 .. Len(q) : q[i].type \notin T
Single(T, q) == \A i, j \in 1 .. Len(q) : q[i].type \in T /\ q[j].type \in T => i = j

Places == {"none", "commitData", "saveState", "finish", "waiting", "woken", "dialog", "asked"}
Call   == [at : Places, type : SaveTypes, phase2 : BOOLEAN, back : Places]

Idle == call.at = "none"

\* A save is asked for, performed or answered, one of these at a time.
OnePlace ==
  /\ Single(Requests, toClient) /\ Single(Answers, toManager)
  /\ Idle \/ None(Requests, toClient)
  /\ (Idle /\ None(Requests, toClient)) \/ None(Answers, toManager)
  /\ manager \in {"idle", "phase2", "saved"} =>
       Idle /\ None(Requests, toClient) /\ None(Answers, toManager)

TypeOK ==
  /\ toClient \in Seq(ToClient) /\ toManager \in Seq(ToManager)
  /\ call \in Call /\ sm_saveType \in SaveTypes /\ sm_cancel \in BOOLEAN
  /\ manager \in {"idle", "saving", "phase2", "saved", "cancelled", "gone"}

\* exitEventLoop() is called with the loop of a wait there, in the middle of a call.
Loop == sm_waitingForInteraction => m_eventLoop /\ At({"waiting", "woken"})

SInv == TypeOK /\ OnePlace /\ Loop
-----------------------------------------------------------------------------
(* Messages and queues.                                                    *)

LEMMA MessageTypes ==
  /\ \A type \in SaveTypes, sd \in BOOLEAN, st \in Styles :
       SaveYourself(type, sd, st) \in ToClient /\ SaveYourself(type, sd, st).type = "SaveYourself"
  /\ \A t \in {"Interact", "SaveYourselfPhase2", "SaveComplete", "ShutdownCancelled", "Die"} :
       Message(t) \in ToClient /\ Message(t).type = t
  /\ \A t \in {"InteractRequest", "Phase2Request", "ConnectionClosed"} :
       Message(t) \in ToManager /\ Message(t).type = t
  /\ \A b \in BOOLEAN : /\ InteractDone(b) \in ToManager /\ InteractDone(b).type = "InteractDone"
                        /\ SaveYourselfDone(b) \in ToManager
                        /\ SaveYourselfDone(b).type = "SaveYourselfDone"
BY DEF SaveTypes, Styles, ToClient, ToManager, SaveYourself, Message, InteractDone, SaveYourselfDone

LEMMA AppendIs ==
  ASSUME NEW M, NEW q \in Seq(M), NEW m \in M, NEW T
  PROVE  /\ Append(q, m) \in Seq(M)
         /\ m.type \notin T => (None(T, q) => None(T, Append(q, m)))
         /\ m.type \notin T => (Single(T, q) => Single(T, Append(q, m)))
         /\ None(T, q) => Single(T, Append(q, m))
<1>1. /\ Append(q, m) \in Seq(M) /\ Len(q) \in Nat /\ Len(Append(q, m)) = Len(q) + 1
      /\ \A i \in 1 .. Len(q) + 1 :
           \/ i \in 1 .. Len(q) /\ Append(q, m)[i] = q[i]
           \/ i = Len(q) + 1 /\ Append(q, m)[i] = m
  OBVIOUS
<1> DEFINE w == Append(q, m)
<1> HIDE DEF w
<1>2. /\ Len(q) \in Nat /\ Len(w) = Len(q) + 1
      /\ \A i \in 1 .. Len(w) : (i \in 1 .. Len(q) /\ w[i] = q[i]) \/ (i = Len(q) + 1 /\ w[i] = m)
  BY <1>1 DEF w
<1>3. m.type \notin T => (None(T, q) => None(T, w))
  BY <1>2 DEF None
<1>4. m.type \notin T => (Single(T, q) => Single(T, w))
  BY <1>2 DEF Single
<1>5. None(T, q) => Single(T, w)
  BY <1>2 DEF None, Single
<1> QED BY <1>1, <1>3, <1>4, <1>5 DEF w

LEMMA TailIs ==
  ASSUME NEW M, NEW q \in Seq(M), q # <<>>, NEW T
  PROVE  /\ Tail(q) \in Seq(M) /\ Head(q) \in M
         /\ None(T, q) => None(T, Tail(q)) /\ Head(q).type \notin T
         /\ Single(T, q) => Single(T, Tail(q))
         /\ Single(T, q) /\ Head(q).type \in T => None(T, Tail(q))
<1>1. /\ Tail(q) \in Seq(M) /\ Head(q) = q[1] /\ Head(q) \in M /\ Len(q) \in Nat /\ Len(q) >= 1
      /\ Len(Tail(q)) = Len(q) - 1
      /\ \A i \in 1 .. Len(q) - 1 : Tail(q)[i] = q[i + 1]
  OBVIOUS
<1> DEFINE w == Tail(q)
           h == Head(q)
<1> HIDE DEF w, h
<1>2. /\ 1 \in 1 .. Len(q) /\ h = q[1]
      /\ \A i \in 1 .. Len(w) : i + 1 \in 1 .. Len(q) /\ i + 1 # 1 /\ w[i] = q[i + 1]
  BY <1>1 DEF w, h
<1>3. None(T, q) => None(T, w) /\ h.type \notin T
  BY <1>2 DEF None
<1>4. Single(T, q) => Single(T, w)
  <2> SUFFICES ASSUME Single(T, q), NEW i \in 1 .. Len(w), NEW j \in 1 .. Len(w),
                      w[i].type \in T, w[j].type \in T
               PROVE  i = j
    BY DEF Single
  <2>1. i + 1 = j + 1
    BY <1>2 DEF Single
  <2> QED BY <2>1
<1>5. Single(T, q) /\ h.type \in T => None(T, w)
  BY <1>2 DEF Single, None
<1> QED BY <1>1, <1>3, <1>4, <1>5 DEF w, h
-----------------------------------------------------------------------------
(* Steps.                                                                  *)

\* A step of the call: the save stays in its place, or is answered.
LEMMA CallKeeps ==
  ASSUME SInv, ~Idle, UNCHANGED <<toClient, manager>>, toManager' \in Seq(ToManager),
         call' \in Call, sm_saveType' \in SaveTypes, sm_cancel' \in BOOLEAN, Loop',
         Single(Answers, toManager'),
         None(Answers, toManager') \/ call'.at = "none"
  PROVE  SInv'
<1>1. /\ None(Requests, toClient) /\ Single(Requests, toClient) /\ toClient \in Seq(ToClient)
      /\ manager \notin {"idle", "phase2", "saved"}
      /\ manager \in {"idle", "saving", "phase2", "saved", "cancelled", "gone"}
  BY DEF SInv, OnePlace, TypeOK
<1>2. None(Requests, toClient)' /\ Single(Requests, toClient)'
  BY <1>1 DEF None, Single
<1>3. OnePlace'
  BY <1>1, <1>2 DEF OnePlace, Idle
<1> QED BY <1>1, <1>3 DEF SInv, TypeOK

LEMMA InTheCall ==
  ASSUME SInv, ~Idle
  PROVE  /\ None(Answers, toManager) /\ Single(Answers, toManager) /\ toManager \in Seq(ToManager)
         /\ call \in Call /\ sm_saveType \in SaveTypes /\ sm_cancel \in BOOLEAN
BY DEF SInv, OnePlace, TypeOK

\* The request for an interaction, and InteractDone, are no answers.
LEMMA SayKeeps ==
  ASSUME SInv, ~Idle, NEW m \in ToManager, m.type \notin Answers
  PROVE  /\ Append(toManager, m) \in Seq(ToManager)
         /\ None(Answers, Append(toManager, m)) /\ Single(Answers, Append(toManager, m))
BY InTheCall, AppendIs

LEMMA WaitKeeps ==
  ASSUME SInv, NEW back \in Places, At(Handlers \cup {"finish"}), Wait(back)
  PROVE  SInv'
<1>1. ~Idle
  BY DEF At, Handlers, Idle
<1>2. Message("InteractRequest") \in ToManager /\ Message("InteractRequest").type \notin Answers
  BY MessageTypes DEF Answers
<1>3. /\ toManager' = Append(toManager, Message("InteractRequest"))
      /\ m_eventLoop' = TRUE /\ call' = [call EXCEPT !.at = "waiting", !.back = back]
      /\ UNCHANGED <<toClient, manager, sm_saveType, sm_cancel>>
  BY DEF Wait, Leaves, managerVars, callFlags
<1>4. call' \in Call /\ call'.at = "waiting"
  BY <1>1, <1>3, InTheCall DEF Call, Places
<1>5. Loop'
  BY <1>3, <1>4 DEF Loop, At
<1>6. /\ toManager' \in Seq(ToManager)
      /\ None(Answers, toManager') /\ Single(Answers, toManager')
  BY <1>1, <1>2, <1>3, SayKeeps
<1> QED BY <1>1, <1>3, <1>4, <1>5, <1>6, InTheCall, CallKeeps

\* The calls of a handler that say nothing or give the interaction back.
LEMMA HandlerKeeps ==
  ASSUME SInv, release \/ cancel \/ requestPhase2 \/ Dialog \/ DialogCloses \/ HandlerReturns
  PROVE  SInv'
<1>1. ~Idle /\ ~sm_waitingForInteraction
  BY DEF release, cancel, requestPhase2, Dialog, DialogCloses, HandlerReturns, At, Handlers, Idle,
         SInv, Loop
<1>2. /\ UNCHANGED <<toClient, manager, sm_saveType, sm_waitingForInteraction>>
      /\ sm_cancel' \in BOOLEAN
  BY <1>1, InTheCall DEF release, cancel, requestPhase2, Dialog, DialogCloses, HandlerReturns,
         CallOnly, loopFlags, callFlags, managerVars
<1>3. call' \in Call
  <2>1. CASE release \/ cancel \/ requestPhase2
    BY <1>1, <2>1, InTheCall DEF release, cancel, requestPhase2
  <2>2. CASE Dialog \/ DialogCloses \/ HandlerReturns
    <3>1. \E to, back \in Places : \/ call' = [call EXCEPT !.at = to]
                                 \/ call' = [call EXCEPT !.at = to, !.back = back]
      BY <1>1, <2>2, InTheCall DEF Dialog, DialogCloses, HandlerReturns, Goes, Leaves, Call, Places
    <3> QED BY <1>1, <3>1, InTheCall DEF Call
  <2> QED BY <2>1, <2>2
<1>4. toManager' = toManager \/ toManager' = Append(toManager, InteractDone(FALSE))
  BY DEF release, cancel, requestPhase2, Dialog, DialogCloses, HandlerReturns, CallOnly
<1>5. InteractDone(FALSE) \in ToManager /\ InteractDone(FALSE).type \notin Answers
  BY MessageTypes DEF Answers
<1>6. /\ toManager' \in Seq(ToManager)
      /\ None(Answers, toManager') /\ Single(Answers, toManager')
  BY <1>1, <1>4, <1>5, SayKeeps, InTheCall
<1>7. Loop'
  BY <1>1, <1>2 DEF Loop
<1>8. sm_saveType' \in SaveTypes
  BY <1>1, <1>2, InTheCall
<1> QED BY <1>1, <1>2, <1>3, <1>6, <1>7, <1>8, CallKeeps

LEMMA WaitEndKeeps == ASSUME SInv, WaitEnds PROVE SInv'
<1>1. ~Idle
  BY DEF WaitEnds, At, Idle
<1>2. /\ UNCHANGED <<toClient, toManager, manager, sm_saveType, sm_cancel>>
      /\ sm_waitingForInteraction' = FALSE /\ call' = [call EXCEPT !.at = call.back]
  BY DEF WaitEnds, WaitOver, Goes, callFlags, managerVars
<1>3. call' \in Call /\ Loop'
  BY <1>1, <1>2, InTheCall DEF Call, Loop
<1> QED BY <1>1, <1>2, <1>3, InTheCall, CallKeeps

\* The end of the call: one answer, which is the first there is.
LEMMA AnswerKeeps == ASSUME SInv, RequestPhase2 \/ Finish \/ Asked PROVE SInv'
<1>1. ~Idle /\ ~sm_waitingForInteraction
  BY DEF RequestPhase2, Finish, Asked, At, Idle, SInv, Loop
<1>2. /\ UNCHANGED <<toClient, manager, sm_saveType, sm_cancel>>
      /\ call' = NoCall /\ ~sm_waitingForInteraction'
  BY <1>1 DEF RequestPhase2, Finish, Asked, Done, Returns, resetSmState, managerVars, callFlags
<1>3. NoCall \in Call /\ NoCall.at = "none"
  BY DEF NoCall, Call, Places, SaveTypes
<1>4. \E m \in ToManager, q \in Seq(ToManager) : None(Answers, q) /\ toManager' = Append(q, m)
  <2>1. CASE RequestPhase2
    BY <1>1, <2>1, InTheCall, MessageTypes DEF RequestPhase2, Phase2Requested
  <2>2. CASE Finish \/ Asked
    <3>1. PICK b \in BOOLEAN : Done(b)
      <4>1. CASE Asked
        BY <4>1 DEF Asked
      <4>2. CASE Finish
        <5>1. Done(sm_isshutdown /\ sm_cancel) /\ (sm_isshutdown /\ sm_cancel) \in BOOLEAN
          BY <4>2 DEF Finish
        <5> QED BY <5>1
      <4> QED BY <2>2, <4>1, <4>2
    <3> DEFINE m == SaveYourselfDone(~sm_cancel)
               q == IF sm_interactionActive THEN Append(toManager, InteractDone(b)) ELSE toManager
    <3>2. m \in ToManager
      BY <1>1, InTheCall, MessageTypes
    <3>3. InteractDone(b) \in ToManager /\ InteractDone(b).type \notin Answers
      BY MessageTypes DEF Answers
    <3>4. q \in Seq(ToManager) /\ None(Answers, q)
      BY <1>1, <3>3, InTheCall, SayKeeps
    <3>5. toManager' = Append(q, m)
      <4>1. toManager \in Seq(ToManager)
        BY <1>1, InTheCall
      <4> HIDE DEF m
      <4>2. CASE sm_interactionActive
        <5>1. toManager' = toManager \o <<InteractDone(b)>> \o <<m>>
          BY <3>1, <4>2 DEF Done, m
        <5> QED BY <3>2, <3>3, <4>1, <4>2, <5>1
      <4>3. CASE ~sm_interactionActive
        <5>1. toManager' = toManager \o <<>> \o <<m>>
          BY <3>1, <4>3 DEF Done, m
        <5> QED BY <3>2, <4>1, <4>3, <5>1
      <4> QED BY <4>2, <4>3
    <3> HIDE DEF m, q
    <3> QED BY <3>2, <3>4, <3>5
  <2> QED BY <2>1, <2>2
<1>5. toManager' \in Seq(ToManager) /\ Single(Answers, toManager')
  BY <1>4, AppendIs
<1>6. Loop'
  BY <1>2 DEF Loop
<1> QED BY <1>1, <1>2, <1>3, <1>5, <1>6, InTheCall, CallKeeps

\* SaveYourself and its second phase: a message becomes a call.
LEMMA SaveCallbackKeeps ==
  ASSUME SInv, sm_saveYourselfCallback \/ sm_saveYourselfPhase2Callback PROVE SInv'
<1>1. toClient # <<>> /\ Head(toClient).type \in Requests /\ toClient' = Tail(toClient)
  BY DEF sm_saveYourselfCallback, sm_saveYourselfPhase2Callback, Processes, Requests
<1>2. toClient \in Seq(ToClient) /\ Single(Requests, toClient) /\ toManager \in Seq(ToManager)
      /\ call \in Call /\ sm_saveType \in SaveTypes /\ sm_cancel \in BOOLEAN
      /\ manager \in {"idle", "saving", "phase2", "saved", "cancelled", "gone"}
  BY DEF SInv, TypeOK, OnePlace
<1>3. /\ Tail(toClient) \in Seq(ToClient) /\ Head(toClient) \in ToClient
      /\ None(Requests, Tail(toClient)) /\ Single(Requests, Tail(toClient))
      /\ ~None(Requests, toClient)
  BY <1>1, <1>2, TailIs
<1>4. /\ Idle /\ None(Answers, toManager) /\ manager \notin {"idle", "phase2", "saved"}
      /\ Single(Answers, toManager)
  BY <1>3 DEF SInv, OnePlace
<1>5. UNCHANGED <<toManager, manager, sm_waitingForInteraction>>
  BY DEF sm_saveYourselfCallback, sm_saveYourselfPhase2Callback, Processes, managerVars
<1>6. ~sm_waitingForInteraction
  BY <1>4 DEF SInv, Loop, At, Idle
<1>7. \E t \in SaveTypes, p \in BOOLEAN :
        call' = [at |-> FirstHandler(t), type |-> t, phase2 |-> p, back |-> "none"]
      /\ sm_saveType' \in SaveTypes /\ sm_cancel' \in BOOLEAN
  <2>1. CASE sm_saveYourselfCallback
    <3>1. Head(toClient).type = "SaveYourself"
      BY <2>1 DEF sm_saveYourselfCallback, Processes
    <3>2. Head(toClient).saveType \in SaveTypes
      BY <1>3, <3>1 DEF ToClient
    <3> QED BY <2>1, <3>2 DEF sm_saveYourselfCallback, sm_performSaveYourself
  <2>2. CASE sm_saveYourselfPhase2Callback
    BY <1>2, <2>2 DEF sm_saveYourselfPhase2Callback, sm_performSaveYourself, callFlags
  <2> QED BY <2>1, <2>2
<1>8. call' \in Call /\ sm_saveType' \in SaveTypes /\ sm_cancel' \in BOOLEAN
  BY <1>7 DEF FirstHandler, Call, Places
<1>9. OnePlace'
  BY <1>1, <1>3, <1>4, <1>5 DEF OnePlace
<1>10. Loop'
  BY <1>5, <1>6 DEF Loop
<1> QED BY <1>1, <1>2, <1>3, <1>5, <1>8, <1>9, <1>10 DEF SInv, TypeOK

\* The other callbacks: the message is no request, and a loop is ended within a call only.
LEMMA OtherCallbackKeeps ==
  ASSUME SInv, \/ sm_interactCallback \/ sm_shutdownCancelledCallback
               \/ sm_saveCompleteCallback \/ sm_dieCallback
  PROVE  SInv'
<1>1. /\ toClient # <<>> /\ toClient' = Tail(toClient)
      /\ UNCHANGED <<toManager, manager, sm_saveType, sm_cancel, m_eventLoop>>
      /\ sm_waitingForInteraction' \in {sm_waitingForInteraction, FALSE}
      /\ call' = call \/ (sm_waitingForInteraction /\ call' = [call EXCEPT !.at = "woken"])
  BY DEF sm_interactCallback, sm_shutdownCancelledCallback, sm_saveCompleteCallback, sm_dieCallback,
         Processes, managerVars, callFlags, loopFlags, exitEventLoop, Goes, resetSmState
<1>2. toClient \in Seq(ToClient) /\ call \in Call
  BY DEF SInv, TypeOK
<1>3. /\ toClient' \in Seq(ToClient)
      /\ None(Requests, toClient) => None(Requests, toClient')
      /\ Single(Requests, toClient) => Single(Requests, toClient')
  BY <1>1, <1>2, TailIs
<1>4. sm_waitingForInteraction => ~Idle
  BY DEF SInv, Loop, At, Idle
<1>5. call' \in Call /\ (Idle <=> Idle')
  BY <1>1, <1>2, <1>4 DEF Call, Places, Idle
<1>6. OnePlace'
  BY <1>1, <1>3, <1>5 DEF SInv, OnePlace
<1>7. Loop'
  BY <1>1, <1>2 DEF SInv, Loop, At, Call
<1> QED BY <1>1, <1>3, <1>5, <1>6, <1>7 DEF SInv, TypeOK

\* What the manager sends: a request only when no answer is expected.
LEMMA SendsKeeps ==
  ASSUME SInv, StartSave \/ Grant \/ StartPhase2 \/ Complete \/ CancelShutdown \/ Kill
  PROVE  SInv'
<1>1. /\ toClient \in Seq(ToClient) /\ UNCHANGED <<call, sm_saveType, sm_cancel, toManager>>
      /\ UNCHANGED <<sm_waitingForInteraction, m_eventLoop>>
  BY DEF SInv, TypeOK, StartSave, Grant, StartPhase2, Complete, CancelShutdown, Kill, Sends,
         ClientVars, callFlags, loopFlags
<1>2. PICK m \in ToClient :
        /\ toClient' = Append(toClient, m)
        /\ \/ m.type \in Requests /\ manager \in {"idle", "phase2"} /\ manager' = "saving"
           \/ /\ m.type \notin Requests
              /\ \/ manager' = manager
                 \/ manager = "saved" /\ manager' = "idle"
                 \/ manager = "saving" /\ manager' = "cancelled"
                 \/ manager \in {"phase2", "saved"} /\ manager' = "idle"
                 \/ manager' = "gone"
  <2>1. CASE StartSave
    <3>1. PICK type \in SaveTypes, sd \in BOOLEAN, st \in Styles :
             Sends(SaveYourself(type, sd, st))
      BY <2>1 DEF StartSave, SaveTypes, Styles
    <3> QED BY <2>1, <3>1, MessageTypes DEF StartSave, Sends, Requests
  <2>2. CASE StartPhase2
    BY <2>2, MessageTypes DEF StartPhase2, Sends, Requests
  <2>3. CASE Grant
    BY <2>3, MessageTypes DEF Grant, Sends, Requests
  <2>4. CASE Complete
    BY <2>4, MessageTypes DEF Complete, Sends, Requests
  <2>5. CASE CancelShutdown
    BY <2>5, MessageTypes DEF CancelShutdown, Sends, Requests
  <2>6. CASE Kill
    BY <2>6, MessageTypes DEF Kill, Sends, Requests
  <2> QED BY <2>1, <2>2, <2>3, <2>4, <2>5, <2>6
<1>3. /\ toClient' \in Seq(ToClient)
      /\ m.type \notin Requests => (None(Requests, toClient) => None(Requests, toClient'))
      /\ m.type \notin Requests => (Single(Requests, toClient) => Single(Requests, toClient'))
      /\ None(Requests, toClient) => Single(Requests, toClient')
  BY <1>1, <1>2, AppendIs
<1>4. /\ None(Answers, toManager)' <=> None(Answers, toManager)
      /\ Single(Answers, toManager)' <=> Single(Answers, toManager)
  BY <1>1 DEF None, Single
<1>5. OnePlace'
  BY <1>1, <1>2, <1>3, <1>4 DEF SInv, OnePlace, Idle
<1>6. manager' \in {"idle", "saving", "phase2", "saved", "cancelled", "gone"}
  BY <1>2 DEF SInv, TypeOK
<1> QED BY <1>1, <1>3, <1>5, <1>6 DEF SInv, TypeOK, Loop, At

\* The answer is the only one, and the manager no longer expects one.
LEMMA ReceiveKeeps == ASSUME SInv, Receive PROVE SInv'
<1> DEFINE m == Head(toManager)
<1>1. /\ toManager \in Seq(ToManager) /\ toManager # <<>> /\ toManager' = Tail(toManager)
      /\ UNCHANGED <<toClient, call, sm_saveType, sm_cancel, sm_waitingForInteraction, m_eventLoop>>
  BY DEF SInv, TypeOK, Receive, ClientVars, callFlags, loopFlags
<1>2. \/ m.type \notin Answers /\ manager' \in {manager, "gone"}
      \/ m.type \in Answers /\ (\E by \in {"phase2", "saved"} : Answered(by))
  BY DEF Receive, Answers
<1> HIDE DEF m
<1>3. /\ toManager' \in Seq(ToManager)
      /\ None(Answers, toManager) => None(Answers, toManager') /\ m.type \notin Answers
      /\ Single(Answers, toManager) => Single(Answers, toManager')
      /\ Single(Answers, toManager) /\ m.type \in Answers => None(Answers, toManager')
  BY <1>1, TailIs DEF m
<1>4. /\ None(Requests, toClient)' <=> None(Requests, toClient)
      /\ Single(Requests, toClient)' <=> Single(Requests, toClient)
  BY <1>1 DEF None, Single
<1>5. OnePlace' /\ manager' \in {"idle", "saving", "phase2", "saved", "cancelled", "gone"}
  <2>1. CASE m.type \notin Answers /\ manager' \in {manager, "gone"}
    BY <1>1, <1>3, <1>4, <2>1 DEF SInv, TypeOK, OnePlace, Idle
  <2>2. CASE m.type \in Answers /\ (\E by \in {"phase2", "saved"} : Answered(by))
    <3>1. manager' \in {manager, "phase2", "saved", "idle"}
      BY <2>2 DEF Answered
    <3>2. Idle /\ None(Requests, toClient) /\ None(Answers, toManager')
      BY <1>3, <2>2 DEF SInv, OnePlace
    <3> QED BY <1>1, <1>3, <1>4, <3>1, <3>2 DEF SInv, TypeOK, OnePlace, Idle
  <2> QED BY <1>2, <2>1, <2>2
<1> QED BY <1>1, <1>3, <1>5 DEF SInv, TypeOK, Loop, At

\* The application is told to quit wherever it is, and closes outside a save.
LEMMA QuitKeeps == ASSUME SInv, Quit \/ Close PROVE SInv'
<1>1. /\ UNCHANGED <<toClient, call, manager, sm_saveType, sm_cancel, sm_waitingForInteraction,
                     m_eventLoop>>
      /\ toManager' = toManager \/ toManager' = Append(toManager, Message("ConnectionClosed"))
  BY DEF Quit, Close, callFlags, loopFlags, managerVars
<1>2. /\ Message("ConnectionClosed") \in ToManager
      /\ Message("ConnectionClosed").type \notin Answers
  BY MessageTypes DEF Answers
<1>3. toManager \in Seq(ToManager)
  BY DEF SInv, TypeOK
<1>4. /\ toManager' \in Seq(ToManager)
      /\ None(Answers, toManager) => None(Answers, toManager')
      /\ Single(Answers, toManager) => Single(Answers, toManager')
  BY <1>1, <1>2, <1>3, AppendIs
<1>5. OnePlace'
  BY <1>1, <1>4 DEF SInv, OnePlace, Idle, None, Single
<1> QED BY <1>1, <1>4, <1>5 DEF SInv, TypeOK, Loop, At
-----------------------------------------------------------------------------
(* One place for a save.                                                   *)

LEMMA InitHolds == Init => SInv
<1> SUFFICES ASSUME Init PROVE SInv
  OBVIOUS
<1>1. /\ toClient = <<>> /\ toManager = <<>> /\ call = NoCall /\ manager = "idle"
      /\ sm_saveType = "Global" /\ sm_cancel = FALSE /\ sm_waitingForInteraction = FALSE
  BY DEF Init
<1>2. TypeOK
  <2>1. NoCall \in Call /\ "Global" \in SaveTypes
    BY DEF NoCall, Call, Places, SaveTypes
  <2>2. <<>> \in Seq(ToClient) /\ <<>> \in Seq(ToManager)
    OBVIOUS
  <2> QED BY <1>1, <2>1, <2>2 DEF TypeOK
<1>3. OnePlace
  BY <1>1 DEF OnePlace, NoCall, None, Single, Idle
<1> QED BY <1>1, <1>2, <1>3 DEF SInv, Loop

LEMMA StepKeeps == SInv /\ [Next]_vars => SInv'
<1> SUFFICES ASSUME SInv, [Next]_vars PROVE SInv'
  OBVIOUS
<1>1. CASE allowsInteraction \/ allowsErrorInteraction
  <2>1. Wait(call.at) /\ At(Handlers) /\ call.at \in Places
    BY <1>1 DEF allowsInteraction, allowsErrorInteraction, At, Handlers, Places
  <2> QED BY <2>1, WaitKeeps DEF At
<1>2. CASE AskToCancel
  <2>1. Wait("asked") /\ At({"finish"}) /\ "asked" \in Places
    BY <1>2 DEF AskToCancel, Places
  <2> QED BY <2>1, WaitKeeps DEF At
<1>3. CASE release \/ cancel \/ requestPhase2 \/ Dialog \/ DialogCloses \/ HandlerReturns
  BY <1>3, HandlerKeeps
<1>4. CASE WaitEnds
  BY <1>4, WaitEndKeeps
<1>5. CASE RequestPhase2 \/ Finish \/ Asked
  BY <1>5, AnswerKeeps
<1>6. CASE sm_saveYourselfCallback \/ sm_saveYourselfPhase2Callback
  BY <1>6, SaveCallbackKeeps
<1>7. CASE \/ sm_interactCallback \/ sm_shutdownCancelledCallback
           \/ sm_saveCompleteCallback \/ sm_dieCallback
  BY <1>7, OtherCallbackKeeps
<1>8. CASE StartSave \/ Grant \/ StartPhase2 \/ Complete \/ CancelShutdown \/ Kill
  BY <1>8, SendsKeeps
<1>9. CASE Receive
  BY <1>9, ReceiveKeeps
<1>10. CASE Quit \/ Close
  BY <1>10, QuitKeeps
<1>11. CASE UNCHANGED vars
  BY <1>11 DEF vars, callFlags, loopFlags, managerVars, SInv, TypeOK, OnePlace, Loop, At, Idle,
               None, Single
<1> QED
  BY <1>1, <1>2, <1>3, <1>4, <1>5, <1>6, <1>7, <1>8, <1>9, <1>10, <1>11
     DEF Next, Application, ClientStep, ManagerStep

\* Every SaveYourselfDone and Phase2Request on its way is the one answer the
\* manager waits for, however often saves are cancelled in an interaction, end
\* in a second phase, or come to an application that is in a loop of its own:
\* sm_performSaveYourself() answers a save once and is never entered for the
\* next one before.
THEOREM AnswersExpected == Spec => []AnswersAreExpected
<1>1. SInv => AnswersAreExpected
  <2> SUFFICES ASSUME SInv, NEW i \in DOMAIN toManager, IsAnswer(toManager[i])
               PROVE  /\ manager \in {"saving", "cancelled", "gone"}
                      /\ \A j \in DOMAIN toManager : IsAnswer(toManager[j]) => i = j
    BY DEF AnswersAreExpected
  <2>1. DOMAIN toManager = 1 .. Len(toManager)
    BY DEF SInv, TypeOK
  <2>2. ~None(Answers, toManager)
    BY <2>1 DEF None, IsAnswer, Answers
  <2>3. manager \in {"saving", "cancelled", "gone"}
    BY <2>2 DEF SInv, TypeOK, OnePlace
  <2>4. \A j \in DOMAIN toManager : IsAnswer(toManager[j]) => i = j
    BY <2>1 DEF SInv, OnePlace, Single, IsAnswer, Answers
  <2> QED BY <2>3, <2>4
<1> QED BY <1>1, InitHolds, StepKeeps, PTL DEF Spec
-----------------------------------------------------------------------------
(* The interaction.  Its invariant says where the right to interact is: in  *)
(* a request, with the manager, in a grant, with the client, or given back; *)
(* and that a callback which resets the client's flags meets no save of     *)
(* which the manager expects to hear.                                       *)

Save     == {"SaveYourself"}
Cancels  == {"ShutdownCancelled"}
Complets == {"SaveComplete"}
Interact == {"Interact"}
Ask      == {"InteractRequest"}
GiveBack == {"InteractDone"}
Asking   == {"InteractRequest", "InteractDone"}

\* every S has a T behind it, has one in front of it, has none behind it
Follows(S, T, q) ==
  \A i \in 1 .. Len(q) : q[i].type \in S => \E j \in i + 1 .. Len(q) : q[j].type \in T
Preceded(S, T, q) ==
  \A i \in 1 .. Len(q) : q[i].type \in S => \E j \in 1 .. i - 1 : q[j].type \in T
NoneAfter(S, T, q) ==
  \A i, j \in 1 .. Len(q) : q[i].type \in S /\ q[j].type \in T => ~(i < j)

\* What holds whatever the manager does.
Always ==
  /\ NoneAfter(Answers, Asking, toManager)
  /\ Idle /\ None(Answers, toManager) => None(Asking, toManager)
  /\ ~None({"SaveYourselfDone"}, toManager) => ~sm_interactionActive
  /\ call.at \in {"waiting", "woken"} =>
       ~sm_interactionActive /\ call.back \in Handlers \cup {"asked"}
  /\ call.at = "dialog" => call.back \in Handlers
  /\ ~sm_smActive => sm_interactStyle = "None"
  /\ style \in Styles /\ sm_interactStyle \in Styles /\ asked \in Nat
  /\ shutdown \in BOOLEAN /\ sm_isshutdown \in BOOLEAN
  /\ assumed => life # "running" /\ call.at # "woken"

\* The messages that reset the flags of the client come before the save that the
\* manager waits for; a cancellation is on its way as long as it is not obeyed.
ResetsCome ==
  /\ None({"Die"}, toClient)
  /\ call.at = "waiting" => sm_waitingForInteraction /\ sm_smActive
  /\ manager # "idle" => Follows(Complets, Save, toClient)
  /\ manager \in {"saving", "phase2", "saved"} => Follows(Cancels, Save, toClient)
  /\ sm_interactionActive => Preceded(Save, Cancels, toClient)
  /\ manager \in {"idle", "saved"} /\ sm_interactionActive => ~None(Cancels, toClient)
  /\ manager = "cancelled" =>
       /\ Follows(Save, Cancels, toClient)
       /\ None(Cancels, toClient) => ~sm_smActive /\ ~sm_interactionActive

\* A wait has one request, which is on its way, with the manager, or granted.
Tokens ==
  /\ call.at # "waiting" => asked = 0 /\ None(Interact, toClient)
  /\ manager # "saving" => asked = 0
  /\ Single(Interact, toClient) /\ NoneAfter(Cancels, Interact, toClient)
  /\ manager = "saving" =>
       /\ call.at # "waiting" => None(Ask, toManager)
       /\ Single(Ask, toManager) /\ NoneAfter(Ask, GiveBack, toManager)
       /\ ~None(Interact, toClient) => granted /\ asked = 0 /\ None(Asking, toManager)
       /\ asked > 0 => asked = 1 /\ None(Asking, toManager)
       /\ ~None(Save, toClient) => ~granted

InSave == manager \in {"saving", "phase2"} /\ None(Save, toClient)

\* The client's flags are those of the manager's save.
Flags ==
  /\ InSave => /\ sm_isshutdown = shutdown
               /\ shutdown => sm_smActive /\ sm_interactStyle = style
  /\ manager = "saving" =>
       /\ call.at \in {"waiting", "woken"} => sm_smActive
       /\ call.at = "asked" => sm_interactionActive
       /\ \A i \in 1 .. Len(toClient) : toClient[i].type = "SaveYourself" =>
            toClient[i].shutdown = shutdown /\ toClient[i].style = style

\* What the client has, or is about to have, the manager has granted.
Rights ==
  /\ InSave /\ sm_interactionActive => granted /\ None(GiveBack, toManager)
  /\ manager = "saving" /\ call.at = "woken" => granted /\ None(GiveBack, toManager)

Held ==
  \/ sm_interactionActive \/ ~None(GiveBack, toManager) \/ call.at = "woken"
  \/ call.at = "waiting" /\ ~None(Interact, toClient)

Forgotten == ~shutdown /\ (second \/ ~None({"Phase2Request"}, toManager))

\* What the manager has granted the client has, has given back, or has forgotten
\* in a checkpoint's second phase.
Grants ==
  /\ manager \in {"saving", "phase2"} /\ granted => Held \/ Forgotten
  /\ manager = "saved" /\ granted => second /\ ~shutdown

\* An interaction that is waited for, or was taken in a quit, is asked for: the
\* request is behind what was given back, with the manager, or answered.
Wanted ==
  manager # "gone" /\ (call.at = "waiting" \/ (assumed /\ sm_interactionActive)) =>
    /\ Follows(GiveBack, Ask, toManager)
    /\ granted \/ asked > 0 \/ ~None(Ask, toManager) \/ ~None(Cancels, toClient)

Agreed == Tokens /\ Rights /\ Grants

\* A quit in the middle of a wait leaves the client an interaction that it has asked
\* for only: there is no agreement from then on, and no further callback.
IInv == Always /\ (manager # "gone" => ResetsCome /\ Flags /\ (assumed \/ Agreed))
-----------------------------------------------------------------------------
(* The order in a queue.                                                   *)

LEMMA AppendOrder ==
  ASSUME NEW M, NEW q \in Seq(M), NEW m \in M, NEW S, NEW T
  PROVE  /\ m.type \notin S => (Follows(S, T, q) => Follows(S, T, Append(q, m)))
         /\ m.type \notin S /\ m.type \in T => Follows(S, T, Append(q, m))
         /\ m.type \notin S \/ ~None(T, q) => (Preceded(S, T, q) => Preceded(S, T, Append(q, m)))
         /\ m.type \notin T \/ None(S, q) => (NoneAfter(S, T, q) => NoneAfter(S, T, Append(q, m)))
         /\ m.type \in T \/ ~None(T, q) => ~None(T, Append(q, m))
<1>1. /\ Append(q, m) \in Seq(M) /\ Len(q) \in Nat /\ Len(Append(q, m)) = Len(q) + 1
      /\ \A i \in 1 .. Len(q) + 1 :
           \/ i \in 1 .. Len(q) /\ Append(q, m)[i] = q[i]
           \/ i = Len(q) + 1 /\ Append(q, m)[i] = m
  OBVIOUS
<1> DEFINE w == Append(q, m)
<1> HIDE DEF w
<1>2. /\ Len(q) \in Nat /\ Len(w) = Len(q) + 1
      /\ \A i \in 1 .. Len(w) : (i \in 1 .. Len(q) /\ w[i] = q[i]) \/ (i = Len(q) + 1 /\ w[i] = m)
      /\ \A i \in 1 .. Len(q) : i \in 1 .. Len(w) /\ w[i] = q[i]
      /\ Len(w) \in 1 .. Len(w) /\ w[Len(w)] = m
  BY <1>1 DEF w
<1>3. m.type \notin S => (Follows(S, T, q) => Follows(S, T, w))
  <2> SUFFICES ASSUME m.type \notin S, Follows(S, T, q), NEW i \in 1 .. Len(w), w[i].type \in S
               PROVE  \E j \in i + 1 .. Len(w) : w[j].type \in T
    BY DEF Follows
  <2>1. PICK j \in i + 1 .. Len(q) : q[j].type \in T
    BY <1>2 DEF Follows
  <2>2. j \in i + 1 .. Len(w) /\ w[j].type \in T
    BY <1>2, <2>1
  <2> QED BY <2>2
<1>4. m.type \notin S /\ m.type \in T => Follows(S, T, w)
  <2> SUFFICES ASSUME m.type \notin S, m.type \in T, NEW i \in 1 .. Len(w), w[i].type \in S
               PROVE  \E j \in i + 1 .. Len(w) : w[j].type \in T
    BY DEF Follows
  <2>1. Len(w) \in i + 1 .. Len(w) /\ w[Len(w)].type \in T
    BY <1>2
  <2> QED BY <2>1
<1>5. m.type \notin S \/ ~None(T, q) => (Preceded(S, T, q) => Preceded(S, T, w))
  <2> SUFFICES ASSUME m.type \notin S \/ ~None(T, q), Preceded(S, T, q),
                      NEW i \in 1 .. Len(w), w[i].type \in S
               PROVE  \E j \in 1 .. i - 1 : w[j].type \in T
    BY DEF Preceded
  <2>1. PICK j \in 1 .. Len(q) : j \in 1 .. i - 1 /\ q[j].type \in T
    BY <1>2 DEF Preceded, None
  <2>2. j \in 1 .. i - 1 /\ w[j].type \in T
    BY <1>2, <2>1
  <2> QED BY <2>2
<1>6. m.type \notin T \/ None(S, q) => (NoneAfter(S, T, q) => NoneAfter(S, T, w))
  <2> SUFFICES ASSUME m.type \notin T \/ None(S, q), NoneAfter(S, T, q),
                      NEW i \in 1 .. Len(w), NEW j \in 1 .. Len(w),
                      w[i].type \in S, w[j].type \in T, i < j
               PROVE  FALSE
    BY DEF NoneAfter
  <2>1. i \in 1 .. Len(q) /\ q[i].type \in S
    BY <1>2
  <2>2. j \in 1 .. Len(q) /\ q[j].type \in T
    BY <1>2, <2>1 DEF None
  <2> QED BY <2>1, <2>2 DEF NoneAfter
<1>7. m.type \in T \/ ~None(T, q) => ~None(T, w)
  BY <1>2 DEF None
<1> QED BY <1>3, <1>4, <1>5, <1>6, <1>7 DEF w

LEMMA TailOrder ==
  ASSUME NEW M, NEW q \in Seq(M), q # <<>>, NEW S, NEW T
  PROVE  /\ Follows(S, T, q) => Follows(S, T, Tail(q))
         /\ NoneAfter(S, T, q) => NoneAfter(S, T, Tail(q))
         /\ NoneAfter(S, T, q) /\ Head(q).type \in S => None(T, Tail(q))
         /\ Preceded(S, T, q) => Head(q).type \notin S
         /\ Preceded(S, T, q) /\ Head(q).type \notin T => Preceded(S, T, Tail(q))
         /\ ~None(T, q) /\ Head(q).type \notin T => ~None(T, Tail(q))
         /\ Follows(S, T, q) /\ Head(q).type \in S => ~None(T, Tail(q))
<1>1. /\ Tail(q) \in Seq(M) /\ Head(q) = q[1] /\ Head(q) \in M /\ Len(q) \in Nat /\ Len(q) >= 1
      /\ Len(Tail(q)) = Len(q) - 1
      /\ \A i \in 1 .. Len(q) - 1 : Tail(q)[i] = q[i + 1]
  OBVIOUS
<1> DEFINE w == Tail(q)
           h == Head(q)
<1> HIDE DEF w, h
<1>2. /\ Len(q) \in Nat /\ Len(w) = Len(q) - 1 /\ Len(w) \in Nat
      /\ 1 \in 1 .. Len(q) /\ h = q[1]
      /\ \A i \in 1 .. Len(w) : i + 1 \in 1 .. Len(q) /\ w[i] = q[i + 1]
      /\ \A i \in 1 .. Len(q) : i # 1 => i - 1 \in 1 .. Len(w) /\ w[i - 1] = q[i]
  BY <1>1 DEF w, h
<1>3. Follows(S, T, q) => Follows(S, T, w)
  <2> SUFFICES ASSUME Follows(S, T, q), NEW i \in 1 .. Len(w), w[i].type \in S
               PROVE  \E j \in i + 1 .. Len(w) : w[j].type \in T
    BY DEF Follows
  <2>1. PICK j \in (i + 1) + 1 .. Len(q) : q[j].type \in T
    BY <1>2 DEF Follows
  <2>2. j - 1 \in i + 1 .. Len(w) /\ w[j - 1].type \in T
    BY <1>2, <2>1
  <2> QED BY <2>2
<1>4. NoneAfter(S, T, q) => NoneAfter(S, T, w)
  <2> SUFFICES ASSUME NoneAfter(S, T, q), NEW i \in 1 .. Len(w), NEW j \in 1 .. Len(w),
                      w[i].type \in S, w[j].type \in T
               PROVE  ~(i < j)
    BY DEF NoneAfter
  <2>1. ~(i + 1 < j + 1)
    BY <1>2 DEF NoneAfter
  <2> QED BY <2>1
<1>5. NoneAfter(S, T, q) /\ h.type \in S => None(T, w)
  <2> SUFFICES ASSUME NoneAfter(S, T, q), h.type \in S, NEW j \in 1 .. Len(w), w[j].type \in T
               PROVE  FALSE
    BY DEF None
  <2>1. ~(1 < j + 1)
    BY <1>2 DEF NoneAfter
  <2> QED BY <2>1
<1>6. Preceded(S, T, q) => h.type \notin S
  BY <1>2 DEF Preceded
<1>7. Preceded(S, T, q) /\ h.type \notin T => Preceded(S, T, w)
  <2> SUFFICES ASSUME Preceded(S, T, q), h.type \notin T, NEW i \in 1 .. Len(w), w[i].type \in S
               PROVE  \E j \in 1 .. i - 1 : w[j].type \in T
    BY DEF Preceded
  <2>1. PICK j \in 1 .. (i + 1) - 1 : q[j].type \in T
    BY <1>2 DEF Preceded
  <2>2. j - 1 \in 1 .. i - 1 /\ w[j - 1].type \in T
    BY <1>2, <2>1
  <2> QED BY <2>2
<1>8. ~None(T, q) /\ h.type \notin T => ~None(T, w)
  BY <1>2 DEF None
<1>9. Follows(S, T, q) /\ h.type \in S => ~None(T, w)
  <2> SUFFICES ASSUME Follows(S, T, q), h.type \in S PROVE ~None(T, w)
    OBVIOUS
  <2>1. PICK j \in 2 .. Len(q) : q[j].type \in T
    BY <1>2 DEF Follows
  <2>2. j - 1 \in 1 .. Len(w) /\ w[j - 1].type \in T
    BY <1>2, <2>1
  <2> QED BY <2>2 DEF None
<1> QED BY <1>3, <1>4, <1>5, <1>6, <1>7, <1>8, <1>9 DEF w, h

\* The smaller set, and the empty case.
LEMMA Orders ==
  ASSUME NEW M, NEW q \in Seq(M), NEW S, NEW T
  PROVE  /\ S \subseteq T /\ None(T, q) => None(S, q)
         /\ None(S, q) =>
              Follows(S, T, q) /\ Preceded(S, T, q) /\ NoneAfter(S, T, q) /\ Single(S, q)
         /\ None(T, q) => NoneAfter(S, T, q)
         /\ Follows(S, T, q) /\ None(T, q) => None(S, q)
         /\ Preceded(S, T, q) /\ None(T, q) => None(S, q)
<1>1. Len(q) \in Nat
  OBVIOUS
<1> QED BY <1>1 DEF None, Follows, Preceded, NoneAfter, Single
-----------------------------------------------------------------------------
(* Steps of the call.                                                       *)

\* Between the two queues a save is in the call only.
LEMMA InTheSave ==
  ASSUME SInv, ~Idle
  PROVE  /\ None(Requests, toClient) /\ None(Save, toClient)
         /\ None(Answers, toManager) /\ None({"SaveYourselfDone"}, toManager)
         /\ None({"Phase2Request"}, toManager)
         /\ manager \in {"saving", "cancelled", "gone"}
         /\ toClient \in Seq(ToClient) /\ toManager \in Seq(ToManager)
<1>1. /\ None(Requests, toClient) /\ None(Answers, toManager)
      /\ manager \in {"saving", "cancelled", "gone"}
      /\ toClient \in Seq(ToClient) /\ toManager \in Seq(ToManager)
  BY DEF SInv, OnePlace, TypeOK
<1>2. Save \subseteq Requests
  BY DEF Save, Requests
<1>3. {"SaveYourselfDone"} \subseteq Answers /\ {"Phase2Request"} \subseteq Answers
  BY DEF Answers
<1> QED BY <1>1, <1>2, <1>3, Orders

LEMMA PlaceKeeps ==
  ASSUME SInv, IInv, cancel \/ requestPhase2 \/ Dialog \/ DialogCloses \/ HandlerReturns
  PROVE  IInv'
<1>1. UNCHANGED <<sm_interactionActive, sm_waitingForInteraction, sm_smActive, sm_interactStyle,
                  sm_isshutdown, life, assumed, toClient, toManager, manager, shutdown, style,
                  asked, granted, second>>
  BY DEF cancel, requestPhase2, Dialog, DialogCloses, HandlerReturns, CallOnly, loopFlags,
         saveFlags, managerVars
<1>2. call.at \in Handlers \cup {"dialog"} /\ ~Idle
  BY DEF cancel, requestPhase2, Dialog, DialogCloses, HandlerReturns, At, Handlers, Idle
<1>3. /\ call'.at \in Handlers \cup {"dialog", "finish"}
      /\ call'.at = "dialog" => call'.back \in Handlers
  <2>1. call \in Call /\ (call.at = "dialog" => call.back \in Handlers)
    BY <1>2, InTheCall DEF IInv, Always
  <2>2. CASE cancel \/ requestPhase2
    BY <1>2, <2>1, <2>2 DEF cancel, requestPhase2, At, Handlers
  <2>3. CASE Dialog
    BY <2>1, <2>3 DEF Dialog, At, Handlers, Leaves, Call
  <2>4. CASE DialogCloses
    BY <2>1, <2>4 DEF DialogCloses, At, Handlers, Goes, Call
  <2>5. CASE HandlerReturns
    BY <2>1, <2>5 DEF HandlerReturns, At, Handlers, Goes, Call
  <2> QED BY <2>2, <2>3, <2>4, <2>5
<1>4. Always'
  BY <1>1, <1>2, <1>3, InTheSave DEF IInv, Always, Handlers, Idle
<1>5. ASSUME manager # "gone" PROVE (ResetsCome /\ Flags)' /\ (assumed \/ Agreed')
  <2>1. ResetsCome /\ Flags /\ (assumed \/ (Tokens /\ Rights /\ Grants))
    BY <1>5 DEF IInv, Agreed
  <2>2. ResetsCome'
    BY <1>1, <1>2, <1>3, <2>1 DEF ResetsCome, Handlers, Idle
  <2>3. assumed \/ Tokens'
    BY <1>1, <1>2, <1>3, <2>1 DEF Tokens, Handlers
  <2>4. Flags'
    BY <1>1, <1>2, <1>3, <2>1 DEF Flags, InSave, Handlers
  <2>5. assumed \/ Rights'
    BY <1>1, <1>2, <1>3, <2>1 DEF Rights, InSave, Handlers
  <2>6. assumed \/ Grants'
    BY <1>1, <1>2, <1>3, <2>1 DEF Grants, Held, Forgotten, Handlers
  <2> QED BY <2>2, <2>3, <2>4, <2>5, <2>6 DEF Agreed
<1> QED BY <1>1, <1>4, <1>5 DEF IInv

LEMMA ReleaseKeeps == ASSUME SInv, IInv, release PROVE IInv'
<1> DEFINE m == InteractDone(FALSE)
<1>1. /\ UNCHANGED <<sm_waitingForInteraction, sm_smActive, sm_interactStyle, sm_isshutdown, life,
                     assumed, call, toClient, manager, shutdown, style, asked, granted, second>>
      /\ sm_interactionActive /\ sm_interactionActive' = FALSE
      /\ toManager' = Append(toManager, m)
      /\ call.at \in Handlers /\ ~Idle
  BY DEF release, saveFlags, managerVars, At, Handlers, Idle
<1>2. m \in ToManager /\ m.type = "InteractDone"
  BY MessageTypes
<1> HIDE DEF m
<1>3. /\ None(Answers, toManager') /\ None({"SaveYourselfDone"}, toManager')
      /\ ~None(GiveBack, toManager')
      /\ None(Ask, toManager) => None(Ask, toManager')
      /\ None({"Phase2Request"}, toManager')
      /\ toManager' \in Seq(ToManager)
  BY <1>1, <1>2, InTheSave, AppendIs, AppendOrder DEF Answers, Ask, GiveBack
<1>4. Always'
  BY <1>1, <1>3, Orders DEF IInv, Always, Handlers, Idle
<1>5. ASSUME manager # "gone" PROVE (ResetsCome /\ Flags)' /\ (assumed \/ Agreed')
  <2>1. ResetsCome /\ Flags /\ (assumed \/ (Tokens /\ Rights /\ Grants))
    BY <1>5 DEF IInv, Agreed
  <2>2. ResetsCome'
    BY <1>1, <2>1 DEF ResetsCome, Handlers, Idle
  <2>3. assumed \/ Tokens'
    <3>1. call.at # "waiting" /\ (assumed \/ (asked = 0 /\ None(Interact, toClient)))
      BY <1>1, <2>1 DEF Tokens, Handlers
    <3>2. None(Ask, toManager) =>
            None(Ask, toManager') /\ Single(Ask, toManager') /\ NoneAfter(Ask, GiveBack, toManager')
      BY <1>3, Orders
    <3> QED BY <1>1, <2>1, <3>1, <3>2 DEF Tokens
  <2>4. Flags'
    BY <1>1, <2>1 DEF Flags, InSave, Handlers
  <2>5. assumed \/ Rights'
    BY <1>1, <2>1 DEF Rights, InSave, Handlers
  <2>6. assumed \/ Grants'
    BY <1>1, <1>3, <2>1 DEF Grants, Held, Forgotten, Handlers
  <2> QED BY <2>2, <2>3, <2>4, <2>5, <2>6 DEF Agreed
<1> QED BY <1>1, <1>4, <1>5 DEF IInv

\* A wait begins: the request is behind what was given back.
LEMMA WaitAsks ==
  ASSUME SInv, IInv, NEW back \in Handlers \cup {"asked"}, At(Handlers \cup {"finish"}), Wait(back),
         sm_interactStyle \in {"Any", "Errors"}
  PROVE  IInv'
<1> DEFINE m == Message("InteractRequest")
<1>1. /\ UNCHANGED <<sm_interactionActive, sm_smActive, sm_interactStyle, sm_isshutdown, life,
                     assumed, toClient, manager, shutdown, style, asked, granted, second>>
      /\ ~sm_interactionActive /\ sm_waitingForInteraction' = TRUE
      /\ toManager' = Append(toManager, m) /\ call' = [call EXCEPT !.at = "waiting", !.back = back]
      /\ call.at \in Handlers \cup {"finish"} /\ ~Idle
  BY DEF Wait, Leaves, saveFlags, managerVars, At, Handlers, Idle
<1>2. m \in ToManager /\ m.type = "InteractRequest"
  BY MessageTypes
<1> HIDE DEF m
<1>3. call'.at = "waiting" /\ call'.back = back
  BY <1>1, InTheCall DEF Call
<1>4. /\ None(Answers, toManager') /\ None({"SaveYourselfDone"}, toManager')
      /\ None(Ask, toManager) => Single(Ask, toManager')
      /\ NoneAfter(Ask, GiveBack, toManager) => NoneAfter(Ask, GiveBack, toManager')
      /\ ~None(GiveBack, toManager) => ~None(GiveBack, toManager')
      /\ toManager' \in Seq(ToManager)
  BY <1>1, <1>2, InTheSave, AppendIs, AppendOrder DEF Answers, Ask, GiveBack
<1>5. Always'
  BY <1>1, <1>3, <1>4, Orders DEF IInv, Always, Handlers, Idle
<1>6. ASSUME manager # "gone" PROVE (ResetsCome /\ Flags)' /\ (assumed \/ Agreed')
  <2>1. Always /\ ResetsCome /\ Flags /\ (assumed \/ (Tokens /\ Rights /\ Grants))
    BY <1>6 DEF IInv, Agreed
  <2>2. ResetsCome'
    <3>1. sm_smActive
      BY <2>1 DEF Always
    <3> QED BY <1>1, <1>3, <2>1, <3>1 DEF ResetsCome, Handlers, Idle
  <2>3. assumed \/ Tokens'
    <3>1. call.at # "waiting" /\ (assumed \/ (asked = 0 /\ None(Interact, toClient)))
      BY <1>1, <2>1 DEF Tokens, Handlers
    <3> QED BY <1>1, <1>3, <1>4, <2>1, <3>1 DEF Tokens
  <2>4. Flags'
    <3>1. sm_smActive
      BY <2>1 DEF Always
    <3> QED BY <1>1, <1>3, <2>1, <3>1, InTheSave DEF Flags, InSave
  <2>5. assumed \/ Rights'
    <3>1. sm_smActive
      BY <2>1 DEF Always
    <3> QED BY <1>1, <1>3, <2>1, <3>1, InTheSave DEF Rights, InSave
  <2>6. assumed \/ Grants'
    BY <1>1, <1>3, <1>4, <2>1, InTheSave DEF Grants, Held, Forgotten, Handlers
  <2> QED BY <2>2, <2>3, <2>4, <2>5, <2>6 DEF Agreed
<1> QED BY <1>1, <1>5, <1>6 DEF IInv

\* In the middle of a save the wait ends for a callback, or in a quit.
LEMMA WaitEndAgrees == ASSUME SInv, IInv, WaitEnds PROVE IInv'
<1>1. /\ UNCHANGED <<sm_smActive, sm_interactStyle, sm_isshutdown, life, toClient, toManager,
                     manager, shutdown, style, asked, granted, second>>
      /\ sm_waitingForInteraction' = FALSE /\ call' = [call EXCEPT !.at = call.back]
      /\ sm_smActive => sm_interactionActive' = TRUE
      /\ ~sm_smActive => UNCHANGED sm_interactionActive
      /\ assumed' <=> assumed \/ (call.at = "waiting" /\ sm_smActive)
      /\ call.at = "woken" \/ (life = "quitting" /\ call.at = "waiting")
      /\ ~Idle
  <2>1. /\ UNCHANGED <<sm_smActive, sm_interactStyle, sm_isshutdown, life, toClient, toManager,
                       manager, shutdown, style, asked, granted, second>>
        /\ sm_waitingForInteraction' = FALSE /\ call' = [call EXCEPT !.at = call.back]
        /\ call.at = "woken" \/ (life = "quitting" /\ call.at = "waiting")
        /\ ~Idle
    BY DEF WaitEnds, WaitOver, Goes, saveFlags, At, Idle
  <2>2. /\ sm_smActive => sm_interactionActive' = TRUE
        /\ ~sm_smActive => UNCHANGED sm_interactionActive
    BY DEF WaitEnds, NotCancelled
  <2>3. assumed' <=> assumed \/ (call.at = "waiting" /\ sm_smActive)
    BY ONLY WaitEnds DEF WaitEnds, NotCancelled, At
  <2> QED BY <2>1, <2>2, <2>3
<1>2. call'.at \in Handlers \cup {"asked"}
  BY <1>1, InTheCall DEF IInv, Always, Call
<1>3. Always'
  BY <1>1, <1>2, InTheSave DEF IInv, Always, Handlers, Idle
<1>4. ASSUME manager # "gone" PROVE (ResetsCome /\ Flags)' /\ (assumed' \/ Agreed')
  <2>1. Always /\ ResetsCome /\ Flags /\ (assumed \/ (Tokens /\ Rights /\ Grants))
    BY <1>4 DEF IInv, Agreed
  <2>2. manager \in {"saving", "cancelled"} /\ ~sm_interactionActive
    BY <1>1, <1>4, <2>1, InTheSave DEF Always
  <2>3. Preceded(Save, Cancels, toClient) /\ Follows(Save, Cancels, toClient)
    BY <1>1, InTheSave, Orders
  <2>4. ResetsCome'
    BY <1>1, <1>2, <2>1, <2>2, <2>3 DEF ResetsCome, Handlers, Idle
  <2>5. Flags'
    BY <1>1, <1>2, <2>1, <2>2, InTheSave DEF Flags, InSave, Handlers
  <2>6. ASSUME ~assumed' PROVE Agreed'
    <3>1. call.at = "woken" /\ Tokens /\ Rights /\ Grants
      BY <1>1, <2>1, <2>6 DEF ResetsCome
    <3>2. Tokens'
      BY <1>1, <1>2, <2>2, <3>1 DEF Tokens, Handlers
    <3>3. Rights'
      BY <1>1, <1>2, <2>1, <2>2, <3>1, InTheSave DEF Rights, InSave, Handlers
    <3>4. Grants'
      BY <1>1, <1>2, <2>1, <2>2, <3>1 DEF Grants, Held, Flags
    <3> QED BY <3>2, <3>3, <3>4 DEF Agreed
  <2> QED BY <2>4, <2>5, <2>6
<1> QED BY <1>1, <1>3, <1>4 DEF IInv

\* What is there at the end of a call; in the middle of a save the wait is over.
LEMMA AtTheEnd ==
  ASSUME SInv, IInv, At({"finish", "asked"}), manager # "gone"
  PROVE  /\ Always /\ ResetsCome /\ Flags /\ (assumed \/ (Tokens /\ Rights /\ Grants))
         /\ assumed \/ (asked = 0 /\ None(Interact, toClient))
         /\ Preceded(Save, Cancels, toClient) /\ Follows(Save, Cancels, toClient)
         /\ manager \in {"saving", "cancelled"}
         /\ manager = "saving" => InSave /\ (assumed \/ None(Ask, toManager))
<1>1. ~Idle /\ call.at # "waiting"
  BY DEF At, Idle
<1>2. Always /\ ResetsCome /\ Flags /\ (assumed \/ (Tokens /\ Rights /\ Grants))
  BY DEF IInv, Agreed
<1>3. Preceded(Save, Cancels, toClient) /\ Follows(Save, Cancels, toClient)
  BY <1>1, InTheSave, Orders
<1> QED BY <1>1, <1>2, <1>3, InTheSave DEF Tokens, InSave

LEMMA Phase2RequestAgrees == ASSUME SInv, IInv, RequestPhase2 PROVE IInv'
<1> DEFINE m == Message("Phase2Request")
<1>1. /\ UNCHANGED <<life, assumed, toClient, manager, shutdown, style, asked, granted, second>>
      /\ toManager' = Append(toManager, m) /\ call' = NoCall
      /\ IF call.phase2 \/ sm_isshutdown
         THEN UNCHANGED <<sm_interactionActive, sm_waitingForInteraction, sm_smActive,
                          sm_interactStyle, sm_isshutdown>>
         ELSE /\ sm_waitingForInteraction' = FALSE /\ sm_interactionActive' = FALSE
              /\ sm_smActive' = FALSE /\ sm_interactStyle' = "None" /\ sm_isshutdown' = FALSE
      /\ At({"finish", "asked"}) /\ call.at = "finish" /\ ~Idle
  BY DEF RequestPhase2, Phase2Requested, Returns, resetSmState, saveFlags, managerVars, At, Idle
<1>2. m \in ToManager /\ m.type = "Phase2Request"
  BY MessageTypes
<1> HIDE DEF m
<1>3. call'.at = "none"
  BY <1>1 DEF NoCall
<1>4. /\ ~None(Answers, toManager') /\ None({"SaveYourselfDone"}, toManager')
      /\ NoneAfter(Answers, Asking, toManager) => NoneAfter(Answers, Asking, toManager')
      /\ None(Ask, toManager) => None(Ask, toManager')
      /\ None(GiveBack, toManager) => None(GiveBack, toManager')
      /\ ~None(GiveBack, toManager) => ~None(GiveBack, toManager')
      /\ ~None({"Phase2Request"}, toManager')
      /\ toManager' \in Seq(ToManager)
  BY <1>1, <1>2, InTheSave, AppendIs, AppendOrder DEF Answers, Ask, GiveBack, Asking
<1>5. Always'
  BY <1>1, <1>3, <1>4 DEF IInv, Always, Styles, Idle
<1>6. ASSUME manager # "gone" PROVE (ResetsCome /\ Flags)' /\ (assumed \/ Agreed')
  <2>1. /\ Always /\ ResetsCome /\ Flags /\ (assumed \/ (Tokens /\ Rights /\ Grants))
        /\ assumed \/ (asked = 0 /\ None(Interact, toClient))
        /\ Preceded(Save, Cancels, toClient)
        /\ manager \in {"saving", "cancelled"}
        /\ manager = "saving" => InSave /\ (assumed \/ None(Ask, toManager))
    BY <1>1, <1>6, AtTheEnd
  <2>2. ResetsCome'
    BY <1>1, <1>3, <2>1 DEF ResetsCome, Idle
  <2>3. assumed \/ Tokens'
    <3>1. None(Ask, toManager) => /\ None(Ask, toManager') /\ Single(Ask, toManager')
                                  /\ NoneAfter(Ask, GiveBack, toManager')
      BY <1>4, Orders
    <3> QED BY <1>1, <1>3, <2>1, <3>1 DEF Tokens
  <2>4. Flags'
    BY <1>1, <1>3, <1>4, <2>1 DEF Always, Flags, InSave
  <2>5. assumed \/ Rights'
    BY <1>1, <1>3, <1>4, <2>1 DEF Always, Rights, InSave
  <2>6. assumed \/ Grants'
    BY <1>1, <1>3, <1>4, <2>1 DEF Grants, Held, Forgotten, Flags
  <2> QED BY <2>2, <2>3, <2>4, <2>5, <2>6 DEF Agreed
<1> QED BY <1>1, <1>5, <1>6 DEF IInv

\* InteractDone, if there is an interaction, and SaveYourselfDone behind it.
LEMMA DoneSays ==
  ASSUME SInv, ~Idle, NEW b \in BOOLEAN, Done(b)
  PROVE  \E q \in Seq(ToManager), m \in ToManager :
           /\ toManager' = Append(q, m) /\ m = SaveYourselfDone(~sm_cancel)
           /\ q = IF sm_interactionActive THEN Append(toManager, InteractDone(b)) ELSE toManager
           /\ None(Answers, q) /\ None({"Phase2Request"}, q)
           /\ None(Ask, toManager) => None(Ask, q)
           /\ ~None(GiveBack, toManager) \/ sm_interactionActive => ~None(GiveBack, q)
<1> DEFINE m == SaveYourselfDone(~sm_cancel)
           d == InteractDone(b)
           q == IF sm_interactionActive THEN Append(toManager, d) ELSE toManager
<1>1. m \in ToManager /\ d \in ToManager /\ d.type = "InteractDone"
  BY InTheCall, MessageTypes
<1>2. toManager \in Seq(ToManager) /\ None(Answers, toManager) /\ None({"Phase2Request"}, toManager)
  BY InTheSave
<1>3. toManager' = toManager \o (IF sm_interactionActive THEN <<d>> ELSE <<>>) \o <<m>>
  BY DEF Done
<1> HIDE DEF m, d
<1>4. CASE sm_interactionActive
  <2>1. toManager' = Append(Append(toManager, d), m)
    <3>1. toManager' = toManager \o <<d>> \o <<m>>
      BY <1>3, <1>4
    <3>2. Append(toManager, d) \in Seq(ToManager) /\ toManager \o <<d>> = Append(toManager, d)
      BY <1>1, <1>2
    <3> DEFINE w == Append(toManager, d)
    <3>3. w \in Seq(ToManager) /\ toManager' = w \o <<m>>
      BY <3>1, <3>2
    <3> HIDE DEF w
    <3>4. toManager' = Append(w, m)
      BY <1>1, <3>3
    <3> QED BY <3>4 DEF w
  <2>2. /\ Append(toManager, d) \in Seq(ToManager)
        /\ None(Answers, Append(toManager, d)) /\ None({"Phase2Request"}, Append(toManager, d))
        /\ None(Ask, toManager) => None(Ask, Append(toManager, d))
        /\ ~None(GiveBack, Append(toManager, d))
    BY <1>1, <1>2, AppendIs, AppendOrder DEF Answers, Ask, GiveBack
  <2> QED BY <1>1, <1>4, <2>1, <2>2 DEF m, d
<1>5. CASE ~sm_interactionActive
  <2>1. toManager' = Append(toManager, m)
    BY <1>1, <1>2, <1>3, <1>5
  <2> QED BY <1>1, <1>2, <1>5, <2>1 DEF m, d
<1> QED BY <1>4, <1>5

LEMMA DoneAgrees ==
  ASSUME SInv, IInv, NEW b \in BOOLEAN, At({"finish", "asked"}), Done(b) PROVE IInv'
<1>1. /\ UNCHANGED <<life, assumed, toClient, manager, shutdown, style, asked, granted, second>>
      /\ call' = NoCall /\ sm_interactionActive' = FALSE
      /\ IF call.phase2 \/ sm_isshutdown
         THEN UNCHANGED <<sm_waitingForInteraction, sm_smActive, sm_interactStyle, sm_isshutdown>>
         ELSE /\ sm_waitingForInteraction' = FALSE
              /\ sm_smActive' = FALSE /\ sm_interactStyle' = "None" /\ sm_isshutdown' = FALSE
      /\ ~Idle
  BY DEF Done, Returns, resetSmState, saveFlags, managerVars, At, Idle
<1>2. PICK q \in Seq(ToManager), m \in ToManager :
        /\ toManager' = Append(q, m) /\ m = SaveYourselfDone(~sm_cancel)
        /\ None(Answers, q) /\ None({"Phase2Request"}, q)
        /\ None(Ask, toManager) => None(Ask, q)
        /\ ~None(GiveBack, toManager) \/ sm_interactionActive => ~None(GiveBack, q)
  BY <1>1, DoneSays
<1>3. m.type = "SaveYourselfDone"
  BY <1>1, <1>2, InTheCall, MessageTypes
<1>4. call'.at = "none"
  BY <1>1 DEF NoCall
<1>5. NoneAfter(Answers, Asking, q)
  BY <1>2, Orders
<1>6. /\ ~None(Answers, toManager') /\ NoneAfter(Answers, Asking, toManager')
      /\ None(Ask, toManager) => None(Ask, toManager')
      /\ ~None(GiveBack, toManager) \/ sm_interactionActive => ~None(GiveBack, toManager')
      /\ toManager' \in Seq(ToManager)
  BY <1>2, <1>3, <1>5, AppendIs, AppendOrder DEF Answers, Ask, GiveBack, Asking
<1>7. Always'
  BY <1>1, <1>4, <1>6 DEF IInv, Always, Styles, Idle
<1>8. ASSUME manager # "gone" PROVE (ResetsCome /\ Flags)' /\ (assumed \/ Agreed')
  <2>1. /\ Always /\ ResetsCome /\ Flags /\ (assumed \/ (Tokens /\ Rights /\ Grants))
        /\ assumed \/ (asked = 0 /\ None(Interact, toClient))
        /\ manager \in {"saving", "cancelled"}
        /\ manager = "saving" => InSave /\ (assumed \/ None(Ask, toManager))
    BY <1>1, <1>8, AtTheEnd
  <2>2. ResetsCome'
    BY <1>1, <1>4, <2>1 DEF ResetsCome, Idle
  <2>3. assumed \/ Tokens'
    <3>1. None(Ask, toManager) => /\ None(Ask, toManager') /\ Single(Ask, toManager')
                                  /\ NoneAfter(Ask, GiveBack, toManager')
      BY <1>6, Orders
    <3> QED BY <1>1, <1>4, <2>1, <3>1 DEF Tokens
  <2>4. Flags'
    BY <1>1, <1>4, <2>1 DEF Always, Flags, InSave
  <2>5. assumed \/ Rights'
    BY <1>1, <1>4, <2>1 DEF Always, Rights, InSave
  <2>6. assumed \/ Grants'
    <3>1. call.at \notin {"waiting", "woken"} /\ None({"Phase2Request"}, toManager)
      BY <1>1, InTheSave DEF At
    <3> QED BY <1>1, <1>6, <2>1, <3>1 DEF Grants, Held, Forgotten
  <2> QED BY <2>2, <2>3, <2>4, <2>5, <2>6 DEF Agreed
<1> QED BY <1>1, <1>7, <1>8 DEF IInv
-----------------------------------------------------------------------------
(* Steps of the callbacks.                                                  *)

\* A request comes to a client that has said all it had to say, and is the last.
LEMMA RequestComes ==
  ASSUME SInv, IInv, toClient # <<>>, Head(toClient).type \in Requests
  PROVE  /\ Idle /\ None(Answers, toManager) /\ None(Asking, toManager)
         /\ None({"SaveYourselfDone"}, toManager)
         /\ None(Save, Tail(toClient)) /\ manager \in {"saving", "cancelled", "gone"}
         /\ toClient \in Seq(ToClient) /\ toManager \in Seq(ToManager)
         /\ Head(toClient) \in ToClient
<1>1. toClient \in Seq(ToClient) /\ toManager \in Seq(ToManager) /\ Single(Requests, toClient)
      /\ manager \in {"idle", "saving", "phase2", "saved", "cancelled", "gone"}
  BY DEF SInv, TypeOK, OnePlace
<1>2. ~None(Requests, toClient) /\ None(Requests, Tail(toClient)) /\ Head(toClient) \in ToClient
      /\ Tail(toClient) \in Seq(ToClient)
  BY <1>1, TailIs
<1>3. Idle /\ None(Answers, toManager) /\ manager \notin {"idle", "phase2", "saved"}
  BY <1>2 DEF SInv, OnePlace
<1>4. None(Asking, toManager)
  BY <1>3 DEF IInv, Always
<1>5. Save \subseteq Requests /\ {"SaveYourselfDone"} \subseteq Answers
  BY DEF Save, Requests, Answers
<1> QED BY <1>1, <1>2, <1>3, <1>4, <1>5, Orders

LEMMA SaveCallbackAgrees == ASSUME SInv, IInv, sm_saveYourselfCallback PROVE IInv'
<1> DEFINE m == Head(toClient)
<1>1. /\ UNCHANGED <<sm_waitingForInteraction, sm_interactionActive, life, assumed, toManager,
                     manager, shutdown, style, asked, granted, second>>
      /\ toClient # <<>> /\ toClient' = Tail(toClient) /\ m.type = "SaveYourself"
      /\ sm_smActive' = TRUE /\ sm_isshutdown' = m.shutdown /\ sm_interactStyle' = m.style
      /\ call'.at \in Handlers
      /\ life = "running"
  BY DEF sm_saveYourselfCallback, Processes, managerVars, sm_performSaveYourself, FirstHandler,
         Handlers
<1>2. /\ Idle /\ None(Answers, toManager) /\ None(Asking, toManager)
      /\ None({"SaveYourselfDone"}, toManager)
      /\ None(Save, Tail(toClient)) /\ manager \in {"saving", "cancelled", "gone"}
      /\ toClient \in Seq(ToClient) /\ toManager \in Seq(ToManager) /\ m \in ToClient
  BY <1>1, RequestComes DEF Requests
<1>3. m.style \in Styles /\ m.shutdown \in BOOLEAN
  BY <1>1, <1>2 DEF ToClient
<1>4. m = toClient[1] /\ 1 \in 1 .. Len(toClient) /\ Len(toClient) \in Nat
  BY <1>1, <1>2
<1> HIDE DEF m
<1>5. Always'
  BY <1>1, <1>2, <1>3 DEF IInv, Always, Handlers, Idle
<1>6. ASSUME manager # "gone" PROVE (ResetsCome /\ Flags)' /\ Agreed'
  <2>1. ResetsCome /\ Flags /\ Tokens /\ Rights /\ Grants
    BY <1>1, <1>6 DEF IInv, Always, Agreed
  <2>2. m.type \in Save /\ m.type \notin Cancels /\ m.type \notin Complets
    BY <1>1 DEF Save, Cancels, Complets
  <2>3. /\ ~None(Save, toClient) /\ (None({"Die"}, toClient) => None({"Die"}, toClient'))
        /\ Follows(Complets, Save, toClient) => Follows(Complets, Save, toClient')
        /\ Follows(Cancels, Save, toClient) => Follows(Cancels, Save, toClient')
        /\ Follows(Save, Cancels, toClient) => ~None(Cancels, toClient')
        /\ ~Preceded(Save, Cancels, toClient)
        /\ None(Interact, toClient) => None(Interact, toClient')
        /\ NoneAfter(Cancels, Interact, toClient) => NoneAfter(Cancels, Interact, toClient')
        /\ toClient' \in Seq(ToClient)
    BY <1>1, <1>2, <2>2, TailIs, TailOrder DEF m
  <2>4. /\ Follows(Save, Cancels, toClient') /\ Preceded(Save, Cancels, toClient')
        /\ None(Save, toClient')
    BY <1>1, <1>2, <2>3, Orders
  <2>5. ~sm_interactionActive
    BY <2>1, <2>3 DEF ResetsCome
  <2>6. ResetsCome'
    BY <1>1, <1>2, <2>1, <2>3, <2>4, <2>5 DEF ResetsCome, Handlers, Idle
  <2>7. Tokens'
    <3>1. asked = 0 /\ None(Interact, toClient)
      BY <1>2, <2>1 DEF Tokens, Idle
    <3>2. None(Interact, toClient') /\ Single(Interact, toClient')
      BY <2>3, <3>1, Orders
    <3>3. None(Ask, toManager) /\ Single(Ask, toManager) /\ NoneAfter(Ask, GiveBack, toManager)
      BY <1>2, Orders DEF Ask, Asking
    <3> QED BY <1>1, <2>1, <2>3, <2>4, <3>1, <3>2, <3>3 DEF Tokens
  <2>8. Flags'
    <3>1. manager = "saving" => m.shutdown = shutdown /\ m.style = style
      BY <1>1, <1>4, <2>1 DEF Flags
    <3>2. \A i \in 1 .. Len(toClient') : toClient'[i].type # "SaveYourself"
      BY <2>4 DEF None, Save
    <3> QED BY <1>1, <1>2, <2>5, <3>1, <3>2 DEF Flags, InSave, Handlers
  <2>9. Rights'
    BY <1>1, <2>5 DEF Rights, Handlers
  <2>10. Grants'
    BY <1>1, <1>2, <2>1, <2>3 DEF Grants, Tokens
  <2> QED BY <2>6, <2>7, <2>8, <2>9, <2>10 DEF Agreed
<1> QED BY <1>1, <1>5, <1>6 DEF IInv

LEMMA Phase2CallbackAgrees == ASSUME SInv, IInv, sm_saveYourselfPhase2Callback PROVE IInv'
<1>1. /\ UNCHANGED <<sm_waitingForInteraction, sm_interactionActive, sm_smActive, sm_interactStyle,
                     sm_isshutdown, life, assumed, toManager, manager, shutdown, style, asked,
                     granted, second>>
      /\ toClient # <<>> /\ toClient' = Tail(toClient)
      /\ Head(toClient).type = "SaveYourselfPhase2"
      /\ call'.at \in Handlers
      /\ life = "running"
  BY DEF sm_saveYourselfPhase2Callback, Processes, managerVars, sm_performSaveYourself,
         FirstHandler, Handlers
<1>2. /\ Idle /\ None(Answers, toManager) /\ None(Asking, toManager)
      /\ None({"SaveYourselfDone"}, toManager)
      /\ None(Save, Tail(toClient)) /\ manager \in {"saving", "cancelled", "gone"}
      /\ toClient \in Seq(ToClient) /\ toManager \in Seq(ToManager)
  BY <1>1, RequestComes DEF Requests
<1>3. Always'
  BY <1>1, <1>2 DEF IInv, Always, Handlers, Idle
<1>4. ASSUME manager # "gone" PROVE (ResetsCome /\ Flags)' /\ Agreed'
  <2>1. ResetsCome /\ Flags /\ Tokens /\ Rights /\ Grants
    BY <1>1, <1>4 DEF IInv, Always, Agreed
  <2>2. Head(toClient).type \notin Save \cup Cancels \cup Complets
    BY <1>1 DEF Save, Cancels, Complets
  <2>3. /\ None({"Die"}, toClient) => None({"Die"}, toClient')
        /\ Follows(Complets, Save, toClient) => Follows(Complets, Save, toClient')
        /\ Follows(Cancels, Save, toClient) => Follows(Cancels, Save, toClient')
        /\ ~None(Cancels, toClient) => ~None(Cancels, toClient')
        /\ ~None(Save, toClient) => ~None(Save, toClient')
        /\ None(Interact, toClient) => None(Interact, toClient')
        /\ NoneAfter(Cancels, Interact, toClient) => NoneAfter(Cancels, Interact, toClient')
        /\ toClient' \in Seq(ToClient)
    BY <1>1, <1>2, <2>2, TailIs, TailOrder
  <2>4. /\ Follows(Save, Cancels, toClient') /\ Preceded(Save, Cancels, toClient')
        /\ None(Save, toClient') /\ None(Save, toClient)
    BY <1>1, <1>2, <2>3, Orders
  <2>5. ResetsCome'
    BY <1>1, <1>2, <2>1, <2>3, <2>4 DEF ResetsCome, Handlers, Idle
  <2>6. Tokens'
    <3>1. asked = 0 /\ None(Interact, toClient)
      BY <1>2, <2>1 DEF Tokens, Idle
    <3>2. None(Interact, toClient') /\ Single(Interact, toClient')
      BY <2>3, <3>1, Orders
    <3>3. None(Ask, toManager) /\ Single(Ask, toManager) /\ NoneAfter(Ask, GiveBack, toManager)
      BY <1>2, Orders DEF Ask, Asking
    <3> QED BY <1>1, <2>1, <2>3, <2>4, <3>1, <3>2, <3>3 DEF Tokens
  <2>7. Flags'
    <3>1. \A i \in 1 .. Len(toClient') : toClient'[i].type # "SaveYourself"
      BY <2>4 DEF None, Save
    <3> QED BY <1>1, <1>2, <2>1, <2>4, <3>1 DEF Flags, InSave, Handlers
  <2>8. Rights'
    BY <1>1, <1>2, <2>1, <2>4 DEF Rights, InSave, Handlers
  <2>9. Grants'
    BY <1>1, <1>2, <2>1 DEF Grants, Held, Forgotten, Idle
  <2> QED BY <2>5, <2>6, <2>7, <2>8, <2>9 DEF Agreed
<1> QED BY <1>1, <1>3, <1>4 DEF IInv

LEMMA InteractAgrees == ASSUME SInv, IInv, sm_interactCallback PROVE IInv'
<1>1. /\ UNCHANGED <<sm_waitingForInteraction, sm_interactionActive, sm_smActive, sm_interactStyle,
                     sm_isshutdown, life, assumed, toManager, manager, shutdown, style, asked,
                     granted, second>>
      /\ toClient # <<>> /\ toClient' = Tail(toClient) /\ Head(toClient).type = "Interact"
      /\ IF sm_waitingForInteraction THEN call' = [call EXCEPT !.at = "woken"] ELSE UNCHANGED call
      /\ call.at \in {"none", "waiting", "dialog"} /\ life = "running"
  BY DEF sm_interactCallback, Processes, EventLoops, exitEventLoop, Goes, At, loopFlags, saveFlags,
         managerVars
<1>2. toClient \in Seq(ToClient) /\ toManager \in Seq(ToManager) /\ call \in Call
  BY DEF SInv, TypeOK
<1>3. /\ sm_waitingForInteraction => call.at = "waiting"
      /\ sm_waitingForInteraction => call'.at = "woken" /\ call'.back = call.back
  BY <1>1, <1>2 DEF SInv, Loop, At, Call
<1>4. Always'
  BY <1>1, <1>3 DEF IInv, Always, Idle
<1>5. ASSUME manager # "gone" PROVE (ResetsCome /\ Flags)' /\ Agreed'
  <2>1. Always /\ ResetsCome /\ Flags /\ Tokens /\ Rights /\ Grants
    BY <1>1, <1>5 DEF IInv, Always, Agreed
  <2>2. /\ Head(toClient).type \in Interact
        /\ Head(toClient).type \notin Save \cup Cancels \cup Complets
    BY <1>1 DEF Save, Cancels, Complets, Interact
  <2>3. /\ None({"Die"}, toClient) => None({"Die"}, toClient')
        /\ Follows(Complets, Save, toClient) => Follows(Complets, Save, toClient')
        /\ Follows(Cancels, Save, toClient) => Follows(Cancels, Save, toClient')
        /\ Follows(Save, Cancels, toClient) => Follows(Save, Cancels, toClient')
        /\ Preceded(Save, Cancels, toClient) => Preceded(Save, Cancels, toClient')
        /\ ~None(Cancels, toClient) => ~None(Cancels, toClient')
        /\ ~None(Save, toClient) => ~None(Save, toClient')
        /\ None(Save, toClient) => None(Save, toClient')
        /\ Single(Interact, toClient) => None(Interact, toClient')
        /\ ~None(Interact, toClient)
        /\ NoneAfter(Cancels, Interact, toClient) => NoneAfter(Cancels, Interact, toClient')
        /\ toClient' \in Seq(ToClient)
    BY <1>1, <1>2, <2>2, TailIs, TailOrder
  <2>4. call.at = "waiting" /\ sm_waitingForInteraction /\ ~Idle
    BY <2>1, <2>3 DEF Tokens, ResetsCome, Idle
  <2>5. manager \in {"saving", "cancelled"} /\ None(Save, toClient) /\ life = life'
    BY <1>1, <1>5, <2>4, InTheSave
  <2>6. ResetsCome'
    BY <1>1, <1>3, <2>1, <2>3, <2>4, <2>5 DEF ResetsCome, Idle
  <2>7. Tokens'
    <3>1. None(Interact, toClient') /\ Single(Interact, toClient')
      BY <2>1, <2>3, Orders DEF Tokens
    <3>2. asked = 0 /\ (manager = "saving" => None(Asking, toManager) /\ granted)
      BY <2>1, <2>3 DEF Tokens
    <3>3. manager = "saving" => /\ None(Ask, toManager) /\ Single(Ask, toManager)
                                /\ NoneAfter(Ask, GiveBack, toManager)
      BY <1>2, <3>2, Orders DEF Ask, Asking
    <3> QED BY <1>1, <1>3, <2>1, <2>3, <2>4, <2>5, <3>1, <3>2, <3>3 DEF Tokens
  <2>8. Flags'
    <3>1. \A i \in 1 .. Len(toClient') : toClient'[i].type # "SaveYourself"
      BY <2>3, <2>5 DEF None, Save
    <3> QED BY <1>1, <1>3, <2>1, <2>3, <2>4, <2>5, <3>1 DEF Flags, InSave
  <2>9. Rights'
    <3>1. manager = "saving" => None(GiveBack, toManager) /\ granted
      BY <1>2, <2>1, <2>3, Orders DEF Tokens, GiveBack, Asking
    <3> QED BY <1>1, <1>3, <2>1, <2>3, <2>4, <2>5, <3>1 DEF Rights, InSave
  <2>10. Grants'
    BY <1>1, <1>3, <2>1, <2>4, <2>5 DEF Grants, Held, Forgotten
  <2> QED BY <2>6, <2>7, <2>8, <2>9, <2>10 DEF Agreed
<1> QED BY <1>1, <1>4, <1>5 DEF IInv

\* The flags are reset while the manager expects nothing of this client, or has
\* a save on its way to it.
LEMMA ResetAgrees ==
  ASSUME SInv, IInv, sm_shutdownCancelledCallback \/ sm_saveCompleteCallback PROVE IInv'
<1>1. /\ UNCHANGED <<life, assumed, toManager, manager, shutdown, style, asked, granted, second>>
      /\ toClient # <<>> /\ toClient' = Tail(toClient)
      /\ sm_waitingForInteraction' = FALSE /\ sm_interactionActive' = FALSE
      /\ sm_smActive' = FALSE /\ sm_interactStyle' = "None" /\ sm_isshutdown' = FALSE
      /\ \/ /\ Head(toClient).type = "ShutdownCancelled"
            /\ IF sm_waitingForInteraction THEN call' = [call EXCEPT !.at = "woken"]
                                           ELSE UNCHANGED call
         \/ Head(toClient).type = "SaveComplete" /\ UNCHANGED call
      /\ call.at \in {"none", "waiting", "dialog"} /\ life = "running"
  BY DEF sm_shutdownCancelledCallback, sm_saveCompleteCallback, Processes, EventLoops,
         exitEventLoop, Goes, At, resetSmState, managerVars
<1>2. toClient \in Seq(ToClient) /\ toManager \in Seq(ToManager) /\ call \in Call
  BY DEF SInv, TypeOK
<1>3. /\ call'.back = call.back
      /\ call'.at = call.at \/ (call.at = "waiting" /\ call'.at = "woken")
      /\ Head(toClient).type = "ShutdownCancelled" /\ sm_waitingForInteraction => call'.at = "woken"
  BY <1>1, <1>2 DEF SInv, Loop, At, Call
<1>4. Always'
  BY <1>1, <1>3 DEF IInv, Always, Idle, Styles
<1>5. ASSUME manager # "gone" PROVE (ResetsCome /\ Flags)' /\ Agreed'
  <2>1. Always /\ ResetsCome /\ Flags /\ Tokens /\ Rights /\ Grants
    BY <1>1, <1>5 DEF IInv, Always, Agreed
  <2>2. /\ Head(toClient).type = "ShutdownCancelled" => Head(toClient).type \in Cancels
        /\ Head(toClient).type = "SaveComplete" => Head(toClient).type \in Complets
        /\ Head(toClient).type \notin Interact /\ Head(toClient).type \notin Save
    BY <1>1 DEF Save, Cancels, Complets, Interact
  <2>3. /\ None({"Die"}, toClient) => None({"Die"}, toClient')
        /\ Follows(Complets, Save, toClient) => Follows(Complets, Save, toClient')
        /\ Follows(Cancels, Save, toClient) => Follows(Cancels, Save, toClient')
        /\ Follows(Save, Cancels, toClient) => Follows(Save, Cancels, toClient')
        /\ ~None(Save, toClient) => ~None(Save, toClient')
        /\ None(Save, toClient) => None(Save, toClient')
        /\ None(Interact, toClient) => None(Interact, toClient')
        /\ Single(Interact, toClient) => Single(Interact, toClient')
        /\ NoneAfter(Cancels, Interact, toClient) => NoneAfter(Cancels, Interact, toClient')
        /\ toClient' \in Seq(ToClient)
    BY <1>1, <1>2, <2>2, TailIs, TailOrder
  <2>4. /\ Head(toClient).type = "ShutdownCancelled" =>
             /\ NoneAfter(Cancels, Interact, toClient) => None(Interact, toClient')
             /\ Follows(Cancels, Save, toClient) => ~None(Save, toClient')
        /\ Head(toClient).type = "SaveComplete" =>
             (Follows(Complets, Save, toClient) => ~None(Save, toClient'))
    BY <1>1, <1>2, <2>2, TailOrder
  <2>5. manager \in {"idle", "saving", "phase2", "saved", "cancelled"}
    BY <1>5 DEF SInv, TypeOK
  <2>6. manager \in {"saving", "phase2", "saved"} => ~None(Save, toClient') /\ ~None(Save, toClient)
    BY <1>1, <2>1, <2>3, <2>4 DEF ResetsCome
  <2>7. ~None(Save, toClient) => Idle
    <3>1. Save \subseteq Requests
      BY DEF Save, Requests
    <3> QED BY <1>2, <3>1, Orders DEF SInv, OnePlace
  <2>8. (manager = "saving" /\ Idle) \/ manager \in {"idle", "cancelled"}
    <3>1. manager \in {"phase2", "saved"} => None(Save, toClient)
      <4>1. Save \subseteq Requests
        BY DEF Save, Requests
      <4> QED BY <1>2, <4>1, Orders DEF SInv, OnePlace
    <3> QED BY <2>5, <2>6, <2>7, <3>1
  <2>9. Head(toClient).type = "SaveComplete" => Idle
    <3>1. manager = "idle" => Idle
      BY DEF SInv, OnePlace
    <3> QED BY <2>1, <2>3, <2>4, <2>7, <3>1 DEF ResetsCome
  <2>10. call'.at # "waiting" /\ (Idle => Idle')
    BY <1>1, <1>3, <2>1, <2>9 DEF ResetsCome, Idle
  <2>11. ResetsCome'
    BY <1>1, <2>1, <2>3, <2>8, <2>10 DEF ResetsCome
  <2>12. Tokens'
    <3>1. asked = 0 /\ None(Interact, toClient')
      <4>1. CASE call.at = "waiting"
        BY <1>1, <2>1, <2>4, <2>8, <2>9, <4>1 DEF Tokens, Idle
      <4>2. CASE call.at # "waiting"
        BY <2>1, <2>3, <4>2 DEF Tokens
      <4> QED BY <4>1, <4>2
    <3>2. manager = "saving" => /\ None(Ask, toManager) /\ Single(Ask, toManager)
                                /\ NoneAfter(Ask, GiveBack, toManager) /\ ~granted
      BY <2>1, <2>6, <2>8 DEF Tokens, Idle
    <3> QED BY <1>1, <2>1, <2>3, <3>1, <3>2 DEF Tokens
  <2>13. Flags'
    <3>1. /\ Len(toClient') \in Nat /\ Len(toClient) \in Nat
          /\ \A i \in 1 .. Len(toClient') :
               i + 1 \in 1 .. Len(toClient) /\ toClient'[i] = toClient[i + 1]
      BY <1>1, <1>2
    <3>2. manager = "saving" => call'.at = "none"
      BY <1>3, <2>8 DEF Idle
    <3> QED BY <1>1, <2>1, <2>6, <2>8, <3>1, <3>2 DEF Flags, InSave
  <2>14. Rights'
    <3>1. manager = "saving" => call'.at = "none"
      BY <1>3, <2>8 DEF Idle
    <3> QED BY <1>1, <3>1 DEF Rights
  <2>15. Grants'
    BY <1>1, <2>1, <2>6, <2>8 DEF Grants, Tokens
  <2> QED BY <2>11, <2>12, <2>13, <2>14, <2>15 DEF Agreed
<1> QED BY <1>1, <1>4, <1>5 DEF IInv

LEMMA DieAgrees == ASSUME SInv, IInv, sm_dieCallback PROVE IInv'
<1>1. /\ UNCHANGED <<call, toManager, manager, shutdown, style, asked, assumed>>
      /\ toClient # <<>> /\ Head(toClient).type = "Die" /\ life' = "quitting"
      /\ sm_interactionActive' = FALSE /\ sm_interactStyle' = "None" /\ sm_isshutdown' = FALSE
  BY DEF sm_dieCallback, Processes, resetSmState, managerVars
<1>2. manager = "gone"
  <2>1. toClient \in Seq(ToClient)
    BY DEF SInv, TypeOK
  <2>2. ~None({"Die"}, toClient)
    BY <1>1, <2>1, TailIs
  <2> QED BY <2>2 DEF IInv, ResetsCome
<1>3. Always'
  BY <1>1 DEF IInv, Always, Idle, Styles
<1> QED BY <1>1, <1>2, <1>3 DEF IInv

LEMMA QuitAgrees == ASSUME SInv, IInv, Quit \/ Close PROVE IInv'
<1> DEFINE m == Message("ConnectionClosed")
<1>1. /\ UNCHANGED <<sm_waitingForInteraction, sm_interactionActive, sm_smActive, sm_interactStyle,
                     sm_isshutdown, call, toClient, manager, shutdown, style, asked, granted,
                     second, assumed>>
      /\ toManager' = toManager \/ toManager' = Append(toManager, m)
      /\ life' # "running"
  BY DEF Quit, Close, loopFlags, saveFlags, managerVars
<1>2. m \in ToManager /\ m.type = "ConnectionClosed" /\ toManager \in Seq(ToManager)
  BY MessageTypes DEF SInv, TypeOK
<1> HIDE DEF m
<1>3. m.type \notin Answers \cup Asking \cup Ask \cup GiveBack \cup {"SaveYourselfDone"}
  BY <1>2 DEF Answers, Asking, Ask, GiveBack
<1>4. /\ None(Answers, toManager') => None(Answers, toManager)
      /\ None(Asking, toManager) => None(Asking, toManager')
      /\ None(Ask, toManager) => None(Ask, toManager')
      /\ None(GiveBack, toManager) => None(GiveBack, toManager')
      /\ ~None(GiveBack, toManager) => ~None(GiveBack, toManager')
      /\ None({"SaveYourselfDone"}, toManager) => None({"SaveYourselfDone"}, toManager')
      /\ ~None({"Phase2Request"}, toManager) => ~None({"Phase2Request"}, toManager')
      /\ Single(Ask, toManager) => Single(Ask, toManager')
      /\ NoneAfter(Answers, Asking, toManager) => NoneAfter(Answers, Asking, toManager')
      /\ NoneAfter(Ask, GiveBack, toManager) => NoneAfter(Ask, GiveBack, toManager')
  <2>1. CASE toManager' = toManager
    BY <2>1
  <2>2. CASE toManager' = Append(toManager, m)
    BY <1>2, <1>3, <2>2, AppendIs, AppendOrder
  <2> QED BY <1>1, <2>1, <2>2
<1>5. Always'
  BY <1>1, <1>4 DEF IInv, Always, Idle
<1>6. ASSUME manager # "gone" PROVE (ResetsCome /\ Flags)' /\ (assumed \/ Agreed')
  <2>1. ResetsCome /\ Flags /\ (assumed \/ (Tokens /\ Rights /\ Grants))
    BY <1>6 DEF IInv, Agreed
  <2>2. ResetsCome'
    BY <1>1, <2>1 DEF ResetsCome, Idle
  <2>3. assumed \/ Tokens'
    BY <1>1, <1>4, <2>1 DEF Tokens
  <2>4. Flags'
    BY <1>1, <1>4, <2>1 DEF Flags, InSave
  <2>5. assumed \/ Rights'
    BY <1>1, <1>4, <2>1 DEF Rights, InSave
  <2>6. assumed \/ Grants'
    BY <1>1, <1>4, <2>1 DEF Grants, Held, Forgotten
  <2> QED BY <2>2, <2>3, <2>4, <2>5, <2>6 DEF Agreed
<1> QED BY <1>1, <1>5, <1>6 DEF IInv
-----------------------------------------------------------------------------
(* Steps of the manager.                                                    *)

\* Between two saves the client has said all and has no wait.
LEMMA Between ==
  ASSUME SInv, IInv, manager \in {"idle", "phase2", "saved"}
  PROVE  /\ Idle /\ None(Requests, toClient) /\ None(Save, toClient)
         /\ None(Answers, toManager) /\ None({"Phase2Request"}, toManager)
         /\ None(Asking, toManager) /\ None(Ask, toManager) /\ None(GiveBack, toManager)
         /\ Single(Ask, toManager) /\ NoneAfter(Ask, GiveBack, toManager)
         /\ Always /\ ResetsCome /\ Flags /\ (assumed \/ (Tokens /\ Rights /\ Grants))
         /\ assumed \/ (asked = 0 /\ None(Interact, toClient))
         /\ call.at = "none" /\ toClient \in Seq(ToClient) /\ toManager \in Seq(ToManager)
<1>1. /\ Idle /\ None(Requests, toClient) /\ None(Answers, toManager)
      /\ toClient \in Seq(ToClient) /\ toManager \in Seq(ToManager)
  BY DEF SInv, OnePlace, TypeOK
<1>2. Always /\ ResetsCome /\ Flags /\ (assumed \/ (Tokens /\ Rights /\ Grants))
  BY DEF IInv, Agreed
<1>3. None(Asking, toManager)
  BY <1>1, <1>2 DEF Always
<1>4. /\ Ask \subseteq Asking /\ GiveBack \subseteq Asking /\ Save \subseteq Requests
      /\ {"Phase2Request"} \subseteq Answers
  BY DEF Ask, GiveBack, Asking, Save, Requests, Answers
<1>5. None(Ask, toManager) /\ None(GiveBack, toManager) /\ None(Save, toClient)
  BY <1>1, <1>3, <1>4, Orders
<1>6. /\ None({"Phase2Request"}, toManager)
      /\ Single(Ask, toManager) /\ NoneAfter(Ask, GiveBack, toManager)
  BY <1>1, <1>4, <1>5, Orders
<1>7. call.at = "none" /\ (assumed \/ (asked = 0 /\ None(Interact, toClient)))
  BY <1>1, <1>2 DEF Tokens, Idle
<1> QED BY <1>1, <1>2, <1>3, <1>5, <1>6, <1>7

LEMMA StartSaveAgrees == ASSUME SInv, IInv, StartSave PROVE IInv'
<1>1. PICK type \in SaveTypes, sd \in BOOLEAN, st \in Styles :
        toClient' = Append(toClient, SaveYourself(type, sd, st)) /\ shutdown' = sd /\ style' = st
  BY DEF StartSave, Sends, SaveTypes, Styles
<1> DEFINE m == SaveYourself(type, sd, st)
<1>2. m \in ToClient /\ m.type = "SaveYourself" /\ m.shutdown = sd /\ m.style = st
  BY MessageTypes DEF SaveYourself
<1> HIDE DEF m
<1>3. /\ UNCHANGED <<sm_waitingForInteraction, sm_interactionActive, sm_smActive, sm_interactStyle,
                     sm_isshutdown, life, assumed, call, toManager>>
      /\ manager = "idle" /\ manager' = "saving" /\ asked' = 0 /\ granted' = FALSE
      /\ toClient' = Append(toClient, m)
  BY <1>1 DEF StartSave, Sends, ClientVars, loopFlags, saveFlags, m
<1>4. /\ Idle /\ None(Save, toClient) /\ None(Ask, toManager) /\ None(Asking, toManager)
      /\ Single(Ask, toManager) /\ NoneAfter(Ask, GiveBack, toManager)
      /\ Always /\ ResetsCome /\ (assumed \/ Tokens)
      /\ call.at = "none" /\ (assumed \/ (asked = 0 /\ None(Interact, toClient)))
      /\ toClient \in Seq(ToClient)
  BY <1>3, Between
<1>5. m.type \notin Cancels \cup Complets \cup Interact \cup {"Die"} /\ m.type \in Save
  BY <1>2 DEF Save, Cancels, Complets, Interact
<1>6. /\ None({"Die"}, toClient) => None({"Die"}, toClient')
      /\ None(Interact, toClient) => None(Interact, toClient')
      /\ Single(Interact, toClient) => Single(Interact, toClient')
      /\ NoneAfter(Cancels, Interact, toClient) => NoneAfter(Cancels, Interact, toClient')
      /\ Follows(Complets, Save, toClient') /\ Follows(Cancels, Save, toClient')
      /\ ~None(Cancels, toClient) =>
           (Preceded(Save, Cancels, toClient) => Preceded(Save, Cancels, toClient'))
      /\ ~None(Save, toClient')
  BY <1>2, <1>3, <1>4, <1>5, AppendIs, AppendOrder
<1>7. Always'
  BY <1>1, <1>3, <1>4 DEF Always, Idle
<1>8. ResetsCome'
  BY <1>3, <1>4, <1>6 DEF ResetsCome, Idle
<1>9. assumed \/ Tokens'
  BY <1>3, <1>4, <1>6 DEF Tokens
<1>10. Flags'
  <2>1. /\ Len(toClient) \in Nat /\ Len(toClient') = Len(toClient) + 1
        /\ \A i \in 1 .. Len(toClient') :
             (i \in 1 .. Len(toClient) /\ toClient'[i] = toClient[i]) \/ toClient'[i] = m
    BY <1>2, <1>3, <1>4
  <2>2. \A i \in 1 .. Len(toClient') : toClient'[i].type = "SaveYourself" =>
          toClient'[i].shutdown = sd /\ toClient'[i].style = st
    BY <1>2, <1>4, <2>1 DEF None, Save
  <2> QED BY <1>1, <1>3, <1>4, <1>6, <2>2 DEF Flags, InSave
<1>11. assumed \/ Rights'
  BY <1>3, <1>4, <1>6 DEF Rights, InSave
<1>12. assumed \/ Grants'
  BY <1>3 DEF Grants
<1> QED BY <1>3, <1>7, <1>8, <1>9, <1>10, <1>11, <1>12 DEF IInv, Agreed

LEMMA GrantAgrees == ASSUME SInv, IInv, Grant PROVE IInv'
<1> DEFINE m == Message("Interact")
<1>1. /\ UNCHANGED <<sm_waitingForInteraction, sm_interactionActive, sm_smActive, sm_interactStyle,
                     sm_isshutdown, life, assumed, call, toManager, manager, shutdown, style,
                     second>>
      /\ asked > 0 /\ ~granted /\ asked' = asked - 1 /\ granted' = TRUE
      /\ toClient' = Append(toClient, m)
  BY DEF Grant, Sends, ClientVars, loopFlags, saveFlags
<1>2. m \in ToClient /\ m.type = "Interact" /\ toClient \in Seq(ToClient)
  BY MessageTypes DEF SInv, TypeOK
<1> HIDE DEF m
<1>3. m.type \notin Cancels \cup Complets \cup Save \cup {"Die"} /\ m.type \in Interact
  BY <1>2 DEF Save, Cancels, Complets, Interact
<1>4. /\ None({"Die"}, toClient) => None({"Die"}, toClient')
      /\ None(Interact, toClient) => Single(Interact, toClient')
      /\ ~None(Interact, toClient')
      /\ None(Cancels, toClient) =>
           (NoneAfter(Cancels, Interact, toClient) => NoneAfter(Cancels, Interact, toClient'))
      /\ Follows(Complets, Save, toClient) => Follows(Complets, Save, toClient')
      /\ Follows(Cancels, Save, toClient) => Follows(Cancels, Save, toClient')
      /\ Follows(Save, Cancels, toClient) => Follows(Save, Cancels, toClient')
      /\ Preceded(Save, Cancels, toClient) => Preceded(Save, Cancels, toClient')
      /\ ~None(Cancels, toClient) => ~None(Cancels, toClient')
      /\ None(Save, toClient) <=> None(Save, toClient')
  BY <1>1, <1>2, <1>3, AppendIs, AppendOrder
<1>5. Always'
  BY <1>1 DEF IInv, Always, Idle
<1>6. ASSUME manager # "gone" PROVE (ResetsCome /\ Flags)' /\ (assumed \/ Agreed')
  <2>1. Always /\ ResetsCome /\ Flags /\ (assumed \/ (Tokens /\ Rights /\ Grants))
    BY <1>6 DEF IInv, Agreed
  <2>2. ResetsCome'
    BY <1>1, <1>4, <2>1 DEF ResetsCome
  <2>3. Flags'
    <3>1. \A i \in 1 .. Len(toClient') :
            (i \in 1 .. Len(toClient) /\ toClient'[i] = toClient[i]) \/ toClient'[i] = m
      BY <1>1, <1>2
    <3> QED BY <1>1, <1>2, <1>4, <2>1, <3>1 DEF Flags, InSave
  <2>4. ASSUME ~assumed PROVE Agreed'
    <3>1. /\ Tokens /\ Rights /\ Grants
          /\ manager = "saving" /\ call.at = "waiting" /\ asked = 1 /\ None(Asking, toManager)
      BY <1>1, <2>1, <2>4 DEF Tokens, Always
    <3>2. None(Save, toClient)
      BY <3>1, InTheSave DEF Idle
    <3>3. None(Cancels, toClient) /\ None(Interact, toClient)
      BY <1>1, <1>2, <2>1, <3>1, <3>2, Orders DEF ResetsCome, Tokens
    <3>4. Tokens'
      BY <1>1, <1>4, <3>1, <3>2, <3>3 DEF Tokens
    <3>5. Rights'
      BY <1>1, <1>4, <3>1 DEF Rights, InSave
    <3>6. Grants'
      BY <1>1, <1>4, <3>1 DEF Grants, Held
    <3> QED BY <3>4, <3>5, <3>6 DEF Agreed
  <2> QED BY <2>2, <2>3, <2>4
<1> QED BY <1>1, <1>5, <1>6 DEF IInv

LEMMA Phase2Agrees == ASSUME SInv, IInv, StartPhase2 PROVE IInv'
<1> DEFINE m == Message("SaveYourselfPhase2")
<1>1. /\ UNCHANGED <<sm_waitingForInteraction, sm_interactionActive, sm_smActive, sm_interactStyle,
                     sm_isshutdown, life, assumed, call, toManager, shutdown, style, asked, granted,
                     second>>
      /\ manager = "phase2" /\ manager' = "saving" /\ toClient' = Append(toClient, m)
  BY DEF StartPhase2, Sends, ClientVars, loopFlags, saveFlags
<1>2. m \in ToClient /\ m.type = "SaveYourselfPhase2"
  BY MessageTypes
<1> HIDE DEF m
<1>3. /\ Idle /\ None(Save, toClient) /\ None(Ask, toManager)
      /\ Single(Ask, toManager) /\ NoneAfter(Ask, GiveBack, toManager)
      /\ Always /\ ResetsCome /\ Flags /\ (assumed \/ (Tokens /\ Rights /\ Grants))
      /\ call.at = "none" /\ (assumed \/ (asked = 0 /\ None(Interact, toClient)))
      /\ toClient \in Seq(ToClient)
  BY <1>1, Between
<1>4. m.type \notin Cancels \cup Complets \cup Save \cup Interact \cup {"Die"}
  BY <1>2 DEF Save, Cancels, Complets, Interact
<1>5. /\ None({"Die"}, toClient) => None({"Die"}, toClient')
      /\ None(Interact, toClient) => None(Interact, toClient')
      /\ None(Save, toClient')
      /\ Single(Interact, toClient) => Single(Interact, toClient')
      /\ NoneAfter(Cancels, Interact, toClient) => NoneAfter(Cancels, Interact, toClient')
      /\ Follows(Complets, Save, toClient) => Follows(Complets, Save, toClient')
      /\ Follows(Cancels, Save, toClient) => Follows(Cancels, Save, toClient')
      /\ Preceded(Save, Cancels, toClient) => Preceded(Save, Cancels, toClient')
  BY <1>1, <1>2, <1>3, <1>4, AppendIs, AppendOrder
<1>6. Always'
  BY <1>1, <1>3 DEF Always, Idle
<1>7. ResetsCome'
  BY <1>1, <1>3, <1>5 DEF ResetsCome, Idle
<1>8. assumed \/ Tokens'
  BY <1>1, <1>3, <1>5 DEF Tokens
<1>9. Flags'
  <2>1. \A i \in 1 .. Len(toClient') : toClient'[i].type # "SaveYourself"
    BY <1>5 DEF None, Save
  <2> QED BY <1>1, <1>3, <1>5, <2>1 DEF Flags, InSave
<1>10. assumed \/ Rights'
  BY <1>1, <1>3, <1>5 DEF Rights, InSave
<1>11. assumed \/ Grants'
  BY <1>1, <1>3, <1>5 DEF Grants, Held, Forgotten
<1> QED BY <1>1, <1>6, <1>7, <1>8, <1>9, <1>10, <1>11 DEF IInv, Agreed

LEMMA CompleteAgrees == ASSUME SInv, IInv, Complete PROVE IInv'
<1> DEFINE m == Message("SaveComplete")
<1>1. /\ UNCHANGED <<sm_waitingForInteraction, sm_interactionActive, sm_smActive, sm_interactStyle,
                     sm_isshutdown, life, assumed, call, toManager, shutdown, style, asked, granted,
                     second>>
      /\ manager = "saved" /\ manager' = "idle" /\ toClient' = Append(toClient, m)
  BY DEF Complete, Sends, ClientVars, loopFlags, saveFlags
<1>2. m \in ToClient /\ m.type = "SaveComplete"
  BY MessageTypes
<1> HIDE DEF m
<1>3. /\ Idle /\ None(Save, toClient)
      /\ Always /\ ResetsCome /\ Flags /\ (assumed \/ (Tokens /\ Rights /\ Grants))
      /\ call.at = "none" /\ (assumed \/ (asked = 0 /\ None(Interact, toClient)))
      /\ toClient \in Seq(ToClient)
  BY <1>1, Between
<1>4. m.type \notin Cancels \cup Save \cup Interact \cup {"Die"}
  BY <1>2 DEF Save, Cancels, Interact
<1>5. /\ None({"Die"}, toClient) => None({"Die"}, toClient')
      /\ None(Interact, toClient) => None(Interact, toClient')
      /\ Single(Interact, toClient) => Single(Interact, toClient')
      /\ NoneAfter(Cancels, Interact, toClient) => NoneAfter(Cancels, Interact, toClient')
      /\ Preceded(Save, Cancels, toClient) => Preceded(Save, Cancels, toClient')
      /\ ~None(Cancels, toClient) => ~None(Cancels, toClient')
  BY <1>1, <1>2, <1>3, <1>4, AppendIs, AppendOrder
<1>6. Always'
  BY <1>1, <1>3 DEF Always, Idle
<1>7. ResetsCome'
  BY <1>1, <1>3, <1>5 DEF ResetsCome, Idle
<1>8. assumed \/ Tokens'
  BY <1>1, <1>3, <1>5 DEF Tokens
<1>9. Flags' /\ (Rights /\ Grants)'
  BY <1>1 DEF Flags, Rights, InSave, Grants
<1> QED BY <1>1, <1>6, <1>7, <1>8, <1>9 DEF IInv, Agreed

LEMMA CancelAgrees == ASSUME SInv, IInv, CancelShutdown PROVE IInv'
<1> DEFINE m == Message("ShutdownCancelled")
<1>1. /\ UNCHANGED <<sm_waitingForInteraction, sm_interactionActive, sm_smActive, sm_interactStyle,
                     sm_isshutdown, life, assumed, call, toManager, shutdown, style, second>>
      /\ asked' = 0 /\ granted' = FALSE /\ toClient' = Append(toClient, m)
      /\ \/ manager = "saving" /\ manager' = "cancelled"
         \/ manager \in {"phase2", "saved"} /\ manager' = "idle"
  BY DEF CancelShutdown, Sends, ClientVars, loopFlags, saveFlags
<1>2. m \in ToClient /\ m.type = "ShutdownCancelled" /\ toClient \in Seq(ToClient)
  BY MessageTypes DEF SInv, TypeOK
<1> HIDE DEF m
<1>3. Always /\ ResetsCome /\ (assumed \/ Tokens)
  BY <1>1 DEF IInv, Agreed
<1>4. m.type \in Cancels /\ m.type \notin Complets \cup Save \cup Interact \cup {"Die"}
  BY <1>2 DEF Save, Cancels, Complets, Interact
<1>5. /\ None({"Die"}, toClient) => None({"Die"}, toClient')
      /\ None(Interact, toClient) => None(Interact, toClient')
      /\ Single(Interact, toClient) => Single(Interact, toClient')
      /\ NoneAfter(Cancels, Interact, toClient) => NoneAfter(Cancels, Interact, toClient')
      /\ Preceded(Save, Cancels, toClient) => Preceded(Save, Cancels, toClient')
      /\ Follows(Complets, Save, toClient) => Follows(Complets, Save, toClient')
      /\ Follows(Save, Cancels, toClient') /\ ~None(Cancels, toClient')
  BY <1>1, <1>2, <1>4, AppendIs, AppendOrder
<1>6. Always'
  BY <1>1, <1>3 DEF Always, Idle
<1>7. ResetsCome'
  BY <1>1, <1>3, <1>5 DEF ResetsCome, Idle
<1>8. assumed \/ Tokens'
  BY <1>1, <1>3, <1>5 DEF Tokens
<1>9. Flags' /\ (Rights /\ Grants)'
  BY <1>1 DEF Flags, Rights, InSave, Grants
<1> QED BY <1>1, <1>6, <1>7, <1>8, <1>9 DEF IInv, Agreed

LEMMA KillAgrees == ASSUME SInv, IInv, Kill PROVE IInv'
<1>1. /\ UNCHANGED <<sm_interactionActive, sm_smActive, sm_interactStyle, sm_isshutdown, call,
                     toManager, shutdown, style, asked, life, assumed>>
      /\ manager' = "gone"
  BY DEF Kill, Sends, ClientVars, loopFlags, saveFlags
<1>2. Always'
  BY <1>1 DEF IInv, Always, Idle
<1> QED BY <1>1, <1>2 DEF IInv

\* Each message is taken from the front: what it says is taken over, and what is
\* behind it keeps its order.
LEMMA ReceiveTail ==
  ASSUME SInv, IInv, toManager # <<>>, toManager' = Tail(toManager)
  PROVE  /\ toManager \in Seq(ToManager) /\ Head(toManager) \in ToManager
         /\ None(Answers, toManager') /\ Head(toManager).type \notin Answers
              => None(Answers, toManager)
         /\ None(Asking, toManager) =>
              None(Asking, toManager') /\ Head(toManager).type \notin Asking
         /\ None(Ask, toManager) => None(Ask, toManager') /\ Head(toManager).type \notin Ask
         /\ None(GiveBack, toManager) =>
              None(GiveBack, toManager') /\ Head(toManager).type \notin GiveBack
         /\ Single(Ask, toManager) =>
              Single(Ask, toManager') /\ (Head(toManager).type \in Ask => None(Ask, toManager'))
         /\ Head(toManager).type \in Answers =>
              None(Asking, toManager') /\ None(GiveBack, toManager')
         /\ NoneAfter(Answers, Asking, toManager')
         /\ NoneAfter(Ask, GiveBack, toManager) =>
              /\ NoneAfter(Ask, GiveBack, toManager')
              /\ Head(toManager).type \in Ask => None(GiveBack, toManager')
         /\ ~None(GiveBack, toManager) /\ Head(toManager).type \notin GiveBack
              => ~None(GiveBack, toManager')
         /\ ~None({"SaveYourselfDone"}, toManager') => ~None({"SaveYourselfDone"}, toManager)
         /\ ~None({"Phase2Request"}, toManager) /\ Head(toManager).type # "Phase2Request"
              => ~None({"Phase2Request"}, toManager')
<1>1. toManager \in Seq(ToManager) /\ NoneAfter(Answers, Asking, toManager)
  BY DEF SInv, TypeOK, IInv, Always
<1>2. /\ Head(toManager).type \in Answers => None(Asking, toManager')
      /\ toManager' \in Seq(ToManager) /\ Head(toManager) \in ToManager
      /\ NoneAfter(Answers, Asking, toManager')
  BY <1>1, TailIs, TailOrder
<1>3. Head(toManager).type \in Answers => None(GiveBack, toManager')
  BY <1>2, Orders DEF GiveBack, Asking
<1>4. /\ None(Answers, toManager') /\ Head(toManager).type \notin Answers
           => None(Answers, toManager)
      /\ ~None(GiveBack, toManager) /\ Head(toManager).type \notin GiveBack
           => ~None(GiveBack, toManager')
      /\ ~None({"Phase2Request"}, toManager) /\ Head(toManager).type # "Phase2Request"
           => ~None({"Phase2Request"}, toManager')
  BY <1>1, TailOrder
<1>5. /\ None(Asking, toManager) => None(Asking, toManager') /\ Head(toManager).type \notin Asking
      /\ None(Ask, toManager) => None(Ask, toManager') /\ Head(toManager).type \notin Ask
      /\ None(GiveBack, toManager) =>
           None(GiveBack, toManager') /\ Head(toManager).type \notin GiveBack
      /\ ~None({"SaveYourselfDone"}, toManager') => ~None({"SaveYourselfDone"}, toManager)
      /\ Single(Ask, toManager) =>
           Single(Ask, toManager') /\ (Head(toManager).type \in Ask => None(Ask, toManager'))
  BY <1>1, TailIs
<1>6. NoneAfter(Ask, GiveBack, toManager) =>
        /\ NoneAfter(Ask, GiveBack, toManager')
        /\ Head(toManager).type \in Ask => None(GiveBack, toManager')
  BY <1>1, TailOrder
<1> QED BY <1>1, <1>2, <1>3, <1>4, <1>5, <1>6

LEMMA ReceiveClient ==
  ASSUME Receive
  PROVE  /\ UNCHANGED <<sm_waitingForInteraction, sm_interactionActive, sm_smActive,
                        sm_interactStyle, sm_isshutdown, life, assumed, call, toClient, shutdown,
                        style>>
         /\ toManager # <<>> /\ toManager' = Tail(toManager)
         /\ \/ /\ Head(toManager).type = "InteractRequest"
               /\ asked' = IF manager = "saving" THEN asked + 1 ELSE asked
               /\ UNCHANGED <<manager, granted, second, told>>
            \/ /\ Head(toManager).type = "InteractDone"
               /\ granted' = FALSE /\ told' = (told \/ Head(toManager).cancel)
               /\ UNCHANGED <<manager, asked, second>>
            \/ /\ Head(toManager).type = "Phase2Request" /\ Answered("phase2")
               /\ second' = TRUE /\ UNCHANGED <<asked, granted, told>>
            \/ /\ Head(toManager).type = "SaveYourselfDone" /\ Answered("saved")
               /\ UNCHANGED <<asked, granted, second, told>>
            \/ /\ Head(toManager).type = "ConnectionClosed" /\ manager' = "gone"
               /\ UNCHANGED <<asked, granted, second, told>>
BY DEF Receive, ClientVars, loopFlags, saveFlags

LEMMA RequestReceived ==
  ASSUME SInv, IInv, Receive, Head(toManager).type = "InteractRequest" PROVE IInv'
<1>1. Head(toManager).type \in Ask /\ Head(toManager).type \notin GiveBack \cup Answers
      /\ Head(toManager).type \in Asking /\ Head(toManager).type # "Phase2Request"
  BY DEF Ask, GiveBack, Asking, Answers
<1>2. /\ UNCHANGED <<sm_waitingForInteraction, sm_interactionActive, sm_smActive, sm_interactStyle,
                     sm_isshutdown, life, assumed, call, toClient, shutdown, style, manager,
                     granted, second>>
      /\ toManager # <<>> /\ toManager' = Tail(toManager)
      /\ asked' = IF manager = "saving" THEN asked + 1 ELSE asked
  BY ReceiveClient
<1>3. /\ None(Answers, toManager') => None(Answers, toManager)
      /\ None(Asking, toManager) => None(Asking, toManager')
      /\ None(Ask, toManager) => None(Ask, toManager')
      /\ None(GiveBack, toManager) => None(GiveBack, toManager')
      /\ ~None(GiveBack, toManager) => ~None(GiveBack, toManager')
      /\ NoneAfter(Answers, Asking, toManager')
      /\ ~None({"SaveYourselfDone"}, toManager') => ~None({"SaveYourselfDone"}, toManager)
      /\ ~None({"Phase2Request"}, toManager) => ~None({"Phase2Request"}, toManager')
      /\ ~None(Asking, toManager) /\ ~None(Ask, toManager)
      /\ Single(Ask, toManager) => None(Ask, toManager') /\ Single(Ask, toManager')
      /\ NoneAfter(Ask, GiveBack, toManager) =>
           None(GiveBack, toManager') /\ NoneAfter(Ask, GiveBack, toManager')
  BY <1>1, <1>2, ReceiveTail
<1>4. Always'
  BY <1>2, <1>3 DEF IInv, Always, Idle
<1>5. ASSUME manager # "gone" PROVE (ResetsCome /\ Flags)' /\ (assumed \/ Agreed')
  <2>1. Always /\ ResetsCome /\ Flags /\ (assumed \/ (Tokens /\ Rights /\ Grants))
    BY <1>5 DEF IInv, Agreed
  <2>2. ResetsCome'
    BY <1>2, <2>1 DEF ResetsCome, Idle
  <2>3. assumed \/ Tokens'
    <3>1. CASE manager = "saving" /\ ~assumed
      <4>1. asked = 0 /\ call.at = "waiting" /\ None(Interact, toClient)
        BY <1>3, <2>1, <3>1 DEF Tokens, Always
      <4>2. None(Ask, toManager') /\ None(GiveBack, toManager')
        BY <1>3, <2>1, <3>1 DEF Tokens
      <4>3. None(Asking, toManager')
        BY <4>2 DEF None, Ask, GiveBack, Asking
      <4>4. Single(Ask, toManager') /\ NoneAfter(Ask, GiveBack, toManager')
        BY <1>3, <2>1, <3>1 DEF Tokens
      <4>5. asked' = 1 /\ UNCHANGED <<manager, granted>>
        BY <1>2, <3>1, <4>1
      <4> QED BY <2>1, <3>1, <4>1, <4>2, <4>3, <4>4, <4>5, <1>2 DEF Tokens
    <3>2. CASE manager # "saving" \/ assumed
      BY <1>2, <2>1, <3>2 DEF Tokens
    <3> QED BY <3>1, <3>2
  <2>4. Flags'
    BY <1>2, <1>3, <2>1 DEF Flags, InSave
  <2>5. assumed \/ Rights'
    BY <1>2, <1>3, <2>1 DEF Rights, InSave
  <2>6. assumed \/ Grants'
    BY <1>2, <1>3, <2>1 DEF Grants, Held, Forgotten
  <2> QED BY <2>2, <2>3, <2>4, <2>5, <2>6 DEF Agreed
<1> QED BY <1>4, <1>2, <1>5 DEF IInv

LEMMA GivenBackReceived ==
  ASSUME SInv, IInv, Receive, Head(toManager).type = "InteractDone" PROVE IInv'
<1>1. Head(toManager).type \in GiveBack /\ Head(toManager).type \notin Ask \cup Answers
      /\ Head(toManager).type \in Asking
  BY DEF Ask, GiveBack, Asking, Answers
<1>2. /\ UNCHANGED <<sm_waitingForInteraction, sm_interactionActive, sm_smActive, sm_interactStyle,
                     sm_isshutdown, life, assumed, call, toClient, shutdown, style, manager, asked,
                     second>>
      /\ toManager # <<>> /\ toManager' = Tail(toManager) /\ granted' = FALSE
  BY ReceiveClient
<1>3. /\ None(Answers, toManager') => None(Answers, toManager)
      /\ ~None(Asking, toManager) /\ ~None(GiveBack, toManager)
      /\ None(Ask, toManager) => None(Ask, toManager')
      /\ NoneAfter(Answers, Asking, toManager')
      /\ ~None({"SaveYourselfDone"}, toManager') => ~None({"SaveYourselfDone"}, toManager)
      /\ Single(Ask, toManager) => Single(Ask, toManager')
      /\ NoneAfter(Ask, GiveBack, toManager) => NoneAfter(Ask, GiveBack, toManager')
  BY <1>1, <1>2, ReceiveTail
<1>4. Always'
  BY <1>2, <1>3 DEF IInv, Always, Idle
<1>5. ASSUME manager # "gone" PROVE (ResetsCome /\ Flags)' /\ (assumed \/ Agreed')
  <2>1. Always /\ ResetsCome /\ Flags /\ (assumed \/ (Tokens /\ Rights /\ Grants))
    BY <1>5 DEF IInv, Agreed
  <2>2. ResetsCome'
    BY <1>2, <2>1 DEF ResetsCome, Idle
  <2>3. assumed \/ Tokens'
    BY <1>2, <1>3, <2>1 DEF Tokens, Always
  <2>4. Flags'
    BY <1>2, <1>3, <2>1 DEF Flags, InSave
  <2>5. assumed \/ Rights'
    BY <1>2, <1>3, <2>1 DEF Rights, InSave
  <2>6. assumed \/ Grants'
    BY <1>2 DEF Grants
  <2> QED BY <2>2, <2>3, <2>4, <2>5, <2>6 DEF Agreed
<1> QED BY <1>2, <1>4, <1>5 DEF IInv

LEMMA AnswerReceived ==
  ASSUME SInv, IInv, Receive, Head(toManager).type \in Answers PROVE IInv'
<1>1. Head(toManager).type \notin GiveBack \cup Ask
      /\ Head(toManager).type \in {"Phase2Request", "SaveYourselfDone"}
  BY DEF Ask, GiveBack, Answers
<1>2. /\ UNCHANGED <<sm_waitingForInteraction, sm_interactionActive, sm_smActive, sm_interactStyle,
                     sm_isshutdown, life, assumed, call, toClient, shutdown, style, asked, granted>>
      /\ toManager # <<>> /\ toManager' = Tail(toManager)
  BY <1>1, ReceiveClient
<1>3. /\ toManager \in Seq(ToManager) /\ toManager' \in Seq(ToManager)
      /\ ~None(Answers, toManager) /\ None(Answers, toManager') /\ Idle
      /\ None(Requests, toClient) /\ manager \notin {"idle", "phase2", "saved"}
      /\ toClient \in Seq(ToClient)
  <2>1. toManager \in Seq(ToManager) /\ Single(Answers, toManager) /\ toClient \in Seq(ToClient)
    BY DEF SInv, TypeOK, OnePlace
  <2>2. toManager' \in Seq(ToManager) /\ ~None(Answers, toManager) /\ None(Answers, toManager')
    BY <1>2, <2>1, TailIs
  <2> QED BY <2>1, <2>2 DEF SInv, OnePlace
<1>4. /\ None(Save, toClient) /\ None({"SaveYourselfDone"}, toManager')
      /\ None({"Phase2Request"}, toManager') /\ None(Ask, toManager')
      /\ None(GiveBack, toManager') /\ None(Asking, toManager')
  BY <1>2, <1>3, ReceiveTail, Orders DEF Save, Requests, Answers, Ask, Asking
<1>5. Always'
  BY <1>2, <1>4, ReceiveTail DEF IInv, Always, Idle
<1>6. ASSUME manager # "gone" PROVE (ResetsCome /\ Flags)' /\ (assumed \/ Agreed')
  <2>1. Always /\ ResetsCome /\ Flags /\ (assumed \/ (Tokens /\ Rights /\ Grants))
    BY <1>6 DEF IInv, Agreed
  <2>2. \/ manager = "saving" /\ Head(toManager).type = "Phase2Request" /\ manager' = "phase2"
           /\ second'
        \/ manager = "saving" /\ Head(toManager).type = "SaveYourselfDone" /\ manager' = "saved"
           /\ second' = second
        \/ manager = "cancelled" /\ manager' = "idle"
    <3>1. manager \in {"saving", "cancelled"}
      BY <1>3, <1>6 DEF SInv, TypeOK
    <3>2. CASE Head(toManager).type = "Phase2Request"
      BY <3>1, <3>2, ReceiveClient DEF Answered
    <3>3. CASE Head(toManager).type = "SaveYourselfDone"
      BY <3>1, <3>3, ReceiveClient DEF Answered
    <3> QED BY <1>1, <3>2, <3>3
  <2>3. Head(toManager).type = "SaveYourselfDone" =>
          ~sm_interactionActive /\ None({"Phase2Request"}, toManager)
    <3>1. Head(toManager).type = "SaveYourselfDone" => ~None({"SaveYourselfDone"}, toManager)
      BY <1>2, <1>3, TailIs
    <3> QED BY <1>2, <1>4, <2>1, <3>1, ReceiveTail DEF Always
  <2>4. ResetsCome'
    BY <1>2, <2>1, <2>2, <2>3 DEF ResetsCome, Idle
  <2>5. assumed \/ Tokens'
    BY <1>2, <1>3, <2>1, <2>2 DEF Tokens, Idle
  <2>6. Flags'
    BY <1>2, <1>4, <2>1, <2>2 DEF Flags, InSave
  <2>7. assumed \/ Rights'
    BY <1>2, <1>4, <2>1, <2>2 DEF Rights, InSave
  <2>8. assumed \/ Grants'
    <3>1. None(GiveBack, toManager) /\ call.at = "none"
      BY <1>1, <1>2, <1>3, <1>4, ReceiveTail DEF Idle
    <3> QED BY <1>2, <1>4, <2>1, <2>2, <2>3, <3>1 DEF Grants, Held, Forgotten
  <2> QED BY <2>4, <2>5, <2>6, <2>7, <2>8 DEF Agreed
<1> QED BY <1>5, <1>6, ReceiveClient DEF IInv, Answered

LEMMA ReceiveAgrees == ASSUME SInv, IInv, Receive PROVE IInv'
<1>1. CASE Head(toManager).type = "ConnectionClosed"
  <2>1. Head(toManager).type \notin Answers
    BY <1>1 DEF Answers
  <2>2. manager' = "gone" /\ asked' = asked
    BY <1>1, ReceiveClient
  <2>3. Always'
    BY <2>1, <2>2, ReceiveClient, ReceiveTail DEF IInv, Always, Idle
  <2> QED BY <2>2, <2>3 DEF IInv
<1>2. CASE Head(toManager).type \in {"Phase2Request", "SaveYourselfDone"}
  BY <1>2, AnswerReceived DEF Answers
<1> QED BY <1>1, <1>2, RequestReceived, GivenBackReceived, ReceiveClient
-----------------------------------------------------------------------------
(* A failed save.                                                           *)

ToldAt(q, t) ==
  \A i \in 1 .. Len(q) : q[i].type = "SaveYourselfDone" /\ ~q[i].success =>
    t \/ \E j \in 1 .. i - 1 : q[j].type = "InteractDone" /\ q[j].cancel

Told == manager = "saving" /\ shutdown /\ style # "None" => ToldAt(toManager, told)

LEMMA ToldAppend ==
  ASSUME NEW q \in Seq(ToManager), NEW m \in ToManager, NEW t, ToldAt(q, t),
         m.type # "SaveYourselfDone"
  PROVE  ToldAt(Append(q, m), t)
<1> DEFINE w == Append(q, m)
<1>1. /\ Len(q) \in Nat /\ Len(w) = Len(q) + 1
      /\ \A i \in 1 .. Len(w) : (i \in 1 .. Len(q) /\ w[i] = q[i]) \/ w[i] = m
      /\ \A i \in 1 .. Len(q) : w[i] = q[i]
  OBVIOUS
<1> HIDE DEF w
<1>2. ASSUME NEW i \in 1 .. Len(w), w[i].type = "SaveYourselfDone", ~w[i].success, ~t
      PROVE  \E j \in 1 .. i - 1 : w[j].type = "InteractDone" /\ w[j].cancel
  <2>1. i \in 1 .. Len(q) /\ w[i] = q[i]
    BY <1>1, <1>2
  <2>2. PICK j \in 1 .. i - 1 : q[j].type = "InteractDone" /\ q[j].cancel
    BY <1>2, <2>1 DEF ToldAt
  <2>3. w[j] = q[j]
    BY <1>1, <2>1
  <2> QED BY <2>2, <2>3
<1> QED BY <1>2 DEF ToldAt, w

LEMMA ToldTail ==
  ASSUME NEW q \in Seq(ToManager), q # <<>>, NEW t, NEW u, ToldAt(q, t), t => u,
         Head(q).type = "InteractDone" /\ Head(q).cancel => u
  PROVE  ToldAt(Tail(q), u)
<1> DEFINE w == Tail(q)
<1>1. /\ Len(q) \in Nat /\ Len(w) = Len(q) - 1 /\ Len(w) \in Nat /\ Head(q) = q[1]
      /\ \A i \in 1 .. Len(w) : i + 1 \in 1 .. Len(q) /\ w[i] = q[i + 1]
      /\ \A i \in 2 .. Len(q) : i - 1 \in 1 .. Len(w) /\ w[i - 1] = q[i]
  OBVIOUS
<1> HIDE DEF w
<1>2. ASSUME NEW i \in 1 .. Len(w), w[i].type = "SaveYourselfDone", ~w[i].success, ~u
      PROVE  \E j \in 1 .. i - 1 : w[j].type = "InteractDone" /\ w[j].cancel
  <2>1. PICK j \in 1 .. (i + 1) - 1 : q[j].type = "InteractDone" /\ q[j].cancel
    BY <1>1, <1>2 DEF ToldAt
  <2>2. j # 1
    BY <1>1, <1>2, <2>1
  <2>3. i + 1 \in 1 .. Len(q) /\ j \in 2 .. Len(q) /\ j - 1 \in 1 .. i - 1
    <3>1. i \in Nat /\ i >= 1 /\ i + 1 \in 1 .. Len(q)
      BY <1>1
    <3> QED BY <1>1, <2>1, <2>2, <3>1
  <2>4. w[j - 1] = q[j]
    BY <1>1, <2>3
  <2> QED BY <2>1, <2>3, <2>4
<1> QED BY <1>2 DEF ToldAt, w

\* A save that fails because of sm_cancel says so in the interaction it has or asks for.
LEMMA DoneTells ==
  ASSUME SInv, IInv, Told, Finish \/ Asked
  PROVE  Told'
<1> SUFFICES ASSUME manager = "saving", shutdown, style # "None"
             PROVE  ToldAt(toManager', told)
  <2>1. UNCHANGED <<manager, shutdown, style, told>>
    BY DEF Finish, Asked, Done, Returns, managerVars
  <2> QED BY <2>1 DEF Told
<1>1. ~Idle /\ ~sm_waitingForInteraction /\ At({"finish", "asked"})
  BY DEF Finish, Asked, At, Idle, SInv, Loop
<1>2. Always /\ Flags /\ InSave
  BY <1>1, AtTheEnd
<1>3. sm_isshutdown /\ sm_interactStyle = style /\ style \in {"Errors", "Any"}
  BY <1>2 DEF Flags, Always, Styles
<1>4. PICK b \in BOOLEAN : Done(b) /\ (sm_cancel => b /\ sm_interactionActive)
  <2>1. CASE Finish
    <3>1. Done(sm_isshutdown /\ sm_cancel) /\ (sm_isshutdown /\ sm_cancel) \in BOOLEAN
      BY <2>1 DEF Finish
    <3>2. sm_cancel => sm_interactionActive
      BY <1>1, <1>3, <2>1 DEF Finish, NeedsInteraction, ErrorsMayBeAsked
    <3> QED BY <1>3, <3>1, <3>2
  <2>2. CASE Asked
    BY <1>2, <2>2 DEF Asked, Flags, At
  <2> QED BY <2>1, <2>2
<1>5. PICK q \in Seq(ToManager), m \in ToManager :
        /\ toManager' = Append(q, m) /\ m = SaveYourselfDone(~sm_cancel)
        /\ q = IF sm_interactionActive THEN Append(toManager, InteractDone(b)) ELSE toManager
        /\ None(Answers, q)
  BY <1>1, <1>4, DoneSays
<1>6. ~m.success => sm_cancel
  BY <1>5 DEF SaveYourselfDone
<1>7. /\ Len(q) \in Nat /\ Len(toManager') = Len(q) + 1
      /\ \A i \in 1 .. Len(toManager') :
           (i \in 1 .. Len(q) /\ toManager'[i] = q[i]) \/ (i = Len(q) + 1 /\ toManager'[i] = m)
      /\ \A i \in 1 .. Len(q) : toManager'[i] = q[i]
  BY <1>5
<1>8. ASSUME NEW i \in 1 .. Len(toManager'), toManager'[i].type = "SaveYourselfDone",
             ~toManager'[i].success
      PROVE  \E j \in 1 .. i - 1 : toManager'[j].type = "InteractDone" /\ toManager'[j].cancel
  <2>1. i = Len(q) + 1 /\ sm_cancel
    BY <1>5, <1>6, <1>7, <1>8 DEF None, Answers
  <2>2. q = Append(toManager, InteractDone(b)) /\ b
    BY <1>4, <1>5, <2>1
  <2>3. Len(q) >= 1 /\ q[Len(q)] = InteractDone(b)
    <3>1. toManager \in Seq(ToManager) /\ InteractDone(b) \in ToManager
      BY <1>1, InTheSave, MessageTypes
    <3> DEFINE d == InteractDone(b)
    <3> HIDE DEF d
    <3>2. toManager \in Seq(ToManager) /\ d \in ToManager /\ q = Append(toManager, d)
      BY <2>2, <3>1 DEF d
    <3>3. Len(q) >= 1 /\ q[Len(q)] = d
      BY <3>2
    <3> QED BY <3>3 DEF d
  <2>4. q[Len(q)].type = "InteractDone" /\ q[Len(q)].cancel
    BY <2>2, <2>3 DEF InteractDone
  <2>5. Len(q) \in 1 .. i - 1 /\ toManager'[Len(q)] = q[Len(q)]
    BY <1>7, <2>1, <2>3
  <2> QED BY <2>4, <2>5
<1> QED BY <1>8 DEF ToldAt

\* The client says something else, or nothing.
LEMMA OtherTells ==
  ASSUME SInv, Told, UNCHANGED <<manager, shutdown, style, told>>, NEW m \in ToManager,
         m.type # "SaveYourselfDone", toManager' \in {toManager, Append(toManager, m)}
  PROVE  Told'
<1>1. toManager \in Seq(ToManager)
  BY DEF SInv, TypeOK
<1>2. Told' <=> (manager = "saving" /\ shutdown /\ style # "None" => ToldAt(toManager', told))
  BY DEF Told
<1>3. CASE toManager' = toManager
  BY <1>2, <1>3 DEF Told
<1>4. CASE toManager' = Append(toManager, m)
  BY <1>1, <1>2, <1>4, ToldAppend DEF Told
<1> QED BY <1>3, <1>4

LEMMA ClientTells ==
  ASSUME SInv, IInv, Told, Application \/ ClientStep \/ Quit
  PROVE  Told'
<1>1. CASE Finish \/ Asked
  BY <1>1, DoneTells
<1>2. CASE ~(Finish \/ Asked)
  <2>1. UNCHANGED <<manager, shutdown, style, told>>
    BY <1>2 DEF Application, allowsInteraction, allowsErrorInteraction, Wait, release, cancel,
                requestPhase2, Dialog, CallOnly, ClientStep, WaitEnds, DialogCloses, HandlerReturns,
                RequestPhase2, Returns, AskToCancel, sm_saveYourselfCallback,
                sm_saveYourselfPhase2Callback, sm_interactCallback, sm_shutdownCancelledCallback,
                sm_saveCompleteCallback, sm_dieCallback, Processes, Close, Quit, managerVars
  <2>2. \/ toManager' = toManager
        \/ \E t \in {"InteractRequest", "Phase2Request", "ConnectionClosed"} :
             toManager' = Append(toManager, Message(t))
        \/ toManager' = Append(toManager, InteractDone(FALSE))
    BY <1>2 DEF Application, allowsInteraction, allowsErrorInteraction, Wait, release, cancel,
                requestPhase2, Dialog, CallOnly, ClientStep, WaitEnds, DialogCloses, HandlerReturns,
                RequestPhase2, Phase2Requested, AskToCancel, sm_saveYourselfCallback,
                sm_saveYourselfPhase2Callback, sm_interactCallback, sm_shutdownCancelledCallback,
                sm_saveCompleteCallback, sm_dieCallback, Processes, Close, Quit
  <2>3. PICK m \in ToManager : /\ m.type # "SaveYourselfDone"
                               /\ toManager' \in {toManager, Append(toManager, m)}
    <3>1. CASE \E t \in {"InteractRequest", "Phase2Request", "ConnectionClosed"} :
                 toManager' = Append(toManager, Message(t))
      BY <3>1, MessageTypes
    <3>2. CASE toManager' \in {toManager, Append(toManager, InteractDone(FALSE))}
      <4>1. InteractDone(FALSE) \in ToManager /\ InteractDone(FALSE).type # "SaveYourselfDone"
        BY MessageTypes
      <4> QED BY <3>2, <4>1
    <3> QED BY <2>2, <3>1, <3>2
  <2> QED BY <2>1, <2>3, OtherTells
<1> QED BY <1>1, <1>2

LEMMA ManagerTells ==
  ASSUME SInv, IInv, Told, ManagerStep \/ StartSave \/ CancelShutdown \/ Kill
  PROVE  Told'
<1>1. CASE StartSave \/ StartPhase2
  <2>1. None(Answers, toManager) /\ toManager' = toManager
    BY <1>1, Between DEF StartSave, StartPhase2, Sends
  <2> QED BY <2>1 DEF Told, ToldAt, None, Answers
<1>2. CASE Grant
  BY <1>2 DEF Grant, Sends, Told
<1>3. CASE Complete \/ CancelShutdown \/ Kill
  BY <1>3 DEF Complete, CancelShutdown, Kill, Told
<1>4. CASE Receive
  <2> SUFFICES ASSUME manager' = "saving", shutdown', style' # "None"
               PROVE  ToldAt(toManager', told')
    BY DEF Told
  <2>1. manager = "saving" /\ shutdown /\ style # "None"
    BY <1>4, ReceiveClient DEF Answered
  <2>2. ToldAt(toManager, told)
    BY <2>1 DEF Told
  <2>3. toManager # <<>> /\ toManager' = Tail(toManager) /\ toManager \in Seq(ToManager)
    BY <1>4, ReceiveClient DEF SInv, TypeOK
  <2>4. /\ told => told'
        /\ Head(toManager).type = "InteractDone" /\ Head(toManager).cancel => told'
    <3>1. CASE Head(toManager).type = "InteractDone"
      <4>1. told' = (told \/ Head(toManager).cancel)
        BY <1>4, <3>1, ReceiveClient
      <4> QED BY <4>1
    <3>2. CASE Head(toManager).type # "InteractDone"
      <4>1. told' = told
        BY <1>4, <3>2, ReceiveClient
      <4> QED BY <3>2, <4>1
    <3> QED BY <3>1, <3>2
  <2> QED BY <2>2, <2>3, <2>4, ToldTail
<1> QED BY <1>1, <1>2, <1>3, <1>4 DEF ManagerStep
-----------------------------------------------------------------------------
(* A request that is waited for.                                            *)

\* The client says something else than InteractDone, or nothing.
LEMMA OtherWants ==
  ASSUME SInv, Wanted, UNCHANGED <<manager, asked, granted, toClient>>, NEW m \in ToManager,
         m.type \notin GiveBack, toManager' \in {toManager, Append(toManager, m)},
         call'.at = "waiting" => call.at = "waiting",
         assumed' /\ sm_interactionActive' =>
           call.at = "waiting" \/ (assumed /\ sm_interactionActive)
  PROVE  Wanted'
<1>1. toManager \in Seq(ToManager)
  BY DEF SInv, TypeOK
<1>2. /\ Follows(GiveBack, Ask, toManager) => Follows(GiveBack, Ask, toManager')
      /\ ~None(Ask, toManager) => ~None(Ask, toManager')
  BY <1>1, AppendOrder
<1> QED BY <1>2 DEF Wanted

LEMMA WaitWants == ASSUME SInv, NEW back, Wait(back) PROVE Wanted'
<1> DEFINE m == Message("InteractRequest")
<1>1. toManager \in Seq(ToManager) /\ toManager' = Append(toManager, m)
  BY DEF SInv, TypeOK, Wait
<1>2. m \in ToManager /\ m.type \in Ask /\ m.type \notin GiveBack
  BY MessageTypes DEF Ask, GiveBack
<1>3. Follows(GiveBack, Ask, toManager') /\ ~None(Ask, toManager')
  BY <1>1, <1>2, AppendOrder
<1> QED BY <1>3 DEF Wanted

\* What it gives back it has no longer.
LEMMA CallWants ==
  ASSUME SInv, IInv, Wanted,
         \/ cancel \/ requestPhase2 \/ Dialog \/ DialogCloses \/ HandlerReturns \/ release
         \/ WaitEnds \/ RequestPhase2 \/ Finish \/ Asked \/ Quit \/ Close
  PROVE  Wanted'
<1>1. CASE release \/ Finish \/ Asked
  <2>1. sm_interactionActive' = FALSE
    BY <1>1 DEF release, Finish, Asked, Done, Returns, resetSmState
  <2>2. call'.at # "waiting"
    <3>1. CASE release
      BY <3>1 DEF release, At, Handlers
    <3>2. CASE Finish \/ Asked
      BY <3>2 DEF Finish, Asked, Done, Returns, NoCall
    <3> QED BY <1>1, <3>1, <3>2
  <2> QED BY <2>1, <2>2 DEF Wanted
<1>2. CASE \/ cancel \/ requestPhase2 \/ Dialog \/ DialogCloses \/ HandlerReturns
           \/ RequestPhase2 \/ Quit \/ Close
  <2>1. UNCHANGED <<manager, asked, granted, toClient, assumed>>
    BY <1>2 DEF cancel, requestPhase2, Dialog, DialogCloses, HandlerReturns, CallOnly,
                RequestPhase2, Returns, Quit, Close, managerVars
  <2>2. /\ sm_interactionActive' => sm_interactionActive
        /\ \/ toManager' = toManager
           \/ \E t \in {"Phase2Request", "ConnectionClosed"} :
                toManager' = Append(toManager, Message(t))
    BY <1>2 DEF cancel, requestPhase2, Dialog, DialogCloses, HandlerReturns, CallOnly,
                RequestPhase2, Phase2Requested, Returns, resetSmState, Quit, Close, loopFlags
  <2>3. call'.at = "waiting" => call.at = "waiting"
    <3>1. CASE cancel \/ requestPhase2 \/ Quit \/ Close
      BY <3>1 DEF cancel, requestPhase2, Quit, Close
    <3>2. CASE RequestPhase2
      BY <3>2 DEF RequestPhase2, Returns, NoCall
    <3>3. CASE Dialog \/ DialogCloses \/ HandlerReturns
      BY <3>3, InTheCall DEF Dialog, DialogCloses, HandlerReturns, Leaves, Goes, At, Handlers, Idle,
                             Call, IInv, Always
    <3> QED BY <1>2, <3>1, <3>2, <3>3
  <2>4. PICK t \in {"Phase2Request", "ConnectionClosed"} :
          toManager' \in {toManager, Append(toManager, Message(t))}
    BY <2>2
  <2>5. Message(t) \in ToManager /\ Message(t).type \notin GiveBack
    BY <2>4, MessageTypes DEF GiveBack
  <2> QED BY <2>1, <2>2, <2>3, <2>4, <2>5, OtherWants
<1>3. CASE WaitEnds
  <2>1. /\ UNCHANGED <<manager, asked, granted, toClient, toManager>>
        /\ call' = [call EXCEPT !.at = call.back] /\ ~Idle
        /\ call.at = "woken" \/ call.at = "waiting"
    BY <1>3 DEF WaitEnds, Goes, At, Idle
  <2>2. call'.at # "waiting"
    BY <2>1, InTheCall DEF IInv, Always, Call, Handlers
  <2>3. assumed' => assumed \/ call.at = "waiting"
    BY ONLY <1>3 DEF WaitEnds, At
  <2>4. call.at = "waiting" \/ ~assumed
    BY <2>1 DEF IInv, Always
  <2>5. assumed' => call.at = "waiting"
    BY <2>3, <2>4
  <2> QED BY <2>1, <2>2, <2>5 DEF Wanted
<1> QED BY <1>1, <1>2, <1>3

\* A callback runs before the quit, and ends the wait it meets.
LEMMA CallbackWants ==
  ASSUME SInv, IInv, IInv',
         \/ sm_saveYourselfCallback \/ sm_saveYourselfPhase2Callback \/ sm_interactCallback
         \/ sm_shutdownCancelledCallback \/ sm_saveCompleteCallback \/ sm_dieCallback
  PROVE  Wanted'
<1>1. ~assumed'
  BY DEF sm_saveYourselfCallback, sm_saveYourselfPhase2Callback, sm_interactCallback,
         sm_shutdownCancelledCallback, sm_saveCompleteCallback, sm_dieCallback, Processes,
         managerVars, IInv, Always
<1>2. manager' = "gone" \/ call'.at # "waiting"
  <2> SUFFICES ASSUME manager' # "gone", call'.at = "waiting" PROVE FALSE
    OBVIOUS
  <2>1. sm_waitingForInteraction'
    BY DEF IInv, ResetsCome
  <2>2. CASE sm_saveYourselfCallback \/ sm_saveYourselfPhase2Callback
    BY <2>2 DEF sm_saveYourselfCallback, sm_saveYourselfPhase2Callback, sm_performSaveYourself,
                FirstHandler
  <2>3. CASE sm_interactCallback
    <3>1. call' = [call EXCEPT !.at = "woken"] /\ call \in Call
      BY <2>1, <2>3 DEF sm_interactCallback, exitEventLoop, Goes, loopFlags, SInv, TypeOK
    <3> QED BY <3>1 DEF Call
  <2>4. CASE sm_shutdownCancelledCallback \/ sm_saveCompleteCallback \/ sm_dieCallback
    BY <2>1, <2>4 DEF sm_shutdownCancelledCallback, sm_saveCompleteCallback, sm_dieCallback,
                      resetSmState
  <2> QED BY <2>2, <2>3, <2>4
<1> QED BY <1>1, <1>2 DEF Wanted

LEMMA SendsWants ==
  ASSUME SInv, IInv, Wanted, StartSave \/ Grant \/ StartPhase2 \/ Complete \/ CancelShutdown \/ Kill
  PROVE  Wanted'
<1>1. UNCHANGED <<call, assumed, sm_interactionActive, toManager>> /\ toClient \in Seq(ToClient)
  BY DEF StartSave, Grant, StartPhase2, Complete, CancelShutdown, Kill, Sends, ClientVars,
         loopFlags, SInv, TypeOK
<1>2. PICK m \in ToClient :
        toClient' = Append(toClient, m) /\ (CancelShutdown => m.type = "ShutdownCancelled")
  <2>1. CASE StartSave
    <3>1. PICK type \in SaveTypes, sd \in BOOLEAN, st \in Styles :
             Sends(SaveYourself(type, sd, st))
      BY <2>1 DEF StartSave, SaveTypes, Styles
    <3>2. manager = "idle"
      BY <2>1 DEF StartSave
    <3> QED BY <3>1, <3>2, MessageTypes DEF Sends, CancelShutdown
  <2>2. CASE CancelShutdown
    BY <2>2, MessageTypes DEF CancelShutdown, Sends
  <2>3. CASE Grant \/ StartPhase2 \/ Complete \/ Kill
    <3>1. PICK t \in {"Interact", "SaveYourselfPhase2", "SaveComplete", "Die"} : Sends(Message(t))
      BY <2>3 DEF Grant, StartPhase2, Complete, Kill
    <3>2. ~CancelShutdown
      BY <2>3 DEF Grant, StartPhase2, Complete, Kill, CancelShutdown
    <3> QED BY <3>1, <3>2, MessageTypes DEF Sends
  <2> QED BY <2>1, <2>2, <2>3
<1>3. /\ ~None(Cancels, toClient) => ~None(Cancels, toClient')
      /\ CancelShutdown => ~None(Cancels, toClient')
  BY <1>1, <1>2, AppendOrder DEF Cancels
<1>4. CASE StartSave
  <2>1. /\ manager = "idle" /\ call.at # "waiting" /\ ResetsCome /\ None(GiveBack, toManager)
        /\ toManager \in Seq(ToManager)
    BY <1>4, Between DEF StartSave, Idle
  <2>2. Follows(GiveBack, Ask, toManager)
    BY <2>1, Orders
  <2>3. sm_interactionActive => ~None(Cancels, toClient)
    BY <2>1 DEF ResetsCome
  <2> QED BY <1>1, <1>3, <2>1, <2>2, <2>3 DEF Wanted
<1>5. CASE Grant
  <2>1. manager' = manager /\ granted'
    BY <1>5 DEF Grant
  <2> QED BY <1>1, <2>1 DEF Wanted
<1>6. CASE StartPhase2 \/ Complete
  <2>1. manager # "gone" /\ UNCHANGED <<asked, granted>>
    BY <1>6 DEF StartPhase2, Complete
  <2> QED BY <1>1, <1>3, <2>1 DEF Wanted
<1>7. CASE CancelShutdown
  <2>1. manager # "gone"
    BY <1>7 DEF CancelShutdown
  <2> QED BY <1>1, <1>3, <1>7, <2>1 DEF Wanted
<1>8. CASE Kill
  BY <1>8 DEF Kill, Wanted
<1> QED BY <1>4, <1>5, <1>6, <1>7, <1>8

LEMMA ReceiveWants == ASSUME SInv, IInv, Wanted, Receive PROVE Wanted'
<1> DEFINE h == Head(toManager)
<1>1. UNCHANGED <<call, assumed, sm_interactionActive, sm_smActive, toClient>>
  BY ReceiveClient
<1>2. toManager # <<>> /\ toManager' = Tail(toManager) /\ toManager \in Seq(ToManager)
  BY ReceiveClient DEF SInv, TypeOK
<1>3. /\ Follows(GiveBack, Ask, toManager) => Follows(GiveBack, Ask, toManager')
      /\ Follows(GiveBack, Ask, toManager) /\ h.type \in GiveBack => ~None(Ask, toManager')
      /\ ~None(Ask, toManager) /\ h.type \notin Ask => ~None(Ask, toManager')
      /\ h.type \in Ask => ~None(Ask, toManager)
  BY <1>2, TailIs, TailOrder
<1>4. asked \in Nat
  BY DEF IInv, Always
<1>5. manager' # "gone" => manager # "gone"
  BY ReceiveClient DEF Answered
<1>6. CASE h.type = "InteractRequest"
  <2> SUFFICES ASSUME manager # "gone", call.at = "waiting" \/ (assumed /\ sm_interactionActive)
               PROVE  Wanted'
    BY <1>1, <1>5 DEF Wanted
  <2>1. /\ asked' = (IF manager = "saving" THEN asked + 1 ELSE asked)
        /\ UNCHANGED <<manager, granted>>
    BY <1>6, ReceiveClient
  <2>2. manager \in {"saving", "cancelled"}
    <3>1. ~None(Ask, toManager)
      BY <1>3, <1>6 DEF Ask
    <3> QED BY <3>1, Between DEF SInv, TypeOK
  <2>3. manager = "cancelled" => ~None(Cancels, toClient)
    BY DEF IInv, ResetsCome
  <2> QED BY <1>1, <1>3, <1>4, <2>1, <2>2, <2>3 DEF Wanted
<1>7. CASE h.type = "InteractDone"
  <2>1. h.type \in GiveBack
    BY <1>7 DEF GiveBack
  <2> QED BY <1>1, <1>3, <1>5, <2>1 DEF Wanted
<1>8. CASE h.type \in {"Phase2Request", "SaveYourselfDone", "ConnectionClosed"}
  <2>1. UNCHANGED <<asked, granted>> /\ h.type \notin Ask
    BY <1>8, ReceiveClient DEF Ask
  <2> QED BY <1>1, <1>3, <1>5, <2>1 DEF Wanted
<1> QED BY <1>6, <1>7, <1>8, ReceiveClient

-----------------------------------------------------------------------------
(* The theorems.                                                            *)

LEMMA InitAgrees == Init => IInv /\ Told /\ Wanted
<1> SUFFICES ASSUME Init PROVE IInv /\ Told /\ Wanted
  OBVIOUS
<1>1. /\ toClient = <<>> /\ toManager = <<>> /\ call.at = "none" /\ manager = "idle"
      /\ sm_interactionActive = FALSE /\ sm_smActive = FALSE /\ sm_interactStyle = "None"
      /\ sm_isshutdown = FALSE /\ life = "running" /\ shutdown = FALSE /\ style = "None"
      /\ asked = 0 /\ granted = FALSE /\ assumed = FALSE
  BY DEF Init, NoCall
<1>2. Always
  <2>1. NoneAfter(Answers, Asking, <<>>) /\ None(Asking, <<>>) /\ None({"SaveYourselfDone"}, <<>>)
    BY DEF NoneAfter, None
  <2> QED BY <1>1, <2>1 DEF Always, Styles
<1>3. ResetsCome
  BY <1>1 DEF ResetsCome, None, Preceded
<1>4. Tokens
  BY <1>1 DEF Tokens, None, Single, NoneAfter
<1>5. Flags
  BY <1>1 DEF Flags, InSave
<1>6. Rights /\ Grants
  BY <1>1 DEF Rights, InSave, Grants
<1>7. Told /\ Wanted
  BY <1>1 DEF Told, Wanted
<1> QED BY <1>2, <1>3, <1>4, <1>5, <1>6, <1>7 DEF IInv, Agreed

LEMMA StepAgrees == SInv /\ IInv /\ Told /\ [Next]_vars => (IInv /\ Told)'
<1> SUFFICES ASSUME SInv, IInv, Told, [Next]_vars PROVE IInv' /\ Told'
  OBVIOUS
<1>1. CASE allowsInteraction \/ allowsErrorInteraction
  <2>1. /\ Wait(call.at) /\ At(Handlers) /\ call.at \in Handlers
        /\ sm_interactStyle \in {"Any", "Errors"}
    BY <1>1 DEF allowsInteraction, allowsErrorInteraction, ErrorsMayBeAsked, At
  <2>2. IInv'
    BY <2>1, WaitAsks DEF At
  <2> QED BY <1>1, <2>2, ClientTells DEF Application
<1>2. CASE AskToCancel
  <2>1. Wait("asked") /\ At({"finish"}) /\ sm_interactStyle \in {"Any", "Errors"}
    BY <1>2 DEF AskToCancel, ErrorsMayBeAsked
  <2>2. IInv'
    BY <2>1, WaitAsks DEF At
  <2> QED BY <1>2, <2>2, ClientTells DEF ClientStep
<1>3. CASE cancel \/ requestPhase2 \/ Dialog \/ DialogCloses \/ HandlerReturns
  BY <1>3, PlaceKeeps, ClientTells DEF Application, ClientStep
<1>4. CASE release
  BY <1>4, ReleaseKeeps, ClientTells DEF Application
<1>5. CASE WaitEnds
  BY <1>5, WaitEndAgrees, ClientTells DEF ClientStep
<1>6. CASE RequestPhase2
  BY <1>6, Phase2RequestAgrees, ClientTells DEF ClientStep
<1>7. CASE Finish \/ Asked
  <2>1. PICK b \in BOOLEAN : Done(b) /\ At({"finish", "asked"})
    <3>1. CASE Finish
      <4>1. Done(sm_isshutdown /\ sm_cancel) /\ (sm_isshutdown /\ sm_cancel) \in BOOLEAN
        BY <3>1 DEF Finish
      <4> QED BY <3>1, <4>1 DEF Finish, At
    <3>2. CASE Asked
      BY <3>2 DEF Asked, At
    <3> QED BY <1>7, <3>1, <3>2
  <2> QED BY <1>7, <2>1, DoneAgrees, ClientTells DEF ClientStep
<1>8. CASE sm_saveYourselfCallback \/ sm_saveYourselfPhase2Callback
  BY <1>8, SaveCallbackAgrees, Phase2CallbackAgrees, ClientTells DEF ClientStep
<1>9. CASE sm_interactCallback \/ sm_dieCallback
  BY <1>9, InteractAgrees, DieAgrees, ClientTells DEF ClientStep
<1>10. CASE sm_shutdownCancelledCallback \/ sm_saveCompleteCallback
  BY <1>10, ResetAgrees, ClientTells DEF ClientStep
<1>11. CASE Quit \/ Close
  BY <1>11, QuitAgrees, ClientTells DEF ClientStep
<1>12. CASE StartSave \/ Grant \/ StartPhase2
  BY <1>12, StartSaveAgrees, GrantAgrees, Phase2Agrees, ManagerTells DEF ManagerStep
<1>13. CASE Complete \/ CancelShutdown \/ Kill
  BY <1>13, CompleteAgrees, CancelAgrees, KillAgrees, ManagerTells DEF ManagerStep
<1>14. CASE Receive
  BY <1>14, ReceiveAgrees, ManagerTells DEF ManagerStep
<1>15. CASE UNCHANGED vars
  <2>1. UNCHANGED <<sm_waitingForInteraction, sm_interactionActive, sm_smActive, sm_interactStyle,
                    sm_isshutdown, life, assumed, call, toClient, toManager, manager, shutdown,
                    style, asked, granted, second, told>>
    BY <1>15 DEF vars, loopFlags, saveFlags, managerVars
  <2>2. Always' <=> Always
    BY <2>1 DEF Always, Idle
  <2>3. (ResetsCome' <=> ResetsCome) /\ (Tokens' <=> Tokens)
    BY <2>1 DEF ResetsCome, Tokens, Idle
  <2>4. (Flags' <=> Flags) /\ (Rights' <=> Rights) /\ (Grants' <=> Grants)
    BY <2>1 DEF Flags, Rights, InSave, Grants, Held, Forgotten
  <2>5. IInv'
    BY <2>1, <2>2, <2>3, <2>4 DEF IInv, Agreed
  <2> QED BY <2>1, <2>5 DEF Told
<1> QED
  BY <1>1, <1>2, <1>3, <1>4, <1>5, <1>6, <1>7, <1>8, <1>9, <1>10, <1>11, <1>12, <1>13, <1>14, <1>15
     DEF Next, Application, ClientStep, ManagerStep

LEMMA StepWants == SInv /\ IInv /\ Told /\ Wanted /\ [Next]_vars => Wanted'
<1> SUFFICES ASSUME SInv, IInv, Told, Wanted, [Next]_vars PROVE Wanted'
  OBVIOUS
<1>1. IInv'
  BY StepAgrees
<1>2. CASE allowsInteraction \/ allowsErrorInteraction \/ AskToCancel
  BY <1>2, WaitWants DEF allowsInteraction, allowsErrorInteraction, AskToCancel
<1>3. CASE \/ cancel \/ requestPhase2 \/ Dialog \/ DialogCloses \/ HandlerReturns \/ release
           \/ WaitEnds \/ RequestPhase2 \/ Finish \/ Asked \/ Quit \/ Close
  BY <1>3, CallWants
<1>4. CASE \/ sm_saveYourselfCallback \/ sm_saveYourselfPhase2Callback \/ sm_interactCallback
           \/ sm_shutdownCancelledCallback \/ sm_saveCompleteCallback \/ sm_dieCallback
  BY <1>1, <1>4, CallbackWants
<1>5. CASE StartSave \/ Grant \/ StartPhase2 \/ Complete \/ CancelShutdown \/ Kill
  BY <1>5, SendsWants
<1>6. CASE Receive
  BY <1>6, ReceiveWants
<1>7. CASE UNCHANGED vars
  BY <1>7 DEF vars, loopFlags, managerVars, Wanted
<1> QED BY <1>2, <1>3, <1>4, <1>5, <1>6, <1>7 DEF Next, Application, ClientStep, ManagerStep

LEMMA Interactions == Spec => [](SInv /\ IInv /\ Told /\ Wanted)
<1>1. Init => SInv /\ IInv /\ Told /\ Wanted
  BY InitHolds, InitAgrees
<1>2. SInv /\ IInv /\ Told /\ Wanted /\ [Next]_vars => (SInv /\ IInv /\ Told /\ Wanted)'
  BY StepKeeps, StepAgrees, StepWants
<1> QED BY <1>1, <1>2, PTL DEF Spec

\* For any number of saves and interactions, with cancellations, quits and kills
\* at any time: the client interacts only while the manager lets it, a
\* ShutdownCancelled is on its way to it, or, if it was told to quit while it
\* waited, its request is still to be answered; it has given the interaction back
\* when it has answered, a checkpoint's second phase and a quit in a wait excepted;
\* and a wait has its event loop.
THEOREM InteractionsAgree == Spec => []InteractionAgrees
<1>1. SInv /\ IInv /\ Wanted => InteractionAgrees
  <2> SUFFICES ASSUME SInv, IInv, Wanted PROVE InteractionAgrees
    OBVIOUS
  <2>1. sm_waitingForInteraction => m_eventLoop /\ At({"waiting", "woken"})
    BY DEF SInv, Loop
  <2>2. manager = "saved" => ~granted \/ (second /\ ~shutdown) \/ assumed
    BY DEF IInv, Agreed, Grants
  <2>3. toClient \in Seq(ToClient) /\ toManager \in Seq(ToManager)
        /\ manager \in {"idle", "saving", "phase2", "saved", "cancelled", "gone"}
    BY DEF SInv, TypeOK
  <2>4. ASSUME sm_interactionActive, ~granted, manager # "gone"
        PROVE  ~None(Cancels, toClient) \/ (assumed /\ (asked > 0 \/ ~None(Ask, toManager)))
    <3>1. ResetsCome /\ (assumed \/ Rights)
      BY <2>4 DEF IInv, Agreed
    <3>2. CASE assumed
      BY <2>4, <3>2 DEF Wanted
    <3>3. CASE manager \in {"idle", "saved", "cancelled"}
      BY <2>4, <3>1, <3>3 DEF ResetsCome
    <3>4. CASE manager \in {"saving", "phase2"} /\ ~assumed
      <4>1. ~None(Save, toClient)
        BY <2>4, <3>1, <3>4 DEF Rights, InSave
      <4> QED BY <2>3, <2>4, <3>1, <4>1, Orders DEF ResetsCome
    <3> QED BY <2>3, <2>4, <3>2, <3>3, <3>4
  <2>5. sm_interactionActive =>
          granted \/ Comes("ShutdownCancelled") \/ manager = "gone" \/ (assumed /\ Requested)
    BY <2>3, <2>4 DEF None, Cancels, Comes, Ask, Requested
  <2> QED BY <2>1, <2>2, <2>5 DEF InteractionAgrees
<1> QED BY <1>1, Interactions, PTL

\* A save that fails while the manager waits for it, in a shutdown of which
\* errors may be told, has said InteractDone with cancel first, however the
\* interaction came about.
THEOREM CancelsAreTold == Spec => []CancelIsTold
<1>1. SInv /\ Told => CancelIsTold
  <2> SUFFICES ASSUME SInv, Told PROVE CancelIsTold
    OBVIOUS
  <2>1. DOMAIN toManager = 1 .. Len(toManager)
    BY DEF SInv, TypeOK
  <2> QED BY <2>1 DEF Told, ToldAt, CancelIsTold
<1> QED BY <1>1, Interactions, PTL
=============================================================================
