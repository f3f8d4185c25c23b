---------------------------- MODULE Outbox_proofs -----------------------------
(* Proofs about Outbox, for any drafts, tasks, folders and bounds: with any  *)
(* user its type, and that one send runs at a time; in calm settings that no *)
(* draft is lost or sent twice.                                              *)
EXTENDS Outbox, TLAPS

Answers == {"none", "ok", "error"}
Task == [at: {"free", "sending", "answered", "published"}, answer: Answers, draft: Contents]

(* A task that is up has the flag up; so has a panic nobody has released,    *)
(* and it leaves no task up.  Without the second part the release of a panic *)
(* could lower the flag of a later send.                                     *)
FlagInv ==
    /\ OneSendAtATime
    /\ panicked => inflight /\ \A t \in Tasks : ~Running(t)

LEMMA CopiesType ==
    ASSUME NEW f \in {"sent", "drafts"}, NEW d \in Contents
    PROVE  Copies(f, d) \subseteq Folders \X Drafts
BY DEF Copies

LEMMA StartSendType ==
    ASSUME TypeOK, StartSend
    PROVE  /\ compose' \in Contents /\ composeSent' \in BOOLEAN
           /\ outboxPending' \in BOOLEAN /\ inflight' \in BOOLEAN
           /\ pending' \in Contents \cup {None}
           /\ tasks' \in [Tasks -> Task]
<1>1. PICK t \in Tasks :
          tasks' = [tasks EXCEPT ![t] =
                       [at |-> "sending", answer |-> "none", draft |-> compose]]
  BY DEF StartSend
<1>2. compose \in Contents /\ tasks \in [Tasks -> Task]
  BY DEF TypeOK, Task, Answers
<1>3. [at |-> "sending", answer |-> "none", draft |-> compose] \in Task
  BY <1>2 DEF Task, Answers
<1>4. tasks' \in [Tasks -> Task]
  BY <1>1, <1>2, <1>3
<1>5. Blank \in Contents
  BY DEF Contents
<1> QED
  BY <1>2, <1>4, <1>5 DEF StartSend

LEMMA InitType == Init => TypeOK
<1> SUFFICES ASSUME Init PROVE TypeOK
  OBVIOUS
<1>1. Blank \in Contents
  BY DEF Contents
<1>2. FreeTask \in Task /\ NoResult \in [answer: Answers, draft: Contents]
  BY <1>1 DEF FreeTask, NoResult, Task, Answers
<1>3. tasks \in [Tasks -> Task] /\ accepted \in [Drafts -> 0..MaxAccepts]
  BY <1>2, BoundsAssumption DEF Init
<1>4. slot \in [answer: Answers, draft: Contents]
  BY <1>2 DEF Init
<1>5. /\ composing \in BOOLEAN /\ composeSent \in BOOLEAN /\ outboxPending \in BOOLEAN
      /\ inflight \in BOOLEAN /\ ticking \in BOOLEAN /\ panicked \in BOOLEAN
      /\ calm \in Calm /\ saved = {} /\ pressed = {}
      /\ compose \in Contents /\ pending \in Contents \cup {None}
  BY <1>1 DEF Init
<1>6. failures \in 0..MaxFailures /\ panics \in 0..MaxPanics
  BY BoundsAssumption DEF Init
<1> QED
  BY <1>3, <1>4, <1>5, <1>6 DEF TypeOK, Task, Answers

LEMMA UserType ==
    ASSUME TypeOK, NewCompose \/ LeaveCompose \/ PressSend \/ (\E d \in Drafts : Write(d))
    PROVE  TypeOK'
<1>1. Blank \in Contents /\ Drafts \subseteq Contents
  BY DEF Contents
<1>2. CASE NewCompose
  BY <1>1, <1>2 DEF NewCompose, TypeOK
<1>3. CASE LeaveCompose
  <2>1. Copies("drafts", compose) \subseteq Folders \X Drafts
    BY CopiesType DEF TypeOK
  <2> QED
    BY <1>3, <2>1 DEF LeaveCompose, TypeOK
<1>4. CASE PressSend
  <2>1. pressed' \subseteq Contents
    BY <1>4 DEF PressSend, TypeOK
  <2>2. StartSend
    BY <1>4 DEF PressSend
  <2> QED
    BY <1>4, <2>1, <2>2, StartSendType DEF PressSend, TypeOK, Task, Answers
<1>5. CASE \E d \in Drafts : Write(d)
  BY <1>1, <1>5 DEF Write, TypeOK
<1> QED
  BY <1>2, <1>3, <1>4, <1>5

LEMMA DrainType ==
    ASSUME TypeOK, Drain
    PROVE  /\ compose' \in Contents /\ composeSent' \in BOOLEAN
           /\ outboxPending' \in BOOLEAN /\ pending' \in Contents \cup {None}
           /\ saved' \subseteq Folders \X Drafts
<1>1. CASE slot.answer = "none"
  BY <1>1 DEF Drain, TypeOK
<1>2. CASE slot.answer = "ok"
  <2>1. slot.draft \in Contents
    BY DEF TypeOK
  <2>2. Copies("sent", slot.draft) \subseteq Folders \X Drafts
    BY <2>1, CopiesType
  <2> QED
    BY <1>2, <2>2 DEF Drain, TypeOK
<1>3. CASE slot.answer = "error"
  <2>1. compose' \in Contents
    BY <1>3 DEF Drain, TypeOK
  <2>2. Copies("drafts", compose') \subseteq Folders \X Drafts
    BY <2>1, CopiesType
  <2>3. saved' \subseteq Folders \X Drafts
    BY <1>3, <2>2 DEF Drain, TypeOK
  <2>4. composeSent' \in BOOLEAN /\ outboxPending' \in BOOLEAN /\ pending' \in Contents \cup {None}
    BY <1>3 DEF Drain, TypeOK
  <2> QED
    BY <2>1, <2>3, <2>4
<1> QED
  BY <1>1, <1>2, <1>3 DEF Drain

LEMMA TickType ==
    ASSUME TypeOK, Render \/ TickDrain \/ TickRetry
    PROVE  TypeOK'
<1>1. CASE Render
  BY <1>1 DEF Render, mainVars, TypeOK
<1>2. CASE TickDrain
  <2>1. Drain
    BY <1>2 DEF TickDrain
  <2>2. NoResult \in [answer: {"none", "ok", "error"}, draft: Contents]
    BY DEF NoResult, Contents
  <2>3. slot' \in [answer: {"none", "ok", "error"}, draft: Contents]
    BY <1>2, <2>2 DEF TickDrain
  <2>4. inflight' \in BOOLEAN /\ panicked' \in BOOLEAN /\ ticking' \in BOOLEAN
    BY <1>2 DEF TickDrain, TypeOK
  <2> QED
    BY <1>2, <2>1, <2>3, <2>4, DrainType DEF TickDrain, TypeOK
<1>3. CASE TickRetry
  <2>1. CASE outboxPending /\ ~inflight
    BY <1>3, <2>1, StartSendType DEF TickRetry, TypeOK, Task, Answers
  <2>2. CASE ~(outboxPending /\ ~inflight)
    BY <1>3, <2>2 DEF TickRetry, TypeOK
  <2> QED
    BY <2>1, <2>2
<1> QED
  BY <1>1, <1>2, <1>3

(* One answer of the server to one task. *)
LEMMA AnswerType ==
    ASSUME TypeOK, NEW t \in Tasks, NEW a \in Answers, Answer(t, a)
    PROVE  tasks' \in [Tasks -> Task]
<1>1. tasks \in [Tasks -> Task] /\ tasks[t] \in Task
  BY DEF TypeOK, Task, Answers
<1>2. tasks' = [tasks EXCEPT ![t] = [tasks[t] EXCEPT !.at = "answered", !.answer = a]]
  BY DEF Answer
<1>3. [tasks[t] EXCEPT !.at = "answered", !.answer = a] \in Task
  BY <1>1 DEF Task
<1> QED
  BY <1>1, <1>2, <1>3

LEMMA CountType ==
    ASSUME TypeOK, NEW d, Count(d)
    PROVE  accepted' \in [Drafts -> 0..MaxAccepts]
BY BoundsAssumption DEF TypeOK, Count

LEMMA TaskType ==
    ASSUME TypeOK, NEW t \in Tasks, TaskStep(t)
    PROVE  TypeOK'
<1>0. /\ tasks \in [Tasks -> Task] /\ tasks[t] \in Task /\ FreeTask \in Task
      /\ "ok" \in Answers /\ "error" \in Answers
  BY DEF TypeOK, Task, Answers, FreeTask, Contents
<1>1. CASE Accept(t)
  <2>1. tasks' \in [Tasks -> Task] /\ accepted' \in [Drafts -> 0..MaxAccepts]
    BY <1>0, <1>1, AnswerType, CountType DEF Accept
  <2> QED
    BY <1>1, <2>1 DEF Accept, Answer, mainVars, TypeOK, Task, Answers
<1>2. CASE Refuse(t)
  <2>1. tasks' \in [Tasks -> Task]
    BY <1>0, <1>2, AnswerType DEF Refuse
  <2>2. failures' \in 0..MaxFailures
    BY <1>2, BoundsAssumption DEF Refuse, TypeOK
  <2> QED
    BY <1>2, <2>1, <2>2 DEF Refuse, Answer, mainVars, TypeOK, Task, Answers
<1>3. CASE LoseAnswer(t)
  <2>1. tasks' \in [Tasks -> Task] /\ accepted' \in [Drafts -> 0..MaxAccepts]
    BY <1>0, <1>3, AnswerType, CountType DEF LoseAnswer
  <2>2. failures' \in 0..MaxFailures
    BY <1>3, BoundsAssumption DEF LoseAnswer, TypeOK
  <2> QED
    BY <1>3, <2>1, <2>2 DEF LoseAnswer, Answer, mainVars, TypeOK, Task, Answers
<1>4. CASE Publish(t)
  <2>1. tasks' = [tasks EXCEPT ![t] = [tasks[t] EXCEPT !.at = "published"]]
    BY <1>4 DEF Publish
  <2>2. [tasks[t] EXCEPT !.at = "published"] \in Task
    BY <1>0 DEF Task
  <2>3. tasks' \in [Tasks -> Task]
    BY <1>0, <2>1, <2>2
  <2>4. slot' \in [answer: Answers, draft: Contents]
    BY <1>0, <1>4 DEF Publish, Task
  <2> QED
    BY <1>4, <2>3, <2>4 DEF Publish, mainVars, TypeOK, Task, Answers
<1>5. CASE Release(t)
  <2>1. tasks' \in [Tasks -> Task]
    BY <1>0, <1>5 DEF Release
  <2> QED
    BY <1>5, <2>1 DEF Release, mainVars, TypeOK, Task, Answers
<1>6. CASE Panic(t)
  <2>1. tasks' \in [Tasks -> Task]
    BY <1>0, <1>6 DEF Panic
  <2>2. panics' \in 0..MaxPanics
    BY <1>6, BoundsAssumption DEF Panic, TypeOK
  <2> QED
    BY <1>6, <2>1, <2>2 DEF Panic, mainVars, TypeOK, Task, Answers
<1> QED
  BY <1>1, <1>2, <1>3, <1>4, <1>5, <1>6 DEF TaskStep

LEMMA TypeStep == TypeOK /\ [Next]_vars => TypeOK'
<1> SUFFICES ASSUME TypeOK, [Next]_vars PROVE TypeOK'
  OBVIOUS
<1>1. CASE UNCHANGED vars
  BY <1>1 DEF vars, mainVars, TypeOK
<1> QED
  BY <1>1, UserType, TickType, TaskType DEF Next

(* Type correctness. *)
THEOREM OutboxType == Spec => []TypeOK
BY InitType, TypeStep, PTL DEF Spec

-----------------------------------------------------------------------------
(* The flag goes up with the one task that starts. *)
LEMMA StartSendFlag ==
    ASSUME TypeOK, FlagInv, StartSend, panicked' = panicked
    PROVE  FlagInv'
<1>1. PICK t \in Tasks :
          tasks' = [tasks EXCEPT ![t] =
                       [at |-> "sending", answer |-> "none", draft |-> compose]]
  BY DEF StartSend
<1>2. ~inflight /\ inflight' = TRUE
  BY DEF StartSend
<1>3. \A u \in Tasks : ~Running(u)
  BY <1>2 DEF FlagInv, OneSendAtATime
<1>4. ~panicked /\ ~panicked'
  BY <1>2 DEF FlagInv
<1>5. \A u \in Tasks : Running(u)' => u = t
  BY <1>1, <1>3 DEF Running, TypeOK
<1> QED
  BY <1>2, <1>4, <1>5 DEF FlagInv, OneSendAtATime

(* A task that stays up, and one that goes down. *)
LEMMA SameRunning ==
    ASSUME FlagInv, UNCHANGED <<inflight, panicked>>,
           \A u \in Tasks : Running(u)' => Running(u)
    PROVE  FlagInv'
BY DEF FlagInv, OneSendAtATime

LEMMA OnlyDown ==
    ASSUME TypeOK, FlagInv, NEW t \in Tasks, Running(t),
           tasks' = [tasks EXCEPT ![t] = FreeTask]
    PROVE  \A u \in Tasks : ~Running(u)'
<1>1. \A u \in Tasks : u # t => ~Running(u)
  BY DEF FlagInv, OneSendAtATime
<1>2. \A u \in Tasks : u # t => tasks'[u] = tasks[u]
  BY DEF TypeOK
<1>3. tasks'[t].at = "free"
  BY DEF TypeOK, FreeTask
<1> QED
  BY <1>1, <1>2, <1>3 DEF Running

LEMMA TaskFlag ==
    ASSUME TypeOK, FlagInv, NEW t \in Tasks, TaskStep(t)
    PROVE  FlagInv'
<1>1. ASSUME NEW a, Answer(t, a) PROVE FlagInv'
  <2>1. \A u \in Tasks : Running(u)' => Running(u)
    BY <1>1 DEF Answer, Running, TypeOK
  <2> QED
    BY <1>1, <2>1, SameRunning DEF Answer
<1>2. CASE Publish(t)
  <2>1. \A u \in Tasks : Running(u)' => Running(u)
    BY <1>2 DEF Publish, Running, TypeOK
  <2> QED
    BY <1>2, <2>1, SameRunning DEF Publish
<1>3. CASE Release(t)
  <2>1. Running(t) /\ ~panicked
    BY <1>3 DEF Release, Running, FlagInv
  <2>2. \A u \in Tasks : ~Running(u)'
    BY <1>3, <2>1, OnlyDown DEF Release
  <2> QED
    BY <1>3, <2>1, <2>2 DEF Release, FlagInv, OneSendAtATime
<1>4. CASE Panic(t)
  <2>1. Running(t) /\ inflight
    BY <1>4 DEF Panic, Running, FlagInv, OneSendAtATime
  <2>2. \A u \in Tasks : ~Running(u)'
    BY <1>4, <2>1, OnlyDown DEF Panic
  <2> QED
    BY <1>4, <2>1, <2>2 DEF Panic, FlagInv, OneSendAtATime
<1> QED
  BY <1>1, <1>2, <1>3, <1>4 DEF TaskStep, Accept, Refuse, LoseAnswer

LEMMA FlagStep == TypeOK /\ FlagInv /\ [Next]_vars => FlagInv'
<1> SUFFICES ASSUME TypeOK, FlagInv, [Next]_vars PROVE FlagInv'
  OBVIOUS
<1>1. CASE NewCompose \/ LeaveCompose \/ \E d \in Drafts : Write(d)
  BY <1>1 DEF NewCompose, LeaveCompose, Write, FlagInv, OneSendAtATime, Running
<1>2. CASE PressSend
  BY <1>2, StartSendFlag DEF PressSend
<1>3. CASE Render
  BY <1>3 DEF Render, FlagInv, OneSendAtATime, Running
<1>4. CASE TickDrain
  BY <1>4 DEF TickDrain, FlagInv, OneSendAtATime, Running
<1>5. CASE TickRetry
  <2>1. CASE outboxPending /\ ~inflight
    BY <1>5, <2>1, StartSendFlag DEF TickRetry
  <2>2. CASE ~(outboxPending /\ ~inflight)
    BY <1>5, <2>2 DEF TickRetry, FlagInv, OneSendAtATime, Running
  <2> QED
    BY <2>1, <2>2
<1>6. CASE UNCHANGED vars
  BY <1>6 DEF vars, mainVars, FlagInv, OneSendAtATime, Running
<1> QED
  BY <1>1, <1>2, <1>3, <1>4, <1>5, <1>6, TaskFlag DEF Next

(* However the button, the retries, panics and their release fall, one send  *)
(* runs at a time, and while it runs the flag that refuses another is up.    *)
THEOREM OneSend == Spec => []OneSendAtATime
<1>1. Init => FlagInv
  BY DEF Init, FlagInv, OneSendAtATime, Running, FreeTask
<1>2. FlagInv => OneSendAtATime
  BY DEF FlagInv
<1> QED
  BY <1>1, <1>2, InitType, TypeStep, FlagStep, PTL DEF Spec

-----------------------------------------------------------------------------
(* Calm settings.  Each draft the user has pressed "send" on is in one       *)
(* place: with the server, with a task that has still to answer, in the slot *)
(* or, for the retry, in the compose view.  Until the server has accepted    *)
(* it, it has never accepted it.                                             *)
Talking(t) == tasks[t].at \in {"sending", "answered"}
AcceptedBy(answer, d) == d \in Drafts => accepted[d] = IF answer = "ok" THEN 1 ELSE 0

AcceptedInv ==
    \A d \in Drafts : accepted[d] \in {0, 1} /\ (accepted[d] = 1 => d \in pressed)

TalkInv ==
    \A t \in Tasks : Talking(t) =>
        /\ tasks[t].draft \in pressed /\ pending = tasks[t].draft
        /\ slot = NoResult /\ ~outboxPending /\ compose = Blank
        /\ tasks[t].at = "sending" <=> tasks[t].answer = "none"
        /\ AcceptedBy(tasks[t].answer, tasks[t].draft)

SlotInv ==
    slot # NoResult =>
        /\ slot.draft \in pressed /\ pending = slot.draft
        /\ ~outboxPending /\ compose = Blank
        /\ slot.answer # "none"
        /\ AcceptedBy(slot.answer, slot.draft)

ComposeInv ==
    IF outboxPending THEN compose \in pressed /\ AcceptedBy("none", compose)
                     ELSE compose \in Drafts => compose \notin pressed

KeptInv ==
    \A d \in pressed \cap Drafts :
        \/ accepted[d] = 1
        \/ \E t \in Tasks : Talking(t) /\ tasks[t].draft = d
        \/ slot # NoResult /\ slot.draft = d
        \/ outboxPending /\ compose = d

PlacesInv == AcceptedInv /\ TalkInv /\ SlotInv /\ ComposeInv /\ KeptInv
CalmInv == calm => ~panicked /\ PlacesInv

LEMMA StartSendCalm ==
    ASSUME TypeOK, FlagInv, PlacesInv, StartSend, slot = NoResult,
           AcceptedBy("none", compose), pressed' = pressed \cup {compose},
           UNCHANGED <<slot, accepted>>
    PROVE  PlacesInv'
<1>1. PICK t \in Tasks :
          tasks' = [tasks EXCEPT ![t] =
                       [at |-> "sending", answer |-> "none", draft |-> compose]]
  BY DEF StartSend
<1>2. \A u \in Tasks : ~Running(u)
  BY DEF StartSend, FlagInv, OneSendAtATime
<1>3. /\ tasks'[t] = [at |-> "sending", answer |-> "none", draft |-> compose]
      /\ \A u \in Tasks : Talking(u)' => u = t
      /\ \A u \in Tasks : ~Talking(u)
  BY <1>1, <1>2 DEF Talking, Running, TypeOK
<1>4. Talking(t)'
  BY <1>3 DEF Talking
<1>5. /\ compose' = Blank /\ ~outboxPending' /\ pending' = compose
      /\ Blank \notin Drafts
  BY DraftsAssumption DEF StartSend
<1>6. AcceptedInv'
  BY DEF PlacesInv, AcceptedInv
<1>7. TalkInv'
  BY <1>3, <1>5 DEF TalkInv, AcceptedBy
<1>8. SlotInv' /\ ComposeInv'
  BY <1>5 DEF SlotInv, ComposeInv
<1>9. KeptInv'
  <2> SUFFICES ASSUME NEW d \in (pressed \cap Drafts)', accepted[d] # 1
               PROVE  Talking(t)' /\ tasks'[t].draft = d
    BY DEF KeptInv
  <2>1. CASE d = compose
    BY <1>3, <1>4, <2>1
  <2>2. CASE d # compose
    BY <1>3, <2>2 DEF PlacesInv, KeptInv
  <2> QED
    BY <2>1, <2>2
<1> QED
  BY <1>6, <1>7, <1>8, <1>9 DEF PlacesInv

LEMMA UserCalm ==
    ASSUME TypeOK, FlagInv, CalmInv, calm,
           NewCompose \/ LeaveCompose \/ PressSend \/ (\E d \in Drafts : Write(d))
    PROVE  PlacesInv' /\ UNCHANGED panicked
<1>1. /\ ~outboxPending /\ slot = NoResult /\ ~inflight /\ PlacesInv
  BY DEF NewCompose, LeaveCompose, PressSend, Write, UserTurn, Unsettled, CalmInv
<1>2. \A t \in Tasks : ~Talking(t)
  BY <1>1 DEF FlagInv, OneSendAtATime, Running, Talking
<1>3. CASE NewCompose \/ LeaveCompose \/ \E d \in Drafts : Write(d)
  <2>1. compose' \in Drafts => compose' \notin pressed
    BY <1>1, <1>3, DraftsAssumption DEF NewCompose, LeaveCompose, Write, PlacesInv, ComposeInv
  <2>2. UNCHANGED <<tasks, slot, outboxPending, accepted, pressed, panicked>>
    BY <1>3 DEF NewCompose, LeaveCompose, Write
  <2>3. \A t \in Tasks : ~Talking(t)'
    BY <1>2, <2>2 DEF Talking
  <2> QED
    BY <1>1, <1>2, <2>1, <2>2, <2>3
       DEF PlacesInv, AcceptedInv, TalkInv, SlotInv, ComposeInv, KeptInv
<1>4. CASE PressSend
  <2>1. AcceptedBy("none", compose)
    BY <1>1 DEF PlacesInv, ComposeInv, AcceptedInv, AcceptedBy
  <2> QED
    BY <1>1, <1>4, <2>1, StartSendCalm DEF PressSend
<1> QED
  BY <1>3, <1>4

(* The result in the slot goes: to the server's account, or back to the      *)
(* compose view for the retry.                                               *)
LEMMA DrainCalm ==
    ASSUME TypeOK, FlagInv, CalmInv, calm, TickDrain
    PROVE  PlacesInv' /\ ~panicked'
<1>0. PlacesInv /\ ~panicked'
  BY DEF CalmInv, TickDrain
<1>1. slot' = NoResult /\ UNCHANGED <<tasks, accepted, pressed>> /\ Drain
  BY DEF TickDrain
<1>2. CASE slot = NoResult
  <2>1. UNCHANGED <<compose, outboxPending, pending, slot>>
    BY <1>1, <1>2 DEF Drain, NoResult
  <2> QED
    BY <1>0, <1>1, <2>1
       DEF PlacesInv, AcceptedInv, TalkInv, SlotInv, ComposeInv, KeptInv, Talking, AcceptedBy
<1>3. CASE slot # NoResult
  <2>1. /\ slot.draft \in pressed /\ pending = slot.draft
        /\ ~outboxPending /\ compose = Blank /\ slot.answer # "none"
        /\ AcceptedBy(slot.answer, slot.draft)
    BY <1>0, <1>3 DEF PlacesInv, SlotInv
  <2>2. \A t \in Tasks : ~Talking(t) /\ ~Talking(t)'
    BY <1>0, <1>1, <1>3 DEF PlacesInv, TalkInv, Talking
  <2>3. AcceptedInv' /\ TalkInv' /\ SlotInv'
    BY <1>0, <1>1, <2>2 DEF PlacesInv, AcceptedInv, TalkInv, SlotInv
  <2>4. CASE slot.answer = "ok"
    <3>1. ~outboxPending' /\ compose' = Blank
      BY <1>1, <2>1, <2>4 DEF Drain
    <3>2. ComposeInv'
      BY <3>1, DraftsAssumption DEF ComposeInv
    <3>3. KeptInv'
      BY <1>0, <1>1, <2>1, <2>2, <2>4 DEF PlacesInv, KeptInv, AcceptedBy
    <3> QED
      BY <1>0, <2>3, <3>2, <3>3 DEF PlacesInv
  <2>5. CASE slot.answer = "error"
    <3>1. pending # None
      BY <2>1, DraftsAssumption DEF TypeOK, None, Contents
    <3>2. outboxPending' /\ compose' = slot.draft
      BY <1>1, <2>1, <2>5, <3>1 DEF Drain
    <3>3. ComposeInv'
      BY <1>1, <2>1, <2>5, <3>2 DEF ComposeInv, AcceptedBy
    <3>4. KeptInv'
      BY <1>0, <1>1, <2>1, <2>2, <3>2 DEF PlacesInv, KeptInv
    <3> QED
      BY <1>0, <2>3, <3>3, <3>4 DEF PlacesInv
  <2> QED
    BY <2>1, <2>4, <2>5 DEF TypeOK
<1> QED
  BY <1>2, <1>3

LEMMA RetryCalm ==
    ASSUME TypeOK, FlagInv, CalmInv, calm, TickRetry
    PROVE  PlacesInv' /\ UNCHANGED panicked
<1>0. PlacesInv /\ UNCHANGED <<slot, accepted, pressed, panicked>>
  BY DEF CalmInv, TickRetry
<1>1. CASE outboxPending /\ ~inflight
  <2>1. compose \in pressed /\ AcceptedBy("none", compose) /\ slot = NoResult
    BY <1>0, <1>1 DEF PlacesInv, ComposeInv, SlotInv
  <2>2. pressed' = pressed \cup {compose}
    BY <1>0, <2>1
  <2> QED
    BY <1>0, <1>1, <2>1, <2>2, StartSendCalm DEF TickRetry
<1>2. CASE ~(outboxPending /\ ~inflight)
  BY <1>0, <1>2
     DEF TickRetry, PlacesInv, AcceptedInv, TalkInv, SlotInv, ComposeInv, KeptInv, Talking,
         AcceptedBy
<1> QED
  BY <1>1, <1>2

(* The server's answer: the draft stays with its task.                       *)
LEMMA AnswerCalm ==
    ASSUME TypeOK, FlagInv, PlacesInv, NEW t \in Tasks, NEW a \in {"ok", "error"},
           Answer(t, a),
           \A d \in Drafts : accepted'[d] =
               IF a = "ok" /\ d = tasks[t].draft THEN accepted[d] + 1 ELSE accepted[d]
    PROVE  PlacesInv'
<1>1. /\ Talking(t) /\ Running(t) /\ tasks[t].at = "sending"
      /\ UNCHANGED <<slot, outboxPending, compose, pending, pressed>>
  BY DEF Answer, Talking, Running, mainVars
<1>2. /\ tasks[t].draft \in pressed /\ pending = tasks[t].draft
      /\ slot = NoResult /\ ~outboxPending /\ compose = Blank
      /\ tasks[t].answer = "none" /\ AcceptedBy("none", tasks[t].draft)
  BY <1>1 DEF PlacesInv, TalkInv, AcceptedBy
<1>3. /\ tasks'[t].at = "answered" /\ tasks'[t].answer = a /\ tasks'[t].draft = tasks[t].draft
      /\ \A u \in Tasks : u # t => tasks'[u] = tasks[u]
  BY DEF Answer, TypeOK
<1>4. \A u \in Tasks : Talking(u) \/ Talking(u)' => u = t
  BY <1>1, <1>3 DEF FlagInv, OneSendAtATime, Running, Talking
<1>5. AcceptedInv'
  BY <1>1, <1>2 DEF PlacesInv, AcceptedInv, AcceptedBy
<1>6. AcceptedBy(a, tasks[t].draft)'
  BY <1>2, <1>3 DEF AcceptedBy
<1>7. TalkInv'
  BY <1>1, <1>2, <1>3, <1>4, <1>6 DEF TalkInv, AcceptedBy
<1>8. SlotInv' /\ ComposeInv'
  BY <1>1, <1>2, DraftsAssumption DEF SlotInv, ComposeInv
<1>9. KeptInv'
  <2> SUFFICES ASSUME NEW d \in pressed \cap Drafts, accepted'[d] # 1
               PROVE  \E u \in Tasks : Talking(u)' /\ tasks'[u].draft = d
    BY <1>1 DEF KeptInv
  <2>1. accepted[d] # 1
    BY <1>2 DEF AcceptedBy
  <2>2. tasks[t].draft = d
    BY <1>2, <1>4, <2>1 DEF PlacesInv, KeptInv
  <2> QED
    BY <1>3, <2>2 DEF Talking
<1> QED
  BY <1>5, <1>7, <1>8, <1>9 DEF PlacesInv

LEMMA TaskCalm ==
    ASSUME TypeOK, FlagInv, CalmInv, calm, NEW t \in Tasks, TaskStep(t)
    PROVE  PlacesInv' /\ UNCHANGED panicked
<1>0. PlacesInv /\ ~Panic(t) /\ ~LoseAnswer(t)
  BY DEF CalmInv, Panic, LoseAnswer
<1>1. CASE Accept(t)
  <2>1. Answer(t, "ok") /\ \A d \in Drafts : accepted'[d] =
               IF d = tasks[t].draft THEN accepted[d] + 1 ELSE accepted[d]
    BY <1>1 DEF Accept, Count, TypeOK
  <2> QED
    BY <1>0, <2>1, AnswerCalm DEF Answer
<1>2. CASE Refuse(t)
  BY <1>0, <1>2, AnswerCalm DEF Refuse, Answer
<1>3. CASE Publish(t)
  <2>1. /\ Talking(t) /\ Running(t)
        /\ UNCHANGED <<outboxPending, compose, pending, pressed, accepted, panicked>>
        /\ slot' = [answer |-> tasks[t].answer, draft |-> tasks[t].draft]
    BY <1>3 DEF Publish, Talking, Running, mainVars
  <2>2. /\ tasks[t].draft \in pressed /\ pending = tasks[t].draft
        /\ ~outboxPending /\ compose = Blank
        /\ tasks[t].answer # "none" /\ AcceptedBy(tasks[t].answer, tasks[t].draft)
    BY <1>0, <1>3, <2>1 DEF PlacesInv, TalkInv, Publish
  <2>3. \A u \in Tasks : ~Talking(u)' /\ (Talking(u) => u = t)
    BY <1>3, <2>1 DEF FlagInv, OneSendAtATime, Running, Talking, Publish, TypeOK
  <2>4. slot' # NoResult
    BY <2>1, <2>2 DEF NoResult
  <2>5. AcceptedInv' /\ TalkInv' /\ ComposeInv'
    BY <1>0, <2>1, <2>2, <2>3, DraftsAssumption DEF PlacesInv, AcceptedInv, TalkInv, ComposeInv
  <2>6. SlotInv'
    BY <2>1, <2>2 DEF SlotInv, AcceptedBy
  <2>7. slot = NoResult
    BY <1>0, <2>1 DEF PlacesInv, TalkInv
  <2>8. KeptInv'
    BY <1>0, <2>1, <2>2, <2>3, <2>4, <2>7 DEF PlacesInv, KeptInv
  <2> QED
    BY <2>1, <2>5, <2>6, <2>8 DEF PlacesInv
<1>4. CASE Release(t)
  <2>1. \A u \in Tasks : ~Talking(u) /\ ~Talking(u)'
    BY <1>4 DEF FlagInv, OneSendAtATime, Running, Talking, Release, TypeOK, FreeTask
  <2> QED
    BY <1>0, <1>4, <2>1
       DEF Release, mainVars, PlacesInv, AcceptedInv, TalkInv, SlotInv, ComposeInv, KeptInv,
           AcceptedBy
<1> QED
  BY <1>0, <1>1, <1>2, <1>3, <1>4 DEF TaskStep

LEMMA CalmStep == TypeOK /\ FlagInv /\ CalmInv /\ [Next]_vars => CalmInv'
<1> SUFFICES ASSUME TypeOK, FlagInv, CalmInv, [Next]_vars, calm'
             PROVE  ~panicked' /\ PlacesInv'
  BY DEF CalmInv
<1>1. UNCHANGED calm
  BY DEF Next, vars, mainVars, NewCompose, LeaveCompose, PressSend, Write, Render, TickDrain,
         TickRetry, TaskStep, Accept, Refuse, LoseAnswer, Answer, Publish, Release, Panic
<1>2. calm /\ ~panicked /\ PlacesInv
  BY <1>1 DEF CalmInv
<1>3. CASE UNCHANGED vars
  BY <1>2, <1>3
     DEF vars, mainVars, PlacesInv, AcceptedInv, TalkInv, SlotInv, ComposeInv, KeptInv, Talking,
         AcceptedBy
<1>4. CASE Render
  BY <1>2, <1>4 DEF Render
<1> QED
  BY <1>2, <1>3, <1>4, UserCalm, DrainCalm, RetryCalm, TaskCalm DEF Next

LEMMA CalmInit == Init => CalmInv
BY DraftsAssumption
   DEF Init, CalmInv, PlacesInv, AcceptedInv, TalkInv, SlotInv, ComposeInv, KeptInv, Talking,
       FreeTask

LEMMA CalmHolds == Spec => [](TypeOK /\ FlagInv /\ CalmInv)
<1>1. Init => FlagInv
  BY DEF Init, FlagInv, OneSendAtATime, Running, FreeTask
<1> QED
  BY <1>1, InitType, TypeStep, FlagStep, CalmInit, CalmStep, PTL DEF Spec

(* In calm settings a draft the user pressed "send" on is never lost between *)
(* the compose view, the task, the slot and the retry of tick.               *)
THEOREM DraftsKept == Spec => []CalmKeepsDrafts
<1>1. CalmInv => CalmKeepsDrafts
  <2> SUFFICES ASSUME CalmInv, calm, NEW d \in pressed \cap Drafts
               PROVE  \/ accepted[d] > 0
                      \/ \E t \in Tasks : Running(t) /\ tasks[t].draft = d
                      \/ (slot.draft = d \/ panicked) /\ pending = d
                      \/ compose = d
    BY DEF CalmKeepsDrafts, NoDraftLost
  <2>1. PlacesInv
    BY DEF CalmInv
  <2> QED
    BY <2>1 DEF PlacesInv, KeptInv, SlotInv, Talking, Running
<1> QED
  BY <1>1, CalmHolds, PTL

(* In calm settings the server accepts no draft twice, although every        *)
(* failure is retried.                                                       *)
THEOREM SendsOnce == Spec => []CalmSendsOnce
<1>1. CalmInv => CalmSendsOnce
  BY DEF CalmInv, PlacesInv, AcceptedInv, CalmSendsOnce, SentOnce
<1> QED
  BY <1>1, CalmHolds, PTL

(* In calm settings what a retry sends is what the user pressed "send" on.   *)
THEOREM RetriesPressed == Spec => []CalmRetriesPressed
<1>1. CalmInv => CalmRetriesPressed
  BY DEF CalmInv, PlacesInv, ComposeInv, CalmRetriesPressed
<1> QED
  BY <1>1, CalmHolds, PTL

=============================================================================
