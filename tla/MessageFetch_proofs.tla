------------------------- MODULE MessageFetch_proofs --------------------------
(* Proofs about MessageFetch, for any messages, tasks and answers, of bodies  *)
(* and of histories: its type and that what is shown is what was asked for,  *)
(* with a user who may open any message at any time; and, with one who waits *)
(* for a message before opening the next, that the key names a fetch under   *)
(* way.                                                                      *)
EXTENDS MessageFetch, TLAPS

LEMMA TaskTypes ==
    ASSUME TypeOK
    PROVE  /\ tasks \in [Tasks -> Task] /\ slot \in Result
           /\ \A t \in Tasks : tasks[t] \in Task
           /\ FreeTask \in Task /\ NoResult \in Result /\ NoMessage \in Optional
           /\ LiveKey \in Optional
BY DEF TypeOK, FreeTask, NoResult, Task, Result, Optional, LiveKey

LEMMA InitType == Init => TypeOK
<1> SUFFICES ASSUME Init PROVE TypeOK
  OBVIOUS
<1>1. FreeTask \in Task /\ NoResult \in Result /\ NoMessage \in Optional
  BY DEF FreeTask, NoResult, Task, Result, Optional
<1>2. tasks \in [Tasks -> Task] /\ slot \in Result
  BY <1>1 DEF Init
<1>3. /\ path \in Optional /\ body \in Optional
      /\ fetchKey \in Optional /\ detail \in Optional /\ failed \in Optional
      /\ panicked \in BOOLEAN /\ bgCompleted \in BOOLEAN /\ redraw \in BOOLEAN
  BY <1>1 DEF Init
<1>4. /\ patient \in Patience /\ kind \in {"message", "history"}
      /\ view \in Views /\ panics \in 0..MaxPanics
  BY BoundAssumption DEF Init, Views
<1> QED
  BY <1>2, <1>3, <1>4 DEF TypeOK

(* What the outcomes of a render leave: a spawned fetch, a settled one. *)
LEMMA SpawnType ==
    ASSUME TypeOK, NEW m \in Messages, Spawn(m)
    PROVE  tasks' \in [Tasks -> Task] /\ fetchKey' \in Optional
<1>1. [at |-> "queued", key |-> m, answer |-> "none"] \in Task
  BY DEF Task, Optional
<1> QED
  BY <1>1, TaskTypes DEF Spawn, Optional

LEMMA SettleType ==
    ASSUME TypeOK, NEW m \in Messages, Settle(m)
    PROVE  tasks' \in [Tasks -> Task] /\ fetchKey' \in Optional
BY TaskTypes DEF Settle, KeyAfter

LEMMA AwaitType ==
    ASSUME TypeOK, NEW m \in Messages, Await(m)
    PROVE  /\ tasks' \in [Tasks -> Task] /\ fetchKey' \in Optional
           /\ view' \in Views /\ body' \in Optional
<1>1. tasks' \in [Tasks -> Task] /\ fetchKey' \in Optional
  BY SpawnType, TaskTypes DEF Await, TypeOK
<1> QED
  BY <1>1, TaskTypes DEF Await, Show, Views

LEMMA DrainType ==
    ASSUME TypeOK, NEW m \in Messages, Drain(m)
    PROVE  /\ slot' \in Result /\ detail' \in Optional
           /\ panicked' \in BOOLEAN /\ bgCompleted' \in BOOLEAN
BY TaskTypes DEF Drain, TypeOK, Optional

LEMMA ResolveType ==
    ASSUME TypeOK, NEW m \in Messages, Resolve(m)
    PROVE  /\ view' \in Views /\ body' \in Optional
           /\ fetchKey' \in Optional /\ detail' \in Optional /\ failed' \in Optional
           /\ slot' \in Result /\ tasks' \in [Tasks -> Task]
           /\ panicked' \in BOOLEAN /\ bgCompleted' \in BOOLEAN
<1>1. /\ slot' \in Result /\ detail' \in Optional
      /\ panicked' \in BOOLEAN /\ bgCompleted' \in BOOLEAN
  BY DrainType DEF Resolve
<1>2. m \in Optional /\ failed \in Optional
  BY DEF Optional, TypeOK
<1>3. /\ tasks' \in [Tasks -> Task] /\ fetchKey' \in Optional
      /\ view' \in Views /\ body' \in Optional
  <2>1. CASE Await(m)
    BY <2>1, AwaitType
  <2>2. CASE Settle(m) /\ \/ Show("missing", NoMessage) \/ Show("failed", NoMessage)
                          \/ Show("ready", detail') \/ Show("ready", m)
    BY <1>1, <1>2, <2>2, SettleType, TaskTypes DEF Show, Views
  <2> QED
    BY <2>1, <2>2 DEF Resolve, ResolveMessage, BuildHistory, Known
<1>4. failed' \in Optional
  BY <1>2, TaskTypes DEF Resolve, ResolveMessage, BuildHistory
<1> QED
  BY <1>1, <1>3, <1>4

LEMMA TaskStepType ==
    ASSUME TypeOK, NEW t \in Tasks, TaskStep(t)
    PROVE  TypeOK'
<1>0. tasks \in [Tasks -> Task] /\ tasks[t] \in Task /\ FreeTask \in Task
  BY TaskTypes
<1>1. ASSUME NEW answer \in AnswersTo, Answer(t, answer) PROVE TypeOK'
  <2>1. answer \in {"body", "none", "error"}
    BY AnswersAssumption DEF AnswersTo
  <2>2. [tasks[t] EXCEPT !.at = "answered", !.answer = answer] \in Task
    BY <1>0, <2>1 DEF Task
  <2>3. tasks' = [tasks EXCEPT ![t] = [tasks[t] EXCEPT !.at = "answered", !.answer = answer]]
    BY <1>1 DEF Answer
  <2>4. tasks' \in [Tasks -> Task]
    BY <1>0, <2>2, <2>3
  <2> QED
    BY <1>1, <2>4 DEF Answer, TypeOK, user
<1>2. CASE Publish(t)
  <2>1. [tasks[t] EXCEPT !.at = "published"] \in Task
    BY <1>0 DEF Task
  <2>2. tasks' = [tasks EXCEPT ![t] = [tasks[t] EXCEPT !.at = "published"]]
    BY <1>2 DEF Publish
  <2>3. tasks' \in [Tasks -> Task]
    BY <1>0, <2>1, <2>2
  <2>4. slot' \in Result
    BY <1>0, <1>2 DEF Publish, Task, Result
  <2> QED
    BY <1>2, <2>3, <2>4 DEF Publish, TypeOK, user
<1>3. CASE Complete(t)
  <2>1. tasks' \in [Tasks -> Task]
    BY <1>0, <1>3 DEF Complete
  <2> QED
    BY <1>3, <2>1 DEF Complete, TypeOK, user
<1>4. CASE Panic(t)
  <2>1. tasks' \in [Tasks -> Task]
    BY <1>0, <1>4 DEF Panic
  <2>2. panics' \in 0..MaxPanics
    BY <1>4, BoundAssumption DEF Panic, TypeOK, user
  <2> QED
    BY <1>4, <2>1, <2>2 DEF Panic, TypeOK, user
<1> QED
  BY <1>1, <1>2, <1>3, <1>4 DEF TaskStep

LEMMA TypeStep == TypeOK /\ [Next]_vars => TypeOK'
<1> SUFFICES ASSUME TypeOK, [Next]_vars PROVE TypeOK'
  OBVIOUS
<1>1. ASSUME NEW m \in Messages, Open(m) PROVE TypeOK'
  <2>1. Resolve(m) /\ path' \in Optional /\ UNCHANGED <<user, panics, redraw>>
    BY <1>1 DEF Open, Optional
  <2> QED
    BY <2>1, ResolveType DEF TypeOK, user
<1>2. CASE Leave
  BY <1>2, TaskTypes DEF Leave, Show, Views, TypeOK, user
<1>3. CASE Rerender
  <2>1. path \in Messages /\ Resolve(path) /\ redraw' \in BOOLEAN /\ UNCHANGED <<user, path, panics>>
    BY <1>3 DEF Rerender, TypeOK, Optional
  <2> QED
    BY <2>1, ResolveType DEF TypeOK, user
<1>4. CASE Poll
  BY <1>4, TaskTypes DEF Poll, TypeOK, user
<1>5. CASE UNCHANGED vars
  BY <1>5 DEF vars, TypeOK, user
<1> QED
  BY <1>1, <1>2, <1>3, <1>4, <1>5, TaskStepType DEF Next

(* Type correctness. *)
THEOREM MessageType == Spec => []TypeOK
BY InitType, TypeStep, PTL DEF Spec

-----------------------------------------------------------------------------
LEMMA ResolveShows ==
    ASSUME NEW m, Resolve(m), view' = "ready"
    PROVE  body' = m
BY DEF Resolve, Drain, ResolveMessage, BuildHistory, Known, Await, Show, HasBody

(* In whatever order answers arrive and wherever the user goes, a body on    *)
(* screen is that of the message on screen.                                  *)
THEOREM MessageShown == Spec => []ShownIsOpen
<1>1. Init => ShownIsOpen
  BY DEF Init, ShownIsOpen
<1>2. ShownIsOpen /\ [Next]_vars => ShownIsOpen'
  <2> SUFFICES ASSUME ShownIsOpen, [Next]_vars PROVE ShownIsOpen'
    OBVIOUS
  <2>1. ASSUME NEW m \in Messages, Open(m) PROVE ShownIsOpen'
    BY <2>1, ResolveShows DEF Open, ShownIsOpen
  <2>2. CASE Leave
    BY <2>2 DEF Leave, Show, ShownIsOpen
  <2>3. CASE Rerender
    BY <2>3, ResolveShows DEF Rerender, ShownIsOpen
  <2>4. CASE Poll
    BY <2>4 DEF Poll, ShownIsOpen
  <2>5. ASSUME NEW t \in Tasks, TaskStep(t) PROVE ShownIsOpen'
    BY <2>5 DEF TaskStep, Answer, Publish, Complete, Panic, ShownIsOpen
  <2>6. CASE UNCHANGED vars
    BY <2>6 DEF vars, ShownIsOpen
  <2> QED
    BY <2>1, <2>2, <2>3, <2>4, <2>5, <2>6 DEF Next
<1> QED
  BY <1>1, <1>2, PTL DEF Spec

-----------------------------------------------------------------------------
(* What a task brings for a history is labels: no answer of it is dropped as *)
(* a failure, after which build_history would wait for another.              *)
BodiesOnly == kind = "history" =>
    /\ slot.key # NoMessage => slot.answer = "body"
    /\ \A t \in Tasks : tasks[t].at = "answered" => tasks[t].answer = "body"

LEMMA ResolveBodies ==
    ASSUME TypeOK, BodiesOnly, NEW m, Resolve(m), UNCHANGED kind
    PROVE  BodiesOnly'
<1>1. slot'.key = NoMessage
  BY DEF Resolve, Drain, NoResult
<1>2. UNCHANGED tasks \/ Spawn(m)
  BY DEF Resolve, ResolveMessage, BuildHistory, Known, Settle, Await
<1>3. \A t \in Tasks : tasks'[t].at = "answered" => tasks'[t] = tasks[t]
  BY <1>2, TaskTypes DEF Spawn
<1> QED
  BY <1>1, <1>3 DEF BodiesOnly

LEMMA BodiesStep == TypeOK /\ BodiesOnly /\ [Next]_vars => BodiesOnly'
<1> SUFFICES ASSUME TypeOK, BodiesOnly, [Next]_vars PROVE BodiesOnly'
  OBVIOUS
<1>0. tasks \in [Tasks -> Task]
  BY TaskTypes
<1>1. ASSUME NEW m \in Messages, Open(m) PROVE BodiesOnly'
  BY <1>1, ResolveBodies DEF Open, user
<1>2. CASE Rerender
  BY <1>2, ResolveBodies DEF Rerender, user
<1>3. CASE Leave \/ Poll \/ UNCHANGED vars
  BY <1>3 DEF Leave, Poll, vars, user, BodiesOnly
<1>4. ASSUME NEW t \in Tasks, TaskStep(t) PROVE BodiesOnly'
  <2>1. ASSUME NEW answer \in AnswersTo, Answer(t, answer) PROVE BodiesOnly'
    <3>1. kind = "history" => answer = "body"
      BY DEF AnswersTo
    <3>2. \A u \in Tasks : tasks'[u].answer = IF u = t THEN answer ELSE tasks[u].answer
      BY <1>0, <2>1 DEF Answer, Task
    <3>3. \A u \in Tasks \ {t} : tasks'[u] = tasks[u]
      BY <1>0, <2>1 DEF Answer
    <3> QED
      BY <2>1, <3>1, <3>2, <3>3 DEF Answer, user, BodiesOnly
  <2>2. CASE Publish(t)
    <3>1. \A u \in Tasks : tasks'[u].at = "answered" => tasks'[u] = tasks[u]
      BY <1>0, <2>2 DEF Publish, Task
    <3>2. slot'.answer = tasks[t].answer /\ tasks[t].at = "answered"
      BY <2>2 DEF Publish
    <3> QED
      BY <2>2, <3>1, <3>2 DEF Publish, user, BodiesOnly
  <2>3. CASE Complete(t) \/ Panic(t)
    <3>1. \A u \in Tasks : tasks'[u].at = "answered" => tasks'[u] = tasks[u]
      BY <1>0, <2>3 DEF Complete, Panic, FreeTask
    <3> QED
      BY <2>3, <3>1 DEF Complete, Panic, user, BodiesOnly
  <2> QED
    BY <1>4, <2>1, <2>2, <2>3 DEF TaskStep
<1> QED
  BY <1>1, <1>2, <1>3, <1>4 DEF Next

(* There is one fetch at a time: a task that has yet to write the slot, or   *)
(* its answer in the slot, or its panic, and never two of these; the key     *)
(* names it and the message on screen waits for no other.                    *)
FetchOfKey ==
    \A t \in Tasks : Unpublished(t) =>
        tasks[t].key = fetchKey /\ fetchKey # NoMessage

AtMostOne ==
    /\ \A t, u \in Tasks : Unpublished(t) /\ Unpublished(u) => t = u
    /\ (\E t \in Tasks : Unpublished(t)) => slot.key = NoMessage /\ ~panicked
    /\ slot.key # NoMessage => ~panicked

OneFetch ==
    /\ KeyInFlight /\ FetchOfKey /\ AtMostOne
    /\ slot.key # NoMessage => slot.key = fetchKey
    /\ path # NoMessage => fetchKey \in {NoMessage, path}

(* What a render of m does to the fetch, when it waits for no other.         *)
LEMMA ResolveOne ==
    ASSUME TypeOK, BodiesOnly, OneFetch, NEW m \in Messages, Resolve(m), path' = m,
           LiveKey \in {NoMessage, m}
    PROVE  OneFetch'
<1> DEFINE key == KeyAfter(m)
<1>0. /\ m # NoMessage /\ tasks \in [Tasks -> Task]
      /\ slot.answer \in {"body", "none", "error"}
  BY MessagesAssumption, TaskTypes DEF Result
<1>1. slot'.key = NoMessage /\ panicked' = FALSE
  BY DEF Resolve, Drain, NoResult
<1>2. slot.key = m => ~ \E t \in Tasks : Unpublished(t)
  BY <1>0 DEF OneFetch, AtMostOne
<1>3. LiveKey = NoMessage =>
          slot.key # m /\ ~ \E t \in Tasks : Unpublished(t)
  BY <1>0 DEF LiveKey, OneFetch, FetchOfKey, AtMostOne
<1>4. CASE Settle(m)
  <2>1. CASE key = NoMessage
    <3>1. ~ \E t \in Tasks : Unpublished(t)
      BY <1>2, <1>3, <2>1 DEF KeyAfter
    <3>2. ~ \E t \in Tasks : Unpublished(t)'
      BY <1>4, <3>1 DEF Unpublished, Settle
    <3> QED
      BY <1>1, <1>4, <2>1, <3>2 DEF Settle, OneFetch, KeyInFlight, FetchOfKey, AtMostOne
  <2>2. CASE key # NoMessage
    <3>1. key = m /\ slot.key # m /\ fetchKey = m /\ ~panicked
      BY <1>0, <2>2 DEF KeyAfter, LiveKey
    <3>2. slot.key = NoMessage /\ \E t \in Tasks : Unpublished(t) /\ tasks[t].key = m
      BY <1>0, <3>1 DEF OneFetch, KeyInFlight
    <3> QED
      BY <1>0, <1>1, <1>4, <3>1, <3>2
         DEF Settle, OneFetch, KeyInFlight, FetchOfKey, AtMostOne, Unpublished
  <2> QED
    BY <2>1, <2>2
<1>5. CASE Await(m) /\ slot.key # m
  <2>1. key = LiveKey
    BY <1>5 DEF KeyAfter
  <2>2. CASE key = m
    <3>1. Settle(m)
      BY <1>0, <1>5, <2>1, <2>2 DEF Await, Settle, LiveKey
    <3> QED
      BY <1>4, <3>1
  <2>3. CASE key # m
    <3>1. LiveKey = NoMessage /\ Spawn(m)
      BY <1>5, <2>1, <2>3 DEF Await
    <3>2. ~ \E t \in Tasks : Unpublished(t)
      BY <1>3, <3>1
    <3>3. PICK t \in Tasks :
              tasks' = [tasks EXCEPT ![t] = [at |-> "queued", key |-> m, answer |-> "none"]]
      BY <3>1 DEF Spawn
    <3>4. tasks'[t] = [at |-> "queued", key |-> m, answer |-> "none"]
      BY <1>0, <3>3
    <3>5. \A u \in Tasks : Unpublished(u)' => u = t
      BY <1>0, <3>2, <3>3 DEF Unpublished
    <3>6. Unpublished(t)' /\ tasks'[t].key = m /\ fetchKey' = m
      BY <3>1, <3>4 DEF Unpublished, Spawn
    <3> QED
      BY <1>0, <1>1, <3>5, <3>6 DEF OneFetch, KeyInFlight, FetchOfKey, AtMostOne
  <2> QED
    BY <2>2, <2>3
<1>6. CASE kind = "message"
  <2>1. Settle(m) \/ (/\ ~Answered(m, "none") /\ ~HasBody(m) /\ ~HasFailed(m)
                      /\ Await(m))
    BY <1>6 DEF Resolve, ResolveMessage
  <2>2. ~Answered(m, "none") /\ ~HasBody(m) /\ ~HasFailed(m) => slot.key # m
    BY <1>0 DEF Answered, HasBody, HasFailed
  <2> QED
    BY <1>4, <1>5, <2>1, <2>2
<1>7. CASE kind = "history"
  <2>1. Settle(m) \/ (~HasBody(m) /\ Await(m))
    BY <1>7 DEF Resolve, BuildHistory, Known
  <2>2. ~HasBody(m) => slot.key # m
    BY <1>0, <1>7 DEF Answered, HasBody, BodiesOnly
  <2> QED
    BY <1>4, <1>5, <2>1, <2>2
<1> QED
  BY <1>6, <1>7 DEF Resolve

LEMMA TaskOne ==
    ASSUME TypeOK, OneFetch, NEW t \in Tasks, TaskStep(t)
    PROVE  OneFetch'
<1>0. tasks \in [Tasks -> Task]
  BY TaskTypes
<1>1. ASSUME NEW answer \in AnswersTo, Answer(t, answer) PROVE OneFetch'
  <2>1. \A u \in Tasks : Unpublished(u)' = Unpublished(u) /\ tasks'[u].key = tasks[u].key
    BY <1>0, <1>1 DEF Answer, Unpublished, Task
  <2> QED
    BY <1>1, <2>1 DEF Answer, OneFetch, KeyInFlight, FetchOfKey, AtMostOne
<1>2. CASE Publish(t)
  <2>1. Unpublished(t) /\ tasks[t].key = fetchKey /\ ~panicked /\ fetchKey # NoMessage
    BY <1>2 DEF Publish, Unpublished, OneFetch, FetchOfKey, AtMostOne
  <2>2. \A u \in Tasks : ~Unpublished(u)'
    BY <1>0, <1>2, <2>1 DEF Publish, Unpublished, OneFetch, AtMostOne
  <2>3. slot'.key = fetchKey /\ UNCHANGED <<path, fetchKey, panicked>>
    BY <1>2, <2>1 DEF Publish
  <2> QED
    BY <2>1, <2>2, <2>3 DEF OneFetch, KeyInFlight, FetchOfKey, AtMostOne
<1>3. CASE Complete(t)
  <2>1. \A u \in Tasks : (Unpublished(u)' => Unpublished(u))
                       /\ (Unpublished(u) => Unpublished(u)' /\ tasks'[u] = tasks[u])
    BY <1>0, <1>3 DEF Complete, Unpublished, FreeTask
  <2> QED
    BY <1>3, <2>1 DEF Complete, OneFetch, KeyInFlight, FetchOfKey, AtMostOne
<1>4. CASE Panic(t)
  <2>1. Unpublished(t) /\ slot.key = NoMessage
    BY <1>4 DEF Panic, Unpublished, OneFetch, AtMostOne
  <2>2. \A u \in Tasks : ~Unpublished(u)'
    BY <1>0, <1>4, <2>1 DEF Panic, Unpublished, FreeTask, OneFetch, AtMostOne
  <2>3. slot'.key = NoMessage /\ panicked' /\ UNCHANGED <<path, fetchKey>>
    BY <1>4, <2>1 DEF Panic
  <2> QED
    BY <2>2, <2>3 DEF OneFetch, KeyInFlight, FetchOfKey, AtMostOne
<1> QED
  BY <1>1, <1>2, <1>3, <1>4 DEF TaskStep

LEMMA OneFetchStep ==
    TypeOK /\ BodiesOnly /\ (patient => OneFetch) /\ [Next]_vars => (patient => OneFetch)'
<1> SUFFICES ASSUME TypeOK, BodiesOnly, patient => OneFetch, [Next]_vars, patient'
             PROVE  OneFetch'
  OBVIOUS
<1>0. patient /\ OneFetch
  BY DEF Next, vars, user, Open, Leave, Rerender, Poll, TaskStep, Answer, Publish, Complete, Panic
<1>1. ASSUME NEW m \in Messages, Open(m) PROVE OneFetch'
  BY <1>0, <1>1, ResolveOne DEF Open
<1>2. CASE Leave
  BY <1>0, <1>2 DEF Leave, OneFetch, KeyInFlight, FetchOfKey, AtMostOne, Unpublished
<1>3. CASE Rerender
  <2>1. path \in Messages /\ Resolve(path) /\ path' = path
    BY <1>3 DEF Rerender, TypeOK, Optional
  <2>2. LiveKey \in {NoMessage, path}
    BY <1>0, <1>3 DEF Rerender, OneFetch, LiveKey
  <2> QED
    BY <1>0, <2>1, <2>2, ResolveOne
<1>4. CASE Poll
  BY <1>0, <1>4 DEF Poll, LiveKey, OneFetch, KeyInFlight, FetchOfKey, AtMostOne, Unpublished
<1>5. CASE UNCHANGED vars
  BY <1>0, <1>5 DEF vars, OneFetch, KeyInFlight, FetchOfKey, AtMostOne, Unpublished
<1> QED
  BY <1>0, <1>1, <1>2, <1>3, <1>4, <1>5, TaskOne DEF Next

(* With a user who opens no message while another's fetch is awaited, the    *)
(* key always names a fetch under way: its answer, or its panic, will come.  *)
THEOREM MessageKey == Spec => []KeyInFlightIfPatient
<1>1. Init => OneFetch
  BY DEF Init, OneFetch, KeyInFlight, FetchOfKey, AtMostOne, Unpublished, FreeTask, NoResult
<1>2. (patient => OneFetch) => KeyInFlightIfPatient
  BY DEF OneFetch, KeyInFlightIfPatient
<1>3. Init => BodiesOnly
  BY DEF Init, BodiesOnly, FreeTask, NoResult
<1> QED
  BY <1>1, <1>2, <1>3, InitType, TypeStep, BodiesStep, OneFetchStep, PTL DEF Spec

-----------------------------------------------------------------------------
(* A failure on screen is that of the message on screen, and is remembered;  *)
(* no history fails.                                                         *)
FailureKept == view = "failed" => kind = "message" /\ failed = path

LEMMA ResolveFailure ==
    ASSUME NEW m, Resolve(m), path' = m, UNCHANGED kind
    PROVE  FailureKept'
BY DEF Resolve, ResolveMessage, BuildHistory, Known, Await, Show, FailureKept

LEMMA FailureStep == FailureKept /\ [Next]_vars => FailureKept'
<1> SUFFICES ASSUME FailureKept, [Next]_vars PROVE FailureKept'
  OBVIOUS
<1>1. ASSUME NEW m \in Messages, Open(m) PROVE FailureKept'
  BY <1>1, ResolveFailure DEF Open, user
<1>2. CASE Rerender
  BY <1>2, ResolveFailure DEF Rerender, user
<1>3. CASE Leave
  BY <1>3 DEF Leave, Show, FailureKept
<1>4. CASE Poll \/ UNCHANGED vars
  BY <1>4 DEF Poll, vars, user, FailureKept
<1>5. ASSUME NEW t \in Tasks, TaskStep(t) PROVE FailureKept'
  BY <1>5 DEF TaskStep, Answer, Publish, Complete, Panic, user, FailureKept
<1> QED
  BY <1>1, <1>2, <1>3, <1>4, <1>5 DEF Next

(* A render that finds its fetch awaited, or failed, spawns nothing: what is *)
(* in the slot for it settles the matter, and the key holds back the rest.   *)
LEMMA ResolveWaits ==
    ASSUME TypeOK, BodiesOnly, FailureKept, NEW m \in Messages, Resolve(m), path = m,
           LiveKey = m \/ view = "failed"
    PROVE  UNCHANGED tasks
<1>0. m # NoMessage /\ slot.answer \in {"body", "none", "error"}
  BY MessagesAssumption, TaskTypes DEF Result
<1>1. CASE Settle(m)
  BY <1>1 DEF Settle
<1>2. CASE /\ kind = "message" /\ Await(m)
           /\ ~Answered(m, "none") /\ ~HasBody(m) /\ ~HasFailed(m)
  <2>1. slot.key # m
    BY <1>0, <1>2 DEF Answered, HasBody, HasFailed
  <2>2. LiveKey = m
    BY <1>2 DEF FailureKept, HasFailed
  <2> QED
    BY <1>2, <2>1, <2>2 DEF Await, KeyAfter
<1>3. CASE kind = "history" /\ Await(m) /\ ~HasBody(m)
  <2>1. slot.key # m
    BY <1>0, <1>3 DEF Answered, HasBody, BodiesOnly
  <2>2. LiveKey = m
    BY <1>3 DEF FailureKept
  <2> QED
    BY <1>3, <2>1, <2>2 DEF Await, KeyAfter
<1> QED
  BY <1>1, <1>2, <1>3 DEF Resolve, ResolveMessage, BuildHistory, Known

(* Rendering a message again, or opening it again, starts no second fetch    *)
(* while its fetch is awaited and none after it failed, whoever the user is  *)
(* and whatever other fetches are still under way.                           *)
THEOREM MessageOneFetch == Spec => NoSecondFetch
<1> DEFINE Waits == path' = path /\ (LiveKey = path \/ view = "failed")
                      => \A t \in Tasks : tasks[t].at = "free" => tasks'[t].at = "free"
<1>1. TypeOK /\ BodiesOnly /\ FailureKept /\ [Next]_vars => [Waits]_vars
  <2> SUFFICES ASSUME TypeOK, BodiesOnly, FailureKept, Next,
                      path' = path, LiveKey = path \/ view = "failed",
                      NEW t \in Tasks, tasks[t].at = "free"
               PROVE  tasks'[t].at = "free"
    OBVIOUS
  <2>0. tasks \in [Tasks -> Task]
    BY TaskTypes
  <2>1. CASE UNCHANGED tasks
    BY <2>1
  <2>2. ASSUME NEW m \in Messages, Open(m) PROVE UNCHANGED tasks
    BY <2>2, ResolveWaits DEF Open
  <2>3. CASE Rerender
    <3>1. path \in Messages /\ Resolve(path)
      BY <2>3 DEF Rerender, TypeOK, Optional
    <3> QED
      BY <2>1, <3>1, ResolveWaits
  <2>4. CASE Leave \/ Poll
    BY <2>1, <2>4 DEF Leave, Poll
  <2>5. ASSUME NEW u \in Tasks, TaskStep(u) PROVE tasks'[t].at = "free"
    <3>1. ASSUME NEW answer \in AnswersTo, Answer(u, answer) PROVE tasks'[t] = tasks[t]
      BY <2>0, <3>1 DEF Answer
    <3>2. CASE Publish(u)
      BY <2>0, <3>2 DEF Publish
    <3>3. CASE Complete(u) \/ Panic(u)
      BY <2>0, <3>3 DEF Complete, Panic, FreeTask
    <3> QED
      BY <2>5, <3>1, <3>2, <3>3 DEF TaskStep
  <2> QED
    BY <2>1, <2>2, <2>3, <2>4, <2>5 DEF Next
<1>2. Init => TypeOK /\ BodiesOnly /\ FailureKept
  BY InitType DEF Init, BodiesOnly, FailureKept, FreeTask, NoResult
<1>3. TypeOK /\ BodiesOnly /\ FailureKept /\ [Next]_vars
        => TypeOK' /\ BodiesOnly' /\ FailureKept'
  BY TypeStep, BodiesStep, FailureStep
<1>4. Spec => [][Waits]_vars
  BY <1>1, <1>2, <1>3, PTL DEF Spec
<1> QED
  BY <1>4 DEF NoSecondFetch

=============================================================================
