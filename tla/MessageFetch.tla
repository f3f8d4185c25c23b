---------------------------- MODULE MessageFetch -----------------------------
(***************************************************************************)
(* The background fetch of a message body (lib.rs resolve_message and      *)
(* spawn_message_fetch) and of a message's history (build_history and      *)
(* spawn_history_fetch): in both, the handshake of a key, a one-place      *)
(* result slot and a completion flag between the provider, which answers   *)
(* the app's calls one at a time, and the tasks it spawns on a             *)
(* multi-threaded runtime.  The two have variables of their own and share  *)
(* only bg_completed; a behaviour is of one of them, as `kind` says.       *)
(*                                                                         *)
(* A message is a (folder, uid) pair, here a model value; a body, or the   *)
(* labels of a history, are known by the message they are of.  Holding the *)
(* connection's mutex is part of the step that receives the answer: the    *)
(* slot is written after the mutex is released, so two tasks may write it  *)
(* in either order.                                                        *)
(* The error texts and bg_errors are left out, and so is                   *)
(* message_fetch_inflight, which nothing reads.                            *)
(***************************************************************************)
EXTENDS Naturals

CONSTANTS
    Messages,   \* the messages the user opens
    NoMessage,  \* Rust's None
    Tasks,      \* bound: the fetches that can be under way at once
    Answers,    \* how a fetch can end: "body", "none" (no such UID), "error"
    MaxPanics,  \* bound: how many tasks panic
    Patience    \* the users there are: patient ones (TRUE) and others (FALSE)

ASSUME MessagesAssumption == NoMessage \notin Messages
ASSUME AnswersAssumption == Answers \subseteq {"body", "none", "error"}
ASSUME BoundAssumption == MaxPanics \in Nat /\ Patience \subseteq BOOLEAN

VARIABLES
    patient,     \* the user opens no message while another's fetch is awaited
    kind,        \* what the user looks at: messages, or their histories
    path,        \* the message on screen, or whose history is, or NoMessage
    view,        \* what the last render of it returned
    body,        \* the message whose body, or history, that render showed
    fetchKey,    \* message_fetch_key, or history_fetch_key
    detail,      \* message_detail, with its folder and uid, or history_labels
    failed,      \* message_fetch_failed
    slot,        \* message_fetch_result, or history_fetch_result: [key, answer]
    tasks,       \* the spawned fetches
    panicked,    \* bg_panics holds BgKind::Message, or BgKind::History
    panics,      \* how many tasks have panicked
    bgCompleted, \* bg_completed
    redraw       \* the app was told to render again

user == <<patient, kind>>
vars == <<user, path, view, body, fetchKey, detail, failed, slot, tasks,
          panicked, panics, bgCompleted, redraw>>

Optional == Messages \cup {NoMessage}
Views == {"nothing", "ready", "loading", "missing", "failed"}
NoResult == [key |-> NoMessage, answer |-> "none"]
Result == [key: Optional, answer: {"body", "none", "error"}]
Task == [at: {"free", "queued", "answered", "published"},
         key: Optional, answer: {"body", "none", "error"}]
FreeTask == [at |-> "free", key |-> NoMessage, answer |-> "none"]

\* A task that may still write the slot.
Unpublished(t) == tasks[t].at \in {"queued", "answered"}

Init ==
    /\ patient \in Patience /\ kind \in {"message", "history"}
    /\ path = NoMessage /\ view = "nothing" /\ body = NoMessage
    /\ fetchKey = NoMessage /\ detail = NoMessage /\ failed = NoMessage
    /\ slot = NoResult
    /\ tasks = [t \in Tasks |-> FreeTask]
    /\ panicked = FALSE /\ panics = 0
    /\ bgCompleted = FALSE /\ redraw = FALSE

----------------------------------------------------------------------------
(* The provider.                                                           *)

\* spawn_message_fetch, spawn_history_fetch
Spawn(m) ==
    /\ fetchKey' = m
    /\ \E t \in Tasks :
          /\ tasks[t].at = "free"
          /\ tasks' = [tasks EXCEPT ![t] = [at |-> "queued", key |-> m, answer |-> "none"]]

Show(what, m) == view' = what /\ body' = m

\* Faulty variant: a panic leaves the key.
LiveKeyAlways == fetchKey

\* The key after release_panicked_tasks, which fetch runs first.
LiveKey == IF panicked THEN NoMessage ELSE fetchKey

\* The slot holds the answer for m; any other answer in it is dropped.
Answered(m, answer) == slot.key = m /\ slot.answer = answer

\* Faulty variant: the body at hand will do.
HasBodyAny(m) == detail # NoMessage \/ Answered(m, "body")

\* The cached body, or the one just drained, is that of m.
HasBody(m) == detail = m \/ Answered(m, "body")

\* Faulty variant: a failure is not remembered.
HasFailedNow(m) == Answered(m, "error")

\* The fetch of m failed, now or when it was last asked for.
HasFailed(m) == failed = m \/ Answered(m, "error")

\* The key once the answer for m has been drained.
KeyAfter(m) == IF slot.key = m THEN NoMessage ELSE LiveKey

\* Both views begin by taking what is in the slot.
Drain(m) ==
    /\ slot' = NoResult
    /\ detail' = IF Answered(m, "body") THEN m ELSE detail
    /\ panicked' = FALSE
    /\ bgCompleted' = (bgCompleted \/ panicked)

\* Wait for the fetch of m, which is begun unless its key is there.
Await(m) ==
    /\ Show("loading", NoMessage)
    /\ IF KeyAfter(m) = m THEN UNCHANGED <<fetchKey, tasks>> ELSE Spawn(m)

Settle(m) == fetchKey' = KeyAfter(m) /\ UNCHANGED tasks

\* resolve_message(m), as fetch calls it for the message on screen
ResolveMessage(m) ==
    \/ /\ Answered(m, "none")
       /\ Show("missing", NoMessage) /\ Settle(m)
       /\ UNCHANGED failed
    \/ /\ ~Answered(m, "none") /\ HasBody(m)
       /\ Show("ready", detail') /\ Settle(m)
       /\ failed' = IF Answered(m, "error") THEN m ELSE failed
    \/ /\ ~Answered(m, "none") /\ ~HasBody(m) /\ HasFailed(m)
       /\ Show("failed", NoMessage) /\ Settle(m)
       /\ failed' = m
    \/ /\ ~Answered(m, "none") /\ ~HasBody(m) /\ ~HasFailed(m)
       /\ Await(m)
       /\ failed' = NoMessage

\* history_plan has no gap: no history at all, or one of which the caches, which change
\* from one render to the next, know every message.
Known(m) == Show("ready", m) /\ Settle(m)

\* build_history for the message m: the labels at hand are shown, or the plan, or it is
\* carried out.
BuildHistory(m) ==
    /\ \/ HasBody(m) /\ Show("ready", detail') /\ Settle(m)
       \/ ~HasBody(m) /\ (Known(m) \/ Await(m))
    /\ UNCHANGED failed

Resolve(m) ==
    /\ Drain(m)
    /\ \/ kind = "message" /\ ResolveMessage(m)
       \/ kind = "history" /\ BuildHistory(m)

\* The user opens a message: the app sets the path and fetches it.
Open(m) ==
    /\ patient => LiveKey \in {NoMessage, m}
    /\ path' = m
    /\ Resolve(m)
    /\ UNCHANGED <<user, panics, redraw>>

Leave ==
    /\ path # NoMessage
    /\ path' = NoMessage /\ Show("nothing", NoMessage)
    /\ redraw' = FALSE
    /\ UNCHANGED <<user, fetchKey, detail, failed, slot, tasks, panicked, panics,
                   bgCompleted>>

\* The app renders the path again because poll asked for it.
Rerender ==
    /\ redraw /\ path # NoMessage
    /\ redraw' = FALSE
    /\ Resolve(path)
    /\ UNCHANGED <<user, path, panics>>

\* poll: release_panicked_tasks, then the completion flag is taken
Poll ==
    /\ panicked \/ bgCompleted
    /\ fetchKey' = LiveKey
    /\ panicked' = FALSE /\ bgCompleted' = FALSE
    /\ redraw' = TRUE
    /\ UNCHANGED <<user, path, view, body, detail, failed, slot, tasks, panics>>

----------------------------------------------------------------------------
(* The spawned task.                                                       *)

\* The server's answer to FETCH, or the error or timeout that stands for it.
Answer(t, answer) ==
    /\ tasks[t].at = "queued"
    /\ tasks' = [tasks EXCEPT ![t].at = "answered", ![t].answer = answer]
    /\ UNCHANGED <<user, path, view, body, fetchKey, detail, failed, slot, panicked,
                   panics, bgCompleted, redraw>>

\* The answer goes into the slot, over whatever is in it.
Publish(t) ==
    /\ tasks[t].at = "answered"
    /\ slot' = [key |-> tasks[t].key, answer |-> tasks[t].answer]
    /\ tasks' = [tasks EXCEPT ![t].at = "published"]
    /\ UNCHANGED <<user, path, view, body, fetchKey, detail, failed, panicked,
                   panics, bgCompleted, redraw>>

\* Faulty variant: no completion is signalled.
CompleteSilently(t) ==
    /\ tasks[t].at = "published"
    /\ tasks' = [tasks EXCEPT ![t] = FreeTask]
    /\ UNCHANGED <<user, path, view, body, fetchKey, detail, failed, slot, panicked,
                   panics, bgCompleted, redraw>>

Complete(t) ==
    /\ tasks[t].at = "published"
    /\ bgCompleted' = TRUE
    /\ tasks' = [tasks EXCEPT ![t] = FreeTask]
    /\ UNCHANGED <<user, path, view, body, fetchKey, detail, failed, slot, panicked,
                   panics, redraw>>

\* spawn_bg catches the panic.
Panic(t) ==
    /\ panics < MaxPanics /\ panics' = panics + 1
    /\ tasks[t].at = "queued"
    /\ tasks' = [tasks EXCEPT ![t] = FreeTask]
    /\ panicked' = TRUE /\ bgCompleted' = TRUE
    /\ UNCHANGED <<user, path, view, body, fetchKey, detail, failed, slot, redraw>>

\* A history lists what could be fetched, whatever failed.
AnswersTo == IF kind = "history" THEN {"body"} ELSE Answers

TaskStep(t) ==
    \/ \E answer \in AnswersTo : Answer(t, answer)
    \/ Publish(t) \/ Complete(t) \/ Panic(t)

Next ==
    \/ \E m \in Messages : Open(m)
    \/ Leave \/ Rerender \/ Poll
    \/ \E t \in Tasks : TaskStep(t)

Spec == Init /\ [][Next]_vars

\* The runtime runs its tasks and every IMAP call times out; the app polls
\* and renders when it was told to.
Fairness ==
    /\ WF_vars(Poll) /\ WF_vars(Rerender)
    /\ \A t \in Tasks : WF_vars(TaskStep(t))

FairSpec == Spec /\ Fairness

----------------------------------------------------------------------------
TypeOK ==
    /\ patient \in Patience /\ kind \in {"message", "history"}
    /\ path \in Optional /\ view \in Views /\ body \in Optional
    /\ fetchKey \in Optional /\ detail \in Optional /\ failed \in Optional
    /\ slot \in Result
    /\ tasks \in [Tasks -> Task]
    /\ panicked \in BOOLEAN /\ panics \in 0..MaxPanics
    /\ bgCompleted \in BOOLEAN /\ redraw \in BOOLEAN

\* A body on screen is the body of the message on screen, and a history is of that
\* message, in whatever order the answers of several fetches arrive and wherever the
\* user went meanwhile.
ShownIsOpen == view = "ready" => body = path

\* message_fetch_key names a fetch that is under way: a task that has yet to
\* write the slot, its answer in the slot, or a panic yet to be released.
\* Otherwise a render waits for an answer that does not come.
KeyInFlight ==
    fetchKey # NoMessage =>
        \/ \E t \in Tasks : Unpublished(t) /\ tasks[t].key = fetchKey
        \/ slot.key = fetchKey
        \/ panicked

\* Rendering the same message again starts no second fetch while its fetch is
\* awaited and none after it failed: each would raise the completion flag and
\* with it another render.
NoSecondFetch ==
    [][path' = path /\ (LiveKey = path \/ view = "failed")
        => \A t \in Tasks : tasks[t].at = "free" => tasks'[t].at = "free"]_vars

\* A user who opens no message while another's fetch is awaited always has a
\* key that names a fetch under way, panics included.
KeyInFlightIfPatient == patient => KeyInFlight

\* For such a user no message stays at "Loading..." on screen.
LoadingEnds ==
    \A m \in Messages :
        (patient /\ path = m /\ view = "loading") ~> (path # m \/ view # "loading")

=============================================================================
