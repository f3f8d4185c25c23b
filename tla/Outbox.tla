------------------------------- MODULE Outbox --------------------------------
(***************************************************************************)
(* Sending mail (lib.rs spawn_send, drain_send_result, tick, the send      *)
(* button): the send is optimistic, a task talks to the SMTP server, and   *)
(* tick puts the draft of a failed send back and retries it.               *)
(*                                                                         *)
(* A draft is a model value: its fields, its attachments and the message   *)
(* built from it stand or fall together.  Of the main thread, tick is two  *)
(* steps (the result is drained, then the retry is tried), because the     *)
(* task's writes to the slot and to the flag may fall between them.        *)
(* Refreshing the token before a send is left to the session's module.     *)
(***************************************************************************)
EXTENDS Naturals, FiniteSets

CONSTANTS
    Drafts,      \* what the user may write
    Blank,       \* the empty draft
    Tasks,       \* bound: the send tasks that can be under way at once
    Folders,     \* which of "sent" and "drafts" the server has (Gmail files
                 \* sent mail itself: "sent" is then left out)
    MaxFailures, \* bound: refusals of, and lost answers to, a written draft
    MaxAccepts,  \* bound: how often the server accepts one draft
    LostAnswers, \* whether the server may accept and the answer not arrive
    MaxPanics,   \* bound: how many send tasks panic
    Calm         \* the settings there are: calm (TRUE) and rough (FALSE)

\* pending_send_draft is an Option: no draft is None.
ASSUME DraftsAssumption == Blank \notin Drafts /\ "none" \notin Drafts \cup {Blank}
ASSUME FoldersAssumption == Folders \subseteq {"sent", "drafts"}
ASSUME BoundsAssumption ==
    MaxFailures \in Nat /\ MaxAccepts \in Nat /\ MaxPanics \in Nat
        /\ LostAnswers \in BOOLEAN /\ Calm \subseteq BOOLEAN

VARIABLES
    calm,          \* the user leaves the compose view alone until a send settles,
                   \* the server's answers arrive and no task panics
    composing,     \* at_compose: the compose view is on screen
    compose,       \* compose.draft
    composeSent,   \* compose_sent
    outboxPending, \* outbox_pending
    inflight,      \* send_inflight
    pending,       \* pending_send_draft
    slot,          \* send_result, with the draft whose send it is about
    ticking,       \* tick has drained the slot and not yet tried the retry
    tasks,         \* the send tasks
    panicked,      \* bg_panics holds BgKind::Send
    saved,         \* the copies of drafts handed to the background for APPEND
    pressed,       \* the drafts the user has pressed "send" on
    accepted,      \* how often the server has accepted each draft
    failures, panics

mainVars == <<calm, composing, compose, composeSent, outboxPending, pending, ticking,
              saved, pressed>>
vars == <<mainVars, inflight, slot, tasks, panicked, accepted, failures, panics>>

Contents == Drafts \cup {Blank}
None == "none"   \* pending_send_draft and send_result when empty
NoResult == [answer |-> "none", draft |-> Blank]
FreeTask == [at |-> "free", answer |-> "none", draft |-> Blank]

Init ==
    /\ calm \in Calm
    /\ composing = FALSE
    /\ compose = Blank /\ composeSent = FALSE /\ outboxPending = FALSE
    /\ inflight = FALSE /\ pending = None /\ slot = NoResult /\ ticking = FALSE
    /\ tasks = [t \in Tasks |-> FreeTask]
    /\ panicked = FALSE
    /\ saved = {} /\ pressed = {}
    /\ accepted = [d \in Drafts |-> 0]
    /\ failures = 0 /\ panics = 0

\* The background APPEND to a folder the server has.  Copies of the empty draft
\* are appended too; nobody misses them.
Copies(folder, draft) == {c \in Folders \X Drafts : c = <<folder, draft>>}

----------------------------------------------------------------------------
(* The user, in the compose view.                                          *)

Unsettled == inflight \/ slot # NoResult \/ outboxPending

\* The app hands the provider one call at a time.
UserTurn == ~ticking /\ (calm => ~Unsettled)

\* push_path with "compose", "reply" or "forward", and the "compose" command
NewCompose ==
    /\ UserTurn
    /\ composing' = TRUE
    /\ compose' = Blank /\ composeSent' = FALSE
    /\ UNCHANGED <<calm, outboxPending, pending, ticking, saved, pressed, inflight, slot,
                   tasks, panicked, accepted, failures, panics>>

\* commit_edit: the draft becomes another one, not sent before
Write(d) ==
    /\ UserTurn /\ composing /\ ~composeSent
    /\ d \notin pressed
    /\ compose' = d
    /\ UNCHANGED <<calm, composing, composeSent, outboxPending, pending, ticking, saved,
                   pressed, inflight, slot, tasks, panicked, accepted, failures, panics>>

\* pop_path: the draft is kept, and a copy of it filed unless it is empty.
LeaveCompose ==
    /\ UserTurn /\ composing /\ composing' = FALSE
    /\ composeSent' = FALSE
    /\ saved' = saved \cup Copies("drafts", compose)
    /\ UNCHANGED <<calm, compose, outboxPending, pending, ticking, pressed, inflight, slot,
                   tasks, panicked, accepted, failures, panics>>

\* Faulty variant: a send in flight is no obstacle.
StartSendAlways ==
    /\ inflight' = TRUE
    /\ pending' = compose
    /\ \E t \in Tasks :
          /\ tasks[t].at = "free"
          /\ tasks' = [tasks EXCEPT ![t] =
                          [at |-> "sending", answer |-> "none", draft |-> compose]]
    /\ compose' = Blank /\ composeSent' = TRUE
    /\ outboxPending' = FALSE

\* Faulty variant: the retry stays armed.
StartSendArmed ==
    /\ ~inflight /\ inflight' = TRUE
    /\ pending' = compose
    /\ \E t \in Tasks :
          /\ tasks[t].at = "free"
          /\ tasks' = [tasks EXCEPT ![t] =
                          [at |-> "sending", answer |-> "none", draft |-> compose]]
    /\ compose' = Blank /\ composeSent' = TRUE
    /\ UNCHANGED outboxPending

\* spawn_send when none is in flight, and what both its callers do after it
StartSend ==
    /\ ~inflight /\ inflight' = TRUE
    /\ pending' = compose
    /\ \E t \in Tasks :
          /\ tasks[t].at = "free"
          /\ tasks' = [tasks EXCEPT ![t] =
                          [at |-> "sending", answer |-> "none", draft |-> compose]]
    /\ compose' = Blank /\ composeSent' = TRUE
    /\ outboxPending' = FALSE

\* The button does nothing while a send is in flight.
PressSend ==
    /\ UserTurn /\ composing /\ ~composeSent
    /\ StartSend
    /\ pressed' = pressed \cup {compose}
    /\ UNCHANGED <<calm, composing, ticking, saved, slot, panicked, accepted, failures, panics>>

----------------------------------------------------------------------------
(* tick                                                                    *)

\* Faulty variant: the draft of a failed send is not put back.
DrainForgetting ==
    /\ pending' = IF slot.answer = "none" THEN pending ELSE None
    /\ saved' = IF slot.answer = "ok" THEN saved \cup Copies("sent", slot.draft) ELSE saved
    /\ outboxPending' = (outboxPending /\ slot.answer = "none")
    /\ UNCHANGED <<compose, composeSent>>

\* Faulty variant: every result is a failure.
DrainFailing ==
    \/ /\ slot.answer = "none"
       /\ UNCHANGED <<compose, composeSent, outboxPending, pending, saved>>
    \/ /\ slot.answer # "none"
       /\ compose' = IF pending # None THEN pending ELSE compose
       /\ composeSent' = (composeSent /\ pending = None)
       /\ pending' = None
       /\ outboxPending' = TRUE
       /\ UNCHANGED saved

\* drain_send_result
Drain ==
    \/ /\ slot.answer = "none"
       /\ UNCHANGED <<compose, composeSent, outboxPending, pending, saved>>
    \/ /\ slot.answer = "ok"
       /\ pending' = None
       /\ outboxPending' = FALSE
       /\ saved' = saved \cup Copies("sent", slot.draft)
       /\ UNCHANGED <<compose, composeSent>>
    \/ /\ slot.answer = "error"
       /\ compose' = IF pending # None THEN pending ELSE compose
       /\ composeSent' = (composeSent /\ pending = None)
       /\ pending' = None
       /\ saved' = saved \cup Copies("drafts", compose')
       /\ outboxPending' = TRUE

\* release_panicked_tasks, which a render (fetch) runs too
Render ==
    /\ ~ticking
    /\ panicked /\ panicked' = FALSE
    /\ inflight' = FALSE
    /\ UNCHANGED <<mainVars, slot, tasks, accepted, failures, panics>>

\* release_panicked_tasks, then the drain
TickDrain ==
    /\ ~ticking /\ ticking' = TRUE
    /\ inflight' = (inflight /\ ~panicked)
    /\ panicked' = FALSE
    /\ Drain
    /\ slot' = NoResult
    /\ UNCHANGED <<calm, composing, tasks, pressed, accepted, failures, panics>>

\* Faulty variant: the retry is left to the user.
TickRetryNever ==
    /\ ticking /\ ticking' = FALSE
    /\ UNCHANGED <<compose, composeSent, outboxPending, pending, inflight, tasks>>
    /\ UNCHANGED <<calm, composing, saved, pressed, slot, panicked, accepted, failures, panics>>

\* The retry of a queued message, refused while a send is in flight.
TickRetry ==
    /\ ticking /\ ticking' = FALSE
    /\ IF outboxPending /\ ~inflight
       THEN StartSend
       ELSE UNCHANGED <<compose, composeSent, outboxPending, pending, inflight, tasks>>
    /\ UNCHANGED <<calm, composing, saved, pressed, slot, panicked, accepted, failures, panics>>

----------------------------------------------------------------------------
(* The send task.                                                          *)

Answer(t, answer) ==
    /\ tasks[t].at = "sending"
    /\ tasks' = [tasks EXCEPT ![t].at = "answered", ![t].answer = answer]
    /\ UNCHANGED <<mainVars, inflight, slot, panicked, panics>>

\* The server takes a message.  A blank draft has no recipient.
Count(d) ==
    /\ d \in Drafts /\ accepted[d] < MaxAccepts
    /\ accepted' = [accepted EXCEPT ![d] = @ + 1]

Accept(t) ==
    /\ Answer(t, "ok")
    /\ Count(tasks[t].draft)
    /\ UNCHANGED failures

Refuse(t) ==
    /\ tasks[t].draft \in Drafts => failures < MaxFailures
    /\ Answer(t, "error")
    /\ failures' = IF tasks[t].draft \in Drafts THEN failures + 1 ELSE failures
    /\ UNCHANGED accepted

\* The server takes the message and its answer is not in within the timeout.
LoseAnswer(t) ==
    /\ LostAnswers /\ ~calm /\ failures < MaxFailures
    /\ Answer(t, "error")
    /\ Count(tasks[t].draft)
    /\ failures' = failures + 1

\* The result first, the flag after it.
Publish(t) ==
    /\ tasks[t].at = "answered"
    /\ slot' = [answer |-> tasks[t].answer, draft |-> tasks[t].draft]
    /\ tasks' = [tasks EXCEPT ![t].at = "published"]
    /\ UNCHANGED <<mainVars, inflight, panicked, accepted, failures, panics>>

Release(t) ==
    /\ tasks[t].at = "published"
    /\ inflight' = FALSE
    /\ tasks' = [tasks EXCEPT ![t] = FreeTask]
    /\ UNCHANGED <<mainVars, slot, panicked, accepted, failures, panics>>

Panic(t) ==
    /\ tasks[t].at = "sending" /\ ~calm
    /\ panics < MaxPanics /\ panics' = panics + 1
    /\ panicked' = TRUE
    /\ tasks' = [tasks EXCEPT ![t] = FreeTask]
    /\ UNCHANGED <<mainVars, inflight, slot, accepted, failures>>

TaskStep(t) ==
    Accept(t) \/ Refuse(t) \/ LoseAnswer(t) \/ Publish(t) \/ Release(t) \/ Panic(t)

Next ==
    \/ NewCompose \/ LeaveCompose \/ PressSend
    \/ \E d \in Drafts : Write(d)
    \/ Render \/ TickDrain \/ TickRetry
    \/ \E t \in Tasks : TaskStep(t)

Spec == Init /\ [][Next]_vars

\* The app polls, and the runtime runs its tasks.
Fairness ==
    /\ WF_vars(TickDrain) /\ WF_vars(TickRetry)
    /\ \A t \in Tasks : WF_vars(TaskStep(t))

FairSpec == Spec /\ Fairness

----------------------------------------------------------------------------
TypeOK ==
    /\ calm \in Calm /\ composing \in BOOLEAN
    /\ compose \in Contents /\ composeSent \in BOOLEAN /\ outboxPending \in BOOLEAN
    /\ inflight \in BOOLEAN /\ ticking \in BOOLEAN /\ panicked \in BOOLEAN
    /\ pending \in Contents \cup {None}
    /\ slot \in [answer: {"none", "ok", "error"}, draft: Contents]
    /\ tasks \in [Tasks -> [at: {"free", "sending", "answered", "published"},
                            answer: {"none", "ok", "error"}, draft: Contents]]
    /\ saved \subseteq Folders \X Drafts
    /\ pressed \subseteq Contents
    /\ accepted \in [Drafts -> 0..MaxAccepts]
    /\ failures \in 0..MaxFailures /\ panics \in 0..MaxPanics

Running(t) == tasks[t].at # "free"

\* However the button, the retry of tick, panics and their release fall, at
\* most one task is between its start and the release of the flag, and while
\* there is one the flag is up.
OneSendAtATime ==
    \A t, u \in Tasks : Running(t) /\ Running(u) => t = u /\ inflight

\* A draft the user pressed "send" on has been accepted, or the result of its
\* send is still to come, or it is back in the compose view or among the
\* drafts on the server.
NoDraftLost ==
    \A d \in pressed \cap Drafts :
        \/ accepted[d] > 0
        \/ \E t \in Tasks : Running(t) /\ tasks[t].draft = d
        \/ (slot.draft = d \/ panicked) /\ pending = d
        \/ compose = d
        \/ <<"drafts", d>> \in saved

\* The server accepts a draft once at most.
SentOnce == \A d \in Drafts : accepted[d] <= 1

\* In calm settings none of this goes wrong, however often the server refuses
\* and wherever the steps of tick and of the task fall.
CalmKeepsDrafts == calm => NoDraftLost
CalmSendsOnce == calm => SentOnce

\* What a pending retry is going to send is a draft the user pressed "send" on.
CalmRetriesPressed == calm /\ outboxPending => compose \in pressed

\* A draft the user pressed "send" on is accepted in the end, since every
\* failure is retried, and its copy is filed under the sent mail.
CalmSendSettles ==
    \A d \in Drafts :
        (calm /\ d \in pressed) ~> (accepted[d] > 0 /\ <<"sent", d>> \in saved)

=============================================================================
