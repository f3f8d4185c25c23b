----------------------------- MODULE FolderView ------------------------------
(***************************************************************************)
(* The list of a folder on screen and the news of it: build_root and       *)
(* build_folder (lib.rs), the tasks they spawn, the prefetch of INBOX and  *)
(* the IDLE session that watches the folder (idle.rs).                     *)
(*                                                                         *)
(* A folder is known by how much mail has arrived in it; a list by the     *)
(* folder, the limit it was asked under (in steps of 50) and how much mail *)
(* the server had when it answered.  The list itself is EnvelopeSync's.    *)
(* The folder list always arrives and names all folders; a THREAD map is   *)
(* there or not, whatever it holds.  An IDLE session told to stop does     *)
(* nothing more: it is forgotten at once.                                  *)
(*                                                                         *)
(* The app renders (fetch) after each call and when a poll asked for it,   *)
(* before it takes the user's next; a call and its render are one step,    *)
(* since what a task does between the two it may as well do before or      *)
(* after both.                                                             *)
(***************************************************************************)
EXTENDS Integers

CONSTANTS
    Folders,    \* the mail folders
    Inbox,      \* the folder that is prefetched
    Root,       \* the path of the folder list, and no folder
    MaxTasks,   \* bound: tasks under way at once
    MaxMail,    \* bound: messages that arrive in a folder
    MaxLimit,   \* bound: how far the limit of one folder is raised
    MaxErrors,  \* bound: how many listings fail
    MaxPanics,  \* bound: how many tasks panic
    Calm,       \* the surroundings there are: calm ones (TRUE) and others
    MailIn      \* those in which mail arrives and IDLE sessions are followed

ASSUME FoldersAssumption == Inbox \in Folders /\ Root \notin Folders
ASSUME BoundAssumption ==
    /\ MaxTasks \in Nat /\ MaxMail \in Nat /\ MaxLimit \in Nat \ {0}
    /\ MaxErrors \in Nat /\ MaxPanics \in Nat
    /\ Calm \subseteq BOOLEAN /\ MailIn \subseteq BOOLEAN

VARIABLES
    calm,        \* see Patient, Announced and Steady
    path,        \* the folder on screen, or Root
    reading,     \* a message of it is open
    shown,       \* what the last render returned
    limits,      \* folder_limits
    rows,        \* envelope_cache
    rowsFolder,  \* envelope_cache_folder
    headers,     \* message_cache
    slot,        \* envelope_fetch_result
    fetchKey,    \* envelope_fetch_key
    folderCache, \* folder_cache is there
    folderSlot,  \* folder_fetch_result is there
    rootFlag,    \* folder_fetch_inflight
    inboxSlot,   \* inbox_prefetch_result
    threads,     \* the folders of thread_cache
    threadSlot,  \* the folder of thread_fetch_result, or Root
    threadKey,   \* thread_fetch_key, or Root
    tasks,       \* the spawned fetches
    panicked,    \* bg_panics
    bgCompleted, \* bg_completed
    notify,      \* needs_refresh_flag
    watching,    \* the folder IDLE watches, or Root
    idle,        \* where its session is
    mail,        \* how much mail each folder has received
    errors, panics \* how many listings have failed and tasks panicked

screen == <<calm, path, reading, shown>>
lists == <<limits, rows, rowsFolder, headers, slot, fetchKey>>
root == <<folderCache, folderSlot, rootFlag, inboxSlot>>
thread == <<threads, threadSlot, threadKey>>
signals == <<panicked, bgCompleted, notify>>
session == <<watching, idle>>
counts == <<mail, errors, panics>>
vars == <<screen, lists, root, thread, tasks, signals, session, counts>>

Paths == Folders \cup {Root}
Key == [folder: Paths, limit: 0..MaxLimit]
NoKey == [folder |-> Root, limit |-> 0]
Listing == [what: {"none", "list", "error", "loading", "folders", "message"},
            folder: Paths, limit: 0..MaxLimit, seen: 0..MaxMail]
Nothing == [what |-> "none", folder |-> Root, limit |-> 0, seen |-> 0]
Just(what) == [Nothing EXCEPT !.what = what]
Task == [kind: {"none", "list", "threads", "root"},
         at: {"free", "queued", "answered", "half"},
         folder: Paths, limit: 0..MaxLimit, result: Listing]
FreeTask == [kind |-> "none", at |-> "free", folder |-> Root, limit |-> 0,
             result |-> Nothing]
Tasks == 1..MaxTasks

Init ==
    /\ calm \in Calm
    /\ path = Root /\ reading = FALSE /\ shown = Nothing
    /\ limits = [f \in Folders |-> 1]
    /\ rows = Nothing /\ rowsFolder = Root /\ headers = Nothing
    /\ slot = Nothing /\ fetchKey = NoKey
    /\ folderCache = FALSE /\ folderSlot = FALSE /\ rootFlag = FALSE
    /\ inboxSlot = Nothing
    /\ threads = {} /\ threadSlot = Root /\ threadKey = Root
    /\ tasks = [t \in Tasks |-> FreeTask]
    /\ panicked = {} /\ bgCompleted = FALSE /\ notify = FALSE
    /\ watching = Root /\ idle = "off"
    /\ mail = [f \in Folders |-> 0] /\ errors = 0 /\ panics = 0

----------------------------------------------------------------------------
(* What calm surroundings leave out.                                       *)

Busy(kind) == \E t \in Tasks : tasks[t].kind = kind

\* No listing is under way or waiting to be shown.
Settled ==
    /\ ~Busy("list") /\ ~Busy("root")
    /\ slot = Nothing /\ inboxSlot = Nothing

\* A user who does nothing else while a list is awaited.
Patient == calm => ~Busy("list") /\ shown.what # "loading"

\* Mail that arrives while IDLE waits and the list has been read.
Announced(f) ==
    calm => watching = f /\ idle = "waiting" /\ rows.what = "list" /\ rowsFolder = f
            /\ Settled /\ ~notify

\* Listings succeed, and no session that has heard of mail is lost.
Steady == ~calm

----------------------------------------------------------------------------
(* Rendering (fetch).                                                      *)

\* spawn_envelope_fetch, spawn_thread_fetch and spawn_root_fetch
Spawn(kind, f, lim) ==
    \E t \in Tasks :
        /\ tasks[t].at = "free" /\ \A u \in 1..(t - 1) : tasks[u].at # "free"
        /\ tasks' = [tasks EXCEPT ![t] = [kind |-> kind, at |-> "queued", folder |-> f,
                                          limit |-> lim, result |-> Nothing]]

\* The keys and the flag after release_panicked_tasks, which fetch runs first.
LiveKey == IF "list" \in panicked THEN NoKey ELSE fetchKey
LiveThreadKey == IF "threads" \in panicked THEN Root ELSE threadKey
LiveRootFlag == rootFlag /\ "root" \notin panicked

\* idle.stop
StopIdle == watching' = Root /\ idle' = "off"

\* idle.start: watching the folder already changes nothing.
StartIdle(f) ==
    IF watching = f THEN UNCHANGED session
    ELSE watching' = f /\ idle' = "gap"

\* build_root, with folder_cache there or not
BuildRoot(cache) ==
    /\ StopIdle
    /\ fetchKey' = LiveKey /\ threadKey' = LiveThreadKey
    /\ \/ /\ cache
          /\ shown' = Just("folders")
          /\ folderCache' = TRUE /\ rootFlag' = LiveRootFlag
          /\ UNCHANGED <<folderSlot, tasks>>
       \/ /\ ~cache /\ folderSlot
          /\ shown' = Just("folders")
          /\ folderCache' = TRUE /\ folderSlot' = FALSE /\ rootFlag' = FALSE
          /\ UNCHANGED tasks
       \/ /\ ~cache /\ ~folderSlot
          /\ shown' = Just("loading")
          /\ folderCache' = FALSE /\ rootFlag' = TRUE
          /\ IF LiveRootFlag THEN UNCHANGED tasks ELSE Spawn("root", Inbox, 1)
          /\ UNCHANGED folderSlot
    /\ UNCHANGED <<rowsFolder, slot, inboxSlot, threads, threadSlot>>

\* build_folder, the THREAD map: one that has arrived is folded in, and one
\* is asked for unless it is there or on its way.
FoldThreads(f) ==
    LET folded == IF threadSlot = Root THEN threads ELSE threads \cup {threadSlot}
        key == IF threadSlot = Root THEN LiveThreadKey ELSE Root
    IN  /\ threads' = folded /\ threadSlot' = Root
        /\ IF f \in folded \/ key = f THEN threadKey' = key /\ UNCHANGED tasks
           ELSE threadKey' = f /\ Spawn("threads", f, 0)

\* build_folder, from the result on: the list of f, or an error, is cached; an
\* error leaves message_cache as it was.
CacheList(f, result, heads) ==
    /\ rows' = result /\ rowsFolder' = f /\ shown' = result
    /\ headers' = IF result.what = "list" THEN result ELSE heads
    /\ FoldThreads(f)
    /\ StartIdle(f)

\* The prefetch stands for a listing of INBOX.
Prefetched(f) == f = Inbox /\ inboxSlot # Nothing

\* Faulty variant: the answer of any fetch will do.
FetchedAny(f, lim) == slot # Nothing

\* The slot holds the list asked for.
Fetched(f, lim) == slot.folder = f /\ slot.limit = lim

\* Faulty variant: the key is not looked at.
AwaitedNever(f, lim) == FALSE

\* A fetch of the list is under way already.
Awaited(f, lim) == LiveKey = [folder |-> f, limit |-> lim]

\* build_folder, with the rows in envelope_cache, the headers in message_cache
\* and the folder's limit
BuildFolder(f, given, heads, lim) ==
    LET cached == rowsFolder = f /\ given # Nothing
    IN  /\ rootFlag' = LiveRootFlag
        /\ \/ /\ cached
              /\ rows' = given /\ shown' = given /\ headers' = heads
              /\ fetchKey' = LiveKey /\ threadKey' = LiveThreadKey
              /\ UNCHANGED <<rowsFolder, slot, inboxSlot, threads, threadSlot, tasks, session>>
           \/ /\ ~cached /\ Prefetched(f)
              /\ inboxSlot' = Nothing
              /\ CacheList(f, inboxSlot, heads)
              /\ fetchKey' = LiveKey
              /\ UNCHANGED slot
           \/ /\ ~cached /\ ~Prefetched(f) /\ Fetched(f, lim)
              /\ slot' = Nothing /\ fetchKey' = NoKey
              /\ CacheList(f, slot, heads)
              /\ UNCHANGED inboxSlot
           \/ /\ ~cached /\ ~Prefetched(f) /\ ~Fetched(f, lim)
              /\ slot' = Nothing
              /\ rows' = Nothing /\ shown' = Just("loading") /\ headers' = heads
              /\ threadKey' = LiveThreadKey
              /\ IF Awaited(f, lim) THEN fetchKey' = LiveKey /\ UNCHANGED tasks
                 ELSE fetchKey' = [folder |-> f, limit |-> lim] /\ Spawn("list", f, lim)
              /\ UNCHANGED <<rowsFolder, inboxSlot, threads, threadSlot, session>>
        /\ UNCHANGED folderSlot

\* build_message, as far as the folder is concerned; the flag it sets is Edit.
BuildMessage ==
    /\ shown' = Just("message")
    /\ fetchKey' = LiveKey /\ threadKey' = LiveThreadKey /\ rootFlag' = LiveRootFlag
    /\ UNCHANGED <<rowsFolder, slot, folderSlot, inboxSlot, threads, threadSlot, tasks,
                   session>>

\* fetch, with the caches and limits the call before it left
Render(given, heads, cache) ==
    /\ \/ path' = Root /\ BuildRoot(cache) /\ rows' = given /\ headers' = heads
       \/ path' # Root /\ ~reading' /\ BuildFolder(path', given, heads, limits'[path'])
          /\ folderCache' = cache
       \/ path' # Root /\ reading' /\ BuildMessage
          /\ rows' = given /\ headers' = heads /\ folderCache' = cache
    /\ UNCHANGED <<calm, counts>>

\* Faulty variant: the cached list outlives the news.
KeepRows == rows

\* clear_needs_refresh
RowsAfterNews == IF notify THEN Nothing ELSE rows

\* Faulty variant: the flag is read and not taken.
ReadCompleted == UNCHANGED bgCompleted

\* tick swaps the completion flag for FALSE.
TakeCompleted == bgCompleted' = FALSE

\* poll: tick takes the completion flag, clear_needs_refresh the news; then
\* the app renders.
Poll ==
    /\ panicked # {} \/ bgCompleted \/ notify
    /\ panicked' = {} /\ TakeCompleted /\ notify' = FALSE
    /\ UNCHANGED <<path, reading, limits>>
    /\ Render(RowsAfterNews, headers, folderCache)

----------------------------------------------------------------------------
(* The user.                                                               *)

\* What a render after a call of the user's does besides: it releases panics.
Call ==
    /\ panicked' = {} /\ bgCompleted' = (bgCompleted \/ panicked # {})
    /\ UNCHANGED notify

\* The app shows the plugin for the first time.
Start ==
    /\ shown = Nothing /\ Call
    /\ UNCHANGED <<path, reading, limits>>
    /\ Render(rows, headers, folderCache)

Open(f) ==
    /\ Patient /\ Call
    /\ path = Root /\ shown.what = "folders"
    /\ path' = f /\ UNCHANGED <<reading, limits>>
    /\ Render(rows, headers, folderCache)

OpenMessage ==
    /\ Patient /\ Call
    /\ path # Root /\ ~reading /\ shown.what = "list"
    /\ reading' = TRUE /\ UNCHANGED <<path, limits>>
    /\ Render(rows, headers, folderCache)

Leave ==
    /\ Patient /\ Call
    /\ path # Root
    /\ IF reading THEN reading' = FALSE /\ UNCHANGED path
       ELSE path' = Root /\ UNCHANGED reading
    /\ UNCHANGED limits
    /\ Render(rows, headers, folderCache)

\* The "refresh" command.
Refresh ==
    /\ shown # Nothing /\ Patient /\ Call
    /\ UNCHANGED <<path, reading, limits>>
    /\ Render(Nothing, headers, FALSE)

\* The "load-more" button, shown when the list is as long as its limit.
LoadMore ==
    /\ Patient /\ Call
    /\ path # Root /\ ~reading /\ shown.what = "list"
    /\ shown.limit >= limits[path] /\ limits[path] < MaxLimit
    /\ \A f \in Folders \ {path} : limits[f] = 1
    /\ limits' = [limits EXCEPT ![path] = @ + 1]
    /\ UNCHANGED <<path, reading>>
    /\ Render(Nothing, headers, folderCache)

\* envelopes_changed: a flag was set or a message moved here, by a command on
\* a message, by opening one or by an undo of a flag, which may come at any time.
Edit ==
    /\ Patient /\ Call
    /\ rows # Nothing
    /\ UNCHANGED <<path, reading, limits>>
    /\ Render(IF headers = Nothing THEN Just("list") ELSE headers, headers, folderCache)

\* An undo or redo of a move clears the rows and the headers, at any time.  In
\* calm surroundings there is none: Refresh clears the rows there, and only an
\* Edit after a failed listing looks at headers that are not those of the rows.
UndoMove ==
    /\ ~calm /\ Call
    /\ rows # Nothing \/ headers # Nothing
    /\ UNCHANGED <<path, reading, limits>>
    /\ Render(Nothing, Nothing, folderCache)

User ==
    \/ Start \/ OpenMessage \/ Leave \/ Refresh \/ LoadMore \/ Edit \/ UndoMove
    \/ \E f \in Folders : Open(f)

----------------------------------------------------------------------------
(* The tasks.  A task writes its result into a slot and then raises        *)
(* bg_completed: one step, since a render between the two is only followed *)
(* by one more.                                                            *)

\* The server's answer to a listing of f.
Listed(f, lim) == [what |-> "list", folder |-> f, limit |-> lim, seen |-> mail[f]]

\* The error or timeout that stands for it.
Failed(f, lim) == [what |-> "error", folder |-> f, limit |-> lim, seen |-> 0]

\* The answer to a listing; it goes into its slot later.
Answer(t) ==
    /\ tasks[t].kind # "threads" /\ tasks[t].at = "queued"
    /\ \/ /\ tasks' = [tasks EXCEPT ![t].at = "answered",
                                    ![t].result = Listed(tasks[t].folder, tasks[t].limit)]
          /\ UNCHANGED errors
       \/ /\ Steady
          /\ errors < MaxErrors /\ errors' = errors + 1
          /\ tasks' = [tasks EXCEPT ![t].at = "answered",
                                    ![t].result = Failed(tasks[t].folder, tasks[t].limit)]
    /\ UNCHANGED <<screen, lists, root, thread, signals, session, mail, panics>>

\* Faulty variant: no completion is signalled.
SignalNothing == UNCHANGED <<bgCompleted, notify>>

SignalDone == bgCompleted' = TRUE /\ UNCHANGED notify

\* The end of a task.
Complete(t) ==
    /\ SignalDone /\ UNCHANGED panicked
    /\ tasks' = [tasks EXCEPT ![t] = FreeTask]

\* The list goes into the slot, over whatever is in it.
PublishList(t) ==
    /\ tasks[t].kind = "list" /\ tasks[t].at = "answered"
    /\ slot' = tasks[t].result
    /\ Complete(t)
    /\ UNCHANGED <<screen, limits, rows, rowsFolder, headers, fetchKey, root, thread,
                   session, counts>>

\* A THREAD map, empty if the server has none or fails.
PublishThreads(t) ==
    /\ tasks[t].kind = "threads"
    /\ threadSlot' = tasks[t].folder
    /\ Complete(t)
    /\ UNCHANGED <<screen, lists, root, threads, threadKey, session, counts>>

PublishFolders(t) ==
    /\ tasks[t].kind = "root" /\ tasks[t].at = "answered"
    /\ folderSlot' = TRUE
    /\ tasks' = [tasks EXCEPT ![t].at = "half"]
    /\ UNCHANGED <<screen, lists, folderCache, rootFlag, inboxSlot, thread, signals,
                   session, counts>>

\* The prefetch follows, and the flag is lowered.
PublishInbox(t) ==
    /\ tasks[t].at = "half"
    /\ inboxSlot' = tasks[t].result
    /\ rootFlag' = FALSE
    /\ Complete(t)
    /\ UNCHANGED <<screen, lists, folderCache, folderSlot, thread, session, counts>>

\* spawn_bg catches the panic.
Panic(t) ==
    /\ panics < MaxPanics /\ panics' = panics + 1
    /\ tasks[t].at = "queued"
    /\ panicked' = panicked \cup {tasks[t].kind} /\ bgCompleted' = TRUE
    /\ tasks' = [tasks EXCEPT ![t] = FreeTask]
    /\ UNCHANGED <<screen, lists, root, thread, notify, session, mail, errors>>

TaskStep(t) ==
    \/ Answer(t) \/ PublishList(t) \/ PublishThreads(t) \/ PublishFolders(t)
    \/ PublishInbox(t) \/ Panic(t)

----------------------------------------------------------------------------
(* The IDLE session and the server.  In a gap no IDLE is waiting: between  *)
(* two connections, before the first, and between DONE and the next IDLE.  *)

Session(from, to) ==
    /\ idle \in from /\ idle' = to
    /\ UNCHANGED <<screen, lists, root, thread, tasks, panicked, bgCompleted, watching,
                   counts>>

\* SELECT, unless done before, and IDLE.
Wait == calm \in MailIn /\ Session({"gap"}, "waiting") /\ UNCHANGED notify

\* Faulty variant: the change is not taken for one of the mailbox.
TellNothing == Session({"heard"}, "gap") /\ UNCHANGED notify

\* DONE, then the change is told.
Tell == Session({"heard"}, "gap") /\ notify' = TRUE

\* The 29 minutes are over, or the session fails.
Interrupt ==
    /\ \/ Session({"waiting"}, "gap")
       \/ Steady /\ Session({"heard"}, "gap")
    /\ UNCHANGED notify

\* Mail arrives; a session that waits hears of it.
Deliver(f) ==
    /\ mail[f] < MaxMail /\ calm \in MailIn /\ Announced(f)
    /\ mail' = [mail EXCEPT ![f] = @ + 1]
    /\ idle' = IF watching = f /\ idle = "waiting" THEN "heard" ELSE idle
    /\ UNCHANGED <<screen, lists, root, thread, tasks, signals, watching, errors, panics>>

Surroundings == Interrupt \/ \E f \in Folders : Deliver(f)

Next ==
    \/ Poll \/ User \/ Surroundings
    \/ \E t \in Tasks : TaskStep(t)
    \/ Wait \/ Tell

Spec == Init /\ [][Next]_vars

\* The app polls and renders, the runtime runs its tasks, each of whose
\* commands is answered or times out, and so does an IDLE session.
Fairness ==
    /\ WF_vars(Start \/ Poll)
    /\ \A t \in Tasks : WF_vars(TaskStep(t))
    /\ WF_vars(Wait \/ Tell)

FairSpec == Spec /\ Fairness

----------------------------------------------------------------------------
TypeOK ==
    /\ calm \in Calm /\ path \in Paths /\ reading \in BOOLEAN
    /\ shown \in Listing
    /\ limits \in [Folders -> 1..MaxLimit]
    /\ rows \in Listing /\ rowsFolder \in Paths /\ headers \in Listing
    /\ slot \in Listing /\ fetchKey \in Key
    /\ folderCache \in BOOLEAN /\ folderSlot \in BOOLEAN /\ rootFlag \in BOOLEAN
    /\ inboxSlot \in Listing
    /\ threads \subseteq Folders /\ threadSlot \in Paths /\ threadKey \in Paths
    /\ tasks \in [Tasks -> Task]
    /\ panicked \subseteq {"list", "threads", "root"}
    /\ bgCompleted \in BOOLEAN /\ notify \in BOOLEAN
    /\ watching \in Paths
    /\ idle \in {"off", "gap", "waiting", "heard"}
    /\ mail \in [Folders -> 0..MaxMail]
    /\ errors \in 0..MaxErrors /\ panics \in 0..MaxPanics

\* As long as no listing has failed, a list on screen is of the folder on
\* screen, whatever fetches are under way and wherever the user went; and it
\* was asked for under the folder's limit, the prefetched INBOX excepted.
RowsOfView ==
    (errors = 0 /\ shown.what = "list") =>
        /\ shown.folder = path
        /\ path = Inbox \/ shown.limit = limits[path]

\* Rendering a folder again starts no second listing of it while its list is
\* awaited, and none after its listing failed.
NoSecondListing ==
    [][(/\ Poll /\ ~notify /\ path # Root
        /\ LiveKey = [folder |-> path, limit |-> limits[path]] \/ shown.what = "error")
        => \A t \in Tasks : tasks[t].at = "free" => tasks'[t].kind # "list"]_vars

\* In calm surroundings, once all is fetched and told, the cached list of the
\* watched folder holds all its mail.
CalmListCurrent ==
    (/\ calm /\ Settled /\ ~notify /\ idle = "waiting"
     /\ rowsFolder = watching /\ rows.what = "list")
        => rows.seen = mail[watching]

\* In calm surroundings the folder on screen does not stay at "Loading...".
CalmLoadingEnds == (calm /\ shown.what = "loading") ~> (shown.what # "loading")

\* In calm surroundings mail an IDLE session has heard of is listed, unless
\* the user leaves the list.
CalmNewsListed ==
    \A f \in Folders :
        (calm /\ path = f /\ ~reading /\ idle = "heard")
            ~> (path # f \/ reading \/ (shown.what = "list" /\ shown.seen = mail[f]))

\* Nothing is under way, and no poll asks for a render.
Quiet ==
    ~bgCompleted /\ ~notify /\ \A t \in Tasks : tasks[t].at = "free"

\* With nothing coming from the user or the server, fetches and renders end:
\* no completion starts the fetch whose completion it would be.
RendersSettle == (<>[][~(User \/ Surroundings)]_vars) => <>[]Quiet

=============================================================================
