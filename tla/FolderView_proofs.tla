-------------------------- MODULE FolderView_proofs --------------------------
(***************************************************************************)
(* Proofs about FolderView: type correctness, that a list on screen is of  *)
(* the folder on screen, and that rendering again starts no second         *)
(* listing, for any user and surroundings; and, in calm ones, that a list  *)
(* whose news has been told is the whole list.                             *)
(***************************************************************************)
EXTENDS FolderView, TLAPS

\* A result of a task: of the folder it was asked for, and no error as long
\* as none is counted.
GoodResult(r, f) ==
    /\ r.what \in {"list", "error"} /\ r.folder = f
    /\ errors = 0 => r.what = "list"

TaskInv ==
    \A t \in Tasks :
        /\ tasks[t].at = "free" => tasks[t].kind = "none"
        /\ tasks[t].at # "free" =>
              /\ tasks[t].kind \in {"list", "threads", "root"}
              /\ tasks[t].folder \in Folders
              /\ tasks[t].kind = "root" => tasks[t].folder = Inbox
        /\ tasks[t].at = "half" => tasks[t].kind = "root"
        /\ tasks[t].at \in {"answered", "half"} => GoodResult(tasks[t].result, tasks[t].folder)

SlotInv ==
    /\ slot # Nothing => GoodResult(slot, slot.folder)
    /\ inboxSlot # Nothing => GoodResult(inboxSlot, Inbox)

\* The headers are those of a list, if there are any.
GoodHeaders(heads) == heads # Nothing => heads.what = "list"

\* Rows r are made of the headers and are those of the folder f under the
\* limits lims.
GoodRows(r, heads, f, lims) ==
    /\ f \in Folders
    /\ r.what \in {"list", "error"}
    /\ errors = 0 =>
          /\ r = heads /\ r.what = "list" /\ r.folder = f
          /\ f = Inbox \/ r.limit = lims[f]

RowsInv ==
    /\ rows # Nothing => GoodRows(rows, headers, rowsFolder, limits)
    /\ GoodHeaders(headers)

\* What is on screen is what is cached.
ShownInv ==
    shown.what \in {"list", "error"} =>
        /\ path # Root /\ ~reading
        /\ shown = rows /\ rowsFolder = path

Inv == TypeOK /\ TaskInv /\ SlotInv /\ RowsInv /\ ShownInv

----------------------------------------------------------------------------
(* The values the definitions build.                                       *)

LEMMA NothingFacts == Nothing \in Listing /\ Nothing.what = "none" /\ Nothing.folder = Root
                      /\ Nothing.limit = 0
BY BoundAssumption DEF Nothing, Listing, Paths

LEMMA JustFacts ==
    ASSUME NEW w \in {"none", "list", "error", "loading", "folders", "message"}
    PROVE  Just(w) \in Listing /\ Just(w).what = w
BY BoundAssumption DEF Just, Nothing, Listing, Paths

LEMMA FreeTaskFacts == FreeTask \in Task /\ FreeTask.at = "free" /\ FreeTask.kind = "none"
BY NothingFacts, BoundAssumption DEF FreeTask, Task, Paths

LEMMA InitInv == Init => Inv
<1> SUFFICES ASSUME Init PROVE Inv
  OBVIOUS
<1>1. TypeOK
  <2>1. limits \in [Folders -> 1..MaxLimit] /\ mail \in [Folders -> 0..MaxMail]
    BY BoundAssumption DEF Init
  <2>2. tasks \in [Tasks -> Task]
    BY FreeTaskFacts DEF Init
  <2>3. NoKey \in Key /\ Root \in Paths
    BY BoundAssumption DEF NoKey, Key, Paths
  <2>4. errors \in 0..MaxErrors /\ panics \in 0..MaxPanics
    BY BoundAssumption DEF Init
  <2>5. /\ reading \in BOOLEAN /\ folderCache \in BOOLEAN /\ folderSlot \in BOOLEAN
        /\ rootFlag \in BOOLEAN /\ bgCompleted \in BOOLEAN /\ notify \in BOOLEAN
    BY DEF Init
  <2>6. threads \subseteq Folders /\ panicked \subseteq {"list", "threads", "root"}
    BY DEF Init
  <2>7. /\ shown \in Listing /\ rows \in Listing /\ headers \in Listing
        /\ slot \in Listing /\ inboxSlot \in Listing
    BY NothingFacts DEF Init
  <2>8. /\ calm \in Calm /\ path \in Paths /\ rowsFolder \in Paths /\ threadSlot \in Paths
        /\ threadKey \in Paths /\ watching \in Paths /\ fetchKey \in Key
        /\ idle \in {"off", "gap", "waiting", "heard"}
    BY <2>3 DEF Init
  <2> QED
    BY <2>1, <2>2, <2>4, <2>5, <2>6, <2>7, <2>8 DEF TypeOK
<1>2. TaskInv
  BY FreeTaskFacts DEF Init, TaskInv
<1>3. SlotInv /\ RowsInv /\ ShownInv
  BY NothingFacts DEF Init, SlotInv, RowsInv, ShownInv, GoodHeaders
<1> QED
  BY <1>1, <1>2, <1>3 DEF Inv

----------------------------------------------------------------------------
(* Rendering.                                                              *)

\* A spawned task is a queued one in the place of a free one.
LEMMA SpawnTask ==
    ASSUME Inv, NEW kind \in {"list", "threads", "root"}, NEW f \in Folders,
           NEW lim \in 0..MaxLimit, kind = "root" => f = Inbox,
           Spawn(kind, f, lim), errors' = errors
    PROVE  /\ tasks' \in [Tasks -> Task] /\ TaskInv'
           /\ \A t \in Tasks : tasks[t].at = "free" => tasks'[t].kind \in {"none", kind}
<1>1. PICK t \in Tasks : tasks' = [tasks EXCEPT ![t] =
                 [kind |-> kind, at |-> "queued", folder |-> f, limit |-> lim,
                  result |-> Nothing]]
  BY DEF Spawn
<1>3. [kind |-> kind, at |-> "queued", folder |-> f, limit |-> lim, result |-> Nothing] \in Task
  BY NothingFacts DEF Task, Paths
<1>4. tasks \in [Tasks -> Task]
  BY DEF Inv, TypeOK
<1>5. tasks' \in [Tasks -> Task] /\ \A u \in Tasks : u # t => tasks'[u] = tasks[u]
  BY <1>1, <1>3, <1>4
<1>6. tasks'[t] = [kind |-> kind, at |-> "queued", folder |-> f, limit |-> lim,
                   result |-> Nothing]
  BY <1>1, <1>4
<1>7. TaskInv'
  BY <1>5, <1>6 DEF Inv, TaskInv, GoodResult
<1>8. \A u \in Tasks : tasks[u].at = "free" => tasks'[u].kind \in {"none", kind}
  BY <1>5, <1>6 DEF Inv, TaskInv
<1> QED
  BY <1>5, <1>7, <1>8

\* The tasks are of their type and kept their promises; none of the free ones
\* has become a listing.
TasksKept ==
    /\ tasks' \in [Tasks -> Task] /\ TaskInv'
    /\ \A t \in Tasks : tasks[t].at = "free" => tasks'[t].kind # "list"

LEMMA TasksUnchanged ==
    ASSUME Inv, UNCHANGED tasks, errors' = errors
    PROVE  TasksKept
BY DEF Inv, TypeOK, TaskInv, GoodResult, TasksKept

LEMMA LiveType ==
    ASSUME Inv
    PROVE  LiveKey \in Key /\ LiveThreadKey \in Paths /\ LiveRootFlag \in BOOLEAN
<1>1. NoKey \in Key /\ Root \in Paths
  BY BoundAssumption DEF NoKey, Key, Paths
<1> QED
  BY <1>1 DEF Inv, TypeOK, LiveKey, LiveThreadKey, LiveRootFlag

LEMMA FoldThreadsKeeps ==
    ASSUME Inv, NEW f \in Folders, FoldThreads(f), errors' = errors
    PROVE  /\ threads' \subseteq Folders /\ threadSlot' \in Paths /\ threadKey' \in Paths
           /\ TasksKept
<1>1. threadSlot' \in Paths /\ f \in Paths /\ Root \in Paths
  BY DEF FoldThreads, Paths
<1>2. threads' \subseteq Folders
  BY DEF FoldThreads, Inv, TypeOK, Paths
<1>3. CASE UNCHANGED tasks
  <2>1. threadKey' \in Paths
    BY <1>1, LiveType DEF FoldThreads
  <2> QED
    BY <1>1, <1>2, <1>3, <2>1, TasksUnchanged
<1>4. CASE threadKey' = f /\ Spawn("threads", f, 0)
  <2>1. 0 \in 0..MaxLimit
    BY BoundAssumption
  <2> QED
    BY <1>1, <1>2, <1>4, <2>1, SpawnTask DEF TasksKept
<1> QED
  BY <1>3, <1>4 DEF FoldThreads

LEMMA CacheListKeeps ==
    ASSUME Inv, NEW f \in Folders, NEW result \in Listing, NEW heads \in Listing,
           CacheList(f, result, heads), GoodHeaders(heads),
           errors' = errors, GoodResult(result, f),
           limits' \in [Folders -> 1..MaxLimit],
           errors = 0 => f = Inbox \/ result.limit = limits'[f],
           path' = f, ~reading'
    PROVE  /\ shown' \in Listing /\ rows' \in Listing /\ rowsFolder' \in Paths
           /\ headers' \in Listing
           /\ threads' \subseteq Folders /\ threadSlot' \in Paths /\ threadKey' \in Paths
           /\ watching' \in Paths /\ idle' \in {"off", "gap", "waiting", "heard"}
           /\ TasksKept /\ RowsInv' /\ ShownInv'
<1>1. rows' = result /\ rowsFolder' = f /\ shown' = result
  BY DEF CacheList
<1>2. headers' \in Listing
  BY DEF CacheList, Inv, TypeOK
<1>3. watching' \in Paths /\ idle' \in {"off", "gap", "waiting", "heard"}
  BY DEF CacheList, StartIdle, session, Inv, TypeOK, Paths
<1>4. errors = 0 => headers' = result
  BY DEF CacheList, GoodResult
<1>5. RowsInv'
  <2>1. GoodHeaders(headers)'
    BY DEF CacheList, GoodHeaders
  <2>2. GoodRows(rows, headers, rowsFolder, limits)'
    BY <1>1, <1>4 DEF GoodRows, GoodHeaders, GoodResult
  <2> QED
    BY <2>1, <2>2 DEF RowsInv
<1>6. ShownInv'
  BY <1>1, FoldersAssumption DEF ShownInv
<1>7. FoldThreads(f)
  BY DEF CacheList
<1> QED
  BY <1>1, <1>2, <1>3, <1>5, <1>6, <1>7, FoldThreadsKeeps DEF Paths

\* Everything a render decides.
Rendered ==
    /\ shown' \in Listing /\ rows' \in Listing /\ rowsFolder' \in Paths /\ headers' \in Listing
    /\ slot' \in Listing /\ fetchKey' \in Key
    /\ folderCache' \in BOOLEAN /\ folderSlot' \in BOOLEAN /\ rootFlag' \in BOOLEAN
    /\ inboxSlot' \in Listing
    /\ threads' \subseteq Folders /\ threadSlot' \in Paths /\ threadKey' \in Paths
    /\ tasks' \in [Tasks -> Task]
    /\ watching' \in Paths /\ idle' \in {"off", "gap", "waiting", "heard"}
    /\ TaskInv' /\ SlotInv' /\ RowsInv' /\ ShownInv'

LEMMA BuildRootKeeps ==
    ASSUME Inv, NEW given \in Listing, NEW heads \in Listing, NEW cache \in BOOLEAN,
           BuildRoot(cache), rows' = given, headers' = heads, GoodHeaders(heads),
           path' = Root, errors' = errors,
           given # Nothing => GoodRows(given, heads, rowsFolder, limits')
    PROVE  Rendered
<1>1. Root \in Paths /\ Inbox \in Folders /\ 1 \in 0..MaxLimit
  BY FoldersAssumption, BoundAssumption DEF Paths
<1>2. /\ UNCHANGED <<rowsFolder, slot, inboxSlot, threads, threadSlot>>
      /\ fetchKey' \in Key /\ threadKey' \in Paths
      /\ watching' = Root /\ idle' = "off"
  BY LiveType DEF BuildRoot, StopIdle
<1>3. shown' \in {Just("folders"), Just("loading")}
      /\ folderCache' \in BOOLEAN /\ folderSlot' \in BOOLEAN /\ rootFlag' \in BOOLEAN
  BY LiveType DEF BuildRoot, Inv, TypeOK
<1>4. TasksKept
  <2>1. CASE UNCHANGED tasks
    BY <2>1, TasksUnchanged
  <2>2. CASE Spawn("root", Inbox, 1)
    BY <2>2, <1>1, SpawnTask DEF TasksKept
  <2> QED
    BY <2>1, <2>2 DEF BuildRoot
<1>5. shown' \in Listing /\ shown'.what \notin {"list", "error"}
  BY <1>3, JustFacts
<1>6. SlotInv' /\ RowsInv' /\ ShownInv'
  BY <1>2, <1>5 DEF Inv, SlotInv, RowsInv, ShownInv, GoodResult, GoodRows, GoodHeaders
<1> QED
  BY <1>1, <1>2, <1>3, <1>4, <1>5, <1>6 DEF Rendered, TasksKept, Inv, TypeOK

\* The four ways of build_folder: cached, prefetched, fetched, awaited.
LEMMA BuildFolderKeeps ==
    ASSUME Inv, NEW f \in Folders, NEW given \in Listing, NEW heads \in Listing,
           BuildFolder(f, given, heads, limits'[f]), GoodHeaders(heads),
           limits' \in [Folders -> 1..MaxLimit], path' = f, ~reading', errors' = errors,
           folderCache' \in BOOLEAN,
           given # Nothing => GoodRows(given, heads, rowsFolder, limits')
    PROVE  /\ Rendered
           /\ \/ LiveKey = [folder |-> f, limit |-> limits'[f]]
              \/ rowsFolder = f /\ given # Nothing
              => TasksKept
<1> DEFINE lim == limits'[f]
           cached == rowsFolder = f /\ given # Nothing
<1>1. lim \in 0..MaxLimit /\ f \in Paths /\ f # Root /\ Root \in Paths
  BY FoldersAssumption, BoundAssumption DEF Paths
<1>2. NoKey \in Key /\ [folder |-> f, limit |-> lim] \in Key
  BY <1>1, BoundAssumption DEF NoKey, Key
<1>3. rootFlag' \in BOOLEAN /\ folderSlot' \in BOOLEAN
  BY LiveType DEF BuildFolder, Inv, TypeOK
<1>4. CASE /\ cached
           /\ rows' = given /\ shown' = given /\ headers' = heads
           /\ fetchKey' = LiveKey /\ threadKey' = LiveThreadKey
           /\ UNCHANGED <<rowsFolder, slot, inboxSlot, threads, threadSlot, tasks, session>>
  <2>1. TasksKept
    BY <1>4, TasksUnchanged
  <2>2. SlotInv' /\ RowsInv' /\ ShownInv'
    BY <1>4, <1>1 DEF Inv, SlotInv, RowsInv, ShownInv, GoodResult, GoodRows, GoodHeaders
  <2>3. Rendered
    BY <1>3, <1>4, <2>1, <2>2, LiveType DEF Rendered, TasksKept, Inv, TypeOK, session
  <2> QED
    BY <2>1, <2>3
<1>5. CASE /\ ~cached /\ Prefetched(f)
           /\ inboxSlot' = Nothing
           /\ CacheList(f, inboxSlot, heads)
           /\ fetchKey' = LiveKey
           /\ UNCHANGED slot
  <2>1. inboxSlot \in Listing /\ GoodResult(inboxSlot, f) /\ f = Inbox
    BY <1>5 DEF Prefetched, Inv, TypeOK, SlotInv
  <2>2. SlotInv'
    BY <1>5 DEF Inv, SlotInv, GoodResult
  <2>3. /\ shown' \in Listing /\ rows' \in Listing /\ rowsFolder' \in Paths
        /\ headers' \in Listing
        /\ threads' \subseteq Folders /\ threadSlot' \in Paths /\ threadKey' \in Paths
        /\ watching' \in Paths /\ idle' \in {"off", "gap", "waiting", "heard"}
        /\ TasksKept /\ RowsInv' /\ ShownInv'
    BY <1>5, <2>1, CacheListKeeps
  <2>4. slot' \in Listing /\ inboxSlot' \in Listing /\ fetchKey' \in Key
    BY <1>5, NothingFacts, LiveType DEF Inv, TypeOK
  <2>5. Rendered
    BY <1>3, <2>2, <2>3, <2>4 DEF Rendered, TasksKept
  <2> QED
    BY <2>3, <2>5
<1>6. CASE /\ ~cached /\ ~Prefetched(f) /\ Fetched(f, lim)
           /\ slot' = Nothing /\ fetchKey' = NoKey
           /\ CacheList(f, slot, heads)
           /\ UNCHANGED inboxSlot
  <2>1. slot \in Listing /\ GoodResult(slot, f) /\ slot.limit = lim
    BY <1>6, <1>1, NothingFacts DEF Fetched, Inv, TypeOK, SlotInv
  <2>2. SlotInv'
    BY <1>6 DEF Inv, SlotInv, GoodResult
  <2>3. /\ shown' \in Listing /\ rows' \in Listing /\ rowsFolder' \in Paths
        /\ headers' \in Listing
        /\ threads' \subseteq Folders /\ threadSlot' \in Paths /\ threadKey' \in Paths
        /\ watching' \in Paths /\ idle' \in {"off", "gap", "waiting", "heard"}
        /\ TasksKept /\ RowsInv' /\ ShownInv'
    BY <1>6, <2>1, CacheListKeeps
  <2>4. slot' \in Listing /\ inboxSlot' \in Listing /\ fetchKey' \in Key
    BY <1>6, <1>2, NothingFacts DEF Inv, TypeOK
  <2>5. Rendered
    BY <1>3, <2>2, <2>3, <2>4 DEF Rendered, TasksKept
  <2> QED
    BY <2>3, <2>5
<1>7. CASE /\ ~cached /\ ~Prefetched(f) /\ ~Fetched(f, lim)
           /\ slot' = Nothing
           /\ rows' = Nothing /\ shown' = Just("loading") /\ headers' = heads
           /\ threadKey' = LiveThreadKey
           /\ IF Awaited(f, lim) THEN fetchKey' = LiveKey /\ UNCHANGED tasks
              ELSE fetchKey' = [folder |-> f, limit |-> lim] /\ Spawn("list", f, lim)
           /\ UNCHANGED <<rowsFolder, inboxSlot, threads, threadSlot, session>>
  <2>1. fetchKey' \in Key
    BY <1>2, <1>7, LiveType
  <2>2. tasks' \in [Tasks -> Task] /\ TaskInv'
    BY <1>1, <1>7, TasksUnchanged, SpawnTask DEF TasksKept
  <2>3. LiveKey = [folder |-> f, limit |-> lim] => TasksKept
    BY <1>7, TasksUnchanged DEF Awaited
  <2>4. shown' \in Listing /\ shown'.what = "loading"
    BY <1>7, JustFacts
  <2>5. SlotInv' /\ RowsInv' /\ ShownInv'
    BY <1>7, <2>4 DEF Inv, SlotInv, RowsInv, ShownInv, GoodResult
  <2>6. Rendered
    BY <1>3, <1>7, <2>1, <2>2, <2>4, <2>5, LiveType, NothingFacts
       DEF Rendered, Inv, TypeOK, session
  <2> QED
    BY <1>7, <2>3, <2>6
<1> QED
  BY <1>4, <1>5, <1>6, <1>7 DEF BuildFolder

LEMMA RenderKeeps ==
    ASSUME Inv, NEW given \in Listing, NEW heads \in Listing, NEW cache \in BOOLEAN,
           Render(given, heads, cache), GoodHeaders(heads),
           path' \in Paths, limits' \in [Folders -> 1..MaxLimit],
           given # Nothing => GoodRows(given, heads, rowsFolder, limits')
    PROVE  Rendered
<1>1. errors' = errors
  BY DEF Render, counts
<1>2. CASE path' = Root /\ BuildRoot(cache) /\ rows' = given /\ headers' = heads
  BY <1>1, <1>2, BuildRootKeeps
<1>3. CASE path' # Root /\ ~reading' /\ BuildFolder(path', given, heads, limits'[path'])
           /\ folderCache' = cache
  <2> DEFINE f == path'
  <2>1. f \in Folders /\ path' = f /\ BuildFolder(f, given, heads, limits'[f])
       /\ folderCache' \in BOOLEAN
    BY <1>3 DEF Paths
  <2> HIDE DEF f
  <2> QED
    BY <1>1, <1>3, <2>1, BuildFolderKeeps
<1>4. CASE /\ path' # Root /\ reading' /\ BuildMessage
           /\ rows' = given /\ headers' = heads /\ folderCache' = cache
  <2>1. /\ UNCHANGED <<rowsFolder, slot, folderSlot, inboxSlot, threads, threadSlot, tasks,
                       session>>
        /\ shown' \in Listing /\ shown'.what = "message"
        /\ fetchKey' \in Key /\ threadKey' \in Paths /\ rootFlag' \in BOOLEAN
    BY <1>4, LiveType, JustFacts DEF BuildMessage
  <2>2. TasksKept
    BY <1>1, <2>1, TasksUnchanged
  <2>3. SlotInv' /\ RowsInv' /\ ShownInv'
    BY <1>1, <1>4, <2>1 DEF Inv, SlotInv, RowsInv, ShownInv, GoodResult, GoodRows, GoodHeaders
  <2> QED
    BY <1>4, <2>1, <2>2, <2>3 DEF Rendered, TasksKept, Inv, TypeOK, session
<1> QED
  BY <1>2, <1>3, <1>4 DEF Render

\* What a render and the call before it leave together.
LEMMA CallKeeps ==
    ASSUME Inv, Rendered, path' \in Paths, reading' \in BOOLEAN,
           limits' \in [Folders -> 1..MaxLimit], UNCHANGED <<calm, counts>>,
           panicked' = {}, bgCompleted' \in BOOLEAN, notify' \in BOOLEAN
    PROVE  Inv'
<1>1. /\ calm' \in Calm /\ mail' \in [Folders -> 0..MaxMail]
      /\ errors' \in 0..MaxErrors /\ panics' \in 0..MaxPanics
  BY DEF Inv, TypeOK, counts
<1>2. panicked' \subseteq {"list", "threads", "root"}
  OBVIOUS
<1>3. TypeOK'
  BY <1>1, <1>2 DEF TypeOK, Rendered
<1> QED
  BY <1>3 DEF Inv, Rendered

LEMMA CallType ==
    ASSUME Inv, Call
    PROVE  panicked' = {} /\ bgCompleted' \in BOOLEAN /\ notify' \in BOOLEAN
BY DEF Call, Inv, TypeOK

\* The cached rows as they are, for a call that leaves the limits.
LEMMA RowsGiven ==
    ASSUME Inv, UNCHANGED limits
    PROVE  /\ rows \in Listing /\ headers \in Listing /\ GoodHeaders(headers)
           /\ rows # Nothing => GoodRows(rows, headers, rowsFolder, limits')
           /\ limits' \in [Folders -> 1..MaxLimit]
BY DEF Inv, TypeOK, RowsInv

LEMMA PollKeeps ==
    ASSUME Inv, Poll
    PROVE  Inv'
<1>1. /\ RowsAfterNews \in Listing
      /\ RowsAfterNews # Nothing => GoodRows(RowsAfterNews, headers, rowsFolder, limits')
  BY RowsGiven, NothingFacts DEF Poll, RowsAfterNews
<1>2. path' \in Paths /\ reading' \in BOOLEAN /\ folderCache \in BOOLEAN
  BY DEF Poll, Inv, TypeOK
<1>3. limits' \in [Folders -> 1..MaxLimit] /\ Render(RowsAfterNews, headers, folderCache)
  BY RowsGiven DEF Poll
<1>4. Rendered
  BY <1>1, <1>2, <1>3, RowsGiven, RenderKeeps DEF Poll
<1> QED
  BY <1>2, <1>3, <1>4, CallKeeps DEF Poll, TakeCompleted, Render

\* A call that changes neither limits nor rows.
LEMMA MoveKeeps ==
    ASSUME Inv, Call, path' \in Paths, reading' \in BOOLEAN, UNCHANGED limits,
           Render(rows, headers, folderCache)
    PROVE  Inv'
<1>1. folderCache \in BOOLEAN
  BY DEF Inv, TypeOK
<1>2. Rendered
  BY <1>1, RowsGiven, RenderKeeps
<1> QED
  BY <1>2, RowsGiven, CallType, CallKeeps DEF Render

LEMMA UserKeeps ==
    ASSUME Inv, User
    PROVE  Inv'
<1>1. path \in Paths /\ reading \in BOOLEAN /\ folderCache \in BOOLEAN
      /\ limits \in [Folders -> 1..MaxLimit] /\ Root \in Paths
      /\ headers \in Listing /\ GoodHeaders(headers)
  BY DEF Inv, TypeOK, RowsInv, Paths
<1>2. CASE Start
  BY <1>1, <1>2, MoveKeeps DEF Start
<1>3. CASE OpenMessage
  BY <1>1, <1>3, MoveKeeps DEF OpenMessage
<1>4. CASE Leave
  BY <1>1, <1>4, MoveKeeps DEF Leave
<1>5. ASSUME NEW f \in Folders, Open(f)
      PROVE  Inv'
  BY <1>1, <1>5, MoveKeeps DEF Open, Paths
<1>6. CASE Refresh
  <2>1. Rendered
    BY <1>1, <1>6, NothingFacts, RenderKeeps DEF Refresh
  <2> QED
    BY <1>1, <1>6, <2>1, CallType, CallKeeps DEF Refresh, Render
<1>7. CASE LoadMore
  <2>1. path \in Folders /\ limits[path] \in 1..MaxLimit /\ limits[path] + 1 \in 1..MaxLimit
    BY <1>1, <1>7, BoundAssumption DEF LoadMore, Paths
  <2>2. limits' \in [Folders -> 1..MaxLimit]
    BY <1>1, <1>7, <2>1 DEF LoadMore
  <2>3. Rendered
    BY <1>1, <1>7, <2>2, NothingFacts, RenderKeeps DEF LoadMore
  <2> QED
    BY <1>1, <1>7, <2>2, <2>3, CallType, CallKeeps DEF LoadMore, Render
<1>8. CASE Edit
  <2> DEFINE given == IF headers = Nothing THEN Just("list") ELSE headers
  <2>1. given \in Listing
    BY JustFacts DEF Inv, TypeOK
  <2>2. GoodRows(given, headers, rowsFolder, limits')
    <3>1. given.what = "list"
      BY JustFacts DEF Inv, RowsInv, GoodHeaders
    <3>2. GoodRows(rows, headers, rowsFolder, limits) /\ rows # Nothing /\ limits' = limits
      BY <1>8 DEF Edit, Inv, RowsInv
    <3>3. errors = 0 => given = headers /\ rows = headers
      BY <3>2 DEF GoodRows, GoodHeaders
    <3> QED
      BY <3>1, <3>2, <3>3 DEF GoodRows, GoodHeaders
  <2>3. Call /\ UNCHANGED <<path, reading, limits>> /\ Render(given, headers, folderCache)
    BY <1>8 DEF Edit
  <2> HIDE DEF given
  <2>4. Rendered
    BY <1>1, <2>1, <2>2, <2>3, RenderKeeps
  <2> QED
    BY <1>1, <2>3, <2>4, CallType, CallKeeps DEF Render
<1>9. CASE UndoMove
  <2>1. GoodHeaders(Nothing) /\ Nothing \in Listing
    BY NothingFacts DEF GoodHeaders
  <2>2. Rendered
    BY <1>1, <1>9, <2>1, RenderKeeps DEF UndoMove
  <2> QED
    BY <1>1, <1>9, <2>2, CallType, CallKeeps DEF UndoMove, Render
<1> QED
  BY <1>2, <1>3, <1>4, <1>5, <1>6, <1>7, <1>8, <1>9 DEF User

----------------------------------------------------------------------------
(* The tasks.                                                              *)

\* A task gives back its place.
LEMMA FreeTaskKeeps ==
    ASSUME Inv, NEW t \in Tasks, tasks' = [tasks EXCEPT ![t] = FreeTask], errors' = errors
    PROVE  tasks' \in [Tasks -> Task] /\ TaskInv'
<1>1. tasks' \in [Tasks -> Task] /\ tasks'[t] = FreeTask
      /\ \A u \in Tasks : u # t => tasks'[u] = tasks[u]
  BY FreeTaskFacts DEF Inv, TypeOK
<1> QED
  BY <1>1, FreeTaskFacts DEF Inv, TaskInv, GoodResult

LEMMA ResultFacts ==
    ASSUME Inv, NEW t \in Tasks, tasks[t].at \in {"answered", "half"}
    PROVE  tasks[t].result \in Listing /\ GoodResult(tasks[t].result, tasks[t].folder)
BY DEF Inv, TypeOK, TaskInv, Task

LEMMA ListingTypes ==
    ASSUME Inv, NEW f \in Folders, NEW lim \in 0..MaxLimit
    PROVE  Listed(f, lim) \in Listing /\ Failed(f, lim) \in Listing
<1>1. mail[f] \in 0..MaxMail /\ 0 \in 0..MaxMail /\ f \in Paths
  BY BoundAssumption DEF Inv, TypeOK, Paths
<1> QED
  BY <1>1 DEF Listed, Failed, Listing

LEMMA AnswerKeeps ==
    ASSUME Inv, NEW t \in Tasks, Answer(t)
    PROVE  Inv'
<1> DEFINE f == tasks[t].folder
           lim == tasks[t].limit
<1>1. f \in Folders /\ lim \in 0..MaxLimit /\ tasks \in [Tasks -> Task] /\ tasks[t] \in Task
  BY DEF Answer, Inv, TypeOK, TaskInv, Task
<1>2. ASSUME NEW r \in Listing, r.what \in {"list", "error"}, r.folder = f,
             errors' = 0 => r.what = "list",
             errors' \in 0..MaxErrors, errors' = errors \/ errors' # 0,
             tasks' = [tasks EXCEPT ![t].at = "answered", ![t].result = r]
      PROVE  Inv'
  <2>1. tasks' \in [Tasks -> Task] /\ \A u \in Tasks : u # t => tasks'[u] = tasks[u]
    BY <1>1, <1>2 DEF Task
  <2>2. /\ tasks'[t].at = "answered" /\ tasks'[t].result = r
        /\ tasks'[t].kind = tasks[t].kind /\ tasks'[t].folder = f
    BY <1>1, <1>2 DEF Task
  <2>3. TaskInv'
    BY <1>2, <2>1, <2>2 DEF Answer, Inv, TaskInv, GoodResult
  <2>4. UNCHANGED <<screen, lists, root, thread, signals, session, mail, panics>>
    BY DEF Answer
  <2>5. TypeOK'
    BY <1>2, <2>1, <2>4 DEF Inv, TypeOK, screen, lists, root, thread, signals, session
  <2>6. SlotInv' /\ RowsInv' /\ ShownInv'
    BY <1>2, <2>4 DEF Inv, SlotInv, RowsInv, ShownInv, GoodResult, GoodRows, GoodHeaders,
                      screen, lists, root
  <2> QED
    BY <2>3, <2>5, <2>6 DEF Inv
<1>3. CASE /\ tasks' = [tasks EXCEPT ![t].at = "answered", ![t].result = Listed(f, lim)]
           /\ UNCHANGED errors
  <2>1. Listed(f, lim).what = "list" /\ Listed(f, lim).folder = f
    BY DEF Listed
  <2>2. errors' \in 0..MaxErrors
    BY <1>3 DEF Inv, TypeOK
  <2> QED
    BY <1>1, <1>2, <1>3, <2>1, <2>2, ListingTypes
<1>4. CASE /\ errors < MaxErrors /\ errors' = errors + 1
           /\ tasks' = [tasks EXCEPT ![t].at = "answered", ![t].result = Failed(f, lim)]
  <2>1. errors \in 0..MaxErrors /\ panics \in 0..MaxPanics
    BY DEF Inv, TypeOK
  <2>2. errors' \in 0..MaxErrors /\ errors' # 0
    BY <1>4, <2>1, BoundAssumption
  <2>3. Failed(f, lim).what = "error" /\ Failed(f, lim).folder = f
    BY DEF Failed
  <2> QED
    BY <1>1, <1>2, <1>4, <2>2, <2>3, ListingTypes
<1> QED
  BY <1>3, <1>4 DEF Answer

LEMMA TaskStepKeeps ==
    ASSUME Inv, NEW t \in Tasks, TaskStep(t)
    PROVE  Inv'
<1>1. CASE Answer(t)
  BY <1>1, AnswerKeeps
<1>2. CASE PublishList(t)
  <2>1. slot' \in Listing /\ SlotInv'
    BY <1>2, ResultFacts DEF PublishList, Inv, SlotInv, GoodResult, counts, root
  <2>2. tasks' \in [Tasks -> Task] /\ TaskInv'
    BY <1>2, FreeTaskKeeps DEF PublishList, Complete, counts
  <2>3. TypeOK'
    BY <1>2, <2>1, <2>2 DEF PublishList, Complete, SignalDone, Inv, TypeOK, screen, root,
                            thread, session, counts
  <2>4. RowsInv' /\ ShownInv'
    BY <1>2 DEF PublishList, Inv, RowsInv, ShownInv, GoodRows, GoodHeaders, screen, counts
  <2> QED
    BY <2>1, <2>2, <2>3, <2>4 DEF Inv
<1>3. CASE PublishThreads(t)
  <2>1. tasks' \in [Tasks -> Task] /\ TaskInv'
    BY <1>3, FreeTaskKeeps DEF PublishThreads, Complete, counts
  <2>2. threadSlot' \in Paths
    BY <1>3 DEF PublishThreads, Inv, TypeOK, Task
  <2>3. TypeOK'
    BY <1>3, <2>1, <2>2 DEF PublishThreads, Complete, SignalDone, Inv, TypeOK, screen, lists,
                            root, session, counts
  <2>4. SlotInv' /\ RowsInv' /\ ShownInv'
    BY <1>3 DEF PublishThreads, Inv, SlotInv, RowsInv, ShownInv, GoodResult, GoodRows, GoodHeaders,
                screen, lists, root, counts
  <2> QED
    BY <2>1, <2>3, <2>4 DEF Inv
<1>4. CASE PublishFolders(t)
  <2>1. tasks \in [Tasks -> Task] /\ tasks[t] \in Task
    BY DEF Inv, TypeOK
  <2>2. tasks' \in [Tasks -> Task] /\ \A u \in Tasks : u # t => tasks'[u] = tasks[u]
    BY <1>4, <2>1 DEF PublishFolders, Task
  <2>3. /\ tasks'[t].at = "half" /\ tasks'[t].kind = "root"
        /\ tasks'[t].folder = tasks[t].folder /\ tasks'[t].result = tasks[t].result
    BY <1>4, <2>1 DEF PublishFolders, Task
  <2>4. TaskInv'
    BY <1>4, <2>2, <2>3 DEF PublishFolders, Inv, TaskInv, GoodResult, counts
  <2>5. TypeOK'
    BY <1>4, <2>2 DEF PublishFolders, Inv, TypeOK, screen, lists, thread, signals, session,
                      counts
  <2>6. SlotInv' /\ RowsInv' /\ ShownInv'
    BY <1>4 DEF PublishFolders, Inv, SlotInv, RowsInv, ShownInv, GoodResult, GoodRows, GoodHeaders,
                screen, lists, counts
  <2> QED
    BY <2>4, <2>5, <2>6 DEF Inv
<1>5. CASE PublishInbox(t)
  <2>1. tasks[t].folder = Inbox
    BY <1>5 DEF PublishInbox, Inv, TaskInv
  <2>2. inboxSlot' \in Listing /\ SlotInv'
    BY <1>5, <2>1, ResultFacts DEF PublishInbox, Inv, SlotInv, GoodResult, lists, counts
  <2>3. tasks' \in [Tasks -> Task] /\ TaskInv'
    BY <1>5, FreeTaskKeeps DEF PublishInbox, Complete, counts
  <2>4. TypeOK'
    BY <1>5, <2>2, <2>3 DEF PublishInbox, Complete, SignalDone, Inv, TypeOK, screen, lists,
                            thread, session, counts
  <2>5. RowsInv' /\ ShownInv'
    BY <1>5 DEF PublishInbox, Inv, RowsInv, ShownInv, GoodRows, GoodHeaders, screen, lists, counts
  <2> QED
    BY <2>2, <2>3, <2>4, <2>5 DEF Inv
<1>6. CASE Panic(t)
  <2>1. tasks' \in [Tasks -> Task] /\ TaskInv'
    BY <1>6, FreeTaskKeeps DEF Panic
  <2>2. panicked' \subseteq {"list", "threads", "root"}
    BY <1>6 DEF Panic, Inv, TypeOK, TaskInv
  <2>3. panics' \in 0..MaxPanics
    BY <1>6, BoundAssumption DEF Panic, Inv, TypeOK
  <2>4. TypeOK'
    BY <1>6, <2>1, <2>2, <2>3 DEF Panic, Inv, TypeOK, screen, lists, root, thread, session
  <2>5. SlotInv' /\ RowsInv' /\ ShownInv'
    BY <1>6 DEF Panic, Inv, SlotInv, RowsInv, ShownInv, GoodResult, GoodRows, GoodHeaders,
                screen, lists, root
  <2> QED
    BY <2>1, <2>4, <2>5 DEF Inv
<1> QED
  BY <1>1, <1>2, <1>3, <1>4, <1>5, <1>6 DEF TaskStep

----------------------------------------------------------------------------
(* The session and the server.                                             *)

LEMMA SessionKeeps ==
    ASSUME Inv, NEW from, NEW to \in {"gap", "waiting"}, Session(from, to),
           notify' \in BOOLEAN
    PROVE  Inv'
<1>1. TypeOK'
  BY DEF Session, Inv, TypeOK, screen, lists, root, thread, counts
<1>2. TaskInv' /\ SlotInv' /\ RowsInv' /\ ShownInv'
  BY DEF Session, Inv, TaskInv, SlotInv, RowsInv, ShownInv, GoodResult, GoodRows, GoodHeaders,
         screen, lists, root, counts
<1> QED
  BY <1>1, <1>2 DEF Inv

LEMMA DeliverKeeps ==
    ASSUME Inv, NEW f \in Folders, Deliver(f)
    PROVE  Inv'
<1>1. mail' \in [Folders -> 0..MaxMail]
  BY BoundAssumption DEF Deliver, Inv, TypeOK
<1>2. TypeOK'
  BY <1>1 DEF Deliver, Inv, TypeOK, screen, lists, root, thread, signals
<1>3. TaskInv' /\ SlotInv' /\ RowsInv' /\ ShownInv'
  BY DEF Deliver, Inv, TaskInv, SlotInv, RowsInv, ShownInv, GoodResult, GoodRows, GoodHeaders,
         screen, lists, root
<1> QED
  BY <1>2, <1>3 DEF Inv

LEMMA StutterKeeps ==
    ASSUME Inv, UNCHANGED vars
    PROVE  Inv'
<1>1. TypeOK'
  BY DEF vars, Inv, TypeOK, screen, lists, root, thread, signals, session, counts
<1>2. TaskInv' /\ SlotInv' /\ RowsInv' /\ ShownInv'
  BY DEF vars, Inv, TaskInv, SlotInv, RowsInv, ShownInv, GoodResult, GoodRows, GoodHeaders,
         screen, lists, root, counts
<1> QED
  BY <1>1, <1>2 DEF Inv

LEMMA NextKeeps == Inv /\ [Next]_vars => Inv'
<1> SUFFICES ASSUME Inv, [Next]_vars PROVE Inv'
  OBVIOUS
<1>1. CASE Poll
  BY <1>1, PollKeeps
<1>2. CASE User
  BY <1>2, UserKeeps
<1>3. ASSUME NEW t \in Tasks, TaskStep(t) PROVE Inv'
  BY <1>3, TaskStepKeeps
<1>4. CASE Wait \/ Tell \/ Interrupt
  <2>1. notify' \in BOOLEAN
    BY <1>4 DEF Wait, Tell, Interrupt, Inv, TypeOK
  <2> QED
    BY <1>4, <2>1, SessionKeeps DEF Wait, Tell, Interrupt
<1>5. ASSUME NEW f \in Folders, Deliver(f) PROVE Inv'
  BY <1>5, DeliverKeeps
<1>6. CASE UNCHANGED vars
  BY <1>6, StutterKeeps
<1> QED
  BY <1>1, <1>2, <1>3, <1>4, <1>5, <1>6 DEF Next, Surroundings

LEMMA InvHolds == Spec => []Inv
BY InitInv, NextKeeps, PTL DEF Spec

----------------------------------------------------------------------------

\* Every variable keeps its type, for any number of folders and tasks.
THEOREM ViewTypeOK == Spec => []TypeOK
<1>1. Inv => TypeOK
  BY DEF Inv
<1> QED
  BY <1>1, InvHolds, PTL

\* As long as no listing has failed, the list that build_folder shows is of
\* the folder on screen and was asked for under its limit, whatever the user
\* and the server do.
THEOREM ViewRowsOfView == Spec => []RowsOfView
<1>1. Inv => RowsOfView
  BY NothingFacts DEF Inv, ShownInv, RowsInv, GoodRows, GoodHeaders, RowsOfView
<1> QED
  BY <1>1, InvHolds, PTL

\* A render that a poll asks for starts no listing while one of the folder is
\* awaited, nor after one failed: no completion feeds itself.
THEOREM ViewNoSecondListing == Spec => NoSecondListing
<1> DEFINE awaited == LiveKey = [folder |-> path, limit |-> limits[path]]
           Step == (/\ Poll /\ ~notify /\ path # Root
                    /\ awaited \/ shown.what = "error")
                   => \A t \in Tasks : tasks[t].at = "free" => tasks'[t].kind # "list"
<1>1. Inv /\ [Next]_vars => [Step]_vars
  <2> SUFFICES ASSUME Inv, Poll, ~notify, path # Root, awaited \/ shown.what = "error"
               PROVE  TasksKept
    BY DEF TasksKept
  <2>1. /\ UNCHANGED <<path, reading, limits>> /\ RowsAfterNews = rows
        /\ Render(rows, headers, folderCache)
    BY DEF Poll, RowsAfterNews
  <2>2. errors' = errors
    BY <2>1 DEF Render, counts
  <2>3. CASE BuildMessage
    BY <2>2, <2>3, TasksUnchanged DEF BuildMessage
  <2>4. CASE ~reading' /\ BuildFolder(path', rows, headers, limits'[path']) /\ folderCache' = folderCache
    <3>1. path \in Folders /\ folderCache' \in BOOLEAN
      BY <2>4 DEF Inv, TypeOK, Paths
    <3>2. shown.what = "error" => rowsFolder = path /\ rows # Nothing
      BY NothingFacts DEF Inv, ShownInv
    <3>3. awaited \/ (rowsFolder = path /\ rows # Nothing)
      BY <3>2
    <3>4. BuildFolder(path, rows, headers, limits'[path]) /\ path' = path /\ ~reading'
      BY <2>1, <2>4
    <3>5. LiveKey = [folder |-> path, limit |-> limits'[path]]
          \/ (rowsFolder = path /\ rows # Nothing)
      BY <2>1, <3>3
    <3> QED
      BY <2>1, <2>2, <3>1, <3>4, <3>5, RowsGiven, BuildFolderKeeps
  <2> QED
    BY <2>1, <2>3, <2>4 DEF Render
<1>2. Spec => [][Step]_vars
  BY <1>1, InvHolds, PTL DEF Spec
<1> QED
  BY <1>2 DEF NoSecondListing

----------------------------------------------------------------------------
(* Calm surroundings: mail arrives only while nothing is under way, so what  *)
(* is, holds all the mail; and the rows do, or the news of what they lack is *)
(* still to be told, or they are no longer watched.                          *)

FreshTasks ==
    \A t \in Tasks : tasks[t].at \in {"answered", "half"} =>
        /\ tasks[t].kind \in {"list", "root"}
        /\ tasks[t].result.seen = mail[tasks[t].folder]

FreshSlots ==
    /\ slot # Nothing => slot.seen = mail[slot.folder]
    /\ inboxSlot # Nothing => inboxSlot.seen = mail[Inbox]

\* The rows r, with the news to be told and the session as they will be.
FreshOrTold(r, told) ==
    r # Nothing => \/ r.seen = mail[rowsFolder]
                   \/ told
                   \/ watching # rowsFolder
                   \/ idle = "heard"

FreshRows == FreshOrTold(rows, notify)

Fresh == errors = 0 /\ FreshTasks /\ FreshSlots /\ FreshRows

LEMMA SpawnFresh ==
    ASSUME Inv, FreshTasks, NEW kind, NEW f, NEW lim,
           Spawn(kind, f, lim) \/ UNCHANGED tasks, UNCHANGED mail
    PROVE  FreshTasks'
<1>1. tasks \in [Tasks -> Task]
  BY DEF Inv, TypeOK
<1>2. \A t \in Tasks : tasks'[t].at \in {"answered", "half"} => tasks'[t] = tasks[t]
  BY <1>1 DEF Spawn
<1> QED
  BY <1>2 DEF FreshTasks

\* A list that comes in is the whole list; the rows at hand are as fresh as they were.
LEMMA BuildFolderFresh ==
    ASSUME Inv, Fresh, NEW f \in Folders, NEW given, NEW heads, NEW lim, NEW told,
           BuildFolder(f, given, heads, lim), UNCHANGED mail,
           notify' = told, FreshOrTold(given, told)
    PROVE  FreshTasks' /\ FreshSlots' /\ FreshRows'
<1>0. f # Root /\ SlotInv
  BY FoldersAssumption DEF Inv
<1>1. CASE /\ rows' = given
           /\ UNCHANGED <<rowsFolder, slot, inboxSlot, tasks, session>>
  <2>1. FreshTasks' /\ FreshSlots'
    BY <1>1 DEF Fresh, FreshTasks, FreshSlots
  <2>2. FreshRows'
    BY <1>1 DEF FreshRows, FreshOrTold, session
  <2> QED
    BY <2>1, <2>2
<1>2. CASE /\ Prefetched(f) /\ inboxSlot' = Nothing /\ UNCHANGED slot
           /\ CacheList(f, inboxSlot, heads)
  <2>1. rows' = inboxSlot /\ rowsFolder' = f /\ inboxSlot.seen = mail[f]
    BY <1>2 DEF CacheList, Prefetched, Fresh, FreshSlots
  <2>2. FreshTasks'
    BY <1>2, SpawnFresh DEF CacheList, FoldThreads, Fresh
  <2> QED
    BY <1>2, <2>1, <2>2 DEF FreshRows, FreshOrTold, Fresh, FreshSlots
<1>3. CASE /\ Fetched(f, lim) /\ slot' = Nothing /\ UNCHANGED inboxSlot
           /\ CacheList(f, slot, heads)
  <2>1. slot # Nothing /\ slot.folder = f
    BY <1>0, <1>3, NothingFacts DEF Fetched
  <2>2. rows' = slot /\ rowsFolder' = f /\ slot.seen = mail[f]
    BY <1>3, <2>1 DEF CacheList, Fresh, FreshSlots
  <2>3. FreshTasks'
    BY <1>3, SpawnFresh DEF CacheList, FoldThreads, Fresh
  <2> QED
    BY <1>3, <2>2, <2>3 DEF FreshRows, FreshOrTold, Fresh, FreshSlots
<1>4. CASE /\ slot' = Nothing /\ rows' = Nothing /\ UNCHANGED inboxSlot
           /\ Spawn("list", f, lim) \/ UNCHANGED tasks
  <2>1. FreshTasks'
    BY <1>4, SpawnFresh DEF Fresh
  <2> QED
    BY <1>4, <2>1 DEF FreshRows, FreshOrTold, Fresh, FreshSlots
<1> QED
  BY <1>1, <1>2, <1>3, <1>4 DEF BuildFolder

LEMMA RenderFresh ==
    ASSUME Inv, Fresh, NEW given, NEW heads, NEW cache, NEW told,
           Render(given, heads, cache), path' \in Paths,
           notify' = told, FreshOrTold(given, told),
           given # Nothing => rowsFolder \in Folders
    PROVE  Fresh'
<1>1. UNCHANGED <<mail, errors>>
  BY DEF Render, counts
<1>2. CASE BuildRoot(cache) /\ rows' = given
  <2>1. FreshTasks'
    BY <1>1, <1>2, SpawnFresh DEF BuildRoot, Fresh
  <2>2. FreshSlots'
    BY <1>1, <1>2 DEF BuildRoot, Fresh, FreshSlots
  <2>3. FreshRows'
    BY <1>2, FoldersAssumption DEF BuildRoot, StopIdle, FreshRows, FreshOrTold
  <2> QED
    BY <1>1, <2>1, <2>2, <2>3 DEF Fresh
<1>3. CASE path' # Root /\ BuildFolder(path', given, heads, limits'[path'])
  <2> DEFINE f == path'
             lim == limits'[path']
  <2>1. f \in Folders /\ BuildFolder(f, given, heads, lim)
    BY <1>3 DEF Paths
  <2> HIDE DEF f, lim
  <2>2. FreshTasks' /\ FreshSlots' /\ FreshRows'
    BY <1>1, <2>1, BuildFolderFresh
  <2> QED
    BY <1>1, <2>2 DEF Fresh
<1>4. CASE BuildMessage /\ rows' = given
  <2>1. UNCHANGED <<rowsFolder, slot, inboxSlot, tasks, session>>
    BY <1>4 DEF BuildMessage
  <2>2. FreshTasks' /\ FreshSlots'
    BY <1>1, <2>1 DEF Fresh, FreshTasks, FreshSlots
  <2>3. FreshRows'
    BY <1>1, <1>4, <2>1 DEF FreshRows, FreshOrTold, session
  <2> QED
    BY <1>1, <2>2, <2>3 DEF Fresh
<1> QED
  BY <1>2, <1>3, <1>4 DEF Render

\* A poll forgets the rows with the news; a call of the user's keeps both, an
\* edit because without errors the rows are the headers.
LEMMA CallFresh ==
    ASSUME Inv, Fresh, Poll \/ User
    PROVE  Fresh'
<1>0. /\ path \in Paths /\ Root \in Paths
      /\ FreshOrTold(rows, notify) /\ FreshOrTold(Nothing, notify)
      /\ rows # Nothing => rowsFolder \in Folders /\ rows = headers
  BY DEF Inv, TypeOK, Paths, RowsInv, GoodRows, Fresh, FreshRows, FreshOrTold
<1>1. CASE Poll
  <2>1. FreshOrTold(RowsAfterNews, FALSE) /\ (RowsAfterNews # Nothing => RowsAfterNews = rows)
    BY <1>0 DEF RowsAfterNews, FreshOrTold
  <2>2. Render(RowsAfterNews, headers, folderCache) /\ notify' = FALSE /\ path' \in Paths
    BY <1>0, <1>1 DEF Poll
  <2> QED
    BY <1>0, <2>1, <2>2, RenderFresh
<1>2. CASE Start \/ OpenMessage \/ Leave \/ \E f \in Folders : Open(f)
  <2>1. Render(rows, headers, folderCache) /\ notify' = notify /\ path' \in Paths
    BY <1>0, <1>2 DEF Start, OpenMessage, Leave, Open, Call, Paths
  <2> QED
    BY <1>0, <2>1, RenderFresh
<1>3. CASE Refresh \/ LoadMore \/ UndoMove
  <2>1. PICK heads, cache : Render(Nothing, heads, cache)
    BY <1>3 DEF Refresh, LoadMore, UndoMove
  <2>2. notify' = notify /\ path' \in Paths
    BY <1>0, <1>3 DEF Refresh, LoadMore, UndoMove, Call
  <2> QED
    BY <1>0, <2>1, <2>2, RenderFresh
<1>4. CASE Edit
  <2>1. Render(rows, headers, folderCache) /\ notify' = notify /\ path' \in Paths
    BY <1>0, <1>4 DEF Edit, Call
  <2> QED
    BY <1>0, <2>1, RenderFresh
<1> QED
  BY <1>1, <1>2, <1>3, <1>4 DEF User

\* An answer holds the mail there is; it moves from the task to its slot.
LEMMA TaskFresh ==
    ASSUME Inv, Fresh, calm, NEW t \in Tasks, TaskStep(t)
    PROVE  Fresh'
<1>1. tasks \in [Tasks -> Task] /\ tasks[t] \in Task /\ FreeTask.at = "free"
  BY FreeTaskFacts DEF Inv, TypeOK
<1>2. CASE Answer(t)
  <2>1. /\ tasks' = [tasks EXCEPT ![t].at = "answered",
                                  ![t].result = Listed(tasks[t].folder, tasks[t].limit)]
        /\ UNCHANGED errors /\ tasks[t].kind # "threads" /\ tasks[t].at = "queued"
    BY <1>2 DEF Answer, Steady
  <2>2. UNCHANGED <<lists, root, signals, session, mail>>
    BY <1>2 DEF Answer
  <2>3. \A u \in Tasks \ {t} : tasks'[u] = tasks[u]
    BY <1>1, <2>1
  <2>4. /\ tasks'[t].kind = tasks[t].kind /\ tasks'[t].folder = tasks[t].folder
        /\ tasks'[t].result.seen = mail[tasks[t].folder]
    BY <1>1, <2>1 DEF Task, Listed
  <2>5. tasks[t].kind \in {"list", "root"}
    BY <2>1 DEF Inv, TaskInv
  <2>6. FreshTasks'
    BY <2>2, <2>3, <2>4, <2>5 DEF Fresh, FreshTasks
  <2> QED
    BY <2>1, <2>2, <2>6 DEF Fresh, FreshSlots, FreshRows, FreshOrTold, lists, root, signals,
                            session
<1>3. ASSUME tasks' = [tasks EXCEPT ![t] = FreeTask], UNCHANGED mail PROVE FreshTasks'
  <2>1. \A u \in Tasks : tasks'[u].at # "free" => tasks'[u] = tasks[u]
    BY <1>1, <1>3
  <2> QED
    BY <1>3, <2>1 DEF Fresh, FreshTasks
<1>4. CASE PublishList(t)
  <2>1. slot'.seen = mail[slot'.folder]
    BY <1>4, ResultFacts DEF PublishList, GoodResult, Fresh, FreshTasks
  <2>2. FreshTasks'
    BY <1>3, <1>4 DEF PublishList, Complete, counts
  <2> QED
    BY <1>4, <2>1, <2>2 DEF PublishList, Complete, SignalDone, Fresh, FreshSlots, FreshRows,
                            FreshOrTold, root, session, counts
<1>5. CASE PublishThreads(t)
  <2>1. FreshTasks'
    BY <1>3, <1>5 DEF PublishThreads, Complete, counts
  <2> QED
    BY <1>5, <2>1 DEF PublishThreads, Complete, SignalDone, Fresh, FreshSlots, FreshRows,
                      FreshOrTold, lists, root, session, counts
<1>6. CASE PublishFolders(t)
  <2>1. \A u \in Tasks : /\ tasks'[u].result = tasks[u].result
                         /\ tasks'[u].kind = tasks[u].kind
                         /\ tasks'[u].folder = tasks[u].folder
                         /\ u = t \/ tasks'[u].at = tasks[u].at
    BY <1>1, <1>6 DEF PublishFolders, Task
  <2>2. FreshTasks'
    BY <1>6, <2>1 DEF PublishFolders, Fresh, FreshTasks, counts
  <2> QED
    BY <1>6, <2>2 DEF PublishFolders, Fresh, FreshSlots, FreshRows, FreshOrTold, lists,
                      signals, session, counts
<1>7. CASE PublishInbox(t)
  <2>1. inboxSlot'.seen = mail[Inbox]
    BY <1>7 DEF PublishInbox, Inv, TaskInv, Fresh, FreshTasks
  <2>2. FreshTasks'
    BY <1>3, <1>7 DEF PublishInbox, Complete, counts
  <2> QED
    BY <1>7, <2>1, <2>2 DEF PublishInbox, Complete, SignalDone, Fresh, FreshSlots, FreshRows,
                            FreshOrTold, lists, session, counts
<1>8. CASE Panic(t)
  <2>1. FreshTasks'
    BY <1>3, <1>8 DEF Panic
  <2> QED
    BY <1>8, <2>1 DEF Panic, Fresh, FreshSlots, FreshRows, FreshOrTold, lists, root, session
<1> QED
  BY <1>2, <1>4, <1>5, <1>6, <1>7, <1>8 DEF TaskStep

\* Mail arrives in the watched folder with nothing under way, and is heard of.
LEMMA DeliverFresh ==
    ASSUME Inv, Fresh, calm, NEW f \in Folders, Deliver(f)
    PROVE  Fresh'
<1>1. /\ watching = f /\ rowsFolder = f /\ idle' = "heard"
      /\ slot = Nothing /\ inboxSlot = Nothing /\ ~Busy("list") /\ ~Busy("root")
  BY DEF Deliver, Announced, Settled
<1>2. UNCHANGED <<lists, root, tasks, signals, watching, errors>>
  BY DEF Deliver
<1>3. FreshTasks'
  BY <1>1, <1>2 DEF Fresh, FreshTasks, Busy
<1>4. FreshSlots'
  BY <1>1, <1>2 DEF FreshSlots, lists, root
<1>5. FreshRows'
  BY <1>1 DEF FreshRows, FreshOrTold
<1> QED
  BY <1>2, <1>3, <1>4, <1>5 DEF Fresh

\* A session that has heard of mail tells it.
LEMMA SessionFresh ==
    ASSUME Fresh, calm, Wait \/ Tell \/ Interrupt
    PROVE  Fresh'
<1>1. UNCHANGED <<lists, root, tasks, watching, counts>>
  BY DEF Wait, Tell, Interrupt, Session
<1>2. FreshTasks' /\ FreshSlots' /\ errors' = 0
  BY <1>1 DEF Fresh, FreshTasks, FreshSlots, lists, root, counts
<1>3. notify' = TRUE \/ (notify' = notify /\ idle # "heard")
  BY DEF Wait, Tell, Interrupt, Session, Steady
<1>4. FreshRows'
  <2>1. CASE notify' = TRUE
    BY <2>1 DEF FreshRows, FreshOrTold
  <2>2. CASE notify' = notify /\ idle # "heard"
    BY <1>1, <2>2 DEF Fresh, FreshRows, FreshOrTold, lists, counts
  <2> QED
    BY <1>3, <2>1, <2>2
<1> QED
  BY <1>2, <1>4 DEF Fresh

LEMMA FreshStep == Inv /\ (calm => Fresh) /\ [Next]_vars => (calm => Fresh)'
<1> SUFFICES ASSUME Inv, calm => Fresh, [Next]_vars, calm' PROVE Fresh'
  OBVIOUS
<1>0. calm
  <2>1. CASE Poll \/ User
    BY <2>1 DEF Poll, User, Start, Open, OpenMessage, Leave, Refresh, LoadMore, Edit, UndoMove,
                Render
  <2>2. CASE Surroundings \/ Wait \/ Tell
    BY <2>2 DEF Surroundings, Interrupt, Deliver, Wait, Tell, Session, screen
  <2>3. ASSUME NEW t \in Tasks, TaskStep(t) PROVE calm
    BY <2>3 DEF TaskStep, Answer, PublishList, PublishThreads, PublishFolders, PublishInbox,
                Panic, screen
  <2>4. CASE UNCHANGED vars
    BY <2>4 DEF vars, screen
  <2> QED
    BY <2>1, <2>2, <2>3, <2>4 DEF Next
<1>1. Fresh
  BY <1>0
<1>2. CASE UNCHANGED vars
  BY <1>1, <1>2 DEF vars, Fresh, FreshTasks, FreshSlots, FreshRows, FreshOrTold, lists, root,
                    signals, session, counts
<1> QED
  BY <1>0, <1>1, <1>2, CallFresh, TaskFresh, DeliverFresh, SessionFresh DEF Next, Surroundings

\* In calm surroundings, once an IDLE session waits and all news is told, the
\* cached list of the watched folder holds all its mail: none that a session
\* has heard of is forgotten, whatever the user does meanwhile.
THEOREM ViewListCurrent == Spec => []CalmListCurrent
<1>1. Init => (calm => Fresh)
  BY FreeTaskFacts DEF Init, Fresh, FreshTasks, FreshSlots, FreshRows, FreshOrTold
<1>2. (calm => Fresh) => CalmListCurrent
  BY NothingFacts DEF Fresh, FreshRows, FreshOrTold, CalmListCurrent
<1> QED
  BY <1>1, <1>2, FreshStep, InvHolds, PTL DEF Spec

=============================================================================
