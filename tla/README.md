# TLA+ models of the email client plugin

The plugin (`src/src/`) is a mail client that runs inside the sicompass app: a provider
the app calls one call at a time (`fetch`, `push_path`, `tick`, ...), a shared
multi-threaded tokio runtime for everything that touches the network, IMAP and SMTP
servers, and one SQLite file per account that several processes (the tabs of the app)
share. These modules model the parts of it in which the order of things decides what the
user sees or loses.

## The system

| Component | State | Operations | Hard behaviour | What makes it correct |
|---|---|---|---|---|
| Envelope cache, `cache.rs` | per folder a UIDVALIDITY, a stored count and rows (UID, header, two flags) | flush, upsert a batch, patch a flag, remove, read count / highest UID / newest | writes fail silently; two processes on one file; a batch overlaps earlier ones | the stored count is the number of rows |
| Listing and flag edits, `net.rs` | an IMAP session, the open cache, what SELECT said | `list_messages`, `set_flags` | every IMAP command is an await: other tabs, other clients, timeouts and kills fall between the reads of the cache and the writes to it | a list is of the incarnation selected; it is the newest messages; the cache has no hole; cached flags follow edits |
| Message fetch, `lib.rs` | a key, a one-place result slot, the cached body, the remembered failure | `resolve_message`, `spawn_message_fetch`, `poll` | several tasks write one slot in any order; the user moves on; tasks panic | the body shown is that of the message on screen; the key names a fetch under way; "Loading" ends; a failure is not retried by rendering |
| Outbox, `lib.rs`, `net.rs` | the compose draft, the held-back draft, the retry flag, the in-flight flag, a result slot | send, drain the result, retry on `tick`, enter and leave the compose view | the result is published before the flag falls and both before it is drained; the user writes meanwhile; a lost answer | one send at a time; no draft is lost; nothing is sent twice; only what was sent off is retried |
| Background mutations, `lib.rs` | tasks behind one connection's mutex | set flags, move, expunge, append, undo by Message-ID | tasks spawned in order reach the mutex in any order; a move is four commands without MOVE | EXPUNGE after the deletion mark; a failed move destroys nothing; an undo finds its message |
| Folder view and IDLE, `lib.rs`, `idle.rs` | the view's cache, the prefetch, a fetch slot and key, the notify flag | `build_folder`, `load-more`, IDLE start / stop, `clear_needs_refresh` | a notification consumed while an older fetch is in flight; gaps between IDLE sessions | new mail is listed in the end; a list shown is of the folder on screen |
| Login and tokens, `lib.rs`, `oauth2.rs` | token, refresh token, address and their copies on disk and in the connections, a refresh slot and flag, the login handle and deadline | refresh (two ways), login, logout, change of a setting, start | a late result lands in another session; the flag is cleared after the slot is filled; a death between two saves | every connection holds the session's credentials; the session is of one account; a logout stays |
| Settings file, `lib.rs`, `files.rs` | a JSON file shared with the app and other tabs | read-modify-write through one temporary file | two writers, a write that fails half way | no torn file; no lost part |
| Composing, `lib.rs`, `net.rs` | the path, the form, the draft with its body (a text or a tree), the listed headers | open a message, answer it, fill in, edit a line or an object's key, send, save | a message is known by its label, a row by its contents, and both change; the body changes format under the path | an answer is to the message opened; an edit of a line touches that line and no other row; what is read out of the mail is what was typed |
| Escaping, `escape.rs` | none | the texts of the wire as rows and back | a stranger's text passes several conversions | nothing on a row is live but a link to the web |
| History view, `lib.rs` | a key, a slot, the labels of one message's thread | `build_history`, `spawn_history_fetch` | as for a message fetch | as for a message fetch |
| Connection I/O, parsing of headers, HTTP, localisation | none of its own | | | not modelled |

The provider owns all of the state named above except what it shares with its tasks:
slots (`Arc<Mutex<Option<..>>>`), flags (`Arc<AtomicBool>`) and the background
connection (`Arc<tokio::sync::Mutex<RealImap>>`). A task publishes its result into a
slot, then clears its flag, then raises `bg_completed`; the app's next `poll` takes that
flag and renders again, and the render drains the slot. Tabs share nothing but the cache
file, the settings file and the server.

## Modules

**`EnvelopeCache`** is one folder's rows. Each function of `cache.rs` is an operator
with its name; a transaction is one step, because SQLite in WAL mode shows another
process all of it or nothing. A header is reduced to the incarnation of the mailbox it
came from (`gen`, the UIDVALIDITY) and its flags. `CacheSpec` drives it with any
sequence of calls.

**`EnvelopeSync`** extends it with `RealImap::list_messages` and `set_flags`. A
connection is a program counter over the statements of `list_messages_inner` and
`set_flags_inner`; the mailbox (its UIDVALIDITY, UIDNEXT and messages) is the
environment. `Begin` is SELECT; `ReadValidity`, `ReadCount` and `ReadMaxUid` are the
three reads that choose the plan; `Flush`, `FetchWindow`, `StoreWindow` are
`Plan::Full`, `FetchNewer`, `MergeNewer`, `Serve` `Plan::Incremental`. `Abort` is a
timeout, a lost connection or the end of the process at any point; `Write` is a cache
write or its silent failure; `Refused` is a command on a mailbox recreated since SELECT.
A behaviour is in one `world`: which connections take part, what happens to the mailbox,
which flags the user edits and what may go wrong. `MCEnvelopeSync` holds the worlds of
TLC's instances.

**`MessageFetch`** is the handshake for a message body, and for a message's history,
whose functions go the same way with variables of their own: `kind` says which of the
two a behaviour is of. `Resolve(m)` is `resolve_message` or `build_history` whole, one
disjunct for each way they return, after `Drain`, which both begin with; `Open` and
`Rerender` are the two calls of it; `Poll` is `tick` as far as it concerns the fetch;
`Answer`, `Publish`, `Complete` and `Panic` are the task. `LiveKey` is the key after
`release_panicked_tasks`, with which each `fetch` begins. A history never fails: what
could not be fetched is left out (`AnswersTo`), and one that the caches know is shown at
once (`Known`).

**`Outbox`** is sending. `PressSend`, `NewCompose`, `Write` and `LeaveCompose` are the
user's; `TickDrain` and `TickRetry` are the two halves of `tick`, which the task's own
steps may separate; `Render` is a render's release of panics; `Accept`, `Refuse`,
`LoseAnswer`, `Publish`, `Release` and `Panic` are the task.

**`BgOps`** is moving, archiving, deleting and undoing. The mailboxes are a sequence of
copies: a message put into a folder gets a UID there for good, so a copy's place in the
sequence stands for a folder and a UID in it. `MoveTo`, `Delete`, `Undo` and `Redo` are
the user's commands, each a change of the view and one or two `spawn_bg_op` tasks; the
list still shows copies that are gone, so a user may act on any. `Lock` is the first
poll of a task, which takes the mutex of the connection it was given; `Ok` is a command
and its answer, `MoveRefused` the fallback to COPY, deletion mark and EXPUNGE, `Search`
and `NotFound` the search for an undo's Message-ID, `Fail` an error or timeout before or
after the server acted, `Panic` and `Release` a panic and its clean-up, `Reset` a
replaced connection, after which old tasks and new ones run side by side.

**`FolderView`** is the list on screen. A list is known by its folder, the limit it was
asked under and how much mail its folder had when the server answered; the mail in it is
`EnvelopeSync`'s matter. `Render` is `fetch`: `BuildRoot`, `BuildFolder` and
`BuildMessage` are the functions of those names, and `BuildFolder` has a disjunct for
each of its four ways: the cached rows, the prefetched INBOX, the fetched list, and
"Loading..." with or without a new fetch (`Awaited`). `CacheList` is what the second and
third do with a result, `FoldThreads` the THREAD map in it, `StartIdle` the session. The
user's actions (`Open`, `OpenMessage`, `Leave`, `Refresh`, `LoadMore`, `Edit`,
`UndoMove`) and `Poll` each change the path, the limits or the caches and render; a call
and its render are one step, since a task's step between the two may as well come before
or after both. `Answer`, `PublishList`, `PublishThreads`, `PublishFolders`,
`PublishInbox` and `Panic` are the tasks; filling the slot and raising `bg_completed`
are one step, except that the root's task fills its two slots in two. `Wait`, `Tell` and
`Interrupt` are `run_idle_session`; `Deliver` is mail. The folder list always arrives
and names all folders, and a cancelled session does nothing more.

**`MailStore`** is what `BgOps` promises of the folders: a message is put into a folder
only from one that has it, and leaves its last folder only when it was deleted for good.
`BgOps` implements it with `places` as the folders of the copies that are there.

**`Session`** is who the program is signed in as. `Fetch` is `ensure_fresh_token_async`
as every `fetch` calls it, one disjunct for each way it returns (`Fresh`, `DrainToken`,
`DrainError`, `AwaitRefresh`, `StartRefresh`), with what building the view does to IDLE
(`Watch`); `Publish`, `Clear`, `Signal` and `Panic` are the spawned refresh;
`SendRefreshes` is the refresh that blocks; `StartLogin`, `AnswerLogin`, `LoginDeadline`
and `Tick` are the login, whose answer `Poll` reads; `Logout`, `ChangeUser`, `Expire`,
`Restart` and `DieInLogin` are what their names say. The connections (`backend`,
`bgImap`, `idle`) hold copies of token and address, which `Reconnect` and `Told`
replace. A token is its account and a serial number.

**`SettingsFile`** is a save of the settings by one of several processes, a step for
each call of the system: `Load`, `Open` (which truncates), `Write`, `Rename`, and `Fail`
and `Die` for what may cut it short. Names refer to inodes, so that two processes with
the temporary file open may hold one file or two. It implements **`SettingsStore`**:
parts change one at a time and whole where saves do not overlap.

**`Markup`**, **`Mime`**, **`MimeRead`** and **`Compose`** are writing and reading a
message. A text is a sequence of symbols: words, backslashes, the tags a row may hold and
the marks set aside for links; a row is a text with what is around it, and a tree is a
function from the positions of its rows (`<<2, 1>>` is the first row under the second).
`Markup` is `escape.rs` over such texts, but for `marked_text`, and what is done to trees;
`Mime` is the message that is written (`SentPart`, `DraftPart`), `MimeRead` which part of
a message becomes its body (`ParseBodyPart`, with `marked_text`) and what becomes an
attachment. `Compose` takes a message as it is read (`Message`, which `MCCompose`
defines by `ParseMessage`), and is the path with its segments, the listed headers and
their labels, the form and its prefill, and each of `commit_edit`'s ways (`CommitField`,
`CommitAttachment`, `CommitLine`), `AddLine`, `DeleteLine`, `PressSend` and `PopPath`. A
form begins (`Begun`) wherever `push_path` is given its name, which may also be the key
of an object of the body. The rows that can be edited (`EditableHere`) are the lines and
the objects whose key is a field. The user types what `world` lists, or leaves a row as
it is, escapes included; which `TypedValue` undoes. **`ComposeLetter`** states
that it implements **`Letter`**, which knows nothing of formats, rows and escapes: a letter is a tree of lines, an edit
replaces or adds one, a form begins empty (`Begin`) and only an empty one is filled in
(`Fill`), and what is mailed is what was typed. The refinement mapping
(`PlainDraft`, `PlainBody`) reads the letter out of the draft and, through
`ParseBodyPart`, out of the mail as its receiver will.

Some promises hold only under an assumption on the surroundings. The variables `patient`
(the user waits for one message before opening the next) and `calm` (in `Outbox` the
user leaves the compose view alone until a send settles, answers arrive, nothing panics;
in `BgOps` the user lets an operation on a message end before the next, undo excepted;
in `FolderView` the user waits for a list before going on and undoes no move, listings
succeed, mail arrives while an IDLE waits in a folder whose list has been read, and a
session that has heard of mail gets to tell it; in `Session` the user signs out when no
refresh is under way, sends no mail in the last minute of a token, leaves the connection
settings alone and does not end the process within a login) are chosen in `Init` and
never change; the properties that need the assumption say so by name
(`KeyInFlightIfPatient`, `Calm...`), all others hold of everyone, and the consequences
listed below say what happens without it.

`SettingsFile` has `serial` in the same way: saves do not overlap.

`EnvelopeSync_proofs` (with those about `EnvelopeCache`), `MessageFetch_proofs`,
`Outbox_proofs`, `BgOps_proofs`, `FolderView_proofs`, `Session_proofs`,
`SettingsFile_proofs` and `Compose_proofs` hold the proofs. A module with a proof reaches
no recursive operator; those of the reader of messages and of the letter are in
`MimeRead` and `ComposeLetter`, which only the runs use.
Definitions whose comment begins "Faulty variant" are plausible mistakes in the
definition that follows them: with the mistake in place, the property that guards
against it is violated.

## Runs

`tlc -config X.cfg M` in this directory. Runs that pass:

| Run | Module | Checks | Shows |
|---|---|---|---|
| `sync` | MCEnvelopeSync | TypeOK, CountMatchesRows, ListedOfSelected, NoHole, ListIsNewest, FlagsSettle, NewMailListed | four worlds: one connection against deliveries, expunges, recreation, failed writes and cut-short calls; foreign flag changes; edits of flags; a cached and an uncached connection over a mailbox that only receives |
| `message` | MessageFetch | KeyInFlightIfPatient, ShownIsOpen, NoSecondFetch, LoadingEnds | bodies and histories, patient and impatient users, two panics |
| `outbox` | Outbox | OneSendAtATime, CalmKeepsDrafts, CalmSendsOnce, CalmRetriesPressed, CalmSendSettles | calm surroundings and any others, a refusal, lost answers, a panic |
| `view` | FolderView | CalmListCurrent, CalmLoadingEnds, CalmNewsListed, RendersSettle | calm surroundings: two folders, mail that IDLE announces, a panic, an IDLE session that ends |
| `view_any` | FolderView | RowsOfView, NoSecondListing | any user, two limits, two tasks, a failed listing |
| `ops` | BgOps | NothingLost, OneCopy, CalmLandsOrReports, ImplementsStore | three tasks over three folders, in any order, with MOVE refused or not, a fault anywhere and a replaced connection |
| `session` | Session | ConnectionsCurrent, OneAccountIfCalm, OneRefreshIfCalm, IdleTokenIfCalm, LoggedOutStays, AnswerKept, LoadingEnds | two accounts, two refreshes at once, logins and logouts at any moment, a panic, a failed save, a changed address or a death within a login |
| `settings` | MCSettingsFile | ReadableIfSerial, PartsKept, ImplementsStore | two tabs, two parts, saves that overlap or not, failed writes and killed processes |
| `compose` | MCCompose | NothingLive, AnswersOpenMessage, EditLandsOnRow, ImplementsLetter | five sittings: a message is written with everything that can be typed; one is sent with a file; messages are read and answered while others come in and are marked; the answer to a structured message is edited, the keys of its objects too; objects of the body are keyed like a form |

Runs that end in a violation, each a statement of the repository that the code does not
keep:

| Run | Property | Statement | What happens |
|---|---|---|---|
| `sync_hidden` | ServeCachedHoldsAll | net.rs:212 "Cache already holds every message the server reports." | one expunge by another client and one delivery keep the counts equal; the new message is not listed |
| `ops_delete` | DeletedIsExpunged | lib.rs:4011 "so the EXPUNGE still follows the \Deleted STORE" | the two tasks of a delete reach the connection in the other order: the message stays, marked, and nothing is reported |
| `settings_torn` | Readable | files.rs:4 "so a reader never sees a half-written file", lib.rs:371 "don't collide on a shared `.tmp` path" | the temporary file has one name: one tab has written it, another opens and truncates it, and the first renames the empty file into place, where a reader finds it until the second tab's write fills it |

`CHECK_DEADLOCK FALSE` is set where the tasks are bounded or a user may stop: a state in
which everything has ended has no next step.

Consequences of the same code that no run of its own records: with two tabs a flush and
refill by one between the other's read of the highest UID and its merge leaves a hole in
the cache (`NoHole` fails with two connections, which is why every world of `sync` has
one on the cache); headers of an old UIDVALIDITY can be stored after another tab has
recorded the new one; a header fetched before another connection's flag edit can be
stored after it; the remembered failure of a message outlives a visit to one whose body
is cached (`resolve_message` returns before it is cleared); a send task that panics
leaves its draft in `pending_send_draft`, from which nothing restores it; the retry
sends the draft as it then is, not as it was when send was pressed. Two tabs whose
windows differ can flush each other's cache for ever, so `NewMailListed` is stated of
one connection on the cache (others without one).

"Load more" can be answered short: the cached count is compared with the server's total
and the rows with nothing, so rows fetched under a smaller window serve a larger one
(net.rs:253; lib.rs:269 promises "the most recent `limit` messages").

Without the patience of `KeyInFlightIfPatient`, the answer for an earlier message is
dropped by `resolve_message`, or overwritten by a later one, without clearing
`message_fetch_key`, although lib.rs:560 calls it the key of the fetch in flight: that
message stays at "Loading..." until another is opened. Without the calm of
`CalmKeepsDrafts`, a send pressed between the fall of `send_inflight` and the drain of
the failure replaces the held-back draft, which is then nowhere; without that of
`CalmSendsOnce`, an old failure drained during a later send puts the later draft back
and arms its retry, so that it is sent twice. TLC shows each of the three when the plain
property (`KeyInFlight`, `NoDraftLost`, `SentOnce`) is put in the run's place of the
conditional one.

A history of which a message could not be fetched, or none could, is kept as it is (down
to "(no history)") until that of another message is looked for. The History row of a
reply form leads to a path of four segments, which `fetch` answers with "(invalid
path)".

Of the folder view: leaving a folder stops IDLE, and opening it again returns the cached
rows before IDLE is started (lib.rs:1747), so that its list is on screen and not
watched, although README.md:14 says "New mail arrives in the background."; a
notification taken while an older fetch is in flight, or answered from a stale slot or
the prefetch, is lost, and the mail is not listed until more arrives (so
`CalmListCurrent` and `CalmNewsListed` are of mail that comes with no listing under
way); mail that arrives in a gap between two IDLE sessions is not noticed; two results
that overwrite each other in the slot leave the key set and the folder at "Loading...";
after a listing that failed, `message_cache` still holds the headers of the folder
before, which an undo or a command on a search result then shows as this one's (so
`RowsOfView` is of runs without a failed listing); an INBOX prefetched with 50 rows is
shown under a raised limit without its "Load more"; folding in another folder's THREAD
map clears the key of the map in flight; the root task lowers `folder_fetch_inflight`
after its slot is filled, so the flag of a second fetch started in between is lowered
with it.

Of the session: a logout leaves a refresh's slot, flag and task as they are, so an
answer for the old account waits in the slot for the first token of the next session
that is near its end, which it then replaces (`OneAccountIfCalm` is of a user who does
not sign out meanwhile; `LoggedOutStays` holds of everyone). The refresh that a send
waits for replaces the token without telling IDLE, which reconnects with the old one
until the folder is entered again, against the comment at the other refresh
(lib.rs:2541). An address Google did not tell leaves the old account's in the settings,
and a process that ends between the two saves of a login starts with new tokens and the
old address; both authenticate as the wrong user until the next login.

Of the settings: the empty file of `settings_torn` is there until the second tab's write.
If that write fails half way, or its process is killed before it, the file stays as it
is. So does one that two tabs opened before either wrote: the second write goes over the
first from the start, and where it is the shorter one the end of the first stays behind
it, in the file the first has meanwhile renamed. TLC shows both when the property is that
no file that is not JSON is there once every tab is idle. A file that is not JSON is
refused by each load after it (`load_settings_json`, lib.rs:342), so that no save
succeeds any more, silently.

Of composing. A path keeps the label a message had when it was entered. Once its flags
have changed the fallback of `lookup_uid` strips every leading tag, those of the subject
too: a message "[list] Hello" is then not found, or another "Hello" is, and the answer
goes to that one (lib.rs:1167; `AnswersOpenMessage` leaves out subjects that begin with
a tag). Of two messages with the same subject and sender the first is taken, and of a
starred "Hello" and one whose subject is "[star] Hello" the one higher in the list
(`Alone`). A subject or key with a slash is pushed as one segment and read as two.
Leaving an answer entered from a message saves no draft and does not end the state of a sent one, though the
comment at lib.rs:3380 says so of the form: only a path of one segment counts as one. A
draft that has nothing but recipients in Cc or Bcc is not saved (lib.rs:2485). An object
of the body named "To" or "Subject" sends the commits under it to that header
(lib.rs:3428). Entering an
object keyed "compose" begins a new form, and the draft is gone without having been
saved (lib.rs:3363, whose comment is "Fresh compose from root."). The key of an object is
a field that can be edited (lib.rs:2902), and lib.rs:2879 says that a commit "Finds the
element whose stripped `<input>` content equals `old_content` and replaces it"; it looks
for lines only, so the object keeps its key and what was typed is added as a row behind
the others, also when the key is committed as it was (`EditLandsOnRow` says so). Of two
equal rows the first is edited. Typing a key over a body of one
line keeps the line and adds the object. A tree among the attachments is shown to the
receiver in place of a plain letter (net.rs:1023).

### Bounds

- UIDs: three or four (`MaxUid`). A window is two messages, so a mailbox can be smaller
  than, as large as and larger than the window, and a hole needs three.
- UIDVALIDITY: two values where the mailbox is recreated. Connections: two. A third adds
  no new pair of racing statements.
- `MaxFaults`: two, enough for a failed flush followed by a failed store.
- Messages: three, so that a slot can hold the answer for neither the message on screen
  nor the last one asked for. Tasks: two, which is two answers in one slot. `MaxPanics`:
  two, one for each task.
- Drafts: two, the held-back one and the one being written; send tasks two, one more
  than may run. `MaxFailures` and `MaxAccepts` bound a retry that the code does not
  bound.
- `ops`: `MaxTasks` three is a delete's two tasks and one more operation, or a move, its
  undo and a second move; the copies follow from it. One message: tasks on different
  messages share only the mutex. `MaxFaults` one is a fault between any two commands,
  `MaxResets` one is two connections.
- `view`, `view_any`: two folders, INBOX and another, are what switching needs. Two
  tasks: a listing and one that overtakes it, or the root's and a listing. One message
  in `view` makes a list stale or current; `view_any` needs no mail, since its
  properties do not mention any, and has two limits in its place, of which one folder
  may get the larger. `MaxPanics` and `MaxErrors` are one where they are followed: a
  panic in `view`, a failed listing in `view_any`, at any point; the theorems hold of
  both together. Without mail there is no news, so `view_any` follows no IDLE session.
  `MaxTasks` also bounds what may be spawned: a call that would spawn a third task
  waits.
- `session`: two accounts, since only those can be mixed; two refreshes, one more than
  may run. `MaxTokens` three for a calm user is two logins and a refresh, or the
  reverse; any other gets two (`AnyTokens`), and one of a panic, a failed save, a
  changed address and a death within a login (`MaxTroubles`).
- `settings`: two tabs, since a third adds no new pair of writers; two parts, so that
  one can be lost when the other is saved; two values, so that a stale one can be told;
  three files, which is the settings and one temporary file that is open in each tab.
- `compose`: `MaxFiles` one; a body has at most `world.lines` rows at all depths, three
  for what is typed from nothing (a line, an object and a line under it) or keyed like a
  form, two where a message is sent with a file, five for a quoted message with one more; the texts typed
  are nothing, a word, a bracket, a bracket escaped by hand, object keys of three kinds
  (any, a field's name, a form's) and a tree written down. A text never ends in a backslash: what follows it on a row
  would be escaped by it, and the SDK's reading of that is external. The theorems about
  `Compose` have none of these bounds: they are of all texts.
- `settings` uses symmetry in tabs, parts, values and files, over which every property
  of it is a state or step property; the runs that check liveness, and the others, use
  none.

### Fairness

The runtime polls every task and each IMAP or SMTP command has a timeout, so a task that
runs returns: weak fairness of each task's steps. The app calls `poll` each frame and
renders when told to: weak fairness of `Poll`, `Rerender` and `TickDrain` / `TickRetry`.
`FolderView` adds the IDLE session, whose SELECT, IDLE and DONE end likewise (`Wait`,
`Tell`), and the first render (`Start`). In `Session` the request for a token ends
(http.rs gives every request a timeout of its own), the clock reaches a login's deadline
(`LoginDeadline`), and the app ticks and renders (`Tick`, `Render`). In `EnvelopeSync` a
view that is on screen lists its folder again and again. Nothing is assumed of users,
servers or other clients.

## Proofs

Checked by TLAPS for every value of the constants.

- `CacheCorrect`: any sequence of cache calls keeps the type and `CountMatchesRows`. The
  invariant adds `NoMetaNoRows`: without it `Remove` on a folder with no meta row, which
  recounts nothing, could leave a stale count.
- `SyncType`, `SyncCount` (`TypeOK`, `CountMatchesRows`): the type and the stored count
  for any number of connections, windows, edits and faults. `SyncInv` is the cache's
  invariant and the type of the connections; each step either leaves the cache alone or
  is one of its calls on arguments of the right type.
- `SyncListed`, `SyncNoHole`, `SyncFlags`, `SyncNewest` (`ListedOfSelected`, `NoHole`,
  `FlagsSettle`, `ListIsNewest`): what lists and cache hold, for any UIDs, windows,
  flags, faults and worlds, and any number of connections of which one is on the cache
  (`OneCached`). Two break each of the four, as TLC shows: one may refill or extend the
  cache between the other's reads and its writes. The invariant of the first two, `HoleInv`, says of
  the connection on the cache that the rows are of the UIDVALIDITY on record or a flush
  has failed and the record is out of date (`RecordInv`), and that what is about to be
  written leaves no hole, a refill because it meets an empty cache (`BatchInv`).
  `FlagsSettle` needs besides that the connection on the cache is the one that edits
  (`CachedEdits`); while an edit is under way its row is what the part of it that the
  server has heard of accounts for (`RowFlagsInv`), and a batch has the flags of the
  server (`BatchFlagsInv`). `ListIsNewest` needs one window size (`OneLimit`): the rows
  of a smaller window do not cover a larger one, which is the hazard at `net.rs:253`. In
  a mailbox that only grows the rows are an interval of UIDs, either a window or all
  there is, that from the comparison on reaches what SELECT told (`CoverInv`), and a
  batch and a list reach it too (`ReachInv`).
- `MessageType`, `MessageShown`: the type, and that the body, or history, shown is that
  of the message on screen, with any user.
- `MessageKey` (`KeyInFlightIfPatient`): with a patient user the key names a fetch
  under way. It is not inductive: `OneFetch` adds that there is at most one of a task,
  an answer in the slot and a panic, that it is the key's, and that the message on
  screen waits for no other key. Each way `resolve_message` and `build_history` return
  keeps it; of histories it needs that a task brings labels (`BodiesOnly`), since
  `build_history` would wait on after a failure.
- `MessageOneFetch` (`NoSecondFetch`), with any user: a render of the message on screen
  spawns nothing while its fetch is awaited, because every answer the slot may hold for
  it settles that render (of histories again `BodiesOnly`), and nothing after it failed,
  because a failure on screen is the one remembered (`FailureKept`).
- `OutboxType`, `OneSend`: the type, and one send at a time, with any user. `FlagInv`
  adds that an unreleased panic has the flag up and no task running; without it,
  releasing a panic could lower the flag of a later send.
- `DraftsKept`, `SendsOnce`, `RetriesPressed` (`CalmKeepsDrafts`, `CalmSendsOnce`,
  `CalmRetriesPressed`): for a calm user, any drafts and any number of refusals. The
  invariant (`PlacesInv`) follows a draft whose send was pressed through its places: in
  a task that talks to the server (`TalkInv`), in the slot (`SlotInv`), back in the
  compose view for a retry (`ComposeInv`) or accepted (`AcceptedInv`); it is in one of
  them (`KeptInv`), and only in one, so that it is not sent from two. The blank form
  is no draft, and neither is `"none"` (`DraftsAssumption`).
- `OpsType`, `OpsNothingLost`, `OpsImplementStore`: the type, that no message is lost,
  and that `BgOps` implements `MailStore`, with any user, any number of connections,
  faults and tasks. Copies only ever get newer ones, so the invariant (`OpsInv`) says
  that the newest copy of a message not deleted for good is there (`NewestLive`) and
  that a task about to mark and expunge a copy names one that is doomed, gone or not the
  newest (`OnlyDispensable`): once so, a copy stays so whatever the other tasks do. The
  mutex plays no part in the argument. The refinement also needs that a message deleted
  for good has arrived (`DoomedArrived`), so that none arrives again.
- `OpsOneCopy` (`OneCopy`), with any user: as long as no error, panic or replaced
  connection came in, one task runs at a time (`Exclusive`: here the mutex matters),
  and two copies of a message are there only while a task that has copied one has yet
  to mark and expunge it (`Twins`, `Staged`).
- `OpsLands` (`CalmLandsOrReports`), with a calm user. The invariant adds what is still
  to come for each message (`Courses`): nothing, and it is where it was wanted last; one
  move, which ends there; or a move and its undo behind it, which takes the message from
  where the move puts it. `Gone`, where a deleted message is wanted, is no folder
  (`OpsAssumption`).

- `ViewTypeOK`, `ViewRowsOfView`, `ViewNoSecondListing`: the type, that a list on screen
  is of the folder on screen, and that a poll starts no second listing, with any user
  and surroundings. The invariant (`Inv`) says that a task carries a result of the
  folder it was asked for (`TaskInv`), so do the slots (`SlotInv`), that cached rows are
  the headers' and of `envelope_cache_folder` under its limit (`RowsInv`, without which
  an edit could put another folder's headers on screen), and that a list or error on
  screen is what is cached (`ShownInv`, without which a failed listing could be asked
  for again). `RenderKeeps` proves it once for all that `fetch` may do, and the user's
  actions cite it.
- `ViewListCurrent` (`CalmListCurrent`): in calm surroundings mail arrives only with
  nothing under way, so that each task and slot holds all the mail there is (`FreshTasks`,
  `FreshSlots`); the rows do too, or the session has heard of what they lack, or it has
  told and the next poll forgets the rows, or they are of a folder that is no longer
  watched (`FreshRows`). A user who leaves the folder in between is the last of these:
  IDLE is stopped, the news is lost and the cached rows are stale when the folder is
  opened again, but no session that waits vouches for them.

- `SettingsReadable`, `SettingsKept`, `SettingsImplementStore`: that saves which do not
  overlap leave a readable file, that overlapping ones keep every part in a file that
  can be read, and the refinement of `SettingsStore`, for any number of tabs, parts,
  values and files. The invariant (`Inv`) says that what was loaded from a complete file
  is complete (`PartsInv`), that the temporary name never refers to the settings file
  (`NamesInv`), and where the one tab that is in a save has got to (`SaveInv`): without
  it a rename could put a truncated file in place.

- `SessionConnections`, `SessionLoggedOut`, `SessionAnswer` (`ConnectionsCurrent`,
  `LoggedOutStays`, `AnswerKept`): for any accounts, tokens, tasks and troubles.
  `ConnectionsCurrent` is inductive as it stands. `LoggedOutStays` needs that the settings
  file has no token either (`SignedOut`), or a restart would bring the session back.
  `AnswerKept` needs that there is an answer only while a login is under way
  (`AnswerOfLogin`).
- `SessionType`, and for a calm user `SessionAccount`, `SessionOneRefresh`,
  `SessionIdle` (`OneAccountIfCalm`, `OneRefreshIfCalm`, `IdleTokenIfCalm`), from one
  invariant (`Settled`): a refresh that asks is alone, its flag is up, the slot is empty
  and it asks for the session that waits for it (`AskInv`); between its answer and the
  lowering of the flag none is called for, because the token is fresh, gone or the
  answer is still in the slot (`RestInv`); what is in the slot is of the session's
  account (`SlotInv`, `AccountInv`); only tokens that were given out expire
  (`SerialInv`); and what is saved is what is in use (`DiskInv`), for the restarts.
  IDLE's token is the session's except between a login and the render that follows it
  at the folder list (`IdleInv`).

- `EscapesReadBack`: for every text, `unescape` and `strip_display` undo `escape`. Both
  directions of the form rest on it, and so do the next two theorems.
- `NothingIsLive` (`NothingLive`), for any messages, trees and sittings: the invariant
  (`DraftsInv`) is that what is on every row of the draft's body, at any depth, makes
  nothing live (`BodyInert`, `RowsInert`), and that fields and attachments are texts,
  which are escaped where they are shown. One lemma for each
  change of a body (`PutRow`, `Added`, `Removed`, `Joined`, `Seeded`, `RowAs`) says that
  it keeps `RowsInert`; a text body is split at its marks (`TextRowInert`).
- `AnswersAreToOpen` (`AnswersOpenMessage`): the invariant (`OpenInv`) says that the path
  still holds the label the message was entered by, whose tags may be old, that the
  message is in the list, and that the form remembers it. `lookup_uid` finds it
  either way it looks: a label equal to that one is of a message with its subject and
  sender, or with them after a star, which is the tag of one and the subject of the other.
  So `Alone` excludes the second kind too, and `IsPlainLabel` a slash, which splits the
  label in two segments; neither shows on TLC's two messages.
- `EditsLandOnRow` (`EditLandsOnRow`), from `DraftsInv` and the type of the path
  (`PathsInv`): the row an edit names is looked for among the lines by its text, and no other
  row has it. If it is a line, only that line is replaced; if it is an object, none is
  found, and the row is added behind all others (`Behind`; that there is such a place
  needs the greatest of a finite set of numbers, `FiniteBound`). What was typed is read
  back from the row that is new (`EscapesReadBack`), which is on the way to no place that
  the path leads through, even as an object whose key is one that is looked for; a draft
  that is one line again becomes a text and shows the same row.
- `TypesHold` (`TypeOK` of `Compose`): the types of all of this, for bodies of any size.

What these say of sequences and trees of any length is proved without the library's
induction theorems, which take the property as an operator: `NatInductionOnSet` and
`SeqInductionOnSet` take it as the set of what has it, and follow from the least element
of a set of numbers (`Least`, from `WFMin`). That is enough for what is defined by
`FlattenSeq`, by a set of positions or by a recursive function.

Some constants carry an assumption for the proofs that the code gives: flags are the
columns `seen` and `flagged` (`FlagsAssumption`), an edit does not set and clear one
flag (`EditsAssumption`; each caller of `set_flags` names one), what texts are made of
holds the tags, marks and words the program itself writes (`SymbolsAssumption`,
`WordsAssumption`), and a text written down as JSON, and a message as it is read, have
finite trees of rows (`TreesAssumption`, `MailsAssumption`). TLC evaluates each of them.

Only model-checked: the liveness properties (`NewMailListed`, `LoadingEnds`,
`CalmSendSettles`, `CalmLoadingEnds`, `CalmNewsListed`, `RendersSettle`; liveness under
fairness is out of the prover's reach) and `ImplementsLetter`: what is read out of a mail
is defined by recursion over its parts and over the rows of a tree (`MimeRead`,
`PlainUnder`), as is the letter itself, and the prover reaches no recursive operator.
Every other property of a passing run is a theorem.

## Plan

In order:

1. An abstract cache ("a window of the newest messages of some moment") that
   `EnvelopeSync` with one connection on the cache implements, from `GrowInv`.
2. What two connections on one cache still keep of what one keeps, and for how long a
   hole or a row of another incarnation stays.
3. `BgOps`: a flag of each copy, edits and undos of it as tasks by UID, which two edits,
   or an edit and a move, can bring out of order.
4. The letter by the positions of its lines instead of by recursion, so that the steps of
   `Compose` that write a draft, if not those that read a mail, can be proved to
   implement it.

## Not modelled

Connection set-up, TLS, authentication and timeouts as such (`connection.rs`,
`http.rs`): a lost or slow connection appears as `Abort`, `Refuse`, `LoseAnswer` and
`Fail`; one call of theirs after another is all there is to them. Decoding of headers,
addresses, dates and transfer encodings: a header is a record and a text is one, and no
property tells their wordings apart. The threads of a folder beyond the THREAD map's
key: which messages are a history, and the order they are looked for in. Edits of flags
in the background as tasks of their own (`SetFlags`), of which two can overtake each
other as the two of a delete do, and their undo. What `build_root` shows without a
session, the mapping of folder names, the search over messages and the lists of
commands: they compute rows from state modelled here and change none. Localisation and
rendering. `delete_body_element_at`, which no handler calls. The synchronous ways that
are taken only with an injected backend (`send_draft`, `apply_imap_op`, the second
halves of `resolve_message` and `build_history`).
