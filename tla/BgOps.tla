-------------------------------- MODULE BgOps ---------------------------------
(***************************************************************************)
(* Moving, archiving, deleting and undoing (lib.rs handle_command,         *)
(* execute_command, undo and redo): the view changes at once and a task of *)
(* spawn_bg_op changes the mailboxes over the shared background connection *)
(* (net.rs move_message, expunge_uid, set_flags).                          *)
(*                                                                         *)
(* A copy of a message in a folder has a UID there for good: the copies    *)
(* are numbered in the order in which they are made, and a number stands   *)
(* for a folder and a UID in it.  All copies of a message have its         *)
(* Message-ID.  The cache keeps the headers of copies that are gone and    *)
(* lists them too, so the user may act on any copy there ever was.         *)
(***************************************************************************)
EXTENDS Naturals, Sequences, FiniteSets

CONSTANTS
    Messages,
    Folders,
    Inbox,      \* where messages arrive
    Trash,      \* special_folders.trash; not in Folders when there is none
    MaxTasks,   \* bound: how many tasks are spawned
    MaxFaults,  \* bound: how many of them fail
    MaxResets,  \* bound: how often the background connection is replaced
    Calm        \* the kinds of users there are, see calm

Gone == "gone"

ASSUME OpsAssumption ==
    /\ Inbox \in Folders /\ Gone \notin Folders
    /\ MaxTasks \in Nat /\ MaxFaults \in Nat /\ MaxResets \in Nat
    /\ Calm \subseteq BOOLEAN

VARIABLES
    calm,      \* the user acts on a copy that is there, moves it elsewhere, undoes
               \* what was done last, and before that has ended does nothing
               \* else to the message
    copies,    \* the mailboxes: [msg, folder, deleted, here]
    tasks,     \* the tasks, as they were spawned
    conn,      \* which connection bg_imap is; it changes when it is replaced
    entries,   \* the moves that can be undone or redone: [msg, src, dst, undone]
    want,      \* where the user wants each message; Gone after a delete for good
    doomed,    \* the messages the user has ever deleted for good
    panicked,  \* bg_panics holds BgKind::Op
    reported,  \* something has been put into bg_errors
    faults

vars == <<calm, copies, tasks, conn, entries, want, doomed, panicked, reported, faults>>

Kinds == {"flags", "move", "expunge", "byId"}
Stages == {"spawned", "store", "search", "move", "copy", "mark", "purge", "done"}

Init ==
    /\ calm \in Calm
    /\ copies = <<>> /\ tasks = <<>> /\ conn = 0
    /\ entries = {}
    /\ want = [m \in Messages |-> Inbox]
    /\ doomed = {}
    /\ panicked = FALSE /\ reported = FALSE /\ faults = 0

Live(i) == copies[i].here
MsgOf(i) == copies[i].msg
Underway(t) == tasks[t].at # "done"
Quiet == \A t \in DOMAIN tasks : ~Underway(t)

\* A message arrives.
Deliver(m) ==
    /\ \A i \in DOMAIN copies : MsgOf(i) # m
    /\ copies' = Append(copies, [msg |-> m, folder |-> Inbox, deleted |-> FALSE, here |-> TRUE])
    /\ UNCHANGED <<calm, tasks, conn, entries, want, doomed, panicked, reported, faults>>

----------------------------------------------------------------------------
(* The user.  A task holds the connection bg_imap was when it was spawned. *)

Task(kind, m, i, src, dst) ==
    [kind |-> kind, msg |-> m, copy |-> i, src |-> src, dst |-> dst,
     conn |-> conn, at |-> "spawned"]

Spawn(new) ==
    /\ Len(tasks) + Len(new) <= MaxTasks
    /\ tasks' = tasks \o new

Pending(m) == {t \in DOMAIN tasks : tasks[t].msg = m /\ Underway(t)}
MayAct(m) == calm => Pending(m) = {}

\* "archive", "move" and the "delete" that has a Trash to move to
MoveTo(i, d) ==
    LET m == MsgOf(i)  src == copies[i].folder IN
    /\ MayAct(m) /\ (calm => Live(i) /\ d # src)
    /\ Spawn(<<Task("move", m, i, src, d)>>)
    /\ entries' = entries \cup {[msg |-> m, src |-> src, dst |-> d, undone |-> FALSE]}
    /\ want' = [want EXCEPT ![m] = d]
    /\ UNCHANGED <<calm, copies, conn, doomed, panicked, reported, faults>>

\* "delete" in the Trash, or without one: two tasks, one spawned after the other
Delete(i) ==
    LET m == MsgOf(i)  src == copies[i].folder IN
    /\ src = Trash \/ Trash \notin Folders
    /\ MayAct(m) /\ (calm => Live(i))
    /\ Spawn(<<Task("flags", m, i, src, src), Task("expunge", m, i, src, src)>>)
    /\ want' = [want EXCEPT ![m] = Gone]
    /\ doomed' = doomed \cup {m}
    /\ UNCHANGED <<calm, copies, conn, entries, panicked, reported, faults>>

\* apply_imap_op_in_background for a Trash, Archive or Move entry
Undo(e) ==
    /\ ~e.undone
    /\ calm => want[e.msg] = e.dst /\ Cardinality(Pending(e.msg)) <= 1
    /\ Spawn(<<Task("byId", e.msg, 0, e.dst, e.src)>>)
    /\ entries' = (entries \ {e}) \cup {[e EXCEPT !.undone = TRUE]}
    /\ want' = [want EXCEPT ![e.msg] = e.src]
    /\ UNCHANGED <<calm, copies, conn, doomed, panicked, reported, faults>>

Redo(e) ==
    /\ e.undone /\ MayAct(e.msg) /\ (calm => want[e.msg] = e.src)
    /\ Spawn(<<Task("byId", e.msg, 0, e.src, e.dst)>>)
    /\ entries' = (entries \ {e}) \cup {[e EXCEPT !.undone = FALSE]}
    /\ want' = [want EXCEPT ![e.msg] = e.dst]
    /\ UNCHANGED <<calm, copies, conn, doomed, panicked, reported, faults>>

\* reset_bg_imap: the tokens or the settings have changed.
Reset ==
    /\ conn < MaxResets
    /\ conn' = conn + 1
    /\ UNCHANGED <<calm, copies, tasks, entries, want, doomed, panicked, reported, faults>>

\* release_panicked_tasks
Release ==
    /\ panicked /\ panicked' = FALSE
    /\ conn' = conn + 1 /\ reported' = TRUE
    /\ UNCHANGED <<calm, copies, tasks, entries, want, doomed, faults>>

----------------------------------------------------------------------------
(* The tasks.  The mutex of the connection lets one task at a time run,    *)
(* in the order in which the runtime's threads first poll them.            *)

Running(t) == tasks[t].at \notin {"spawned", "done"}

First(kind) == CASE kind = "flags" -> "store"
                 [] kind = "move" -> "move"
                 [] kind = "expunge" -> "purge"
                 [] kind = "byId" -> "search"

Goto(t, stage) == tasks' = [tasks EXCEPT ![t].at = stage]

Lock(t) ==
    /\ tasks[t].at = "spawned"
    /\ \A s \in DOMAIN tasks : tasks[s].conn = tasks[t].conn => ~Running(s)
    /\ Goto(t, First(tasks[t].kind))
    /\ UNCHANGED <<calm, copies, conn, entries, want, doomed, panicked, reported, faults>>

\* What the server does for a command on copy i.  A command on a UID that is
\* gone changes nothing and succeeds.
Flagged(i) == [copies EXCEPT ![i].deleted = TRUE]
Copied(i, d) == IF Live(i) THEN Append(copies, [copies[i] EXCEPT !.folder = d]) ELSE copies
Moved(i, d) ==
    IF Live(i) THEN Append([copies EXCEPT ![i].here = FALSE], [copies[i] EXCEPT !.folder = d])
               ELSE copies
Purged(i) == IF copies[i].deleted THEN [copies EXCEPT ![i].here = FALSE] ELSE copies

Effect(t) ==
    LET i == tasks[t].copy  d == tasks[t].dst IN
    CASE tasks[t].at \in {"store", "mark"} -> Flagged(i)
      [] tasks[t].at = "move" -> Moved(i, d)
      [] tasks[t].at = "copy" -> Copied(i, d)
      [] tasks[t].at = "purge" -> Purged(i)

\* Faulty variant: the fallback ends with COPY.
AfterOkKeeping(stage) == "done"

AfterOk(stage) == CASE stage = "copy" -> "mark"
                    [] stage = "mark" -> "purge"
                    [] OTHER -> "done"

Command(t) == Running(t) /\ tasks[t].at # "search"

Ok(t) ==
    /\ Command(t)
    /\ copies' = Effect(t)
    /\ Goto(t, AfterOk(tasks[t].at))
    /\ UNCHANGED <<calm, conn, entries, want, doomed, panicked, reported, faults>>

\* Faulty variant: the message is marked before it has been copied.
MoveRefusedMarking(t) ==
    /\ tasks[t].at = "move"
    /\ Goto(t, "mark")
    /\ UNCHANGED <<calm, copies, conn, entries, want, doomed, panicked, reported, faults>>

\* MOVE is refused: COPY, deletion mark and EXPUNGE instead
MoveRefused(t) ==
    /\ tasks[t].at = "move"
    /\ Goto(t, "copy")
    /\ UNCHANGED <<calm, copies, conn, entries, want, doomed, panicked, reported, faults>>

\* fetch_message_by_message_id, which takes any of the copies it finds
Search(t) ==
    /\ tasks[t].at = "search"
    /\ \E i \in DOMAIN copies :
          /\ Live(i) /\ MsgOf(i) = tasks[t].msg /\ copies[i].folder = tasks[t].src
          /\ tasks' = [tasks EXCEPT ![t].copy = i, ![t].at = "move"]
    /\ UNCHANGED <<calm, copies, conn, entries, want, doomed, panicked, reported, faults>>

\* Faulty variant: there is nothing to tell.
NotFoundSilently(t) ==
    /\ tasks[t].at = "search"
    /\ ~\E i \in DOMAIN copies :
          Live(i) /\ MsgOf(i) = tasks[t].msg /\ copies[i].folder = tasks[t].src
    /\ Goto(t, "done")
    /\ UNCHANGED <<calm, copies, conn, entries, want, doomed, panicked, reported, faults>>

NotFound(t) ==
    /\ tasks[t].at = "search"
    /\ ~\E i \in DOMAIN copies :
          Live(i) /\ MsgOf(i) = tasks[t].msg /\ copies[i].folder = tasks[t].src
    /\ Goto(t, "done")
    /\ reported' = TRUE
    /\ UNCHANGED <<calm, copies, conn, entries, want, doomed, panicked, faults>>

Fault == faults < MaxFaults /\ faults' = faults + 1

\* Faulty variant: the answer to COPY is not looked at.
FailGoingOn(t) ==
    /\ Running(t) /\ Fault
    /\ \/ UNCHANGED copies
       \/ Command(t) /\ copies' = Effect(t)
    /\ Goto(t, IF tasks[t].at = "copy" THEN "mark" ELSE "done")
    /\ reported' = TRUE
    /\ UNCHANGED <<calm, conn, entries, want, doomed, panicked>>

\* The command, or the connection, fails or times out; the server may have
\* carried the command out.
Fail(t) ==
    /\ Running(t) /\ Fault
    /\ \/ UNCHANGED copies
       \/ Command(t) /\ copies' = Effect(t)
    /\ Goto(t, "done")
    /\ reported' = TRUE
    /\ UNCHANGED <<calm, conn, entries, want, doomed, panicked>>

Panic(t) ==
    /\ Running(t) /\ Fault
    /\ Goto(t, "done")
    /\ panicked' = TRUE
    /\ UNCHANGED <<calm, copies, conn, entries, want, doomed, reported>>

----------------------------------------------------------------------------
User ==
    \/ \E i \in DOMAIN copies, d \in Folders : MoveTo(i, d)
    \/ \E i \in DOMAIN copies : Delete(i)
    \/ \E e \in entries : Undo(e) \/ Redo(e)

TaskStep(t) ==
    \/ Lock(t) \/ Ok(t) \/ MoveRefused(t) \/ Search(t) \/ NotFound(t)
    \/ Fail(t) \/ Panic(t)

Next ==
    \/ \E m \in Messages : Deliver(m)
    \/ User \/ Reset \/ Release
    \/ \E t \in DOMAIN tasks : TaskStep(t)

Spec == Init /\ [][Next]_vars

Copies == [msg: Messages, folder: Folders, deleted: BOOLEAN, here: BOOLEAN]
TaskRecords == [kind: Kinds, msg: Messages, copy: Nat, src: Folders, dst: Folders,
                conn: Nat, at: Stages]

TypeOK ==
    /\ calm \in BOOLEAN
    /\ copies \in Seq(Copies)
    /\ tasks \in Seq(TaskRecords)
    /\ \A t \in DOMAIN tasks :
          \/ tasks[t].copy \in DOMAIN copies
          \/ tasks[t].kind = "byId" /\ tasks[t].at \in {"spawned", "search", "done"}
    /\ conn \in Nat
    /\ entries \subseteq [msg: Messages, src: Folders, dst: Folders, undone: BOOLEAN]
    /\ want \in [Messages -> Folders \cup {Gone}]
    /\ doomed \subseteq Messages
    /\ panicked \in BOOLEAN /\ reported \in BOOLEAN
    /\ faults \in 0..MaxFaults

----------------------------------------------------------------------------
(* What becomes of the messages.                                           *)

PlacesOf(m) == {copies[i].folder : i \in {j \in DOMAIN copies : Live(j) /\ MsgOf(j) = m}}

Store == INSTANCE MailStore WITH places <- [m \in Messages |-> PlacesOf(m)]

\* However tasks overtake each other, fail half way or run on two connections,
\* the folders behave as MailStore says.
ImplementsStore == Store!StoreSpec

\* A message that was delivered and not deleted for good is in some folder.
NothingLost ==
    \A i \in DOMAIN copies : MsgOf(i) \notin doomed => PlacesOf(MsgOf(i)) # {}

\* The tasks have ended, no error was reported and the connection was never
\* replaced.
Untroubled == Quiet /\ ~reported /\ ~panicked /\ conn = 0

\* No message ends up twice.
OneCopy ==
    Untroubled =>
        \A i, j \in DOMAIN copies : Live(i) /\ Live(j) /\ MsgOf(i) = MsgOf(j) => i = j

\* For a user who lets an operation on a message end before asking for the
\* next, except that undo is pressed at any time: the message is where the user
\* wanted it last, or an error was reported.
CalmLandsOrReports ==
    calm /\ Untroubled =>
        \A i \in DOMAIN copies :
            want[MsgOf(i)] # Gone => PlacesOf(MsgOf(i)) = {want[MsgOf(i)]}

\* A message deleted for good is not there any more once its tasks have ended
\* without an error.
DeletedIsExpunged ==
    Untroubled => \A i \in DOMAIN copies : want[MsgOf(i)] = Gone => ~Live(i)

=============================================================================
