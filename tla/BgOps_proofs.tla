----------------------------- MODULE BgOps_proofs -----------------------------
(***************************************************************************)
(* Proofs about BgOps, for any messages, folders, tasks, faults and        *)
(* replaced connections: types, that no message is lost, that the folders  *)
(* behave as MailStore says, that no message ends up twice, and that a     *)
(* calm user finds each where it was wanted.                               *)
(***************************************************************************)
EXTENDS BgOps, FiniteSetTheorems, TLAPS

----------------------------------------------------------------------------
(* Sequences.                                                              *)

\* Appending keeps what is there and adds the new element at the end.
LEMMA Appended ==
    ASSUME NEW S, NEW s \in Seq(S), NEW x \in S
    PROVE  /\ Append(s, x) \in Seq(S)
           /\ DOMAIN Append(s, x) = DOMAIN s \cup {Len(s) + 1}
           /\ Append(s, x)[Len(s) + 1] = x
           /\ \A i \in DOMAIN s : i <= Len(s) /\ Append(s, x)[i] = s[i]
  OBVIOUS

\* Changing one element keeps the others.
LEMMA Changed ==
    ASSUME NEW S, NEW s \in Seq(S), NEW i \in DOMAIN s, NEW x \in S
    PROVE  /\ [s EXCEPT ![i] = x] \in Seq(S)
           /\ DOMAIN [s EXCEPT ![i] = x] = DOMAIN s
           /\ Len([s EXCEPT ![i] = x]) = Len(s)
           /\ [s EXCEPT ![i] = x][i] = x
           /\ \A j \in DOMAIN s : j # i => [s EXCEPT ![i] = x][j] = s[j]
  OBVIOUS

\* Spawning one or two tasks keeps those there are.
LEMMA Joined ==
    ASSUME NEW S, NEW s \in Seq(S), NEW r \in Seq(S)
    PROVE  /\ s \o r \in Seq(S)
           /\ DOMAIN s \subseteq DOMAIN (s \o r)
           /\ \A i \in DOMAIN s : (s \o r)[i] = s[i]
           /\ \A i \in DOMAIN (s \o r) \ DOMAIN s :
                 \E j \in DOMAIN r : (s \o r)[i] = r[j]
  <1>1. /\ s \o r \in Seq(S) /\ Len(s \o r) = Len(s) + Len(r)
        /\ Len(s) \in Nat /\ Len(r) \in Nat
        /\ DOMAIN s = 1..Len(s) /\ DOMAIN r = 1..Len(r)
        /\ DOMAIN (s \o r) = 1..Len(s \o r)
    OBVIOUS
  <1>2. \A i \in 1..Len(s) : (s \o r)[i] = s[i]
    OBVIOUS
  <1>3. \A i \in 1..(Len(s) + Len(r)) : i > Len(s) => (s \o r)[i] = r[i - Len(s)]
    OBVIOUS
  <1>4. ASSUME NEW i \in DOMAIN (s \o r) \ DOMAIN s
        PROVE  i - Len(s) \in DOMAIN r /\ (s \o r)[i] = r[i - Len(s)]
    BY <1>1, <1>3
  <1>. QED  BY <1>1, <1>2, <1>4

----------------------------------------------------------------------------
(* What the server does to the copies there are: at most copy i disappears *)
(* (none does when i is 0), and at most one live copy is added.            *)

SameBut(i) ==
    \A j \in DOMAIN copies :
        /\ j \in DOMAIN copies'
        /\ copies'[j].msg = copies[j].msg /\ copies'[j].folder = copies[j].folder
        /\ copies'[j].here => copies[j].here
        /\ j # i => copies'[j].here = copies[j].here

Kept(i) == copies' \in Seq(Copies) /\ DOMAIN copies' = DOMAIN copies /\ SameBut(i)

Added(i, m, d) ==
    LET n == Len(copies) + 1 IN
    /\ copies' \in Seq(Copies)
    /\ n \notin DOMAIN copies /\ DOMAIN copies' = DOMAIN copies \cup {n}
    /\ \A j \in DOMAIN copies : j < n
    /\ SameBut(i)
    /\ copies'[n].msg = m /\ copies'[n].folder = d /\ copies'[n].here

\* A delivery adds a copy.
LEMMA DeliverAdds ==
    ASSUME TypeOK, NEW m \in Messages, Deliver(m)
    PROVE  Added(0, m, Inbox)
  <1>. DEFINE c == [msg |-> m, folder |-> Inbox, deleted |-> FALSE, here |-> TRUE]
  <1>1. copies \in Seq(Copies) /\ c \in Copies
    BY OpsAssumption DEF TypeOK, Copies
  <1>2. copies' = Append(copies, c)
    BY DEF Deliver
  <1>3. /\ copies' \in Seq(Copies)
        /\ DOMAIN copies' = DOMAIN copies \cup {Len(copies) + 1}
        /\ copies'[Len(copies) + 1] = c
        /\ \A i \in DOMAIN copies : i <= Len(copies) /\ copies'[i] = copies[i]
    BY <1>1, <1>2, Appended
  <1>4. Len(copies) \in Nat /\ DOMAIN copies = 1..Len(copies)
    BY <1>1
  <1>. QED  BY <1>3, <1>4 DEF Added, SameBut

\* The deletion mark leaves every copy where it is.
LEMMA FlaggedKeeps ==
    ASSUME TypeOK, NEW i \in DOMAIN copies, copies' = Flagged(i)
    PROVE  Kept(0)
  <1>. DEFINE c == [copies[i] EXCEPT !.deleted = TRUE]
  <1>1. copies \in Seq(Copies) /\ copies[i] \in Copies
    BY DEF TypeOK
  <1>2. /\ c \in Copies /\ c.msg = copies[i].msg /\ c.folder = copies[i].folder
        /\ c.here = copies[i].here
    BY <1>1 DEF Copies
  <1>3. copies' = [copies EXCEPT ![i] = c]
    BY DEF Flagged
  <1>4. /\ copies' \in Seq(Copies) /\ DOMAIN copies' = DOMAIN copies
        /\ copies'[i] = c
        /\ \A j \in DOMAIN copies : j # i => copies'[j] = copies[j]
    BY <1>1, <1>2, <1>3, Changed
  <1>. QED  BY <1>2, <1>4 DEF Kept, SameBut

\* EXPUNGE of copy i removes at most copy i.
LEMMA PurgedKeeps ==
    ASSUME TypeOK, NEW i \in DOMAIN copies, copies' = Purged(i)
    PROVE  Kept(i)
  <1>. DEFINE c == [copies[i] EXCEPT !.here = FALSE]
  <1>1. copies \in Seq(Copies) /\ copies[i] \in Copies
    BY DEF TypeOK
  <1>2. /\ c \in Copies /\ c.msg = copies[i].msg /\ c.folder = copies[i].folder
        /\ ~c.here
    BY <1>1 DEF Copies
  <1>3. CASE copies' = copies
    BY <1>1, <1>3 DEF Kept, SameBut
  <1>4. CASE copies' = [copies EXCEPT ![i] = c]
    <2>1. /\ copies' \in Seq(Copies) /\ DOMAIN copies' = DOMAIN copies
          /\ copies'[i] = c
          /\ \A j \in DOMAIN copies : j # i => copies'[j] = copies[j]
      BY <1>1, <1>2, <1>4, Changed
    <2>. QED  BY <1>2, <2>1 DEF Kept, SameBut
  <1>. QED  BY <1>3, <1>4 DEF Purged

\* COPY of a copy that is there adds one; of one that is gone, none.
LEMMA CopiedAdds ==
    ASSUME TypeOK, NEW i \in DOMAIN copies, NEW d \in Folders, copies' = Copied(i, d)
    PROVE  IF Live(i) THEN Added(0, MsgOf(i), d) ELSE UNCHANGED copies
  <1>. DEFINE c == [copies[i] EXCEPT !.folder = d]
  <1>1. copies \in Seq(Copies) /\ copies[i] \in Copies
    BY DEF TypeOK
  <1>2. /\ c \in Copies /\ c.msg = copies[i].msg /\ c.folder = d /\ c.here = copies[i].here
    BY <1>1 DEF Copies
  <1>3. CASE Live(i)
    <2>1. copies' = Append(copies, c)
      BY <1>3 DEF Copied
    <2>2. /\ copies' \in Seq(Copies)
          /\ DOMAIN copies' = DOMAIN copies \cup {Len(copies) + 1}
          /\ copies'[Len(copies) + 1] = c
          /\ \A j \in DOMAIN copies : j <= Len(copies) /\ copies'[j] = copies[j]
      BY <1>1, <1>2, <2>1, Appended
    <2>3. Len(copies) \in Nat /\ DOMAIN copies = 1..Len(copies)
      BY <1>1
    <2>. QED  BY <1>2, <1>3, <2>2, <2>3 DEF Added, SameBut, Live, MsgOf
  <1>. QED  BY <1>3 DEF Copied

\* MOVE adds the new copy and removes the old one.
LEMMA MovedAdds ==
    ASSUME TypeOK, NEW i \in DOMAIN copies, NEW d \in Folders, copies' = Moved(i, d)
    PROVE  IF Live(i) THEN Added(i, MsgOf(i), d) /\ ~copies'[i].here
                      ELSE UNCHANGED copies
  <1>. DEFINE c == [copies[i] EXCEPT !.folder = d]
              g == [copies[i] EXCEPT !.here = FALSE]
              old == [copies EXCEPT ![i] = g]
  <1>1. copies \in Seq(Copies) /\ copies[i] \in Copies
    BY DEF TypeOK
  <1>2. /\ c \in Copies /\ c.msg = copies[i].msg /\ c.folder = d /\ c.here = copies[i].here
        /\ g \in Copies /\ g.msg = copies[i].msg /\ g.folder = copies[i].folder /\ ~g.here
    BY <1>1 DEF Copies
  <1>3. CASE Live(i)
    <2>1. copies' = Append(old, c)
      BY <1>3 DEF Moved
    <2>2. /\ old \in Seq(Copies) /\ DOMAIN old = DOMAIN copies /\ Len(old) = Len(copies)
          /\ old[i] = g
          /\ \A j \in DOMAIN copies : j # i => old[j] = copies[j]
      BY <1>1, <1>2, Changed
    <2>. HIDE DEF old
    <2>3. /\ copies' \in Seq(Copies)
          /\ DOMAIN copies' = DOMAIN copies \cup {Len(copies) + 1}
          /\ copies'[Len(copies) + 1] = c
          /\ \A j \in DOMAIN copies : j <= Len(copies) /\ copies'[j] = old[j]
      BY <1>2, <2>1, <2>2, Appended
    <2>4. Len(copies) \in Nat /\ DOMAIN copies = 1..Len(copies)
      BY <1>1
    <2>5. /\ copies'[i] = g /\ ~copies'[i].here
          /\ \A j \in DOMAIN copies : j # i => copies'[j] = copies[j]
      BY <1>2, <2>2, <2>3
    <2>6. SameBut(i)
      BY <1>2, <1>3, <2>3, <2>5 DEF SameBut, Live
    <2>. QED  BY <1>2, <1>3, <2>3, <2>4, <2>5, <2>6 DEF Added, Live, MsgOf
  <1>. QED  BY <1>3 DEF Moved

----------------------------------------------------------------------------
(* Types.                                                                  *)

\* The part of TypeOK about tasks.
TasksOK ==
    /\ tasks \in Seq(TaskRecords)
    /\ \A t \in DOMAIN tasks :
          \/ tasks[t].copy \in DOMAIN copies
          \/ tasks[t].kind = "byId" /\ tasks[t].at \in {"spawned", "search", "done"}

Grows == copies' \in Seq(Copies) /\ DOMAIN copies \subseteq DOMAIN copies'

\* A task that issues a command names a copy.
LEMMA CommandCopy ==
    ASSUME TypeOK, NEW t \in DOMAIN tasks, Command(t)
    PROVE  tasks[t].copy \in DOMAIN copies /\ tasks[t].dst \in Folders
                /\ tasks[t].at \in {"store", "mark", "move", "copy", "purge"}
  <1>1. tasks[t] \in TaskRecords
    BY DEF TypeOK
  <1>2. tasks[t].at \in Stages /\ tasks[t].dst \in Folders
    BY <1>1 DEF TaskRecords
  <1>. QED  BY <1>2 DEF TypeOK, Command, Running, Stages

\* Whatever the command, the copies there are stay, at most the one named
\* disappears, and only a move puts a copy somewhere.
LEMMA EffectGrows ==
    ASSUME TypeOK, NEW t \in DOMAIN tasks, Command(t), copies' = Effect(t)
    PROVE  Grows /\ SameBut(tasks[t].copy)
  <1>. DEFINE i == tasks[t].copy
              d == tasks[t].dst
  <1>1. i \in DOMAIN copies /\ d \in Folders
        /\ tasks[t].at \in {"store", "mark", "move", "copy", "purge"}
    BY CommandCopy
  <1>2. copies \in Seq(Copies)
    BY DEF TypeOK
  <1>3. 0 \notin DOMAIN copies
    BY <1>2
  <1>. HIDE DEF i, d
  <1>4. CASE tasks[t].at \in {"store", "mark"}
    <2>1. copies' = Flagged(i)
      BY <1>4 DEF Effect, i
    <2>2. Kept(0)
      BY <1>1, <2>1, FlaggedKeeps
    <2>. QED  BY <1>3, <2>2 DEF Kept, SameBut, Grows
  <1>5. CASE tasks[t].at = "move"
    <2>1. copies' = Moved(i, d)
      BY <1>5 DEF Effect, i, d
    <2>2. Added(i, MsgOf(i), d) \/ UNCHANGED copies
      BY <1>1, <2>1, MovedAdds
    <2>. QED  BY <1>2, <2>2 DEF Added, SameBut, Grows, i
  <1>6. CASE tasks[t].at = "copy"
    <2>1. copies' = Copied(i, d)
      BY <1>6 DEF Effect, i, d
    <2>2. Added(0, MsgOf(i), d) \/ UNCHANGED copies
      BY <1>1, <2>1, CopiedAdds
    <2>. QED  BY <1>2, <1>3, <2>2 DEF Added, SameBut, Grows
  <1>7. CASE tasks[t].at = "purge"
    <2>1. copies' = Purged(i)
      BY <1>7 DEF Effect, i
    <2>2. Kept(i)
      BY <1>1, <2>1, PurgedKeeps
    <2>. QED  BY <2>2 DEF Kept, SameBut, Grows, i
  <1>. QED  BY <1>1, <1>4, <1>5, <1>6, <1>7

\* A task goes to another stage; the others stay where they are.
LEMMA GotoMoves ==
    ASSUME TypeOK, NEW t \in DOMAIN tasks, NEW stage \in Stages, Goto(t, stage)
    PROVE  /\ tasks' \in Seq(TaskRecords) /\ DOMAIN tasks' = DOMAIN tasks
           /\ tasks'[t] = [tasks[t] EXCEPT !.at = stage]
           /\ tasks'[t].kind = tasks[t].kind /\ tasks'[t].copy = tasks[t].copy
           /\ tasks'[t].at = stage
           /\ \A s \in DOMAIN tasks : s # t => tasks'[s] = tasks[s]
  <1>. DEFINE r == [tasks[t] EXCEPT !.at = stage]
  <1>1. tasks \in Seq(TaskRecords) /\ tasks[t] \in TaskRecords
    BY DEF TypeOK
  <1>2. r \in TaskRecords /\ r.kind = tasks[t].kind /\ r.copy = tasks[t].copy /\ r.at = stage
    BY <1>1 DEF TaskRecords
  <1>3. tasks' = [tasks EXCEPT ![t] = r]
    BY DEF Goto
  <1>. HIDE DEF r
  <1>4. /\ tasks' \in Seq(TaskRecords) /\ DOMAIN tasks' = DOMAIN tasks
        /\ tasks'[t] = r
        /\ \A s \in DOMAIN tasks : s # t => tasks'[s] = tasks[s]
    BY <1>1, <1>2, <1>3, Changed
  <1>. QED  BY <1>2, <1>4 DEF r

\* A search that has found copy i goes on to move it.
LEMMA FoundMoves ==
    ASSUME TypeOK, NEW t \in DOMAIN tasks, NEW i \in DOMAIN copies,
           tasks' = [tasks EXCEPT ![t].copy = i, ![t].at = "move"]
    PROVE  /\ tasks' \in Seq(TaskRecords) /\ DOMAIN tasks' = DOMAIN tasks
           /\ tasks'[t].kind = tasks[t].kind /\ tasks'[t].copy = i
           /\ tasks'[t].at = "move"
           /\ \A s \in DOMAIN tasks : s # t => tasks'[s] = tasks[s]
  <1>1. tasks \in Seq(TaskRecords) /\ tasks[t] \in TaskRecords
    BY DEF TypeOK
  <1>2. i \in Nat
    BY DEF TypeOK
  <1>. DEFINE q == [tasks[t] EXCEPT !.copy = i]
              mid == [tasks EXCEPT ![t] = q]
  <1>3. q \in TaskRecords /\ q.copy = i /\ q.kind = tasks[t].kind
    BY <1>1, <1>2 DEF TaskRecords
  <1>. DEFINE r == [q EXCEPT !.at = "move"]
  <1>4. tasks' = [mid EXCEPT ![t].at = "move"]
    OBVIOUS
  <1>. HIDE DEF q
  <1>5. r \in TaskRecords /\ r.copy = i /\ r.kind = tasks[t].kind /\ r.at = "move"
    BY <1>3 DEF TaskRecords, Stages
  <1>6. /\ mid \in Seq(TaskRecords) /\ DOMAIN mid = DOMAIN tasks
        /\ mid[t] = q /\ \A s \in DOMAIN tasks : s # t => mid[s] = tasks[s]
    BY <1>1, <1>3, Changed
  <1>. HIDE DEF mid
  <1>. DEFINE last == [mid EXCEPT ![t] = r]
  <1>7. tasks' = last
    BY <1>4, <1>6
  <1>. HIDE DEF r
  <1>8. /\ last \in Seq(TaskRecords) /\ DOMAIN last = DOMAIN mid /\ last[t] = r
        /\ \A s \in DOMAIN mid : s # t => last[s] = mid[s]
    BY <1>5, <1>6, Changed
  <1>. HIDE DEF last
  <1>. QED  BY <1>5, <1>6, <1>7, <1>8

\* Going to a stage that needs a copy only with one keeps the tasks' types.
LEMMA GotoTasksOK ==
    ASSUME TypeOK, NEW t \in DOMAIN tasks, NEW stage \in Stages, Goto(t, stage),
           UNCHANGED copies \/ Grows,
           \/ tasks[t].copy \in DOMAIN copies
           \/ tasks[t].kind = "byId" /\ stage \in {"spawned", "search", "done"}
    PROVE  TasksOK'
  <1>1. /\ tasks' \in Seq(TaskRecords) /\ DOMAIN tasks' = DOMAIN tasks
        /\ tasks'[t].kind = tasks[t].kind /\ tasks'[t].copy = tasks[t].copy
        /\ tasks'[t].at = stage
        /\ \A s \in DOMAIN tasks : s # t => tasks'[s] = tasks[s]
    BY GotoMoves
  <1>2. DOMAIN copies \subseteq DOMAIN copies'
    BY DEF Grows
  <1>3. ASSUME NEW s \in DOMAIN tasks'
        PROVE  \/ tasks'[s].copy \in DOMAIN copies'
               \/ tasks'[s].kind = "byId" /\ tasks'[s].at \in {"spawned", "search", "done"}
    <2>1. CASE s = t
      BY <1>1, <1>2, <2>1
    <2>2. CASE s # t
      BY <1>1, <1>2, <2>2 DEF TypeOK
    <2>. QED  BY <2>1, <2>2
  <1>. QED  BY <1>1, <1>3 DEF TasksOK

\* A task on a copy there is, or a search.
LEMMA TaskTyped ==
    ASSUME TypeOK, NEW kind \in Kinds, NEW m \in Messages, NEW i \in Nat,
           NEW src \in Folders, NEW dst \in Folders
    PROVE  /\ Task(kind, m, i, src, dst) \in TaskRecords
           /\ Task(kind, m, i, src, dst).kind = kind
           /\ Task(kind, m, i, src, dst).copy = i
           /\ Task(kind, m, i, src, dst).at = "spawned"
  BY DEF Task, TaskRecords, Stages, TypeOK

\* Spawning tasks on copies there are, or searches, keeps the tasks' types.
LEMMA SpawnTasksOK ==
    ASSUME TypeOK, UNCHANGED copies, NEW new \in Seq(TaskRecords), Spawn(new),
           \A j \in DOMAIN new :
              new[j].at = "spawned" /\ (new[j].copy \in DOMAIN copies \/ new[j].kind = "byId")
    PROVE  /\ TasksOK' /\ DOMAIN tasks \subseteq DOMAIN tasks'
           /\ \A t \in DOMAIN tasks : tasks'[t] = tasks[t]
           /\ \A t \in DOMAIN tasks' \ DOMAIN tasks : \E j \in DOMAIN new : tasks'[t] = new[j]
  <1>1. tasks \in Seq(TaskRecords) /\ tasks' = tasks \o new
    BY DEF TypeOK, Spawn
  <1>2. /\ tasks' \in Seq(TaskRecords) /\ DOMAIN tasks \subseteq DOMAIN tasks'
        /\ \A t \in DOMAIN tasks : tasks'[t] = tasks[t]
        /\ \A t \in DOMAIN tasks' \ DOMAIN tasks : \E j \in DOMAIN new : tasks'[t] = new[j]
    BY <1>1, Joined
  <1>3. ASSUME NEW t \in DOMAIN tasks'
        PROVE  \/ tasks'[t].copy \in DOMAIN copies'
               \/ tasks'[t].kind = "byId" /\ tasks'[t].at \in {"spawned", "search", "done"}
    <2>1. CASE t \in DOMAIN tasks
      BY <1>2, <2>1 DEF TypeOK
    <2>2. CASE t \notin DOMAIN tasks
      <3>1. PICK j \in DOMAIN new : tasks'[t] = new[j]
        BY <1>2, <2>2
      <3>. QED  BY <3>1
    <2>. QED  BY <2>1, <2>2
  <1>. QED  BY <1>2, <1>3 DEF TasksOK

\* What the user does spawns tasks; only a delete spawns one that expunges.
LEMMA UserSpawns ==
    ASSUME TypeOK, User
    PROVE  /\ TypeOK' /\ UNCHANGED copies /\ doomed \subseteq doomed'
           /\ DOMAIN tasks \subseteq DOMAIN tasks'
           /\ \A t \in DOMAIN tasks : tasks'[t] = tasks[t]
           /\ \A t \in DOMAIN tasks' \ DOMAIN tasks :
                 /\ tasks'[t].at = "spawned"
                 /\ tasks'[t].kind = "expunge" =>
                        tasks'[t].copy \in DOMAIN copies
                        /\ MsgOf(tasks'[t].copy) \in doomed'
  <1>0. copies \in Seq(Copies)
    BY DEF TypeOK
  <1>1. \A i \in DOMAIN copies :
           i \in Nat /\ MsgOf(i) \in Messages /\ copies[i].folder \in Folders
    <2>. SUFFICES ASSUME NEW i \in DOMAIN copies
                  PROVE  i \in Nat /\ MsgOf(i) \in Messages /\ copies[i].folder \in Folders
      OBVIOUS
    <2>1. i \in Nat /\ copies[i] \in Copies
      BY <1>0
    <2>. QED  BY <2>1 DEF Copies, MsgOf
  <1>2. ASSUME NEW i \in DOMAIN copies, NEW d \in Folders, MoveTo(i, d)
        PROVE  /\ TasksOK' /\ DOMAIN tasks \subseteq DOMAIN tasks'
               /\ \A t \in DOMAIN tasks : tasks'[t] = tasks[t]
               /\ \A t \in DOMAIN tasks' \ DOMAIN tasks :
                     tasks'[t].at = "spawned" /\ tasks'[t].kind # "expunge"
    <2>. DEFINE r == Task("move", MsgOf(i), i, copies[i].folder, d)
    <2>1. r \in TaskRecords /\ r.kind = "move" /\ r.copy = i /\ r.at = "spawned"
      BY <1>1, TaskTyped DEF Kinds
    <2>2. Spawn(<<r>>) /\ UNCHANGED copies
      BY <1>2 DEF MoveTo
    <2>. HIDE DEF r
    <2>3. <<r>> \in Seq(TaskRecords) /\ DOMAIN <<r>> = {1} /\ <<r>>[1] = r
      BY <2>1
    <2>. QED  BY <2>1, <2>2, <2>3, SpawnTasksOK
  <1>3. ASSUME NEW i \in DOMAIN copies, Delete(i)
        PROVE  /\ TasksOK' /\ DOMAIN tasks \subseteq DOMAIN tasks'
               /\ \A t \in DOMAIN tasks : tasks'[t] = tasks[t]
               /\ \A t \in DOMAIN tasks' \ DOMAIN tasks :
                     tasks'[t].at = "spawned" /\ tasks'[t].copy = i
    <2>. DEFINE r == Task("flags", MsgOf(i), i, copies[i].folder, copies[i].folder)
                q == Task("expunge", MsgOf(i), i, copies[i].folder, copies[i].folder)
    <2>1. /\ r \in TaskRecords /\ r.copy = i /\ r.at = "spawned"
          /\ q \in TaskRecords /\ q.copy = i /\ q.at = "spawned"
      BY <1>1, TaskTyped DEF Kinds
    <2>2. Spawn(<<r, q>>) /\ UNCHANGED copies
      BY <1>3 DEF Delete
    <2>. HIDE DEF r, q
    <2>. DEFINE new == <<r, q>>
    <2>3. /\ new \in Seq(TaskRecords)
          /\ \A j \in DOMAIN new : new[j].at = "spawned" /\ new[j].copy = i
      BY <2>1
    <2>4. Spawn(new)
      BY <2>2
    <2>. HIDE DEF new
    <2>. QED  BY <2>2, <2>3, <2>4, SpawnTasksOK
  <1>4. ASSUME NEW e \in entries, Undo(e) \/ Redo(e)
        PROVE  /\ TasksOK' /\ DOMAIN tasks \subseteq DOMAIN tasks'
               /\ \A t \in DOMAIN tasks : tasks'[t] = tasks[t]
               /\ \A t \in DOMAIN tasks' \ DOMAIN tasks :
                     tasks'[t].at = "spawned" /\ tasks'[t].kind # "expunge"
    <2>1. e.msg \in Messages /\ e.src \in Folders /\ e.dst \in Folders
      BY DEF TypeOK
    <2>2. PICK r : /\ r = Task("byId", e.msg, 0, e.dst, e.src)
                      \/ r = Task("byId", e.msg, 0, e.src, e.dst)
                   /\ Spawn(<<r>>)
      BY <1>4 DEF Undo, Redo
    <2>3. r \in TaskRecords /\ r.kind = "byId" /\ r.at = "spawned"
      BY <2>1, <2>2, TaskTyped DEF Kinds
    <2>4. <<r>> \in Seq(TaskRecords) /\ DOMAIN <<r>> = {1} /\ <<r>>[1] = r
      BY <2>3
    <2>5. UNCHANGED copies
      BY <1>4 DEF Undo, Redo
    <2>. QED  BY <2>2, <2>3, <2>4, <2>5, SpawnTasksOK
  <1>5. CASE \E i \in DOMAIN copies, d \in Folders : MoveTo(i, d)
    <2>1. PICK i \in DOMAIN copies, d \in Folders : MoveTo(i, d)
      BY <1>5
    <2>. DEFINE e == [msg |-> MsgOf(i), src |-> copies[i].folder, dst |-> d,
                      undone |-> FALSE]
    <2>2. e \in [msg: Messages, src: Folders, dst: Folders, undone: BOOLEAN]
      BY <1>1
    <2>3. /\ entries' = entries \cup {e} /\ want' = [want EXCEPT ![MsgOf(i)] = d]
          /\ UNCHANGED <<calm, copies, conn, doomed, panicked, reported, faults>>
      BY <2>1 DEF MoveTo
    <2>. HIDE DEF e
    <2>4. /\ TasksOK' /\ DOMAIN tasks \subseteq DOMAIN tasks'
          /\ \A t \in DOMAIN tasks : tasks'[t] = tasks[t]
          /\ \A t \in DOMAIN tasks' \ DOMAIN tasks :
                tasks'[t].at = "spawned" /\ tasks'[t].kind # "expunge"
      BY <1>2, <2>1
    <2>5. TypeOK'
      BY <1>1, <2>2, <2>3, <2>4 DEF TypeOK, TasksOK
    <2>. QED  BY <2>3, <2>4, <2>5
  <1>6. CASE \E i \in DOMAIN copies : Delete(i)
    <2>1. PICK i \in DOMAIN copies : Delete(i)
      BY <1>6
    <2>2. /\ want' = [want EXCEPT ![MsgOf(i)] = Gone] /\ doomed' = doomed \cup {MsgOf(i)}
          /\ UNCHANGED <<calm, copies, conn, entries, panicked, reported, faults>>
      BY <2>1 DEF Delete
    <2>3. /\ TasksOK' /\ DOMAIN tasks \subseteq DOMAIN tasks'
          /\ \A t \in DOMAIN tasks : tasks'[t] = tasks[t]
          /\ \A t \in DOMAIN tasks' \ DOMAIN tasks :
                tasks'[t].at = "spawned" /\ tasks'[t].copy = i
      BY <1>3, <2>1
    <2>4. doomed' \subseteq Messages /\ want' \in [Messages -> Folders \cup {Gone}]
      BY <1>1, <2>2 DEF TypeOK
    <2>5. TypeOK'
      BY <2>2, <2>3, <2>4 DEF TypeOK, TasksOK
    <2>. QED  BY <2>2, <2>3, <2>5 DEF MsgOf
  <1>7. CASE \E e \in entries : Undo(e) \/ Redo(e)
    <2>1. PICK e \in entries : Undo(e) \/ Redo(e)
      BY <1>7
    <2>2. e.msg \in Messages /\ e.src \in Folders /\ e.dst \in Folders
          /\ [e EXCEPT !.undone = TRUE] \in
                [msg: Messages, src: Folders, dst: Folders, undone: BOOLEAN]
          /\ [e EXCEPT !.undone = FALSE] \in
                [msg: Messages, src: Folders, dst: Folders, undone: BOOLEAN]
      BY DEF TypeOK
    <2>. QED  BY <1>4, <2>1, <2>2 DEF Undo, Redo, TypeOK, TasksOK
  <1>. QED  BY <1>5, <1>6, <1>7 DEF User

\* The stage a task locks the connection for.
LEMMA FirstStage ==
    ASSUME NEW kind \in Kinds
    PROVE  /\ First(kind) \in Stages
           /\ First(kind) = "search" <=> kind = "byId"
           /\ First(kind) \in {"mark", "purge"} => kind = "expunge"
  BY DEF Kinds, First, Stages

\* Every step of a task keeps the types.
LEMMA TaskTypes ==
    ASSUME TypeOK, NEW t \in DOMAIN tasks, TaskStep(t)
    PROVE  TypeOK'
  <1>. USE DEF Stages
  <1>1. /\ tasks[t] \in TaskRecords /\ tasks[t].kind \in Kinds /\ tasks[t].at \in Stages
    <2>1. tasks[t] \in TaskRecords
      BY DEF TypeOK
    <2>. QED  BY <2>1 DEF TaskRecords
  <1>2. CASE Lock(t)
    <2>1. Goto(t, First(tasks[t].kind)) /\ UNCHANGED copies /\ tasks[t].at = "spawned"
      BY <1>2 DEF Lock
    <2>2. \/ tasks[t].copy \in DOMAIN copies
          \/ tasks[t].kind = "byId" /\ First(tasks[t].kind) = "search"
      BY <1>1, FirstStage DEF TypeOK
    <2>3. TasksOK'
      BY <1>1, <2>1, <2>2, FirstStage, GotoTasksOK
    <2>. QED  BY <1>2, <2>3 DEF Lock, TypeOK, TasksOK
  <1>3. CASE Ok(t)
    <2>1. /\ Grows /\ tasks[t].copy \in DOMAIN copies
          /\ AfterOk(tasks[t].at) \in Stages /\ Goto(t, AfterOk(tasks[t].at))
      BY <1>3, EffectGrows, CommandCopy DEF Ok, AfterOk
    <2>2. TasksOK'
      BY <2>1, GotoTasksOK
    <2>. QED  BY <1>3, <2>1, <2>2 DEF Ok, Grows, TypeOK, TasksOK
  <1>4. CASE MoveRefused(t)
    <2>1. tasks[t].copy \in DOMAIN copies /\ Goto(t, "copy") /\ UNCHANGED copies
      BY <1>4 DEF MoveRefused, TypeOK
    <2>2. TasksOK'
      BY <2>1, GotoTasksOK
    <2>. QED  BY <1>4, <2>2 DEF MoveRefused, TypeOK, TasksOK
  <1>5. CASE Search(t)
    <2>1. PICK i \in DOMAIN copies : tasks' = [tasks EXCEPT ![t].copy = i, ![t].at = "move"]
      BY <1>5 DEF Search
    <2>2. /\ tasks' \in Seq(TaskRecords) /\ DOMAIN tasks' = DOMAIN tasks
          /\ tasks'[t].copy = i
          /\ \A s \in DOMAIN tasks : s # t => tasks'[s] = tasks[s]
      BY <2>1, FoundMoves
    <2>3. UNCHANGED copies
      BY <1>5 DEF Search
    <2>5. TasksOK'
      BY <2>2, <2>3 DEF TypeOK, TasksOK
    <2>. QED  BY <1>5, <2>5 DEF Search, TypeOK, TasksOK
  <1>6. CASE NotFound(t) \/ Panic(t)
    <2>1. Goto(t, "done") /\ UNCHANGED copies
      BY <1>6 DEF NotFound, Panic
    <2>2. tasks[t].copy \in DOMAIN copies \/ tasks[t].kind = "byId"
      BY DEF TypeOK
    <2>3. TasksOK'
      BY <2>1, <2>2, GotoTasksOK
    <2>4. panicked' \in BOOLEAN /\ reported' \in BOOLEAN /\ calm' \in BOOLEAN
      BY <1>6, Zenon DEF NotFound, Panic, TypeOK
    <2>5. faults' \in 0..MaxFaults
      BY <1>6, OpsAssumption DEF NotFound, Panic, Fault, TypeOK
    <2>6. UNCHANGED <<copies, conn, entries, want, doomed>>
      BY <1>6 DEF NotFound, Panic
    <2>. QED  BY <2>3, <2>4, <2>5, <2>6 DEF TypeOK, TasksOK
  <1>7. CASE Fail(t)
    <2>1. Goto(t, "done") /\ (UNCHANGED copies \/ Grows)
      BY <1>7, EffectGrows DEF Fail
    <2>2. tasks[t].copy \in DOMAIN copies \/ tasks[t].kind = "byId"
      BY DEF TypeOK
    <2>3. TasksOK'
      BY <2>1, <2>2, GotoTasksOK
    <2>. QED  BY <1>7, <2>1, <2>3, OpsAssumption DEF Fail, Fault, Grows, TypeOK, TasksOK
  <1>. QED  BY <1>2, <1>3, <1>4, <1>5, <1>6, <1>7 DEF TaskStep

\* Every step keeps the types.
LEMMA TypeStep == TypeOK /\ [Next]_vars => TypeOK'
  <1>. SUFFICES ASSUME TypeOK, [Next]_vars PROVE TypeOK'
    OBVIOUS
  <1>1. CASE \E m \in Messages : Deliver(m)
    <2>1. PICK m \in Messages : Deliver(m)
      BY <1>1
    <2>2. Grows
      BY <2>1, DeliverAdds DEF Added, Grows
    <2>. QED  BY <2>1, <2>2 DEF Deliver, Grows, TypeOK
  <1>2. CASE User
    BY <1>2, UserSpawns
  <1>3. CASE Reset \/ Release
    <2>1. panicked' \in BOOLEAN /\ reported' \in BOOLEAN /\ calm' \in BOOLEAN
      BY <1>3, Zenon DEF Reset, Release, TypeOK
    <2>2. conn' \in Nat /\ UNCHANGED <<copies, tasks, entries, want, doomed, faults>>
      BY <1>3 DEF Reset, Release, TypeOK
    <2>. QED  BY <2>1, <2>2 DEF TypeOK
  <1>4. CASE \E t \in DOMAIN tasks : TaskStep(t)
    BY <1>4, TaskTypes
  <1>5. CASE UNCHANGED vars
    BY <1>5 DEF vars, TypeOK
  <1>. QED  BY <1>1, <1>2, <1>3, <1>4, <1>5 DEF Next

LEMMA TypeInit == Init => TypeOK
  <1>. SUFFICES ASSUME Init PROVE TypeOK
    OBVIOUS
  <1>1. calm \in BOOLEAN /\ panicked \in BOOLEAN /\ reported \in BOOLEAN
    BY OpsAssumption, Zenon DEF Init
  <1>2. want \in [Messages -> Folders \cup {Gone}] /\ faults \in 0..MaxFaults
    BY OpsAssumption DEF Init
  <1>. QED  BY <1>1, <1>2 DEF Init, TypeOK

\* BgOps is type correct for any messages, folders, tasks and faults.
THEOREM OpsType == Spec => []TypeOK
  BY TypeInit, TypeStep, PTL DEF Spec

----------------------------------------------------------------------------
(* No message is lost.                                                     *)

IsNewest(i) == \A k \in DOMAIN copies : MsgOf(k) = MsgOf(i) => k <= i

\* The newest copy of a message that was not deleted for good is there.
NewestLive ==
    \A i \in DOMAIN copies : MsgOf(i) \notin doomed =>
        \E j \in DOMAIN copies : MsgOf(j) = MsgOf(i) /\ Live(j) /\ IsNewest(j)

\* Copy i can go: its message is deleted for good, or it is gone, or there is a
\* newer copy.
Dispensable(i) == MsgOf(i) \in doomed \/ ~Live(i) \/ ~IsNewest(i)

\* A task that is about to mark and expunge a copy has copied it before.
OnlyDispensable ==
    \A t \in DOMAIN tasks :
        /\ tasks[t].at = "search" => tasks[t].kind = "byId"
        /\ tasks[t].kind = "expunge" \/ tasks[t].at \in {"mark", "purge"} =>
               tasks[t].copy \in DOMAIN copies /\ Dispensable(tasks[t].copy)

OpsInv == TypeOK /\ NewestLive /\ OnlyDispensable

\* A copy that can go can go for ever.
Dispense == \A i \in DOMAIN copies : Dispensable(i) => Dispensable(i)'

\* When the copies stay and only one that can go disappears, the newest ones stay.
LEMMA KeptNewest ==
    ASSUME TypeOK, NewestLive, NEW i \in DOMAIN copies \cup {0}, Kept(i),
           i \in DOMAIN copies => Dispensable(i), UNCHANGED doomed
    PROVE  NewestLive' /\ Dispense
  <1>1. /\ DOMAIN copies' = DOMAIN copies
        /\ \A j \in DOMAIN copies : MsgOf(j)' = MsgOf(j) /\ (Live(j)' => Live(j))
        /\ \A j \in DOMAIN copies : j # i => Live(j)' = Live(j)
    BY DEF Kept, SameBut, MsgOf, Live
  <1>2. \A j \in DOMAIN copies : IsNewest(j)' <=> IsNewest(j)
    BY <1>1 DEF IsNewest
  <1>3. ASSUME NEW j \in DOMAIN copies', MsgOf(j)' \notin doomed'
        PROVE  \E k \in DOMAIN copies' : MsgOf(k)' = MsgOf(j)' /\ Live(k)' /\ IsNewest(k)'
    <2>1. PICK k \in DOMAIN copies : MsgOf(k) = MsgOf(j) /\ Live(k) /\ IsNewest(k)
      BY <1>1, <1>3 DEF NewestLive
    <2>2. k # i
      BY <1>1, <1>3, <2>1 DEF Dispensable
    <2>. QED  BY <1>1, <1>2, <2>1, <2>2
  <1>4. NewestLive'
    BY <1>3 DEF NewestLive
  <1>5. Dispense
    BY <1>1, <1>2 DEF Dispense, Dispensable
  <1>. QED  BY <1>4, <1>5

\* A copy that is added is its message's newest, so the one it is a copy of may go.
LEMMA AddedNewest ==
    ASSUME TypeOK, NewestLive, NEW i \in DOMAIN copies \cup {0}, NEW m, NEW d, Added(i, m, d),
           i \in DOMAIN copies => MsgOf(i) = m, UNCHANGED doomed
    PROVE  /\ NewestLive' /\ Dispense
           /\ i \in DOMAIN copies => Dispensable(i)'
           /\ \A j \in DOMAIN copies : MsgOf(j) = m => Dispensable(j)'
  <1>1. PICK n :
        /\ n = Len(copies) + 1
        /\ n \notin DOMAIN copies /\ DOMAIN copies' = DOMAIN copies \cup {n}
        /\ \A j \in DOMAIN copies : j < n
        /\ \A j \in DOMAIN copies : MsgOf(j)' = MsgOf(j) /\ (Live(j)' => Live(j))
        /\ \A j \in DOMAIN copies : j # i => Live(j)' = Live(j)
        /\ MsgOf(n)' = m /\ Live(n)'
    <2>. DEFINE n == Len(copies) + 1
    <2>1. /\ n \notin DOMAIN copies /\ DOMAIN copies' = DOMAIN copies \cup {n}
          /\ \A j \in DOMAIN copies : j < n
          /\ copies'[n].msg = m /\ copies'[n].here /\ SameBut(i)
      BY DEF Added
    <2>. HIDE DEF n
    <2>2. /\ \A j \in DOMAIN copies : MsgOf(j)' = MsgOf(j) /\ (Live(j)' => Live(j))
          /\ \A j \in DOMAIN copies : j # i => Live(j)' = Live(j)
      BY <2>1 DEF SameBut, MsgOf, Live
    <2>. QED  BY <2>1, <2>2 DEF n, MsgOf, Live
  <1>2. copies \in Seq(Copies)
    BY DEF TypeOK
  <1>3. n \in Nat /\ DOMAIN copies \subseteq Nat
    BY <1>1, <1>2
  <1>4. IsNewest(n)' /\ \A j \in DOMAIN copies : MsgOf(j) = m => ~IsNewest(j)'
    BY <1>1, <1>3 DEF IsNewest
  <1>5. \A j \in DOMAIN copies : ~IsNewest(j) => ~IsNewest(j)'
    BY <1>1 DEF IsNewest
  <1>6. \A j \in DOMAIN copies : MsgOf(j) # m /\ IsNewest(j) => IsNewest(j)'
    BY <1>1 DEF IsNewest
  <1>7. ASSUME NEW j \in DOMAIN copies', MsgOf(j)' \notin doomed'
        PROVE  \E k \in DOMAIN copies' : MsgOf(k)' = MsgOf(j)' /\ Live(k)' /\ IsNewest(k)'
    <2>1. CASE MsgOf(j)' = m
      BY <1>1, <1>4, <2>1
    <2>2. CASE MsgOf(j)' # m
      <3>1. j \in DOMAIN copies /\ MsgOf(j) \notin doomed /\ MsgOf(j) # m
        BY <1>1, <1>7, <2>2
      <3>2. PICK k \in DOMAIN copies : MsgOf(k) = MsgOf(j) /\ Live(k) /\ IsNewest(k)
        BY <3>1 DEF NewestLive
      <3>. QED  BY <1>1, <1>6, <3>1, <3>2
    <2>. QED  BY <2>1, <2>2
  <1>8. NewestLive'
    BY <1>7 DEF NewestLive
  <1>9. Dispense
    BY <1>1, <1>5 DEF Dispense, Dispensable
  <1>. QED  BY <1>4, <1>8, <1>9 DEF Dispensable

\* A command of a task keeps a copy of every message, and what it copied can go.
LEMMA EffectNewest ==
    ASSUME OpsInv, NEW t \in DOMAIN tasks, Command(t), copies' = Effect(t), UNCHANGED doomed,
           NEW i, i = tasks[t].copy
    PROVE  /\ NewestLive' /\ Dispense
           /\ tasks[t].at = "copy" => Dispensable(i)'
  <1>. DEFINE d == tasks[t].dst
  <1>1. /\ TypeOK /\ NewestLive
        /\ i \in DOMAIN copies /\ d \in Folders
        /\ tasks[t].at \in {"store", "mark", "move", "copy", "purge"}
    BY CommandCopy DEF OpsInv
  <1>2. tasks[t].at = "purge" => Dispensable(i)
    BY DEF OpsInv, OnlyDispensable
  <1>3. copies \in Seq(Copies)
    BY <1>1 DEF TypeOK
  <1>4. 0 \notin DOMAIN copies
    BY <1>3
  <1>5. /\ tasks[t].at \in {"store", "mark"} => copies' = Flagged(i)
        /\ tasks[t].at = "move" => copies' = Moved(i, d)
        /\ tasks[t].at = "copy" => copies' = Copied(i, d)
        /\ tasks[t].at = "purge" => copies' = Purged(i)
    BY DEF Effect
  <1>. HIDE DEF d
  <1>6. CASE UNCHANGED copies
    <2>1. NewestLive' /\ Dispense
      BY <1>1, <1>6 DEF NewestLive, Dispense, Dispensable, IsNewest, Live, MsgOf
    <2>2. tasks[t].at = "copy" /\ ~Live(i) => Dispensable(i)'
      BY <1>6 DEF Dispensable, Live
    <2>3. tasks[t].at = "copy" => ~Live(i)
      BY <1>1, <1>3, <1>5, <1>6, CopiedAdds DEF Added
    <2>. QED  BY <2>1, <2>2, <2>3
  <1>7. CASE tasks[t].at \in {"store", "mark"}
    <2>1. Kept(0)
      BY <1>1, <1>5, <1>7, FlaggedKeeps
    <2>. QED  BY <1>1, <1>4, <1>7, <2>1, KeptNewest
  <1>8. CASE tasks[t].at = "move" /\ Live(i)
    <2>1. Added(i, MsgOf(i), d)
      BY <1>1, <1>5, <1>8, MovedAdds
    <2>. QED  BY <1>1, <1>8, <2>1, AddedNewest
  <1>9. CASE tasks[t].at = "copy" /\ Live(i)
    <2>1. Added(0, MsgOf(i), d)
      BY <1>1, <1>5, <1>9, CopiedAdds
    <2>. QED  BY <1>1, <1>4, <2>1, AddedNewest
  <1>10. CASE tasks[t].at = "purge"
    <2>1. Kept(i)
      BY <1>1, <1>5, <1>10, PurgedKeeps
    <2>. QED  BY <1>1, <1>2, <1>10, <2>1, KeptNewest
  <1>11. tasks[t].at \in {"move", "copy"} /\ ~Live(i) => UNCHANGED copies
    BY <1>5 DEF Moved, Copied
  <1>. QED  BY <1>1, <1>6, <1>7, <1>8, <1>9, <1>10, <1>11

\* What OnlyDispensable says of one task.
Careful(t) ==
    /\ tasks[t].at = "search" => tasks[t].kind = "byId"
    /\ tasks[t].kind = "expunge" \/ tasks[t].at \in {"mark", "purge"} =>
           tasks[t].copy \in DOMAIN copies /\ Dispensable(tasks[t].copy)

\* A step of task t leaves the other tasks as careful as they were.
LEMMA OthersCareful ==
    ASSUME OpsInv, NEW t \in DOMAIN tasks,
           DOMAIN tasks' = DOMAIN tasks, \A s \in DOMAIN tasks : s # t => tasks'[s] = tasks[s],
           DOMAIN copies \subseteq DOMAIN copies', Dispense, Careful(t)'
    PROVE  OnlyDispensable'
  <1>1. ASSUME NEW s \in DOMAIN tasks'
        PROVE  Careful(s)'
    <2>1. CASE s = t
      BY <2>1
    <2>2. CASE s # t
      <3>1. tasks'[s] = tasks[s] /\ Careful(s)
        BY <2>2 DEF OpsInv, OnlyDispensable, Careful
      <3>. QED  BY <3>1 DEF Careful, Dispense
    <2>. QED  BY <2>1, <2>2
  <1>. QED  BY <1>1 DEF OnlyDispensable, Careful

\* Every step of a task keeps a copy of every message.
LEMMA TaskKeeps ==
    ASSUME OpsInv, NEW t \in DOMAIN tasks, TaskStep(t)
    PROVE  NewestLive' /\ OnlyDispensable'
  <1>1. /\ TypeOK /\ NewestLive /\ Careful(t) /\ UNCHANGED doomed
        /\ tasks[t] \in TaskRecords
    <2>1. TypeOK /\ NewestLive /\ Careful(t)
      BY DEF OpsInv, OnlyDispensable, Careful
    <2>2. UNCHANGED doomed
      BY DEF TaskStep, Lock, Ok, MoveRefused, Search, NotFound, Fail, Panic
    <2>. QED  BY <2>1, <2>2 DEF TypeOK
  <1>2. tasks[t].kind \in Kinds /\ tasks[t].at \in Stages
    BY <1>1 DEF TaskRecords
  <1>. PICK c : c = tasks[t].copy
    OBVIOUS
  <1>3. CASE UNCHANGED copies
    <2>1. /\ NewestLive' /\ Dispense
          /\ \A i \in DOMAIN copies : Dispensable(i)' <=> Dispensable(i)
      BY <1>1, <1>3 DEF NewestLive, Dispense, Dispensable, IsNewest, Live, MsgOf
    <2>2. CASE Lock(t)
      <3>1. /\ Goto(t, First(tasks[t].kind)) /\ First(tasks[t].kind) \in Stages
        BY <1>2, <2>2, FirstStage DEF Lock
      <3>2. /\ DOMAIN tasks' = DOMAIN tasks /\ tasks'[t].at = First(tasks[t].kind)
            /\ tasks'[t].kind = tasks[t].kind /\ tasks'[t].copy = tasks[t].copy
            /\ \A s \in DOMAIN tasks : s # t => tasks'[s] = tasks[s]
        BY <1>1, <3>1, GotoMoves
      <3>3. Careful(t)'
        BY <1>1, <1>2, <1>3, <2>1, <3>2, FirstStage DEF Careful
      <3>. QED  BY <1>3, <2>1, <3>2, <3>3, OthersCareful
    <2>3. CASE MoveRefused(t) \/ NotFound(t) \/ Fail(t) \/ Panic(t)
      <3>1. PICK stage \in {"copy", "done"} : Goto(t, stage)
        BY <2>3 DEF MoveRefused, NotFound, Fail, Panic
      <3>2. /\ DOMAIN tasks' = DOMAIN tasks /\ tasks'[t].at = stage
            /\ tasks'[t].kind = tasks[t].kind /\ tasks'[t].copy = tasks[t].copy
            /\ \A s \in DOMAIN tasks : s # t => tasks'[s] = tasks[s]
        BY <1>1, <3>1, GotoMoves DEF Stages
      <3>3. Careful(t)'
        BY <1>1, <1>3, <2>1, <3>2 DEF Careful
      <3>. QED  BY <1>3, <2>1, <3>2, <3>3, OthersCareful
    <2>4. CASE Search(t)
      <3>1. /\ tasks[t].at = "search"
            /\ \E i \in DOMAIN copies :
                  tasks' = [tasks EXCEPT ![t].copy = i, ![t].at = "move"]
        BY <2>4 DEF Search
      <3>2. /\ DOMAIN tasks' = DOMAIN tasks /\ tasks'[t].at = "move"
            /\ tasks'[t].kind = tasks[t].kind
            /\ \A s \in DOMAIN tasks : s # t => tasks'[s] = tasks[s]
        BY <1>1, <3>1, FoundMoves
      <3>3. Careful(t)'
        BY <1>1, <3>1, <3>2 DEF Careful
      <3>. QED  BY <1>3, <2>1, <3>2, <3>3, OthersCareful
    <2>5. CASE Ok(t)
      <3>1. /\ Command(t) /\ copies' = Effect(t)
            /\ AfterOk(tasks[t].at) \in Stages /\ Goto(t, AfterOk(tasks[t].at))
            /\ AfterOk(tasks[t].at) # "search"
        BY <2>5 DEF Ok, AfterOk, Stages
      <3>2. tasks[t].at = "copy" => Dispensable(c)'
        BY <1>1, <3>1, EffectNewest
      <3>3. /\ DOMAIN tasks' = DOMAIN tasks /\ tasks'[t].at = AfterOk(tasks[t].at)
            /\ tasks'[t].kind = tasks[t].kind /\ tasks'[t].copy = tasks[t].copy
            /\ \A s \in DOMAIN tasks : s # t => tasks'[s] = tasks[s]
        BY <1>1, <3>1, GotoMoves
      <3>4. tasks[t].copy \in DOMAIN copies
        BY <1>1, <3>1, CommandCopy
      <3>5. AfterOk(tasks[t].at) \in {"mark", "purge"} => tasks[t].at \in {"copy", "mark"}
        BY DEF AfterOk
      <3>6. Careful(t)'
        BY <1>1, <1>3, <2>1, <3>1, <3>2, <3>3, <3>4, <3>5 DEF Careful
      <3>. QED  BY <1>3, <2>1, <3>3, <3>6, OthersCareful
    <2>. QED  BY <2>2, <2>3, <2>4, <2>5 DEF TaskStep
  <1>4. CASE Command(t) /\ copies' = Effect(t) /\ (Ok(t) \/ Fail(t))
    <2>1. /\ NewestLive' /\ Dispense /\ Grows
          /\ tasks[t].at = "copy" => Dispensable(c)'
          /\ tasks[t].copy \in DOMAIN copies
      BY <1>1, <1>4, EffectNewest, EffectGrows, CommandCopy
    <2>2. PICK stage \in {"mark", "purge", "done"} :
             Goto(t, stage) /\ (stage # "done" => tasks[t].at \in {"copy", "mark"})
      BY <1>4 DEF Ok, Fail, AfterOk
    <2>3. /\ DOMAIN tasks' = DOMAIN tasks /\ tasks'[t].at = stage
          /\ tasks'[t].kind = tasks[t].kind /\ tasks'[t].copy = tasks[t].copy
          /\ \A s \in DOMAIN tasks : s # t => tasks'[s] = tasks[s]
      BY <1>1, <2>2, GotoMoves DEF Stages
    <2>4. Careful(t)'
      BY <1>1, <2>1, <2>2, <2>3 DEF Careful, Dispense, Grows
    <2>. QED  BY <2>1, <2>3, <2>4, OthersCareful DEF Grows
  <1>. QED  BY <1>3, <1>4 DEF TaskStep, Lock, Ok, MoveRefused, Search, NotFound, Fail, Panic

\* Every step keeps a copy of every message.
LEMMA OpsStep == OpsInv /\ [Next]_vars => OpsInv'
  <1>. SUFFICES ASSUME OpsInv, [Next]_vars PROVE NewestLive' /\ OnlyDispensable'
    BY TypeStep DEF OpsInv
  <1>1. TypeOK /\ NewestLive /\ OnlyDispensable
    BY DEF OpsInv
  <1>2. ASSUME UNCHANGED copies, doomed \subseteq doomed'
        PROVE  NewestLive' /\ Dispense
    BY <1>1, <1>2 DEF NewestLive, Dispense, Dispensable, IsNewest, Live, MsgOf
  <1>3. CASE \E m \in Messages : Deliver(m)
    <2>1. PICK m \in Messages : Deliver(m)
      BY <1>3
    <2>2. Added(0, m, Inbox) /\ UNCHANGED <<tasks, doomed>> /\ copies \in Seq(Copies)
      BY <1>1, <2>1, DeliverAdds DEF Deliver, TypeOK
    <2>3. 0 \notin DOMAIN copies
      BY <2>2
    <2>4. NewestLive' /\ Dispense
      BY <1>1, <2>2, <2>3, AddedNewest
    <2>5. DOMAIN copies \subseteq DOMAIN copies'
      BY <2>2 DEF Added
    <2>. QED  BY <1>1, <2>2, <2>4, <2>5 DEF OnlyDispensable, Dispense
  <1>4. CASE User
    <2>1. /\ UNCHANGED copies /\ doomed \subseteq doomed'
          /\ \A t \in DOMAIN tasks : tasks'[t] = tasks[t]
          /\ \A t \in DOMAIN tasks' \ DOMAIN tasks :
                /\ tasks'[t].at = "spawned"
                /\ tasks'[t].kind = "expunge" =>
                       tasks'[t].copy \in DOMAIN copies
                       /\ MsgOf(tasks'[t].copy) \in doomed'
      BY <1>1, <1>4, UserSpawns
    <2>2. NewestLive' /\ Dispense
      BY <1>2, <2>1
    <2>3. ASSUME NEW t \in DOMAIN tasks'
          PROVE  Careful(t)'
      <3>1. CASE t \in DOMAIN tasks
        <4>1. Careful(t) /\ tasks'[t] = tasks[t]
          BY <1>1, <2>1, <3>1 DEF OnlyDispensable, Careful
        <4>. QED  BY <2>1, <2>2, <4>1 DEF Careful, Dispense
      <3>2. CASE t \notin DOMAIN tasks
        BY <2>1, <3>2 DEF Careful, Dispensable, MsgOf
      <3>. QED  BY <3>1, <3>2
    <2>. QED  BY <2>2, <2>3 DEF OnlyDispensable, Careful
  <1>5. CASE Reset \/ Release \/ UNCHANGED vars
    <2>1. UNCHANGED <<copies, tasks, doomed>>
      BY <1>5 DEF Reset, Release, vars
    <2>. QED  BY <1>1, <1>2, <2>1 DEF OnlyDispensable, Dispense
  <1>6. CASE \E t \in DOMAIN tasks : TaskStep(t)
    BY <1>6, TaskKeeps
  <1>. QED  BY <1>3, <1>4, <1>5, <1>6 DEF Next

\* Whatever order tasks run in, wherever they fail and whatever the user does, a
\* message that was not deleted for good is in some folder.
THEOREM OpsNothingLost == Spec => []NothingLost
  <1>1. Init => OpsInv
    BY TypeInit DEF Init, OpsInv, NewestLive, OnlyDispensable
  <1>2. OpsInv => NothingLost
    BY DEF OpsInv, NewestLive, NothingLost, PlacesOf
  <1>. QED  BY <1>1, <1>2, OpsStep, PTL DEF Spec

----------------------------------------------------------------------------
(* The folders behave as MailStore says.                                   *)

\* A message is in a folder when a copy that is there is.
LEMMA InPlaces ==
    \A m, f : f \in PlacesOf(m) <=>
        \E j \in DOMAIN copies : Live(j) /\ MsgOf(j) = m /\ copies[j].folder = f
  BY DEF PlacesOf

LEMMA InPlacesNext ==
    \A m, f : f \in PlacesOf(m)' <=>
        \E j \in DOMAIN copies' :
            copies'[j].here /\ copies'[j].msg = m /\ copies'[j].folder = f
  BY DEF PlacesOf, Live, MsgOf

\* No copy disappears and none is added: the folders stay.
LEMMA KeptStays ==
    ASSUME TypeOK, Kept(0)
    PROVE  \A x : PlacesOf(x)' = PlacesOf(x)
  <1>1. copies \in Seq(Copies)
    BY DEF TypeOK
  <1>2. 0 \notin DOMAIN copies
    BY <1>1
  <1>3. \A x, f : f \in PlacesOf(x)' <=> f \in PlacesOf(x)
    BY <1>2, InPlaces, InPlacesNext DEF Kept, SameBut, Live, MsgOf
  <1>. QED  BY <1>3

\* A copy is added in folder d and none disappears.
LEMMA AddedPuts ==
    ASSUME TypeOK, NEW m, NEW d, Added(0, m, d)
    PROVE  /\ \A x : x # m => PlacesOf(x)' = PlacesOf(x)
           /\ PlacesOf(m)' = PlacesOf(m) \cup {d}
  <1>1. copies \in Seq(Copies)
    BY DEF TypeOK
  <1>2. 0 \notin DOMAIN copies
    BY <1>1
  <1>3. PICK n :
        /\ n \notin DOMAIN copies /\ DOMAIN copies' = DOMAIN copies \cup {n}
        /\ copies'[n].msg = m /\ copies'[n].folder = d /\ copies'[n].here
    BY DEF Added
  <1>4. \A j \in DOMAIN copies :
           /\ copies'[j].msg = copies[j].msg /\ copies'[j].folder = copies[j].folder
           /\ copies'[j].here = copies[j].here
    BY <1>2 DEF Added, SameBut
  <1>5. ASSUME NEW x, NEW f
        PROVE  f \in PlacesOf(x)' <=> f \in PlacesOf(x) \/ (x = m /\ f = d)
    <2>1. CASE f \in PlacesOf(x)
      BY <1>3, <1>4, <2>1, InPlaces, InPlacesNext DEF Live, MsgOf
    <2>2. CASE x = m /\ f = d
      BY <1>3, <2>2, InPlacesNext
    <2>3. ASSUME f \in PlacesOf(x)' PROVE f \in PlacesOf(x) \/ (x = m /\ f = d)
      <3>1. PICK j \in DOMAIN copies' :
               copies'[j].here /\ copies'[j].msg = x /\ copies'[j].folder = f
        BY <2>3, InPlacesNext
      <3>. QED  BY <1>3, <1>4, <3>1, InPlaces DEF Live, MsgOf
    <2>. QED  BY <2>1, <2>2, <2>3
  <1>6. \A x : x # m => \A f : f \in PlacesOf(x)' <=> f \in PlacesOf(x)
    BY <1>5
  <1>7. \A f : f \in PlacesOf(m)' <=> f \in PlacesOf(m) \cup {d}
    BY <1>5
  <1>. QED  BY <1>6, <1>7

\* Whether another copy of copy i's message is there in the same folder.
Another(i) ==
    \E j \in DOMAIN copies \ {i} :
        Live(j) /\ MsgOf(j) = MsgOf(i) /\ copies[j].folder = copies[i].folder

\* Copy i disappears; the other copies there are stay as they are.
LEMMA OthersIn ==
    ASSUME NEW i \in DOMAIN copies, SameBut(i), ~copies'[i].here, Live(i),
           NEW m, m = MsgOf(i)
    PROVE  \A x, f :
              (\E j \in DOMAIN copies :
                  copies'[j].here /\ copies'[j].msg = x /\ copies'[j].folder = f)
              <=> f \in PlacesOf(x) /\ (x = m /\ f = copies[i].folder => Another(i))
  <1>1. \A j \in DOMAIN copies :
           /\ copies'[j].msg = MsgOf(j) /\ copies'[j].folder = copies[j].folder
           /\ copies'[j].here <=> Live(j) /\ j # i
    BY DEF SameBut, Live, MsgOf
  <1>2. ASSUME NEW x, NEW f, NEW j \in DOMAIN copies,
               copies'[j].here /\ copies'[j].msg = x /\ copies'[j].folder = f
        PROVE  f \in PlacesOf(x) /\ (x = m /\ f = copies[i].folder => Another(i))
    <2>1. Live(j) /\ j # i /\ MsgOf(j) = x /\ copies[j].folder = f
      BY <1>1, <1>2
    <2>. QED  BY <2>1, InPlaces DEF Another
  <1>3. ASSUME NEW x, NEW f, f \in PlacesOf(x),
               x = m /\ f = copies[i].folder => Another(i)
        PROVE  \E j \in DOMAIN copies :
                  copies'[j].here /\ copies'[j].msg = x /\ copies'[j].folder = f
    <2>1. PICK j \in DOMAIN copies : Live(j) /\ MsgOf(j) = x /\ copies[j].folder = f
      BY <1>3, InPlaces
    <2>2. CASE j # i
      BY <1>1, <2>1, <2>2
    <2>3. CASE j = i
      <3>1. PICK k \in DOMAIN copies \ {i} :
               Live(k) /\ MsgOf(k) = x /\ copies[k].folder = f
        BY <1>3, <2>1, <2>3 DEF Another
      <3>. QED  BY <1>1, <3>1
    <2>. QED  BY <2>2, <2>3
  <1>. QED  BY <1>2, <1>3

\* A copy is added in folder d and copy i disappears.
LEMMA MovedShifts ==
    ASSUME NEW i \in DOMAIN copies, NEW m, m = MsgOf(i), NEW d, Added(i, m, d),
           ~copies'[i].here, Live(i)
    PROVE  /\ \A x : x # m => PlacesOf(x)' = PlacesOf(x)
           /\ \/ PlacesOf(m)' = PlacesOf(m) \cup {d}
              \/ PlacesOf(m)' = (PlacesOf(m) \ {copies[i].folder}) \cup {d}
  <1>1. PICK n :
        /\ n \notin DOMAIN copies /\ DOMAIN copies' = DOMAIN copies \cup {n}
        /\ copies'[n].msg = m /\ copies'[n].folder = d /\ copies'[n].here
    BY DEF Added
  <1>2. \A x, f : f \in PlacesOf(x)' <=>
           \/ x = m /\ f = d
           \/ \E j \in DOMAIN copies :
                 copies'[j].here /\ copies'[j].msg = x /\ copies'[j].folder = f
    BY <1>1, InPlacesNext
  <1>3. \A x, f : f \in PlacesOf(x)' <=>
           \/ x = m /\ f = d
           \/ f \in PlacesOf(x) /\ (x = m /\ f = copies[i].folder => Another(i))
    <2>1. SameBut(i)
      BY DEF Added
    <2>. QED  BY <1>2, <2>1, OthersIn
  <1>4. ASSUME NEW x, x # m
        PROVE  PlacesOf(x)' = PlacesOf(x)
    <2>1. \A f : f \in PlacesOf(x)' <=> f \in PlacesOf(x)
      BY <1>3, <1>4
    <2>. QED  BY <2>1
  <1>5. CASE Another(i)
    <2>1. \A f : f \in PlacesOf(m)' <=> f \in PlacesOf(m) \cup {d}
      BY <1>3, <1>5
    <2>2. PlacesOf(m)' = PlacesOf(m) \cup {d}
      BY <2>1
    <2>. QED  BY <1>4, <2>2
  <1>6. CASE ~Another(i)
    <2>1. \A f : f \in PlacesOf(m)' <=> f \in (PlacesOf(m) \ {copies[i].folder}) \cup {d}
      BY <1>3, <1>6
    <2>2. PlacesOf(m)' = (PlacesOf(m) \ {copies[i].folder}) \cup {d}
      BY <2>1
    <2>. QED  BY <1>4, <2>2
  <1>. QED  BY <1>5, <1>6

\* Copy i disappears.
LEMMA PurgedTakes ==
    ASSUME NEW i \in DOMAIN copies, NEW m, m = MsgOf(i), Kept(i), ~copies'[i].here, Live(i)
    PROVE  /\ \A x : x # m => PlacesOf(x)' = PlacesOf(x)
           /\ Another(i) => PlacesOf(m)' = PlacesOf(m)
           /\ ~Another(i) => PlacesOf(m)' = PlacesOf(m) \ {copies[i].folder}
  <1>1. \A x, f : f \in PlacesOf(x)' <=>
           f \in PlacesOf(x) /\ (x = m /\ f = copies[i].folder => Another(i))
    <2>1. DOMAIN copies' = DOMAIN copies /\ SameBut(i)
      BY DEF Kept
    <2>2. \A x, f : f \in PlacesOf(x)' <=>
             \E j \in DOMAIN copies :
                copies'[j].here /\ copies'[j].msg = x /\ copies'[j].folder = f
      BY <2>1, InPlacesNext
    <2>. QED  BY <2>1, <2>2, OthersIn
  <1>2. ASSUME NEW x, x # m
        PROVE  PlacesOf(x)' = PlacesOf(x)
    <2>1. \A f : f \in PlacesOf(x)' <=> f \in PlacesOf(x)
      BY <1>1, <1>2
    <2>. QED  BY <2>1
  <1>3. CASE Another(i)
    <2>1. \A f : f \in PlacesOf(m)' <=> f \in PlacesOf(m)
      BY <1>1, <1>3
    <2>2. PlacesOf(m)' = PlacesOf(m)
      BY <2>1
    <2>. QED  BY <1>2, <1>3, <2>2
  <1>4. CASE ~Another(i)
    <2>1. \A f : f \in PlacesOf(m)' <=> f \in PlacesOf(m) \ {copies[i].folder}
      BY <1>1, <1>4
    <2>. QED  BY <1>2, <1>4, <2>1
  <1>. QED  BY <1>3, <1>4

Bar == [m \in Messages |-> PlacesOf(m)]

\* What changes the folders of one message changes one element of Bar.
LEMMA BarChanged ==
    ASSUME NEW m \in Messages, NEW X, PlacesOf(m)' = X,
           \A x : x # m => PlacesOf(x)' = PlacesOf(x)
    PROVE  Bar' = [Bar EXCEPT ![m] = X]
  BY DEF Bar

LEMMA BarStays ==
    ASSUME \A x : PlacesOf(x)' = PlacesOf(x)
    PROVE  Bar' = Bar
  BY DEF Bar

\* Every message deleted for good had arrived.
DoomedArrived == \A m \in doomed : \E i \in DOMAIN copies : MsgOf(i) = m

\* A command of a task puts a message into a folder or moves it, or takes it
\* from its last folder only when it is deleted for good.
LEMMA EffectStores ==
    ASSUME OpsInv, NEW t \in DOMAIN tasks, Command(t), copies' = Effect(t), UNCHANGED doomed
    PROVE  Store!StoreNext \/ Bar' = Bar
  <1>. PICK i, d : i = tasks[t].copy /\ d = tasks[t].dst
    OBVIOUS
  <1>1. /\ TypeOK /\ NewestLive
        /\ i \in DOMAIN copies /\ d \in Folders
        /\ tasks[t].at \in {"store", "mark", "move", "copy", "purge"}
        /\ tasks[t].at = "purge" => Dispensable(i)
    BY CommandCopy DEF OpsInv, OnlyDispensable
  <1>2. copies \in Seq(Copies) /\ copies[i] \in Copies
    BY <1>1 DEF TypeOK
  <1>3. MsgOf(i) \in Messages /\ copies[i].folder \in Folders
    BY <1>2 DEF Copies, MsgOf
  <1>. PICK m \in Messages, f \in Folders : m = MsgOf(i) /\ f = copies[i].folder
    BY <1>3
  <1>4. Live(i) => f \in PlacesOf(m)
    BY <1>1, InPlaces
  <1>5. Bar[m] = PlacesOf(m)
    BY DEF Bar
  <1>6. /\ tasks[t].at \in {"store", "mark"} => copies' = Flagged(i)
        /\ tasks[t].at = "move" => copies' = Moved(i, d)
        /\ tasks[t].at = "copy" => copies' = Copied(i, d)
        /\ tasks[t].at = "purge" => copies' = Purged(i)
    BY DEF Effect
  <1>7. CASE UNCHANGED copies
    BY <1>7 DEF Bar, PlacesOf, Live, MsgOf
  <1>8. CASE tasks[t].at \in {"store", "mark"}
    <2>1. Kept(0)
      BY <1>1, <1>6, <1>8, FlaggedKeeps
    <2>. QED  BY <1>1, <2>1, KeptStays, BarStays
  <1>9. CASE tasks[t].at = "move" /\ Live(i)
    <2>1. Added(i, m, d) /\ ~copies'[i].here
      BY <1>1, <1>6, <1>9, MovedAdds
    <2>2. /\ \A x : x # m => PlacesOf(x)' = PlacesOf(x)
          /\ \/ PlacesOf(m)' = PlacesOf(m) \cup {d}
             \/ PlacesOf(m)' = (PlacesOf(m) \ {f}) \cup {d}
      BY <1>1, <1>9, <2>1, MovedShifts
    <2>3. CASE PlacesOf(m)' = PlacesOf(m) \cup {d}
      <3>1. Bar' = [Bar EXCEPT ![m] = Bar[m] \cup {d}]
        BY <1>5, <2>2, <2>3, BarChanged
      <3>2. Store!Put(m, d)
        BY <1>4, <1>5, <1>9, <3>1 DEF Store!Put, Bar
      <3>. QED  BY <1>1, <3>2 DEF Store!StoreNext
    <2>4. CASE PlacesOf(m)' = (PlacesOf(m) \ {f}) \cup {d}
      <3>1. Bar' = [Bar EXCEPT ![m] = (Bar[m] \ {f}) \cup {d}]
        BY <1>5, <2>2, <2>4, BarChanged
      <3>2. Store!Shift(m, f, d)
        BY <1>4, <1>5, <1>9, <3>1 DEF Store!Shift, Bar
      <3>. QED  BY <1>1, <3>2 DEF Store!StoreNext
    <2>. QED  BY <2>2, <2>3, <2>4
  <1>10. CASE tasks[t].at = "copy" /\ Live(i)
    <2>1. Added(0, m, d)
      BY <1>1, <1>6, <1>10, CopiedAdds
    <2>2. /\ \A x : x # m => PlacesOf(x)' = PlacesOf(x)
          /\ PlacesOf(m)' = PlacesOf(m) \cup {d}
      BY <1>1, <2>1, AddedPuts
    <2>3. Bar' = [Bar EXCEPT ![m] = Bar[m] \cup {d}]
      BY <1>5, <2>2, BarChanged
    <2>4. Store!Put(m, d)
      BY <1>4, <1>5, <1>10, <2>3 DEF Store!Put, Bar
    <2>. QED  BY <1>1, <2>4 DEF Store!StoreNext
  <1>11. CASE tasks[t].at = "purge" /\ Live(i) /\ copies[i].deleted
    <2>1. Kept(i) /\ ~copies'[i].here
      <3>1. Kept(i)
        BY <1>1, <1>6, <1>11, PurgedKeeps
      <3>2. copies' = [copies EXCEPT ![i].here = FALSE]
        BY <1>6, <1>11 DEF Purged
      <3>. QED  BY <1>1, <1>2, <3>1, <3>2 DEF Copies
    <2>2. /\ \A x : x # m => PlacesOf(x)' = PlacesOf(x)
          /\ Another(i) => PlacesOf(m)' = PlacesOf(m)
          /\ ~Another(i) => PlacesOf(m)' = PlacesOf(m) \ {f}
      BY <1>1, <1>11, <2>1, PurgedTakes
    <2>3. CASE Another(i)
      BY <2>2, <2>3, BarStays
    <2>4. CASE ~Another(i)
      <3>1. Bar' = [Bar EXCEPT ![m] = Bar[m] \ {f}]
        BY <1>5, <2>2, <2>4, BarChanged
      <3>2. PlacesOf(m) # {f} \/ m \in doomed
        <4>. SUFFICES ASSUME m \notin doomed PROVE PlacesOf(m) # {f}
          OBVIOUS
        <4>1. ~IsNewest(i)
          BY <1>1, <1>11 DEF Dispensable
        <4>2. PICK j \in DOMAIN copies : MsgOf(j) = m /\ Live(j) /\ IsNewest(j)
          BY <1>1 DEF NewestLive
        <4>3. copies[j].folder # f /\ copies[j].folder \in PlacesOf(m)
          BY <2>4, <4>1, <4>2, InPlaces DEF Another
        <4>. QED  BY <4>3
      <3>3. Store!Take(m, f)
        BY <1>4, <1>5, <1>11, <3>1, <3>2 DEF Store!Take, Bar
      <3>. QED  BY <3>3 DEF Store!StoreNext
    <2>. QED  BY <2>3, <2>4
  <1>12. CASE tasks[t].at = "purge" /\ ~(Live(i) /\ copies[i].deleted)
    <2>1. CASE ~copies[i].deleted
      BY <1>6, <1>7, <1>12, <2>1 DEF Purged
    <2>2. CASE ~Live(i)
      <3>1. Kept(i)
        BY <1>1, <1>6, <1>12, PurgedKeeps
      <3>2. copies'[i].here = copies[i].here
        <4>1. copies'[i] \in Copies /\ ~copies'[i].here
          BY <1>1, <2>2, <3>1 DEF Kept, SameBut, Live
        <4>. QED  BY <1>2, <2>2, <4>1 DEF Copies, Live
      <3>3. Kept(0)
        BY <3>1, <3>2 DEF Kept, SameBut
      <3>. QED  BY <1>1, <3>3, KeptStays, BarStays
    <2>. QED  BY <1>12, <2>1, <2>2
  <1>13. tasks[t].at \in {"move", "copy"} /\ ~Live(i) => UNCHANGED copies
    BY <1>6 DEF Moved, Copied
  <1>. QED  BY <1>1, <1>7, <1>8, <1>9, <1>10, <1>11, <1>12, <1>13

\* The user changes no folder, and dooms at most one message there is.
LEMMA UserDooms ==
    ASSUME TypeOK, User
    PROVE  /\ UNCHANGED copies
           /\ \/ UNCHANGED doomed
              \/ \E i \in DOMAIN copies : doomed' = doomed \cup {MsgOf(i)}
  BY DEF User, MoveTo, Delete, Undo, Redo

\* Copies keep their messages.
LEMMA CopiesStay ==
    ASSUME TypeOK, [Next]_vars
    PROVE  \A j \in DOMAIN copies : j \in DOMAIN copies' /\ MsgOf(j)' = MsgOf(j)
  <1>1. CASE UNCHANGED copies
    BY <1>1 DEF MsgOf
  <1>2. CASE \E m \in Messages : Deliver(m)
    BY <1>2, DeliverAdds DEF Added, SameBut, MsgOf
  <1>3. CASE \E t \in DOMAIN tasks : Command(t) /\ copies' = Effect(t)
    BY <1>3, EffectGrows DEF SameBut, MsgOf
  <1>4. CASE User \/ Reset \/ Release \/ UNCHANGED vars
    BY <1>1, <1>4, UserDooms DEF Reset, Release, vars
  <1>5. ASSUME NEW t \in DOMAIN tasks, TaskStep(t)
        PROVE  UNCHANGED copies \/ (Command(t) /\ copies' = Effect(t))
    BY <1>5 DEF TaskStep, Lock, Ok, MoveRefused, Search, NotFound, Fail, Panic
  <1>. QED  BY <1>1, <1>2, <1>3, <1>4, <1>5 DEF Next

LEMMA DoomedStep == TypeOK /\ DoomedArrived /\ [Next]_vars => DoomedArrived'
  <1>. SUFFICES ASSUME TypeOK, DoomedArrived, [Next]_vars PROVE DoomedArrived'
    OBVIOUS
  <1>1. \/ UNCHANGED doomed
        \/ \E i \in DOMAIN copies : doomed' = doomed \cup {MsgOf(i)}
    <2>1. CASE User
      BY <2>1, UserDooms
    <2>2. CASE ~User
      BY <2>2 DEF Next, vars, Deliver, Reset, Release, TaskStep, Lock, Ok, MoveRefused,
                  Search, NotFound, Fail, Panic
    <2>. QED  BY <2>1, <2>2
  <1>. QED  BY <1>1, CopiesStay DEF DoomedArrived

\* Every step is one of MailStore's or leaves the folders alone.
LEMMA StoreStep ==
    OpsInv /\ DoomedArrived /\ [Next]_vars => [Store!StoreNext]_(Store!storeVars)
  <1>. SUFFICES ASSUME OpsInv, DoomedArrived, [Next]_vars
                PROVE  Store!StoreNext \/ (Bar' = Bar /\ UNCHANGED doomed)
    BY DEF Bar, Store!storeVars
  <1>1. TypeOK
    BY DEF OpsInv
  <1>2. UNCHANGED copies => Bar' = Bar
    BY DEF Bar, PlacesOf, Live, MsgOf
  <1>3. CASE \E m \in Messages : Deliver(m)
    <2>1. PICK m \in Messages : Deliver(m)
      BY <1>3
    <2>2. Added(0, m, Inbox) /\ UNCHANGED doomed
      BY <1>1, <2>1, DeliverAdds DEF Deliver
    <2>3. \A i \in DOMAIN copies : MsgOf(i) # m
      BY <2>1 DEF Deliver
    <2>4. PlacesOf(m) = {} /\ m \notin doomed
      BY <2>3 DEF PlacesOf, DoomedArrived
    <2>5. /\ \A x : x # m => PlacesOf(x)' = PlacesOf(x)
          /\ PlacesOf(m)' = {Inbox}
      BY <1>1, <2>2, <2>4, AddedPuts
    <2>6. Bar' = [Bar EXCEPT ![m] = {Inbox}]
      BY <2>5, BarChanged
    <2>7. Store!Arrive(m)
      BY <2>2, <2>4, <2>6 DEF Store!Arrive, Bar
    <2>. QED  BY <2>7 DEF Store!StoreNext
  <1>4. CASE User
    <2>1. Bar' = Bar
      BY <1>1, <1>2, <1>4, UserDooms
    <2>2. CASE UNCHANGED doomed
      BY <2>1, <2>2
    <2>3. CASE \E i \in DOMAIN copies : doomed' = doomed \cup {MsgOf(i)}
      <3>1. PICK i \in DOMAIN copies : doomed' = doomed \cup {MsgOf(i)}
        BY <2>3
      <3>2. copies[i] \in Copies
        BY <1>1 DEF TypeOK
      <3>3. MsgOf(i) \in Messages
        BY <3>2 DEF Copies, MsgOf
      <3>. PICK m \in Messages : m = MsgOf(i)
        BY <3>3
      <3>4. Store!Doom(m)
        BY <2>1, <3>1 DEF Store!Doom, Bar
      <3>. QED  BY <3>4 DEF Store!StoreNext
    <2>. QED  BY <1>1, <1>4, <2>2, <2>3, UserDooms
  <1>5. CASE Reset \/ Release \/ UNCHANGED vars
    BY <1>2, <1>5 DEF Reset, Release, vars
  <1>6. CASE \E t \in DOMAIN tasks : TaskStep(t)
    <2>1. PICK t \in DOMAIN tasks : TaskStep(t)
      BY <1>6
    <2>2. UNCHANGED doomed /\ (UNCHANGED copies \/ (Command(t) /\ copies' = Effect(t)))
      BY <2>1 DEF TaskStep, Lock, Ok, MoveRefused, Search, NotFound, Fail, Panic
    <2>. QED  BY <1>2, <2>2, EffectStores
  <1>. QED  BY <1>3, <1>4, <1>5, <1>6 DEF Next

\* The background mutations implement MailStore: whatever order tasks run in and
\* wherever they fail, a message leaves its last folder only when the user has
\* deleted it for good, and none appears in a folder from nowhere.
THEOREM OpsImplementStore == Spec => ImplementsStore
  <1>1. Init => OpsInv /\ DoomedArrived
    BY TypeInit DEF Init, OpsInv, NewestLive, OnlyDispensable, DoomedArrived
  <1>2. Init => Store!StoreInit
    <2>. SUFFICES ASSUME Init PROVE Store!StoreInit
      OBVIOUS
    <2>1. copies = <<>> /\ doomed = {}
      BY DEF Init
    <2>2. \A m : PlacesOf(m) = {}
      BY <2>1 DEF PlacesOf
    <2>. QED  BY <2>1, <2>2 DEF Store!StoreInit
  <1>3. OpsInv => TypeOK
    BY DEF OpsInv
  <1>. QED
    BY <1>1, <1>2, <1>3, OpsStep, DoomedStep, StoreStep, PTL
    DEF Spec, ImplementsStore, Store!StoreSpec

----------------------------------------------------------------------------
(* No message ends up twice.  On the one connection, one task runs at a    *)
(* time, and only one that has copied a message and is about to mark and   *)
(* expunge the original leaves two copies of it.                           *)

Clean == ~reported /\ ~panicked /\ conn = 0

Exclusive ==
    /\ \A t \in DOMAIN tasks : tasks[t].conn = 0
    /\ \A t, u \in DOMAIN tasks : Running(t) /\ Running(u) => t = u

\* Task t has copied its message and not yet removed the original.
Parting(t) == tasks[t].at \in {"mark", "purge"} /\ tasks[t].kind # "expunge"

\* A task's copy is of its message, and marked before the task expunges it.
StagedTask(t) ==
    /\ tasks[t].kind = "expunge" => tasks[t].at \in {"spawned", "purge", "done"}
    /\ Parting(t) /\ tasks[t].at = "purge" => copies[tasks[t].copy].deleted
    /\ tasks[t].copy # 0 =>
          tasks[t].copy \in DOMAIN copies /\ MsgOf(tasks[t].copy) = tasks[t].msg
Staged == \A t \in DOMAIN tasks : StagedTask(t)

Twin(i, j) == Live(i) /\ Live(j) /\ MsgOf(i) = MsgOf(j) /\ i # j
Twins ==
    \A i, j \in DOMAIN copies :
        Twin(i, j) => \E t \in DOMAIN tasks : Parting(t) /\ tasks[t].copy \in {i, j}

Orderly == Exclusive /\ Staged /\ Twins
OneInv == TypeOK /\ (Clean => Orderly)

\* The steps of a task after which nothing is reported and none has panicked.
LEMMA CleanTaskSteps ==
    ASSUME TypeOK, NEW t \in DOMAIN tasks, TaskStep(t), Clean'
    PROVE  Lock(t) \/ Ok(t) \/ MoveRefused(t) \/ Search(t)
  BY DEF TaskStep, NotFound, Fail, Panic, Clean

\* What was reported, has panicked or was replaced stays so.
LEMMA CleanBefore == TypeOK /\ [Next]_vars /\ Clean' => Clean
  <1>. SUFFICES ASSUME TypeOK, [Next]_vars, Clean' PROVE Clean
    OBVIOUS
  <1>1. CASE Release
    BY <1>1 DEF Release, Clean
  <1>2. CASE Reset
    BY <1>2 DEF Reset, Clean, TypeOK
  <1>3. CASE UNCHANGED <<reported, panicked, conn>>
    BY <1>3 DEF Clean
  <1>4. CASE User \/ UNCHANGED vars \/ \E m \in Messages : Deliver(m)
    BY <1>3, <1>4 DEF User, MoveTo, Delete, Undo, Redo, Deliver, vars
  <1>5. ASSUME NEW t \in DOMAIN tasks, TaskStep(t) PROVE Clean
    BY <1>3, <1>5, CleanTaskSteps DEF Lock, Ok, MoveRefused, Search
  <1>. QED  BY <1>1, <1>2, <1>4, <1>5 DEF Next

\* What the command of a task does to the copies, by its stage.
LEMMA EffectByStage ==
    ASSUME TypeOK, NEW t \in DOMAIN tasks, Command(t), copies' = Effect(t),
           NEW i, i = tasks[t].copy, NEW d, d = tasks[t].dst
    PROVE  /\ i \in DOMAIN copies /\ i # 0
           /\ tasks[t].at \in {"store", "mark", "move", "copy", "purge"}
           /\ tasks[t].at \in {"store", "mark"} => Kept(0) /\ copies'[i].deleted
           /\ tasks[t].at = "purge" => Kept(i) /\ (copies[i].deleted => ~copies'[i].here)
           /\ tasks[t].at = "move" =>
                  IF Live(i) THEN Added(i, MsgOf(i), d) /\ ~copies'[i].here
                             ELSE UNCHANGED copies
           /\ tasks[t].at = "copy" =>
                  IF Live(i) THEN Added(0, MsgOf(i), d) ELSE UNCHANGED copies
  <1>1. /\ i \in DOMAIN copies /\ d \in Folders
        /\ tasks[t].at \in {"store", "mark", "move", "copy", "purge"}
    BY CommandCopy
  <1>2. copies \in Seq(Copies) /\ copies[i] \in Copies
    BY <1>1 DEF TypeOK
  <1>3. i # 0
    BY <1>1, <1>2
  <1>4. /\ tasks[t].at \in {"store", "mark"} => copies' = Flagged(i)
        /\ tasks[t].at = "move" => copies' = Moved(i, d)
        /\ tasks[t].at = "copy" => copies' = Copied(i, d)
        /\ tasks[t].at = "purge" => copies' = Purged(i)
    BY DEF Effect
  <1>5. CASE tasks[t].at \in {"store", "mark"}
    <2>1. copies' = [copies EXCEPT ![i].deleted = TRUE]
      BY <1>4, <1>5 DEF Flagged
    <2>2. copies'[i].deleted
      BY <1>1, <1>2, <2>1 DEF Copies
    <2>. QED  BY <1>1, <1>3, <1>4, <1>5, <2>2, FlaggedKeeps
  <1>6. CASE tasks[t].at = "purge"
    <2>1. ASSUME copies[i].deleted PROVE ~copies'[i].here
      <3>1. copies' = [copies EXCEPT ![i].here = FALSE]
        BY <1>4, <1>6, <2>1 DEF Purged
      <3>. QED  BY <1>1, <1>2, <3>1 DEF Copies
    <2>. QED  BY <1>1, <1>3, <1>4, <1>6, <2>1, PurgedKeeps
  <1>7. CASE tasks[t].at = "move"
    BY <1>1, <1>3, <1>4, <1>7, MovedAdds
  <1>8. CASE tasks[t].at = "copy"
    BY <1>1, <1>3, <1>4, <1>8, CopiedAdds
  <1>. QED  BY <1>1, <1>5, <1>6, <1>7, <1>8

\* While no task is parting with an original, there are no twins.
LEMMA NoTwins ==
    ASSUME Orderly, NEW t \in DOMAIN tasks, Running(t), ~Parting(t),
           NEW i \in DOMAIN copies, NEW j \in DOMAIN copies
    PROVE  ~Twin(i, j)
  BY DEF Orderly, Exclusive, Twins, Parting, Running

\* Task t goes to a stage of its own: the others wait, or are done.
LEMMA AloneExclusive ==
    ASSUME Exclusive, NEW t \in DOMAIN tasks, Running(t),
           DOMAIN tasks' = DOMAIN tasks, tasks'[t].conn = tasks[t].conn,
           \A s \in DOMAIN tasks : s # t => tasks'[s] = tasks[s]
    PROVE  Exclusive'
  BY DEF Exclusive, Running

\* A step of task t disturbs no other task's stage, for none of them runs.
LEMMA OthersStaged ==
    ASSUME Orderly, TypeOK, NEW t \in DOMAIN tasks,
           DOMAIN tasks' = DOMAIN tasks,
           \A s \in DOMAIN tasks : s # t => tasks'[s] = tasks[s],
           UNCHANGED copies \/ Running(t),
           \A j \in DOMAIN copies : j \in DOMAIN copies' /\ MsgOf(j)' = MsgOf(j),
           StagedTask(t)'
    PROVE  Staged'
  <1>. SUFFICES ASSUME NEW s \in DOMAIN tasks, s # t PROVE StagedTask(s)'
    BY DEF Staged
  <1>1. StagedTask(s) /\ tasks'[s] = tasks[s]
    BY DEF Orderly, Staged
  <1>2. Parting(s) => UNCHANGED copies
    BY DEF Orderly, Exclusive, Parting, Running
  <1>. QED  BY <1>1, <1>2 DEF StagedTask, Parting

\* The task goes to another stage, as what it is.
Onward(t, stage) ==
    /\ DOMAIN tasks' = DOMAIN tasks
    /\ tasks'[t].at = stage
    /\ tasks'[t].kind = tasks[t].kind /\ tasks'[t].msg = tasks[t].msg
    /\ tasks'[t].src = tasks[t].src /\ tasks'[t].dst = tasks[t].dst
    /\ tasks'[t].conn = tasks[t].conn
    /\ \A s \in DOMAIN tasks : s # t => tasks'[s] = tasks[s]

LEMMA GotoOnward ==
    ASSUME TypeOK, NEW t \in DOMAIN tasks, NEW stage \in Stages, Goto(t, stage)
    PROVE  Onward(t, stage) /\ tasks'[t].copy = tasks[t].copy
  <1>1. tasks[t] \in TaskRecords
    BY DEF TypeOK
  <1>. DEFINE r == [tasks[t] EXCEPT !.at = stage]
  <1>2. /\ r.at = stage /\ r.kind = tasks[t].kind /\ r.msg = tasks[t].msg /\ r.src = tasks[t].src
        /\ r.dst = tasks[t].dst /\ r.conn = tasks[t].conn /\ r.copy = tasks[t].copy
    BY <1>1 DEF TaskRecords
  <1>3. /\ DOMAIN tasks' = DOMAIN tasks /\ tasks'[t] = r
        /\ \A s \in DOMAIN tasks : s # t => tasks'[s] = tasks[s]
    BY GotoMoves
  <1>. HIDE DEF r
  <1>. QED  BY <1>2, <1>3 DEF Onward

LEMMA FoundOnward ==
    ASSUME TypeOK, NEW t \in DOMAIN tasks, NEW i \in DOMAIN copies,
           tasks' = [tasks EXCEPT ![t].copy = i, ![t].at = "move"]
    PROVE  Onward(t, "move") /\ tasks'[t].copy = i
  <1>1. tasks[t] \in TaskRecords /\ tasks \in Seq(TaskRecords)
    BY DEF TypeOK
  <1>. DEFINE r == [[tasks[t] EXCEPT !.copy = i] EXCEPT !.at = "move"]
  <1>2. /\ r.at = "move" /\ r.kind = tasks[t].kind /\ r.msg = tasks[t].msg
        /\ r.src = tasks[t].src /\ r.dst = tasks[t].dst /\ r.conn = tasks[t].conn /\ r.copy = i
    BY <1>1 DEF TaskRecords
  <1>3. tasks'[t] = r
    BY <1>1
  <1>4. /\ DOMAIN tasks' = DOMAIN tasks
        /\ \A s \in DOMAIN tasks : s # t => tasks'[s] = tasks[s]
    BY FoundMoves
  <1>. HIDE DEF r
  <1>. QED  BY <1>2, <1>3, <1>4 DEF Onward

LEMMA LockOrderly ==
    ASSUME TypeOK, Orderly, NEW t \in DOMAIN tasks, Lock(t)
    PROVE  Orderly'
  <1>1. /\ tasks[t] \in TaskRecords /\ tasks[t].kind \in Kinds /\ UNCHANGED copies
        /\ tasks[t].at = "spawned"
    <2>1. tasks[t] \in TaskRecords
      BY DEF TypeOK
    <2>. QED  BY <2>1 DEF TaskRecords, Lock
  <1>2. Onward(t, First(tasks[t].kind)) /\ tasks'[t].copy = tasks[t].copy
    BY <1>1, FirstStage, GotoOnward DEF Lock
  <1>3. \A s \in DOMAIN tasks : ~Running(s)
    BY DEF Lock, Orderly, Exclusive
  <1>4. Exclusive'
    BY <1>2, <1>3 DEF Onward, Running, Orderly, Exclusive
  <1>5. StagedTask(t)'
    BY <1>1, <1>2, FirstStage DEF Onward, Orderly, Staged, StagedTask, Parting, MsgOf, First
  <1>6. Staged'
    BY <1>1, <1>2, <1>5, OthersStaged DEF Onward, MsgOf
  <1>7. Twins'
    BY <1>1, <1>2 DEF Onward, Orderly, Twins, Twin, Parting, Live, MsgOf
  <1>. QED  BY <1>4, <1>6, <1>7 DEF Orderly

LEMMA SearchOrderly ==
    ASSUME TypeOK, Orderly, NEW t \in DOMAIN tasks, Search(t)
    PROVE  Orderly'
  <1>1. PICK i \in DOMAIN copies :
           MsgOf(i) = tasks[t].msg /\ tasks' = [tasks EXCEPT ![t].copy = i, ![t].at = "move"]
    BY DEF Search
  <1>2. Onward(t, "move") /\ tasks'[t].copy = i /\ UNCHANGED copies /\ tasks[t].at = "search"
    BY <1>1, FoundOnward DEF Search
  <1>3. Running(t) /\ ~Parting(t)
    BY <1>2 DEF Running, Parting
  <1>4. Exclusive'
    BY <1>2, <1>3, AloneExclusive DEF Onward, Orderly
  <1>5. StagedTask(t)'
    BY <1>1, <1>2 DEF Onward, Orderly, Staged, StagedTask, Parting, MsgOf
  <1>6. Staged'
    BY <1>2, <1>5, OthersStaged DEF Onward, MsgOf
  <1>7. \A j, k \in DOMAIN copies : ~Twin(j, k)
    BY <1>3, NoTwins
  <1>8. Twins'
    BY <1>2, <1>7 DEF Twins, Twin, Live, MsgOf
  <1>. QED  BY <1>4, <1>6, <1>8 DEF Orderly

LEMMA RefusedOrderly ==
    ASSUME TypeOK, Orderly, NEW t \in DOMAIN tasks, MoveRefused(t)
    PROVE  Orderly'
  <1>1. Onward(t, "copy") /\ tasks'[t].copy = tasks[t].copy /\ UNCHANGED copies
        /\ tasks[t].at = "move"
    BY GotoOnward DEF MoveRefused, Stages
  <1>2. Running(t) /\ ~Parting(t)
    BY <1>1 DEF Running, Parting
  <1>3. Exclusive'
    BY <1>1, <1>2, AloneExclusive DEF Onward, Orderly
  <1>4. StagedTask(t)'
    BY <1>1 DEF Onward, Orderly, Staged, StagedTask, Parting, MsgOf
  <1>5. Staged'
    BY <1>1, <1>4, OthersStaged DEF Onward, MsgOf
  <1>6. \A j, k \in DOMAIN copies : ~Twin(j, k)
    BY <1>2, NoTwins
  <1>7. Twins'
    BY <1>1, <1>6 DEF Twins, Twin, Live, MsgOf
  <1>. QED  BY <1>3, <1>5, <1>7 DEF Orderly

\* A command that succeeds: COPY makes twins of which the task's copy is one,
\* and EXPUNGE takes it away.
LEMMA OkOrderly ==
    ASSUME TypeOK, Orderly, NEW t \in DOMAIN tasks, Ok(t)
    PROVE  Orderly'
  <1>. PICK i, d, m, stage :
          i = tasks[t].copy /\ d = tasks[t].dst /\ m = MsgOf(i) /\ stage = tasks[t].at
    OBVIOUS
  <1>1. /\ i \in DOMAIN copies /\ i # 0
        /\ stage \in {"store", "mark", "move", "copy", "purge"}
        /\ stage \in {"store", "mark"} => Kept(0) /\ copies'[i].deleted
        /\ stage = "purge" => Kept(i) /\ (copies[i].deleted => ~copies'[i].here)
        /\ stage = "move" =>
              IF Live(i) THEN Added(i, m, d) /\ ~copies'[i].here ELSE UNCHANGED copies
        /\ stage = "copy" => IF Live(i) THEN Added(0, m, d) ELSE UNCHANGED copies
    BY EffectByStage DEF Ok
  <1>2. Onward(t, AfterOk(stage)) /\ tasks'[t].copy = i
    BY <1>1, GotoOnward DEF Ok, AfterOk, Stages
  <1>3. Running(t) /\ Command(t)
    BY DEF Ok, Command
  <1>4. Exclusive'
    BY <1>2, <1>3, AloneExclusive DEF Onward, Orderly
  <1>5. \A j \in DOMAIN copies :
           /\ j \in DOMAIN copies' /\ MsgOf(j)' = MsgOf(j) /\ (Live(j)' => Live(j))
    BY EffectGrows, <1>3 DEF Ok, SameBut, MsgOf, Live
  <1>6. StagedTask(t)
    BY DEF Orderly, Staged
  <1>7. StagedTask(t)'
    <2>1. tasks[t].kind = "expunge" => stage = "purge"
      BY <1>1, <1>6 DEF StagedTask
    <2>2. AfterOk(stage) = "purge" => stage = "mark"
      BY <1>1 DEF AfterOk
    <2>3. stage = "purge" => AfterOk(stage) = "done"
      BY DEF AfterOk
    <2>4. tasks'[t].copy \in DOMAIN copies' /\ MsgOf(tasks[t].copy)' = tasks'[t].msg
      BY <1>1, <1>2, <1>5, <1>6 DEF Onward, StagedTask, MsgOf
    <2>5. tasks'[t].kind = "expunge" => tasks'[t].at = "done"
      BY <1>2, <2>1, <2>3 DEF Onward
    <2>6. tasks'[t].at = "purge" => copies'[tasks'[t].copy].deleted
      BY <1>1, <1>2, <2>2 DEF Onward
    <2>. QED  BY <2>4, <2>5, <2>6 DEF StagedTask, Parting
  <1>8. Staged'
    BY <1>2, <1>3, <1>5, <1>7, OthersStaged DEF Onward
  <1>9. Twins'
    <2>. SUFFICES ASSUME NEW j \in DOMAIN copies', NEW k \in DOMAIN copies', Twin(j, k)'
                  PROVE  \E s \in DOMAIN tasks' : Parting(s)' /\ tasks'[s].copy \in {j, k}
      BY DEF Twins
    <2>1. CASE stage \in {"mark", "store"}
      <3>1. j \in DOMAIN copies /\ k \in DOMAIN copies /\ Twin(j, k)
        BY <1>1, <1>5, <2>1 DEF Kept, Twin
      <3>2. stage = "mark" /\ Parting(t)
        BY <1>3, <2>1, <3>1, NoTwins DEF Parting
      <3>3. i \in {j, k}
        BY <1>3, <3>1, <3>2 DEF Orderly, Exclusive, Twins, Parting, Running
      <3>4. Parting(t)'
        BY <1>2, <3>2 DEF Onward, Parting, AfterOk
      <3>. QED  BY <1>2, <3>3, <3>4 DEF Onward
    <2>2. CASE stage = "purge"
      <3>1. j \in DOMAIN copies /\ k \in DOMAIN copies /\ Twin(j, k)
        BY <1>1, <1>5, <2>2 DEF Kept, Twin
      <3>2. Parting(t)
        BY <1>3, <3>1, NoTwins
      <3>3. i \in {j, k}
        BY <1>3, <3>1, <3>2 DEF Orderly, Exclusive, Twins, Parting, Running
      <3>4. ~copies'[i].here
        BY <1>1, <1>6, <2>2, <3>2 DEF StagedTask
      <3>. QED  BY <3>3, <3>4 DEF Twin, Live
    <2>3. CASE stage \in {"move", "copy"}
      <3>1. \A x, y \in DOMAIN copies : ~Twin(x, y)
        BY <1>3, <2>3, NoTwins DEF Parting
      <3>2. CASE UNCHANGED copies
        BY <3>1, <3>2 DEF Twin, Live, MsgOf
      <3>3. CASE stage = "move" /\ Added(i, m, d) /\ ~copies'[i].here /\ Live(i)
        <4>1. PICK n : n \notin DOMAIN copies /\ DOMAIN copies' = DOMAIN copies \cup {n}
                       /\ MsgOf(n)' = m
          BY <3>3 DEF Added, MsgOf
        <4>2. j = n \/ k = n
          BY <1>5, <3>1, <4>1 DEF Twin
        <4>3. PICK x \in DOMAIN copies : x \in {j, k} /\ MsgOf(x)' = m /\ Live(x)'
          BY <4>1, <4>2 DEF Twin
        <4>4. x # i /\ Live(x) /\ MsgOf(x) = MsgOf(i)
          BY <1>5, <3>3, <4>3 DEF Live
        <4>. QED  BY <1>1, <3>1, <3>3, <4>4 DEF Twin
      <3>4. CASE stage = "copy" /\ Added(0, m, d) /\ Live(i)
        <4>1. PICK n : n \notin DOMAIN copies /\ DOMAIN copies' = DOMAIN copies \cup {n}
                       /\ MsgOf(n)' = m
          BY <3>4 DEF Added, MsgOf
        <4>2. j = n \/ k = n
          BY <1>5, <3>1, <4>1 DEF Twin
        <4>3. PICK x \in DOMAIN copies : x \in {j, k} /\ MsgOf(x)' = m /\ Live(x)'
          BY <4>1, <4>2 DEF Twin
        <4>4. x = i
          BY <1>1, <1>5, <3>1, <3>4, <4>3 DEF Twin
        <4>5. Parting(t)'
          BY <1>2, <1>6, <3>4 DEF Onward, Parting, AfterOk, StagedTask
        <4>. QED  BY <1>2, <4>3, <4>4, <4>5 DEF Onward
      <3>. QED  BY <1>1, <2>3, <3>2, <3>3, <3>4
    <2>. QED  BY <1>1, <2>1, <2>2, <2>3
  <1>. QED  BY <1>4, <1>8, <1>9 DEF Orderly

\* A task just spawned is as StagedTask says, on the connection there is.
LEMMA TaskStaged ==
    ASSUME NEW kind, NEW m, NEW i, NEW src, NEW dst,
           NEW r, r = Task(kind, m, i, src, dst)
    PROVE  /\ r.at = "spawned" /\ r.conn = conn /\ r.kind = kind /\ r.msg = m
           /\ r.copy = i /\ r.src = src /\ r.dst = dst
  BY DEF Task

\* Tasks spawned by the user wait, on the connection there is, with a copy of
\* their message or none.
LEMMA UserWaits ==
    ASSUME TypeOK, User
    PROVE  \A t \in DOMAIN tasks' \ DOMAIN tasks :
              /\ tasks'[t].at = "spawned" /\ tasks'[t].conn = conn
              /\ tasks'[t].copy # 0 =>
                    tasks'[t].copy \in DOMAIN copies /\ MsgOf(tasks'[t].copy) = tasks'[t].msg
  <1>. PICK new : /\ tasks' = tasks \o new /\ new \in Seq(TaskRecords)
                  /\ \A j \in DOMAIN new :
                        /\ new[j].at = "spawned" /\ new[j].conn = conn
                        /\ new[j].copy # 0 =>
                              new[j].copy \in DOMAIN copies /\ MsgOf(new[j].copy) = new[j].msg
    <2>0. copies \in Seq(Copies)
      BY DEF TypeOK
    <2>1. \A i \in DOMAIN copies :
             i \in Nat /\ MsgOf(i) \in Messages /\ copies[i].folder \in Folders
      <3>. SUFFICES ASSUME NEW i \in DOMAIN copies
                    PROVE  i \in Nat /\ MsgOf(i) \in Messages /\ copies[i].folder \in Folders
        OBVIOUS
      <3>1. i \in Nat /\ copies[i] \in Copies
        BY <2>0
      <3>. QED  BY <3>1 DEF Copies, MsgOf
    <2>2. ASSUME NEW i \in DOMAIN copies, NEW d \in Folders, MoveTo(i, d)
          PROVE  \E r \in TaskRecords :
                    /\ tasks' = tasks \o <<r>> /\ r.at = "spawned" /\ r.conn = conn
                    /\ r.copy = i /\ r.msg = MsgOf(i)
      <3>. DEFINE r == Task("move", MsgOf(i), i, copies[i].folder, d)
      <3>1. r \in TaskRecords
        BY <2>1, TaskTyped DEF Kinds
      <3>2. r.at = "spawned" /\ r.conn = conn /\ r.copy = i /\ r.msg = MsgOf(i)
        BY TaskStaged
      <3>3. tasks' = tasks \o <<r>>
        BY <2>2 DEF MoveTo, Spawn
      <3>. HIDE DEF r
      <3>. QED  BY <3>1, <3>2, <3>3
    <2>3. ASSUME NEW e \in entries, Undo(e) \/ Redo(e)
          PROVE  \E r \in TaskRecords :
                    /\ tasks' = tasks \o <<r>> /\ r.at = "spawned" /\ r.conn = conn
                    /\ r.copy = 0
      <3>1. e.msg \in Messages /\ e.src \in Folders /\ e.dst \in Folders
        BY DEF TypeOK
      <3>2. PICK r : /\ r = Task("byId", e.msg, 0, e.dst, e.src)
                        \/ r = Task("byId", e.msg, 0, e.src, e.dst)
                     /\ tasks' = tasks \o <<r>>
        BY <2>3 DEF Undo, Redo, Spawn
      <3>3. r \in TaskRecords
        <4>1. \A x, y \in Folders : Task("byId", e.msg, 0, x, y) \in TaskRecords
          BY <3>1, TaskTyped DEF Kinds
        <4>. QED  BY <3>1, <3>2, <4>1, Zenon
      <3>4. r.at = "spawned" /\ r.conn = conn /\ r.copy = 0
        BY <3>2, TaskStaged
      <3>. QED  BY <3>2, <3>3, <3>4
    <2>4. ASSUME NEW i \in DOMAIN copies, Delete(i)
          PROVE  \E r, q \in TaskRecords :
                    /\ tasks' = tasks \o <<r, q>>
                    /\ r.at = "spawned" /\ r.conn = conn /\ r.copy = i /\ r.msg = MsgOf(i)
                    /\ q.at = "spawned" /\ q.conn = conn /\ q.copy = i /\ q.msg = MsgOf(i)
      <3>. DEFINE r == Task("flags", MsgOf(i), i, copies[i].folder, copies[i].folder)
                  q == Task("expunge", MsgOf(i), i, copies[i].folder, copies[i].folder)
      <3>1. r \in TaskRecords /\ q \in TaskRecords
        BY <2>1, TaskTyped DEF Kinds
      <3>2. /\ r.at = "spawned" /\ r.conn = conn /\ r.copy = i /\ r.msg = MsgOf(i)
            /\ q.at = "spawned" /\ q.conn = conn /\ q.copy = i /\ q.msg = MsgOf(i)
        BY TaskStaged
      <3>3. tasks' = tasks \o <<r, q>>
        BY <2>4 DEF Delete, Spawn
      <3>. HIDE DEF r, q
      <3>. QED  BY <3>1, <3>2, <3>3
    <2>5. CASE \E i \in DOMAIN copies, d \in Folders : MoveTo(i, d)
      <3>1. PICK i \in DOMAIN copies, r \in TaskRecords :
                /\ tasks' = tasks \o <<r>> /\ r.at = "spawned" /\ r.conn = conn
                /\ r.copy = i /\ r.msg = MsgOf(i)
        BY <2>2, <2>5
      <3>2. <<r>> \in Seq(TaskRecords) /\ \A j \in DOMAIN <<r>> : <<r>>[j] = r
        OBVIOUS
      <3>. QED  BY <3>1, <3>2
    <2>6. CASE \E e \in entries : Undo(e) \/ Redo(e)
      <3>1. PICK r \in TaskRecords :
                tasks' = tasks \o <<r>> /\ r.at = "spawned" /\ r.conn = conn /\ r.copy = 0
        BY <2>3, <2>6
      <3>2. <<r>> \in Seq(TaskRecords) /\ \A j \in DOMAIN <<r>> : <<r>>[j] = r
        OBVIOUS
      <3>. QED  BY <3>1, <3>2
    <2>7. CASE \E i \in DOMAIN copies : Delete(i)
      <3>1. PICK i \in DOMAIN copies, r \in TaskRecords, q \in TaskRecords :
                /\ tasks' = tasks \o <<r, q>>
                /\ r.at = "spawned" /\ r.conn = conn /\ r.copy = i /\ r.msg = MsgOf(i)
                /\ q.at = "spawned" /\ q.conn = conn /\ q.copy = i /\ q.msg = MsgOf(i)
        BY <2>4, <2>7
      <3>2. <<r, q>> \in Seq(TaskRecords) /\ \A j \in DOMAIN <<r, q>> : <<r, q>>[j] \in {r, q}
        OBVIOUS
      <3>. QED  BY <3>1, <3>2
    <2>. QED  BY <2>5, <2>6, <2>7 DEF User
  <1>. QED  BY Joined DEF TypeOK

LEMMA UserOrderly ==
    ASSUME TypeOK, Clean, Orderly, User
    PROVE  Orderly'
  <1>1. /\ UNCHANGED copies /\ DOMAIN tasks \subseteq DOMAIN tasks'
        /\ \A t \in DOMAIN tasks : tasks'[t] = tasks[t]
        /\ \A t \in DOMAIN tasks' \ DOMAIN tasks :
              /\ tasks'[t].at = "spawned" /\ tasks'[t].conn = 0
              /\ tasks'[t].copy # 0 =>
                    tasks'[t].copy \in DOMAIN copies /\ MsgOf(tasks'[t].copy) = tasks'[t].msg
    BY UserSpawns, UserWaits DEF Clean
  <1>2. Exclusive'
    BY <1>1 DEF Orderly, Exclusive, Running
  <1>3. ASSUME NEW t \in DOMAIN tasks' PROVE StagedTask(t)'
    <2>1. CASE t \in DOMAIN tasks
      <3>1. StagedTask(t) /\ tasks'[t] = tasks[t]
        BY <1>1, <2>1 DEF Orderly, Staged
      <3>. QED  BY <1>1, <3>1 DEF StagedTask, Parting, MsgOf
    <2>2. CASE t \notin DOMAIN tasks
      BY <1>1, <2>2 DEF StagedTask, Parting, MsgOf
    <2>. QED  BY <2>1, <2>2
  <1>4. Twins'
    BY <1>1 DEF Orderly, Twins, Twin, Parting, Live, MsgOf
  <1>. QED  BY <1>2, <1>3, <1>4 DEF Orderly, Staged

LEMMA DeliverOrderly ==
    ASSUME TypeOK, Orderly, NEW m \in Messages, Deliver(m)
    PROVE  Orderly'
  <1>1. PICK n : /\ n \notin DOMAIN copies /\ DOMAIN copies' = DOMAIN copies \cup {n}
                 /\ MsgOf(n)' = m
                 /\ \A j \in DOMAIN copies : copies'[j] = copies[j]
    <2>. DEFINE c == [msg |-> m, folder |-> Inbox, deleted |-> FALSE, here |-> TRUE]
    <2>1. copies \in Seq(Copies) /\ c \in Copies
      BY OpsAssumption DEF TypeOK, Copies
    <2>2. copies' = Append(copies, c)
      BY DEF Deliver
    <2>3. /\ DOMAIN copies' = DOMAIN copies \cup {Len(copies) + 1}
          /\ copies'[Len(copies) + 1] = c
          /\ \A i \in DOMAIN copies : copies'[i] = copies[i]
      BY <2>1, <2>2, Appended
    <2>4. Len(copies) + 1 \notin DOMAIN copies
      BY <2>1
    <2>. QED  BY <2>3, <2>4 DEF MsgOf
  <1>2. UNCHANGED tasks /\ \A j \in DOMAIN copies : MsgOf(j) # m
    BY DEF Deliver
  <1>3. Exclusive'
    BY <1>2 DEF Orderly, Exclusive, Running
  <1>4. Staged'
    <2>. SUFFICES ASSUME NEW t \in DOMAIN tasks PROVE StagedTask(t)'
      BY <1>2 DEF Staged
    <2>1. StagedTask(t)
      BY DEF Orderly, Staged
    <2>2. Parting(t) => tasks[t].copy \in DOMAIN copies
      BY DEF Parting, TypeOK
    <2>. QED  BY <1>1, <1>2, <2>1, <2>2 DEF StagedTask, Parting, MsgOf
  <1>5. \A i, j \in DOMAIN copies' : Twin(i, j)' => i \in DOMAIN copies /\ j \in DOMAIN copies
    BY <1>1, <1>2 DEF Twin, MsgOf
  <1>6. \A i, j \in DOMAIN copies : Twin(i, j)' => Twin(i, j)
    BY <1>1 DEF Twin, Live, MsgOf
  <1>7. Twins'
    BY <1>2, <1>5, <1>6 DEF Orderly, Twins, Parting
  <1>. QED  BY <1>3, <1>4, <1>7 DEF Orderly

LEMMA OneStep == OneInv /\ [Next]_vars => OneInv'
  <1>. SUFFICES ASSUME TypeOK, Clean => Orderly, [Next]_vars, Clean' PROVE Orderly'
    BY TypeStep DEF OneInv
  <1>1. Clean /\ Orderly
    BY CleanBefore
  <1>2. CASE User
    BY <1>1, <1>2, UserOrderly
  <1>3. CASE \E m \in Messages : Deliver(m)
    BY <1>1, <1>3, DeliverOrderly
  <1>4. CASE \E t \in DOMAIN tasks : TaskStep(t)
    BY <1>1, <1>4, CleanTaskSteps, LockOrderly, OkOrderly, RefusedOrderly, SearchOrderly
  <1>5. CASE Reset \/ Release \/ UNCHANGED vars
    <2>1. UNCHANGED <<copies, tasks>>
      BY <1>5 DEF Reset, Release, vars
    <2>2. Exclusive'
      BY <1>1, <2>1 DEF Orderly, Exclusive, Running
    <2>3. Staged' /\ Twins'
      BY <1>1, <2>1 DEF Orderly, Staged, StagedTask, Twins, Twin, Parting, Live, MsgOf
    <2>. QED  BY <2>2, <2>3 DEF Orderly
  <1>. QED  BY <1>2, <1>3, <1>4, <1>5 DEF Next

LEMMA OneInit == Init => OneInv
  BY TypeInit DEF Init, OneInv, Orderly, Exclusive, Staged, Twins

\* However the steps of moves, deletes and undos interleave, on the one
\* connection and without an error no message ends up twice.
THEOREM OpsOneCopy == Spec => []OneCopy
  <1>1. OneInv => OneCopy
    BY DEF OneInv, Orderly, Twins, Twin, OneCopy, Untroubled, Quiet, Underway, Parting, Clean
  <1>. QED  BY <1>1, OneInit, OneStep, PTL DEF Spec

----------------------------------------------------------------------------
(* A calm user's messages are on their way.  Without an error, at most two *)
(* tasks of a message are under way, a move or an undo and the undo of     *)
(* that one, and wherever the first one is the second cannot run before it *)
(* without reporting that it did not find the message.                     *)

Delivered(m) == \E i \in DOMAIN copies : MsgOf(i) = m

\* Nothing is done to a message before it has arrived.
Begun ==
    /\ \A m \in Messages : ~Delivered(m) => want[m] = Inbox
    /\ \A t \in DOMAIN tasks : Delivered(tasks[t].msg)
    /\ \A e \in entries : Delivered(e.msg) /\ e.src # e.dst

\* The message of task t is where the task takes it from and nowhere else, or
\* has been copied to where the task takes it.
Leads(t) ==
    /\ tasks[t].kind \in {"move", "byId"} /\ tasks[t].src # tasks[t].dst
    /\ \/ /\ tasks[t].at \in {"spawned", "search", "move", "copy"}
          /\ PlacesOf(tasks[t].msg) = {tasks[t].src}
          /\ tasks[t].kind = "move" \/ tasks[t].at \in {"move", "copy"} => Live(tasks[t].copy)
       \/ /\ tasks[t].at \in {"mark", "purge"}
          /\ tasks[t].dst \in PlacesOf(tasks[t].msg)
          /\ copies[tasks[t].copy].folder # tasks[t].dst

\* Task u takes the message on from where task t takes it.
Follows(u, t) ==
    /\ tasks[u].kind = "byId" /\ tasks[u].at \in {"spawned", "search"}
    /\ tasks[u].src = tasks[t].dst /\ tasks[u].src # tasks[u].dst

Rests(m) == Pending(m) = {} /\ PlacesOf(m) = {want[m]}
LastMove(m, t) == Pending(m) = {t} /\ Leads(t) /\ tasks[t].dst = want[m]
MoveAndUndo(m, t, u) ==
    t # u /\ Pending(m) = {t, u} /\ Leads(t) /\ Follows(u, t) /\ tasks[u].dst = want[m]

Course(m) ==
    \/ Rests(m)
    \/ \E t \in DOMAIN tasks : LastMove(m, t)
    \/ \E t, u \in DOMAIN tasks : MoveAndUndo(m, t, u)

Courses == \A m \in Messages : Delivered(m) /\ want[m] # Gone => Course(m)
CalmOps == calm /\ Clean => Begun /\ Courses

LEMMA IndexNotZero == TypeOK => 0 \notin DOMAIN copies
  <1>. SUFFICES ASSUME TypeOK PROVE 0 \notin DOMAIN copies
    OBVIOUS
  <1>1. copies \in Seq(Copies)
    BY DEF TypeOK
  <1>. QED  BY <1>1

\* A message no task is parting with is in one folder.
LEMMA OnePlace ==
    ASSUME TypeOK, Orderly, NEW m, NEW f \in PlacesOf(m),
           \A t \in DOMAIN tasks : Parting(t) => tasks[t].msg # m
    PROVE  PlacesOf(m) = {f}
  <1>1. PICK i \in DOMAIN copies : Live(i) /\ MsgOf(i) = m /\ copies[i].folder = f
    BY InPlaces
  <1>2. ASSUME NEW g \in PlacesOf(m) PROVE g = f
    <2>1. PICK j \in DOMAIN copies : Live(j) /\ MsgOf(j) = m /\ copies[j].folder = g
      BY InPlaces
    <2>2. ~Twin(i, j)
      BY <1>1, <2>1, IndexNotZero DEF Orderly, Twins, Staged, StagedTask
    <2>. QED  BY <1>1, <2>1, <2>2 DEF Twin
  <1>. QED  BY <1>2

LEMMA OnePlaceNext ==
    ASSUME TypeOK', Orderly', NEW m, NEW f \in PlacesOf(m)',
           \A t \in DOMAIN tasks' : Parting(t)' => tasks'[t].msg # m
    PROVE  PlacesOf(m)' = {f}
  <1>1. PICK i \in DOMAIN copies' : Live(i)' /\ MsgOf(i)' = m /\ copies'[i].folder = f
    BY InPlacesNext DEF Live, MsgOf
  <1>2. ASSUME NEW g \in PlacesOf(m)' PROVE g = f
    <2>1. PICK j \in DOMAIN copies' : Live(j)' /\ MsgOf(j)' = m /\ copies'[j].folder = g
      BY InPlacesNext DEF Live, MsgOf
    <2>2. 0 \notin DOMAIN copies'
      <3>1. copies' \in Seq(Copies)
        BY DEF TypeOK
      <3>. QED  BY <3>1
    <2>3. ~Twin(i, j)'
      BY <1>1, <2>1, <2>2 DEF Orderly, Twins, Staged, StagedTask
    <2>. QED  BY <1>1, <2>1, <2>3 DEF Twin
  <1>. QED  BY <1>2

----------------------------------------------------------------------------
(* The tasks of a message, before and after.                               *)

\* Nothing of message x has changed.
SameFor(x) ==
    /\ want'[x] = want[x] /\ Pending(x)' = Pending(x)
    /\ \A s \in Pending(x) : tasks'[s] = tasks[s]
    /\ PlacesOf(x)' = PlacesOf(x)
    /\ \A j \in DOMAIN copies :
          MsgOf(j) = x =>
              copies'[j].here = copies[j].here /\ copies'[j].folder = copies[j].folder

LEMMA LeadsStays ==
    ASSUME TypeOK, Staged, NEW x, SameFor(x), NEW t \in Pending(x), Leads(t)
    PROVE  Leads(t)'
  <1>1. t \in DOMAIN tasks /\ tasks[t].msg = x /\ tasks'[t] = tasks[t]
    BY DEF Pending, SameFor
  <1>2. tasks[t].kind = "move" \/ tasks[t].at \in {"move", "copy", "mark", "purge"} =>
           tasks[t].copy \in DOMAIN copies /\ MsgOf(tasks[t].copy) = x
    BY <1>1, IndexNotZero DEF TypeOK, Staged, StagedTask
  <1>3. tasks[t].kind = "move" \/ tasks[t].at \in {"move", "copy", "mark", "purge"} =>
           /\ Live(tasks[t].copy)' = Live(tasks[t].copy)
           /\ copies'[tasks[t].copy].folder = copies[tasks[t].copy].folder
    BY <1>1, <1>2 DEF SameFor, Live
  <1>. QED  BY <1>1, <1>3 DEF Leads, SameFor, Live

LEMMA CourseStays ==
    ASSUME TypeOK, Staged, NEW x, SameFor(x), Course(x)
    PROVE  Course(x)'
  <1>1. CASE Rests(x)
    BY <1>1 DEF Rests, Course, SameFor
  <1>2. ASSUME NEW t \in DOMAIN tasks, LastMove(x, t) PROVE Course(x)'
    <2>1. t \in Pending(x) /\ tasks'[t] = tasks[t] /\ t \in Pending(x)'
      BY <1>2 DEF LastMove, SameFor
    <2>2. Leads(t)'
      BY <1>2, <2>1, LeadsStays DEF LastMove
    <2>3. LastMove(x, t)' /\ t \in DOMAIN tasks'
      BY <1>2, <2>1, <2>2 DEF LastMove, SameFor, Pending
    <2>. QED  BY <2>3 DEF Course
  <1>3. ASSUME NEW t \in DOMAIN tasks, NEW u \in DOMAIN tasks, MoveAndUndo(x, t, u)
        PROVE  Course(x)'
    <2>1. /\ t \in Pending(x) /\ tasks'[t] = tasks[t] /\ t \in Pending(x)'
          /\ u \in Pending(x) /\ tasks'[u] = tasks[u] /\ u \in Pending(x)'
      BY <1>3 DEF MoveAndUndo, SameFor
    <2>2. Leads(t)'
      BY <1>3, <2>1, LeadsStays DEF MoveAndUndo
    <2>3. MoveAndUndo(x, t, u)' /\ t \in DOMAIN tasks' /\ u \in DOMAIN tasks'
      BY <1>3, <2>1, <2>2 DEF MoveAndUndo, SameFor, Pending, Follows
    <2>. QED  BY <2>3 DEF Course
  <1>. QED  BY <1>1, <1>2, <1>3 DEF Course

\* One task is spawned.
Spawned(n, r) ==
    /\ n \notin DOMAIN tasks /\ DOMAIN tasks' = DOMAIN tasks \cup {n}
    /\ tasks'[n] = r
    /\ \A s \in DOMAIN tasks : tasks'[s] = tasks[s]

LEMMA SpawnedOne ==
    ASSUME TypeOK, NEW r, Spawn(<<r>>)
    PROVE  \E n : Spawned(n, r)
  <1>1. tasks \in Seq(TaskRecords) /\ tasks' = tasks \o <<r>>
    BY DEF TypeOK, Spawn
  <1>2. /\ Len(tasks) \in Nat /\ DOMAIN tasks = 1..Len(tasks)
        /\ DOMAIN tasks' = 1..(Len(tasks) + 1)
        /\ tasks'[Len(tasks) + 1] = r
        /\ \A s \in 1..Len(tasks) : tasks'[s] = tasks[s]
    BY <1>1
  <1>3. Spawned(Len(tasks) + 1, r)
    BY <1>2 DEF Spawned
  <1>. QED  BY <1>3

\* The task spawned is one more of its message, and none of another one.
LEMMA SpawnedPending ==
    ASSUME NEW n, NEW r, Spawned(n, r), r.at = "spawned"
    PROVE  /\ Pending(r.msg)' = Pending(r.msg) \cup {n} /\ n \notin Pending(r.msg)
           /\ \A x : x # r.msg => Pending(x)' = Pending(x)
  BY DEF Spawned, Pending, Underway

\* What the user does to one message leaves the others' alone.
LEMMA SpawnedSame ==
    ASSUME NEW n, NEW r, Spawned(n, r), r.at = "spawned", UNCHANGED copies,
           NEW x, x # r.msg, want'[x] = want[x]
    PROVE  SameFor(x)
  <1>1. Pending(x)' = Pending(x)
    BY SpawnedPending
  <1>. QED  BY <1>1 DEF SameFor, Spawned, Pending, PlacesOf, Live, MsgOf

\* A task goes to another stage: it is under way until the last one.
LEMMA OnwardPending ==
    ASSUME NEW t \in DOMAIN tasks, Underway(t), NEW stage, Onward(t, stage),
           NEW m, m = tasks[t].msg
    PROVE  /\ stage # "done" => \A x : Pending(x)' = Pending(x)
           /\ stage = "done" => Pending(m)' = Pending(m) \ {t}
           /\ \A x : x # m => Pending(x)' = Pending(x)
  BY DEF Onward, Pending, Underway

----------------------------------------------------------------------------
(* The steps of a task of the message.                                     *)

\* The first task goes on, or ends with the message where it takes it.
LEMMA LeaderStep ==
    ASSUME TypeOK, Orderly, TypeOK', Orderly', NEW t \in DOMAIN tasks, Leads(t),
           Lock(t) \/ Ok(t) \/ MoveRefused(t) \/ Search(t),
           NEW m, m = tasks[t].msg
    PROVE  \E stage :
              /\ Onward(t, stage)
              /\ \/ stage # "done" /\ Leads(t)'
                 \/ stage = "done" /\ PlacesOf(m)' = {tasks[t].dst}
  <1>. PICK i, d, src :
          i = tasks[t].copy /\ d = tasks[t].dst /\ src = tasks[t].src
    OBVIOUS
  <1>0. /\ tasks[t].kind \in {"move", "byId"} /\ src # d
        /\ tasks[t].at \in {"spawned", "search", "move", "copy"} => PlacesOf(m) = {src}
        /\ (tasks[t].kind = "move" /\ tasks[t].at = "spawned") \/ tasks[t].at \in {"move", "copy"}
              => Live(i)
        /\ tasks[t].at \in {"mark", "purge"} => d \in PlacesOf(m) /\ copies[i].folder # d
        /\ tasks[t].at \in {"spawned", "search", "move", "copy", "mark", "purge"}
    BY DEF Leads
  <1>1. UNCHANGED copies => PlacesOf(m)' = PlacesOf(m)
    BY DEF PlacesOf, Live, MsgOf
  <1>2. CASE Lock(t)
    <2>1. /\ First(tasks[t].kind) \in {"move", "search"}
          /\ First(tasks[t].kind) = "move" => tasks[t].kind = "move"
      BY <1>0 DEF First
    <2>2. Onward(t, First(tasks[t].kind)) /\ tasks'[t].copy = i /\ UNCHANGED copies
          /\ tasks[t].at = "spawned"
      BY <1>2, <2>1, GotoOnward DEF Lock, Stages
    <2>3. Leads(t)'
      BY <1>0, <1>1, <2>1, <2>2 DEF Onward, Leads, Live
    <2>. QED  BY <2>1, <2>2, <2>3
  <1>3. CASE Search(t)
    <2>1. PICK k \in DOMAIN copies :
             Live(k) /\ tasks' = [tasks EXCEPT ![t].copy = k, ![t].at = "move"]
      BY <1>3 DEF Search
    <2>2. Onward(t, "move") /\ tasks'[t].copy = k /\ UNCHANGED copies /\ tasks[t].at = "search"
      BY <1>3, <2>1, FoundOnward DEF Search
    <2>3. Leads(t)'
      BY <1>0, <1>1, <2>1, <2>2 DEF Onward, Leads, Live
    <2>. QED  BY <2>2, <2>3
  <1>4. CASE MoveRefused(t)
    <2>1. Onward(t, "copy") /\ tasks'[t].copy = i /\ UNCHANGED copies /\ tasks[t].at = "move"
      BY <1>4, GotoOnward DEF MoveRefused, Stages
    <2>2. Leads(t)'
      BY <1>0, <1>1, <2>1 DEF Onward, Leads, Live
    <2>. QED  BY <2>1, <2>2
  <1>5. CASE Ok(t)
    <2>. PICK stage : stage = tasks[t].at
      OBVIOUS
    <2>1. /\ i \in DOMAIN copies /\ i # 0
          /\ stage \in {"store", "mark", "move", "copy", "purge"}
          /\ stage \in {"store", "mark"} => Kept(0) /\ copies'[i].deleted
          /\ stage = "purge" => Kept(i) /\ (copies[i].deleted => ~copies'[i].here)
          /\ stage = "move" =>
                IF Live(i) THEN Added(i, MsgOf(i), d) /\ ~copies'[i].here ELSE UNCHANGED copies
          /\ stage = "copy" => IF Live(i) THEN Added(0, MsgOf(i), d) ELSE UNCHANGED copies
      BY <1>5, EffectByStage DEF Ok
    <2>2. MsgOf(i) = m
      BY <2>1 DEF Orderly, Staged, StagedTask
    <2>3. Onward(t, AfterOk(stage)) /\ tasks'[t].copy = i
      BY <1>5, <2>1, GotoOnward DEF Ok, AfterOk, Stages
    <2>4. AfterOk(stage) = "done" => \A s \in DOMAIN tasks' : ~Parting(s)'
      <3>1. Running(t)
        BY <1>5 DEF Ok, Command
      <3>. QED  BY <2>3, <3>1 DEF Onward, Parting, Running, Orderly, Exclusive
    <2>5. CASE stage = "mark"
      <3>1. PlacesOf(m)' = PlacesOf(m) /\ copies'[i].folder = copies[i].folder
        BY <2>1, <2>5, KeptStays DEF Kept, SameBut
      <3>2. AfterOk(stage) = "purge"
        BY <2>5 DEF AfterOk
      <3>3. Leads(t)'
        BY <1>0, <2>3, <2>5, <3>1, <3>2 DEF Onward, Leads
      <3>. QED  BY <2>3, <3>2, <3>3
    <2>6. CASE stage = "move"
      <3>1. Added(i, m, d)
        BY <1>0, <2>1, <2>2, <2>6
      <3>2. d \in PlacesOf(m)'
        BY <3>1, InPlacesNext DEF Added
      <3>3. AfterOk(stage) = "done"
        BY <2>6 DEF AfterOk
      <3>4. PlacesOf(m)' = {d}
        BY <2>4, <3>2, <3>3, OnePlaceNext
      <3>. QED  BY <2>3, <3>3, <3>4
    <2>7. CASE stage = "copy"
      <3>1. Live(i) /\ Added(0, m, d) /\ PlacesOf(m) = {src}
        BY <1>0, <2>1, <2>2, <2>7
      <3>2. d \in PlacesOf(m)'
        BY <3>1, InPlacesNext DEF Added
      <3>3. copies[i].folder = src
        BY <2>1, <2>2, <3>1, InPlaces
      <3>4. copies'[i].folder # d
        BY <1>0, <2>1, <3>1, <3>3 DEF Added, SameBut
      <3>5. AfterOk(stage) = "mark"
        BY <2>7 DEF AfterOk
      <3>6. Leads(t)'
        BY <1>0, <2>3, <3>2, <3>4, <3>5 DEF Onward, Leads
      <3>. QED  BY <2>3, <3>5, <3>6
    <2>8. CASE stage = "purge"
      <3>1. d \in PlacesOf(m) /\ copies[i].folder # d
        BY <1>0, <2>8
      <3>2. PICK j \in DOMAIN copies : Live(j) /\ MsgOf(j) = m /\ copies[j].folder = d
        BY <3>1, InPlaces
      <3>3. d \in PlacesOf(m)'
        BY <2>1, <2>8, <3>1, <3>2, InPlacesNext DEF Kept, SameBut, Live, MsgOf
      <3>4. AfterOk(stage) = "done"
        BY <2>8 DEF AfterOk
      <3>5. PlacesOf(m)' = {d}
        BY <2>4, <3>3, <3>4, OnePlaceNext
      <3>. QED  BY <2>3, <3>4, <3>5
    <2>. QED  BY <1>0, <2>1, <2>5, <2>6, <2>7, <2>8
  <1>. QED  BY <1>2, <1>3, <1>4, <1>5

\* The undo after it may lock the connection first, and then finds nothing.
LEMMA FollowerStep ==
    ASSUME TypeOK, Orderly, NEW t \in DOMAIN tasks, NEW u \in DOMAIN tasks, t # u,
           Underway(t), Leads(t), Follows(u, t), tasks[u].msg = tasks[t].msg,
           Lock(u) \/ Ok(u) \/ MoveRefused(u) \/ Search(u)
    PROVE  /\ Onward(u, "search") /\ UNCHANGED copies
           /\ Leads(t)' /\ Follows(u, t)'
  <1>1. Lock(u) \/ Search(u)
    BY DEF Follows, Ok, Command, Running, MoveRefused
  <1>2. CASE Search(u)
    <2>1. PICK i \in DOMAIN copies :
             Live(i) /\ MsgOf(i) = tasks[u].msg /\ copies[i].folder = tasks[u].src
      BY <1>2 DEF Search
    <2>2. Running(u)
      BY <1>2 DEF Search, Running
    <2>3. tasks[t].at = "spawned"
      BY <2>2 DEF Orderly, Exclusive, Running, Underway
    <2>4. tasks[t].dst \in PlacesOf(tasks[t].msg)
      BY <2>1, InPlaces DEF Follows
    <2>. QED  BY <2>3, <2>4 DEF Leads
  <1>3. CASE Lock(u)
    <2>1. Onward(u, "search") /\ UNCHANGED copies /\ tasks[u].at = "spawned"
      BY <1>3, GotoOnward DEF Lock, First, Follows, Stages
    <2>2. tasks'[t] = tasks[t]
      BY <2>1 DEF Onward
    <2>3. Leads(t)'
      BY <2>1, <2>2 DEF Leads, PlacesOf, Live, MsgOf
    <2>4. Follows(u, t)'
      BY <2>1, <2>2 DEF Follows, Onward
    <2>. QED  BY <2>1, <2>3, <2>4
  <1>. QED  BY <1>1, <1>2, <1>3

LEMMA TaskCourse ==
    ASSUME TypeOK, Orderly, TypeOK', Orderly', NEW t \in DOMAIN tasks, Underway(t),
           Lock(t) \/ Ok(t) \/ MoveRefused(t) \/ Search(t),
           NEW m, m = tasks[t].msg, Course(m), UNCHANGED want
    PROVE  Course(m)'
  <1>1. t \in Pending(m)
    BY DEF Pending
  <1>2. ASSUME LastMove(m, t) PROVE Course(m)'
    <2>1. PICK stage :
              /\ Onward(t, stage)
              /\ \/ stage # "done" /\ Leads(t)'
                 \/ stage = "done" /\ PlacesOf(m)' = {tasks[t].dst}
      BY <1>2, LeaderStep DEF LastMove
    <2>2. CASE stage # "done"
      <3>1. Pending(m)' = Pending(m)
        BY <2>1, <2>2, OnwardPending
      <3>2. LastMove(m, t)' /\ t \in DOMAIN tasks'
        BY <1>2, <2>1, <2>2, <3>1 DEF LastMove, Onward
      <3>. QED  BY <3>2 DEF Course
    <2>3. CASE stage = "done"
      <3>1. Pending(m)' = Pending(m) \ {t}
        BY <2>1, <2>3, OnwardPending
      <3>2. Rests(m)'
        BY <1>2, <2>1, <2>3, <3>1 DEF LastMove, Rests
      <3>. QED  BY <3>2 DEF Course
    <2>. QED  BY <2>2, <2>3
  <1>3. ASSUME NEW u \in DOMAIN tasks, MoveAndUndo(m, t, u) PROVE Course(m)'
    <2>1. PICK stage :
              /\ Onward(t, stage)
              /\ \/ stage # "done" /\ Leads(t)'
                 \/ stage = "done" /\ PlacesOf(m)' = {tasks[t].dst}
      BY <1>3, LeaderStep DEF MoveAndUndo
    <2>2. tasks'[u] = tasks[u] /\ tasks'[t].dst = tasks[t].dst /\ DOMAIN tasks' = DOMAIN tasks
          /\ tasks[u].msg = m
      BY <1>3, <2>1 DEF MoveAndUndo, Onward, Pending
    <2>3. CASE stage # "done"
      <3>1. Pending(m)' = Pending(m)
        BY <2>1, <2>3, OnwardPending
      <3>2. MoveAndUndo(m, t, u)'
        BY <1>3, <2>1, <2>2, <2>3, <3>1 DEF MoveAndUndo, Follows
      <3>. QED  BY <2>2, <3>2 DEF Course
    <2>4. CASE stage = "done"
      <3>1. Pending(m)' = {u}
        BY <1>3, <2>1, <2>4, OnwardPending DEF MoveAndUndo
      <3>2. Leads(u)'
        BY <1>3, <2>1, <2>2, <2>4 DEF MoveAndUndo, Follows, Leads
      <3>3. LastMove(m, u)'
        BY <1>3, <2>2, <3>1, <3>2 DEF MoveAndUndo, LastMove
      <3>. QED  BY <2>2, <3>3 DEF Course
    <2>. QED  BY <2>3, <2>4
  <1>4. ASSUME NEW s \in DOMAIN tasks, MoveAndUndo(m, s, t) PROVE Course(m)'
    <2>0. /\ s # t /\ Underway(s) /\ Leads(s) /\ Follows(t, s) /\ tasks[s].msg = m
          /\ Pending(m) = {s, t} /\ tasks[t].dst = want[m]
      BY <1>4 DEF MoveAndUndo, Pending
    <2>1. Onward(t, "search") /\ Leads(s)' /\ Follows(t, s)'
      BY <2>0, FollowerStep
    <2>2. Pending(m)' = Pending(m)
      BY <2>1, OnwardPending
    <2>3. MoveAndUndo(m, s, t)' /\ s \in DOMAIN tasks' /\ t \in DOMAIN tasks'
      BY <2>0, <2>1, <2>2 DEF MoveAndUndo, Onward
    <2>. QED  BY <2>3 DEF Course
  <1>5. ~Rests(m)
    BY <1>1 DEF Rests
  <1>6. \A s \in DOMAIN tasks : LastMove(m, s) => s = t
    BY <1>1 DEF LastMove
  <1>7. \A s, u \in DOMAIN tasks : MoveAndUndo(m, s, u) => s = t \/ u = t
    BY <1>1 DEF MoveAndUndo
  <1>. QED  BY <1>2, <1>3, <1>4, <1>5, <1>6, <1>7 DEF Course

\* A task leaves the other messages alone.
LEMMA TaskSame ==
    ASSUME TypeOK, Orderly, NEW t \in DOMAIN tasks, Underway(t),
           Lock(t) \/ Ok(t) \/ MoveRefused(t) \/ Search(t),
           NEW x, x # tasks[t].msg, UNCHANGED want
    PROVE  SameFor(x)
  <1>1. PICK stage : Onward(t, stage)
    <2>1. tasks[t] \in TaskRecords
      BY DEF TypeOK
    <2>2. tasks[t].kind \in Kinds
      BY <2>1 DEF TaskRecords
    <2>3. CASE Lock(t)
      BY <2>2, <2>3, FirstStage, GotoOnward DEF Lock
    <2>4. CASE Ok(t)
      BY <2>4, GotoOnward DEF Ok, AfterOk, Stages
    <2>5. CASE MoveRefused(t)
      BY <2>5, GotoOnward DEF MoveRefused, Stages
    <2>6. CASE Search(t)
      BY <2>6, FoundOnward DEF Search
    <2>. QED  BY <2>3, <2>4, <2>5, <2>6
  <1>2. Pending(x)' = Pending(x) /\ \A s \in Pending(x) : tasks'[s] = tasks[s]
    BY <1>1, OnwardPending DEF Onward, Pending
  <1>3. CASE UNCHANGED copies
    BY <1>2, <1>3 DEF SameFor, PlacesOf, Live, MsgOf
  <1>4. CASE Ok(t)
    <2>. PICK i, d, m : i = tasks[t].copy /\ d = tasks[t].dst /\ m = tasks[t].msg
      OBVIOUS
    <2>1. /\ i \in DOMAIN copies /\ i # 0
          /\ Kept(0) \/ Kept(i) \/ Added(0, MsgOf(i), d) \/ Added(i, MsgOf(i), d)
             \/ UNCHANGED copies
      BY <1>4, EffectByStage DEF Ok
    <2>2. MsgOf(i) = m
      BY <2>1 DEF Orderly, Staged, StagedTask
    <2>3. SameBut(i) \/ SameBut(0) \/ UNCHANGED copies
      BY <2>1 DEF Kept, Added
    <2>4. \A j \in DOMAIN copies :
             MsgOf(j) = x =>
                copies'[j].here = copies[j].here /\ copies'[j].folder = copies[j].folder
      BY <2>2, <2>3, IndexNotZero DEF SameBut, MsgOf
    <2>5. \A j \in DOMAIN copies : j \in DOMAIN copies' /\ copies'[j].msg = copies[j].msg
      BY <2>3 DEF SameBut
    <2>6. \A j \in DOMAIN copies' : copies'[j].msg = x => j \in DOMAIN copies
      BY <2>1, <2>2 DEF Kept, Added
    <2>7. \A f : f \in PlacesOf(x)' <=> f \in PlacesOf(x)
      BY <2>4, <2>5, <2>6, InPlaces, InPlacesNext DEF Live, MsgOf
    <2>8. PlacesOf(x)' = PlacesOf(x)
      BY <2>7
    <2>. QED  BY <1>2, <2>4, <2>8 DEF SameFor
  <1>. QED  BY <1>3, <1>4 DEF Lock, MoveRefused, Search

----------------------------------------------------------------------------
(* What the user does.                                                     *)

\* At rest a message is in one folder.
LEMMA RestPlace ==
    ASSUME TypeOK, Orderly, NEW m, Pending(m) = {}, NEW f \in PlacesOf(m)
    PROVE  PlacesOf(m) = {f}
  <1>1. \A t \in DOMAIN tasks : Parting(t) => tasks[t].msg # m
    BY DEF Pending, Underway, Parting
  <1>. QED  BY <1>1, OnePlace

\* What is done to message m leaves the courses of the others.
LEMMA OthersCourse ==
    ASSUME TypeOK, Staged, Courses, NEW n, NEW r, Spawned(n, r), r.at = "spawned",
           UNCHANGED copies, NEW m \in Messages, r.msg = m,
           \A x \in Messages : x # m => want'[x] = want[x],
           want'[m] # Gone => Course(m)'
    PROVE  Courses'
  <1>. SUFFICES ASSUME NEW x \in Messages, Delivered(x)', want'[x] # Gone, x # m
                PROVE  Course(x)'
    BY DEF Courses
  <1>1. SameFor(x)
    BY SpawnedSame
  <1>2. Delivered(x) /\ want[x] # Gone
    BY DEF Delivered, MsgOf
  <1>. QED  BY <1>1, <1>2, CourseStays DEF Courses

\* A new task that leads its message, which has rested until now.
LEMMA RestThenMove ==
    ASSUME TypeOK, NEW n, NEW r, Spawned(n, r), UNCHANGED copies,
           NEW m, r.msg = m, r.at = "spawned", Pending(m) = {}, PlacesOf(m) = {r.src},
           r.kind = "byId" \/ (r.kind = "move" /\ Live(r.copy)),
           r.src # r.dst, want'[m] = r.dst
    PROVE  Course(m)'
  <1>1. Pending(m)' = {n} /\ n \in DOMAIN tasks' /\ tasks'[n] = r
    BY SpawnedPending DEF Spawned
  <1>2. PlacesOf(m)' = PlacesOf(m) /\ Live(r.copy)' = Live(r.copy)
    BY DEF PlacesOf, Live, MsgOf
  <1>3. Leads(n)'
    BY <1>1, <1>2 DEF Leads, Live
  <1>. QED  BY <1>1, <1>3 DEF Course, LastMove

\* An undo before the move has ended.
LEMMA MoveThenUndo ==
    ASSUME TypeOK, Staged, NEW n, NEW r, Spawned(n, r), UNCHANGED copies,
           NEW m, r.msg = m, r.at = "spawned", r.kind = "byId", r.src # r.dst,
           NEW t \in DOMAIN tasks, LastMove(m, t), r.src = want[m], want'[m] = r.dst
    PROVE  Course(m)'
  <1>1. /\ Pending(m)' = {t, n} /\ n # t /\ n \in DOMAIN tasks' /\ t \in DOMAIN tasks'
        /\ tasks'[n] = r /\ tasks'[t] = tasks[t]
    BY SpawnedPending DEF Spawned, LastMove
  <1>2. Leads(t)'
    BY <1>1 DEF LastMove, Leads, PlacesOf, Live, MsgOf
  <1>3. MoveAndUndo(m, t, n)'
    BY <1>1, <1>2 DEF MoveAndUndo, LastMove, Follows
  <1>. QED  BY <1>1, <1>3 DEF Course

\* Two tasks of a message are more than a calm user leaves running.
LEMMA TwoTasks ==
    ASSUME NEW m, NEW t, NEW u, MoveAndUndo(m, t, u)
    PROVE  Cardinality(Pending(m)) = 2
  <1>1. Pending(m) = {t} \cup {u} /\ u \notin {t}
    BY DEF MoveAndUndo
  <1>2. IsFiniteSet({t}) /\ Cardinality({t}) = 1
    BY FS_Singleton
  <1>. QED  BY <1>1, <1>2, FS_AddElement

LEMMA MoveToCourse ==
    ASSUME TypeOK, Orderly, calm, Begun, Courses,
           NEW i \in DOMAIN copies, NEW d \in Folders, MoveTo(i, d)
    PROVE  Begun' /\ Courses'
  <1>. PICK m, src : m = MsgOf(i) /\ src = copies[i].folder
    OBVIOUS
  <1>. DEFINE r == Task("move", m, i, src, d)
  <1>1. copies \in Seq(Copies) /\ copies[i] \in Copies
    BY DEF TypeOK
  <1>2. m \in Messages
    BY <1>1 DEF Copies, MsgOf
  <1>3. /\ r.at = "spawned" /\ r.kind = "move" /\ r.msg = m /\ r.copy = i /\ r.src = src /\ r.dst = d
    BY TaskStaged
  <1>4. /\ Spawn(<<r>>) /\ UNCHANGED copies /\ Live(i) /\ d # src /\ Pending(m) = {}
        /\ want' = [want EXCEPT ![m] = d]
        /\ entries' = entries \cup {[msg |-> m, src |-> src, dst |-> d, undone |-> FALSE]}
    BY DEF MoveTo, MayAct
  <1>. HIDE DEF r
  <1>5. PICK n : Spawned(n, r)
    BY <1>4, SpawnedOne
  <1>6. want'[m] = d /\ \A x \in Messages : x # m => want'[x] = want[x]
    BY <1>2, <1>4 DEF TypeOK
  <1>7. PlacesOf(m) = {src}
    <2>1. src \in PlacesOf(m)
      BY <1>4, InPlaces
    <2>. QED  BY <1>4, <2>1, RestPlace
  <1>8. Course(m)'
    BY <1>3, <1>4, <1>5, <1>6, <1>7, RestThenMove
  <1>9. Courses'
    BY <1>2, <1>3, <1>4, <1>5, <1>6, <1>8, OthersCourse DEF Orderly
  <1>10. Delivered(m)
    BY DEF Delivered
  <1>11. Begun'
    BY <1>3, <1>4, <1>5, <1>6, <1>10 DEF Begun, Delivered, MsgOf, Spawned
  <1>. QED  BY <1>9, <1>11

LEMMA UndoRedoCourse ==
    ASSUME TypeOK, Orderly, calm, Begun, Courses, NEW e \in entries, Undo(e) \/ Redo(e)
    PROVE  Begun' /\ Courses'
  <1>. PICK m : m = e.msg
    OBVIOUS
  <1>1. /\ m \in Messages /\ e.src \in Folders /\ e.dst \in Folders
        /\ Delivered(m) /\ e.src # e.dst
        /\ e.src # Gone /\ e.dst # Gone
    BY OpsAssumption DEF TypeOK, Begun
  <1>2. PICK from, to :
            /\ from \in {e.src, e.dst} /\ to \in {e.src, e.dst} /\ from # to
            /\ want[m] = from /\ Spawn(<<Task("byId", m, 0, from, to)>>)
            /\ want' = [want EXCEPT ![m] = to] /\ UNCHANGED copies
            /\ Cardinality(Pending(m)) <= 1 \/ Pending(m) = {}
    BY <1>1 DEF Undo, Redo, MayAct
  <1>. DEFINE r == Task("byId", m, 0, from, to)
  <1>3. /\ r.at = "spawned" /\ r.kind = "byId" /\ r.msg = m /\ r.src = from /\ r.dst = to
    BY TaskStaged
  <1>4. Spawn(<<r>>)
    BY <1>2
  <1>. HIDE DEF r
  <1>5. PICK n : Spawned(n, r)
    BY <1>4, SpawnedOne
  <1>6. want'[m] = to /\ \A x \in Messages : x # m => want'[x] = want[x]
    BY <1>1, <1>2 DEF TypeOK
  <1>7. Course(m)
    BY <1>1, <1>2 DEF Courses
  <1>8. Course(m)'
    <2>1. CASE Rests(m)
      BY <1>2, <1>3, <1>5, <1>6, <2>1, RestThenMove DEF Rests
    <2>2. ASSUME NEW t \in DOMAIN tasks, LastMove(m, t) PROVE Course(m)'
      BY <1>2, <1>3, <1>5, <1>6, <2>2, MoveThenUndo DEF Orderly
    <2>3. ASSUME NEW t \in DOMAIN tasks, NEW u \in DOMAIN tasks, MoveAndUndo(m, t, u)
          PROVE  FALSE
      <3>1. Pending(m) # {}
        BY <2>3 DEF MoveAndUndo
      <3>. QED  BY <1>2, <2>3, <3>1, TwoTasks
    <2>. QED  BY <1>7, <2>1, <2>2, <2>3 DEF Course
  <1>9. Courses'
    BY <1>1, <1>2, <1>3, <1>5, <1>6, <1>8, OthersCourse DEF Orderly
  <1>10. \A x \in entries' : (x.msg = m /\ x.src = e.src /\ x.dst = e.dst) \/ x \in entries
    <2>. DEFINE on == [e EXCEPT !.undone = TRUE]
                off == [e EXCEPT !.undone = FALSE]
    <2>1. e \in [msg: Messages, src: Folders, dst: Folders, undone: BOOLEAN]
      BY DEF TypeOK
    <2>2. /\ on.msg = m /\ on.src = e.src /\ on.dst = e.dst
          /\ off.msg = m /\ off.src = e.src /\ off.dst = e.dst
      BY <2>1
    <2>3. \A x \in entries' : x \in {on, off} \/ x \in entries
      BY DEF Undo, Redo
    <2>. HIDE DEF on, off
    <2>. QED  BY <2>2, <2>3
  <1>11. Begun'
    BY <1>1, <1>2, <1>3, <1>5, <1>6, <1>10 DEF Begun, Delivered, MsgOf, Spawned
  <1>. QED  BY <1>9, <1>11

LEMMA DeleteCourse ==
    ASSUME TypeOK, Orderly, calm, Begun, Courses, NEW i \in DOMAIN copies, Delete(i)
    PROVE  Begun' /\ Courses'
  <1>. PICK m : m = MsgOf(i)
    OBVIOUS
  <1>1. copies \in Seq(Copies) /\ copies[i] \in Copies
    BY DEF TypeOK
  <1>2. m \in Messages /\ copies[i].folder \in Folders /\ i \in Nat
    BY <1>1 DEF Copies, MsgOf
  <1>. DEFINE f == copies[i].folder
              r == Task("flags", m, i, f, f)
              q == Task("expunge", m, i, f, f)
              new == <<r, q>>
  <1>3. r \in TaskRecords /\ q \in TaskRecords /\ r.msg = m /\ q.msg = m
    BY <1>2, TaskTyped, TaskStaged DEF Kinds
  <1>4. /\ Spawn(new) /\ UNCHANGED <<copies, entries>> /\ want' = [want EXCEPT ![m] = Gone]
    BY DEF Delete
  <1>. HIDE DEF r, q
  <1>5. /\ DOMAIN tasks \subseteq DOMAIN tasks' /\ \A t \in DOMAIN tasks : tasks'[t] = tasks[t]
        /\ \A t \in DOMAIN tasks' \ DOMAIN tasks : tasks'[t].msg = m
    <2>1. new \in Seq(TaskRecords) /\ \A j \in DOMAIN new : new[j].msg = m
      BY <1>3
    <2>2. tasks \in Seq(TaskRecords) /\ tasks' = tasks \o new
      BY <1>4 DEF TypeOK, Spawn
    <2>. HIDE DEF new
    <2>. QED  BY <2>1, <2>2, Joined
  <1>6. want'[m] = Gone /\ \A x \in Messages : x # m => want'[x] = want[x]
    BY <1>2, <1>4 DEF TypeOK
  <1>7. Delivered(m)
    BY DEF Delivered
  <1>8. Begun'
    BY <1>4, <1>5, <1>6, <1>7 DEF Begun, Delivered, MsgOf
  <1>9. ASSUME NEW x \in Messages, Delivered(x)', want'[x] # Gone
        PROVE  Course(x)'
    <2>1. x # m /\ want[x] # Gone /\ Delivered(x)
      BY <1>4, <1>6, <1>9 DEF Delivered, MsgOf
    <2>2. Pending(x)' = Pending(x)
      BY <1>5, <2>1 DEF Pending, Underway
    <2>3. SameFor(x)
      BY <1>4, <1>5, <1>6, <2>1, <2>2 DEF SameFor, Pending, PlacesOf, Live, MsgOf
    <2>. QED  BY <2>1, <2>3, CourseStays DEF Courses, Orderly
  <1>. QED  BY <1>8, <1>9 DEF Courses

LEMMA DeliverCourse ==
    ASSUME TypeOK, Orderly, Begun, Courses, NEW m \in Messages, Deliver(m)
    PROVE  Begun' /\ Courses'
  <1>1. /\ Added(0, m, Inbox) /\ UNCHANGED <<tasks, entries, want>>
        /\ \A j \in DOMAIN copies : MsgOf(j) # m
    BY DeliverAdds DEF Deliver
  <1>2. ~Delivered(m) /\ PlacesOf(m) = {}
    BY <1>1 DEF Delivered, PlacesOf
  <1>3. want[m] = Inbox /\ Pending(m) = {}
    BY <1>2 DEF Begun, Pending
  <1>4. /\ \A x : x # m => PlacesOf(x)' = PlacesOf(x)
        /\ PlacesOf(m)' = {Inbox}
    BY <1>1, <1>2, AddedPuts
  <1>5. \A x : Pending(x)' = Pending(x)
    BY <1>1 DEF Pending, Underway
  <1>6. \A j \in DOMAIN copies :
           /\ j \in DOMAIN copies' /\ copies'[j].msg = copies[j].msg
           /\ copies'[j].here = copies[j].here /\ copies'[j].folder = copies[j].folder
    BY <1>1, IndexNotZero DEF Added, SameBut
  <1>7. \A x : Delivered(x) => Delivered(x)'
    BY <1>6 DEF Delivered, MsgOf
  <1>8. \A x : x # m /\ Delivered(x)' => Delivered(x)
    BY <1>1, <1>6 DEF Added, Delivered, MsgOf
  <1>9. Begun'
    BY <1>1, <1>7 DEF Begun
  <1>10. ASSUME NEW x \in Messages, Delivered(x)', want'[x] # Gone
         PROVE  Course(x)'
    <2>1. CASE x = m
      BY <1>1, <1>3, <1>4, <1>5, <2>1 DEF Course, Rests
    <2>2. CASE x # m
      <3>1. SameFor(x)
        BY <1>1, <1>4, <1>5, <1>6, <2>2 DEF SameFor
      <3>. QED  BY <1>1, <1>8, <1>10, <2>2, <3>1, CourseStays DEF Courses, Orderly
    <2>. QED  BY <2>1, <2>2
  <1>. QED  BY <1>9, <1>10 DEF Courses

LEMMA TaskCourses ==
    ASSUME TypeOK, Orderly, TypeOK', Orderly', [Next]_vars, Begun, Courses,
           NEW t \in DOMAIN tasks, Lock(t) \/ Ok(t) \/ MoveRefused(t) \/ Search(t)
    PROVE  Begun' /\ Courses'
  <1>. PICK m : m = tasks[t].msg
    OBVIOUS
  <1>1. Underway(t) /\ UNCHANGED <<want, entries>>
    BY DEF Lock, Ok, Command, Running, MoveRefused, Search, Underway
  <1>2. \A j \in DOMAIN copies : j \in DOMAIN copies' /\ MsgOf(j)' = MsgOf(j)
    BY CopiesStay
  <1>3. \A x : Delivered(x) => Delivered(x)'
    BY <1>2 DEF Delivered
  <1>4. PICK stage : Onward(t, stage)
    <2>1. tasks[t] \in TaskRecords
      BY DEF TypeOK
    <2>2. tasks[t].kind \in Kinds
      BY <2>1 DEF TaskRecords
    <2>3. CASE Lock(t)
      BY <2>2, <2>3, FirstStage, GotoOnward DEF Lock
    <2>4. CASE Ok(t)
      BY <2>4, GotoOnward DEF Ok, AfterOk, Stages
    <2>5. CASE MoveRefused(t)
      BY <2>5, GotoOnward DEF MoveRefused, Stages
    <2>6. CASE Search(t)
      BY <2>6, FoundOnward DEF Search
    <2>. QED  BY <2>3, <2>4, <2>5, <2>6
  <1>5. Begun'
    BY <1>1, <1>3, <1>4 DEF Begun, Onward
  <1>6. \A x : Delivered(x)' => Delivered(x)
    <2>1. \A j \in DOMAIN copies' : \E k \in DOMAIN copies : copies[k].msg = copies'[j].msg
      <3>1. CASE UNCHANGED copies
        BY <3>1
      <3>2. CASE Ok(t)
        <4>. PICK i, d : i = tasks[t].copy /\ d = tasks[t].dst
          OBVIOUS
        <4>1. /\ i \in DOMAIN copies
              /\ Kept(0) \/ Kept(i) \/ Added(0, MsgOf(i), d) \/ Added(i, MsgOf(i), d)
                 \/ UNCHANGED copies
          BY <3>2, EffectByStage DEF Ok
        <4>. QED  BY <4>1 DEF Kept, Added, SameBut, MsgOf
      <3>. QED  BY <3>1, <3>2 DEF Lock, MoveRefused, Search
    <2>. QED  BY <2>1 DEF Delivered, MsgOf
  <1>7. ASSUME NEW x \in Messages, Delivered(x)', want'[x] # Gone
        PROVE  Course(x)'
    <2>1. Course(x)
      BY <1>1, <1>6, <1>7 DEF Courses
    <2>2. CASE x = m
      BY <1>1, <2>1, <2>2, TaskCourse
    <2>3. CASE x # m
      <3>1. SameFor(x)
        BY <1>1, <2>3, TaskSame
      <3>. QED  BY <2>1, <3>1, CourseStays DEF Orderly
    <2>. QED  BY <2>2, <2>3
  <1>. QED  BY <1>5, <1>7 DEF Courses

LEMMA CalmOpsStep == OneInv /\ CalmOps /\ [Next]_vars => CalmOps'
  <1>. SUFFICES ASSUME OneInv, CalmOps, [Next]_vars, calm', Clean'
                PROVE  Begun' /\ Courses'
    BY DEF CalmOps
  <1>1. calm' = calm
    BY DEF Next, vars, Deliver, User, MoveTo, Delete, Undo, Redo, Reset, Release, TaskStep,
           Lock, Ok, MoveRefused, Search, NotFound, Fail, Panic
  <1>2. TypeOK /\ Clean /\ Orderly /\ calm /\ Begun /\ Courses
    BY <1>1, CleanBefore DEF OneInv, CalmOps
  <1>3. TypeOK' /\ Orderly'
    BY OneStep DEF OneInv
  <1>4. CASE User
    BY <1>2, <1>4, MoveToCourse, DeleteCourse, UndoRedoCourse DEF User
  <1>5. CASE \E m \in Messages : Deliver(m)
    BY <1>2, <1>5, DeliverCourse
  <1>6. CASE \E t \in DOMAIN tasks : TaskStep(t)
    BY <1>2, <1>3, <1>6, CleanTaskSteps, TaskCourses
  <1>7. CASE Reset \/ Release \/ UNCHANGED vars
    <2>1. UNCHANGED <<copies, tasks, entries, want>>
      BY <1>7 DEF Reset, Release, vars
    <2>2. Begun'
      BY <1>2, <2>1 DEF Begun, Delivered, MsgOf
    <2>3. \A x : SameFor(x)
      BY <2>1 DEF SameFor, Pending, Underway, PlacesOf, Live, MsgOf
    <2>4. Courses'
      BY <1>2, <2>1, <2>3, CourseStays DEF Courses, Delivered, MsgOf, Orderly
    <2>. QED  BY <2>2, <2>4
  <1>. QED  BY <1>4, <1>5, <1>6, <1>7 DEF Next

LEMMA CalmOpsInit == Init => CalmOps
  BY DEF Init, CalmOps, Begun, Courses, Delivered

\* For a user who lets an operation on a message end before asking for the next,
\* except that undo is pressed at any time, a message is where the user wanted
\* it last, or an error was reported.
THEOREM OpsLands == Spec => []CalmLandsOrReports
  <1>1. OneInv /\ CalmOps => CalmLandsOrReports
    <2>. SUFFICES ASSUME OneInv, CalmOps, calm, Untroubled, NEW i \in DOMAIN copies,
                         want[MsgOf(i)] # Gone
                  PROVE  PlacesOf(MsgOf(i)) = {want[MsgOf(i)]}
      BY DEF CalmLandsOrReports
    <2>. PICK m : m = MsgOf(i)
      OBVIOUS
    <2>1. copies \in Seq(Copies) /\ copies[i] \in Copies
      BY DEF OneInv, TypeOK
    <2>2. m \in Messages /\ Delivered(m)
      BY <2>1 DEF Copies, MsgOf, Delivered
    <2>3. Pending(m) = {}
      BY DEF Untroubled, Quiet, Pending
    <2>4. Course(m)
      BY <2>2 DEF CalmOps, Courses, Untroubled, Clean
    <2>. QED  BY <2>3, <2>4 DEF Course, Rests, LastMove, MoveAndUndo
  <1>. QED  BY <1>1, OneInit, OneStep, CalmOpsInit, CalmOpsStep, PTL DEF Spec

=============================================================================
