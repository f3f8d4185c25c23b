----------------------------- MODULE SettingsFile -----------------------------
(***************************************************************************)
(* The settings file of the plugin, saved by one process per tab: load all *)
(* of it, change one part, write all of it to a temporary file and rename  *)
(* that (save_oauth_tokens, save_server_config, load_settings_json and     *)
(* atomic_write_json of lib.rs, atomic_write of files.rs).  The temporary  *)
(* file has one name for all tabs.  Every call of the system is a step.    *)
(*                                                                         *)
(* A name refers to an inode, an open file is one, and a file that is      *)
(* renamed or replaced while it is open stays the open file.               *)
(***************************************************************************)
EXTENDS Naturals, FiniteSets

CONSTANTS
    Tabs,      \* the processes
    Parts,     \* what is saved together: the tokens, the servers
    Values,    \* what a part may hold
    Inodes,    \* bound: the files there can be at once
    Unset,     \* a part that is not there
    Absent,    \* no file
    Blank,     \* what a file holds once it has been truncated
    Torn,      \* what it holds when it is not JSON
    Seriality  \* the worlds there are: those where saves do not overlap, and others

ASSUME SettingsAssumption ==
    /\ Unset \notin Values /\ Absent \notin Inodes
    /\ Blank # Torn
    /\ {Blank, Torn} \cap [Parts -> Values \cup {Unset}] = {}
    /\ Seriality \subseteq BOOLEAN

VARIABLES
    serial,    \* a tab saves only while no other does: the case of a single tab
    complete,  \* there was a file at first, with every part
    path, tmp, \* the inodes of settings.json and settings.tmp
    data,      \* what each inode holds
    pc,        \* where each tab is in a save
    copy,      \* the settings it is about to write
    held       \* the file it has open

names == <<path, tmp>>
world == <<serial, complete>>
vars == <<world, names, data, pc, copy, held>>

Whole == [Parts -> Values \cup {Unset}]
Full == [Parts -> Values]
Unreadable == {Blank, Torn}
Empty == [part \in Parts |-> Unset]
File == Inodes \cup {Absent}

Init ==
    /\ serial \in Seriality /\ complete \in BOOLEAN
    /\ path \in IF complete THEN Inodes ELSE {Absent}
    /\ tmp = Absent
    /\ data \in [Inodes -> Full \cup {Blank}]
    /\ \A i \in Inodes : data[i] = Blank <=> i # path
    /\ pc = [p \in Tabs |-> "idle"]
    /\ copy = [p \in Tabs |-> Empty]
    /\ held = [p \in Tabs |-> Absent]

Goto(p, stage) == pc' = [pc EXCEPT ![p] = stage]

\* The end of a save, however it came to it: what it had loaded is gone.
End(p) == Goto(p, "idle") /\ copy' = [copy EXCEPT ![p] = Empty]

\* Faulty variant: a file that cannot be read counts as one that is not there.
LoadableAsEmpty ==
    IF path = Absent \/ data[path] \in Unreadable THEN {Empty} ELSE {data[path]}

\* Faulty variant: a save starts from nothing.
LoadableNothing == {Empty}

\* load_settings_json: nothing at all when the file is there and is not JSON,
\* in which case the save is given up.
Loadable ==
    IF path = Absent THEN {Empty} ELSE {data[path]} \ Unreadable

\* The first half of a save: load, and change one part.
Load(p, part, v) ==
    /\ pc[p] = "idle"
    /\ serial => \A q \in Tabs : pc[q] = "idle"
    /\ \E all \in Loadable : copy' = [copy EXCEPT ![p] = [all EXCEPT ![part] = v]]
    /\ Goto(p, "loaded")
    /\ UNCHANGED <<world, names, data, held>>

Unused == Inodes \ ({path, tmp} \cup {held[p] : p \in Tabs})

\* Faulty variant: the file itself is opened and written in place.
OpenInPlace(p) ==
    /\ pc[p] = "loaded"
    /\ path # Absent
    /\ held' = [held EXCEPT ![p] = path]
    /\ data' = [data EXCEPT ![path] = Blank]
    /\ Goto(p, "open")
    /\ UNCHANGED <<world, names, copy>>

\* fs::write opens the temporary file, makes it if it is not there, and
\* truncates it.
Open(p) ==
    /\ pc[p] = "loaded"
    /\ \E i \in IF tmp = Absent THEN Unused ELSE {tmp} :
          /\ tmp' = i
          /\ held' = [held EXCEPT ![p] = i]
          /\ data' = [data EXCEPT ![i] = Blank]
    /\ Goto(p, "open")
    /\ UNCHANGED <<world, path, copy>>

\* What a file holds after a write from its start: what was written, or with
\* the end of something longer after it.
Overlaid(old, new) == IF old \in {Blank, new} THEN {new} ELSE {new, Torn}

Write(p) ==
    /\ pc[p] = "open"
    /\ \E new \in Overlaid(data[held[p]], copy[p]) :
          data' = [data EXCEPT ![held[p]] = new]
    /\ held' = [held EXCEPT ![p] = Absent]
    /\ Goto(p, "written")
    /\ UNCHANGED <<world, names, copy>>

\* rename, of whatever file has the temporary name; nobody looks at its error.
Rename(p) ==
    /\ pc[p] = "written"
    /\ IF tmp = Absent THEN UNCHANGED names ELSE path' = tmp /\ tmp' = Absent
    /\ End(p)
    /\ UNCHANGED <<world, data, held>>

\* Faulty variant: a save whose write failed goes on to the rename.
FailGoingOn(p) ==
    /\ pc[p] = "open"
    /\ data' = [data EXCEPT ![held[p]] = Torn]
    /\ held' = [held EXCEPT ![p] = Absent]
    /\ Goto(p, "written")
    /\ UNCHANGED <<world, names, copy>>

\* A write fails half way (a full disk, the process killed).
Fail(p) ==
    /\ pc[p] = "open"
    /\ data' = [data EXCEPT ![held[p]] = Torn]
    /\ held' = [held EXCEPT ![p] = Absent]
    /\ End(p)
    /\ UNCHANGED <<world, names>>

\* The process is killed between two calls; the tab is opened again.
Die(p) ==
    /\ pc[p] # "idle"
    /\ held' = [held EXCEPT ![p] = Absent]
    /\ End(p)
    /\ UNCHANGED <<world, names, data>>

Next ==
    \E p \in Tabs :
        \/ \E part \in Parts, v \in Values : Load(p, part, v)
        \/ Open(p) \/ Write(p) \/ Rename(p) \/ Fail(p) \/ Die(p)

Spec == Init /\ [][Next]_vars

----------------------------------------------------------------------------
TypeOK ==
    /\ serial \in BOOLEAN /\ complete \in BOOLEAN
    /\ path \in File /\ tmp \in File
    /\ data \in [Inodes -> Whole \cup Unreadable]
    /\ pc \in [Tabs -> {"idle", "loaded", "open", "written"}]
    /\ copy \in [Tabs -> Whole]
    /\ held \in [Tabs -> File]

\* What a reader of settings.json finds.
Stored == IF path = Absent THEN Empty ELSE data[path]

\* A reader never finds a half-written file (files.rs:4), however many tabs save.
Readable == Stored \notin Unreadable

\* Where saves do not overlap that is so: at every moment of a save, and after
\* one that was cut short anywhere.
ReadableIfSerial == serial => Readable

\* Saves that overlap may lose one another's part, but a file that can be read
\* has every part it had at the start: a save that finds it half-written is
\* given up (the comment at load_settings_json, lib.rs:342).
PartsKept == complete /\ Readable => Stored \in Full

\* The file implements SettingsStore: where saves do not overlap each takes
\* effect at once, at its rename, or not at all.
Store == INSTANCE SettingsStore WITH stored <- Stored
ImplementsStore == Store!StoreSpec

=============================================================================
