---------------------------- MODULE SettingsStore -----------------------------
(***************************************************************************)
(* What a settings file promises to those who read it: its parts change    *)
(* one at a time, and whole.  Where saves may overlap it promises less:    *)
(* what is readable has every part that was there from the start.          *)
(***************************************************************************)
CONSTANTS
    Parts,     \* what is saved together
    Values,    \* what a part may hold
    Unset,     \* a part that is not there
    Unreadable \* what a reader may find instead of a file

VARIABLES
    serial,    \* saves do not overlap
    complete,  \* every part was there from the start
    stored     \* what a reader finds

storeVars == <<serial, complete, stored>>

Whole == [Parts -> Values \cup {Unset}]
Full == [Parts -> Values]

StoreInit ==
    /\ serial \in BOOLEAN /\ complete \in BOOLEAN
    /\ stored \in Whole
    /\ complete => stored \in Full

Save(part, v) == stored' = [stored EXCEPT ![part] = v]

Overlap ==
    /\ ~serial
    /\ stored' \in Whole \cup Unreadable
    /\ complete => stored' \in Full \cup Unreadable

StoreNext ==
    /\ UNCHANGED <<serial, complete>>
    /\ Overlap \/ \E part \in Parts, v \in Values : Save(part, v)

StoreSpec == StoreInit /\ [][StoreNext]_storeVars

=============================================================================
