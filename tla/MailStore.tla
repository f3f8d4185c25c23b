------------------------------ MODULE MailStore -------------------------------
(***************************************************************************)
(* What moving, deleting and undoing promise of the folders of an account: *)
(* a message is put into a folder only from one that has it, and taken out *)
(* of its last folder only when the user has deleted it for good.          *)
(***************************************************************************)
CONSTANTS Messages, Folders, Inbox

VARIABLES
    places,  \* the folders each message is in
    doomed   \* the messages the user has deleted for good

storeVars == <<places, doomed>>

StoreInit == places = [m \in Messages |-> {}] /\ doomed = {}

Arrive(m) ==
    /\ places[m] = {} /\ m \notin doomed
    /\ places' = [places EXCEPT ![m] = {Inbox}]
    /\ UNCHANGED doomed

Doom(m) ==
    /\ doomed' = doomed \cup {m}
    /\ UNCHANGED places

Put(m, d) ==
    /\ places[m] # {}
    /\ places' = [places EXCEPT ![m] = @ \cup {d}]
    /\ UNCHANGED doomed

Take(m, f) ==
    /\ f \in places[m]
    /\ places[m] # {f} \/ m \in doomed
    /\ places' = [places EXCEPT ![m] = @ \ {f}]
    /\ UNCHANGED doomed

Shift(m, f, d) ==
    /\ f \in places[m]
    /\ places' = [places EXCEPT ![m] = (@ \ {f}) \cup {d}]
    /\ UNCHANGED doomed

StoreNext ==
    \E m \in Messages :
        \/ Arrive(m) \/ Doom(m)
        \/ \E d \in Folders : Put(m, d) \/ Take(m, d)
        \/ \E f, d \in Folders : Shift(m, f, d)

StoreSpec == StoreInit /\ [][StoreNext]_storeVars

=============================================================================
