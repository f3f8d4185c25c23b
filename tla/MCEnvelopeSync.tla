--------------------------- MODULE MCEnvelopeSync ----------------------------
(* Instances of EnvelopeSync for TLC. *)
EXTENDS EnvelopeSync

\* The edits the program asks for: one flag set or one flag cleared.
OneFlagEdits ==
    {[add |-> {f}, remove |-> {}] : f \in Flags}
        \cup {[add |-> {}, remove |-> {f}] : f \in Flags}

\* The connections on the cache.
Cached == Conns \ Uncached

\* Messages arrive and go, the mailbox is made anew, writes fail and calls are
\* cut short.
Disturbed == [conns |-> Cached, ops |-> {"deliver", "expunge", "recreate"},
              edits |-> {}, faults |-> {"write", "abort"}]

\* Another client edits flags.
Shared == [conns |-> Cached, ops |-> {"deliver", "flag"}, edits |-> {}, faults |-> {}]

\* The user edits flags while messages arrive and go.
Editing == [conns |-> Cached, ops |-> {"deliver", "expunge"},
            edits |-> OneFlagEdits, faults |-> {}]

\* A mailbox that only receives, and calls that are cut short.
Appending == [conns |-> Conns, ops |-> {"deliver"}, edits |-> {}, faults |-> {"abort"}]

\* Messages arrive and go, and that is all.
Plain == [conns |-> Cached, ops |-> {"deliver", "expunge"}, edits |-> {}, faults |-> {}]

AllWorlds == {Disturbed, Shared, Editing, Appending}
OnlyPlain == {Plain}

=============================================================================
