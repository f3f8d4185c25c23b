-------------------------------- MODULE Letter --------------------------------
(***************************************************************************)
(* What writing a message promises: a letter is a tree of lines; an edit   *)
(* of a line puts what was typed in the place of that line and leaves the  *)
(* others alone, and what is read out of the mail that is sent or saved is  *)
(* the letter, line for line as it was typed.                               *)
(***************************************************************************)
EXTENDS Naturals, SequencesExt

CONSTANTS
    NewLines,  \* what an edit can put in the place of a line: a line, an object, a tree
    Openings,  \* the letters a form can open with
    AsRead(_)  \* a letter as it is read: a single line may be a tree

VARIABLES
    letter,    \* the lines of the letter
    enclosed,  \* the trees among the files to be attached
    mailed     \* the letter the last step sent or saved, as its reader sees it

letterVars == <<letter, enclosed, mailed>>

LetterInit == letter = <<>> /\ enclosed = {} /\ mailed = <<>>

\* The lines b are the lines a with k of them, after the first p, in other words.
Rewritten(a, b, p, k, words) ==
    LET rest == Len(a) - p - k IN
    /\ p + rest <= Len(b)
    /\ SubSeq(b, 1, p) = SubSeq(a, 1, p)
    /\ SubSeq(b, Len(b) - rest + 1, Len(b)) = SubSeq(a, p + k + 1, Len(a))
    /\ SubSeq(b, p + 1, Len(b) - rest) \in words

RECURSIVE Edited(_, _)
\* One line is edited or added, at the top or under an object.
Edited(a, b) ==
    \/ \E p \in 0..Len(a), k \in {0, 1} : p + k <= Len(a) /\ Rewritten(a, b, p, k, NewLines)
    \/ /\ Len(a) = Len(b)
       /\ \E i \in DOMAIN a :
             /\ a[i].obj /\ b = [a EXCEPT ![i].kids = b[i].kids]
             /\ Edited(a[i].kids, b[i].kids)

Edit ==
    /\ Edited(letter, letter')
    /\ UNCHANGED enclosed /\ mailed' = <<>>

Strike ==
    /\ \E i \in DOMAIN letter : letter' = RemoveAt(letter, i)
    /\ UNCHANGED enclosed /\ mailed' = <<>>

Enclose ==
    /\ enclosed \subseteq enclosed'
    /\ UNCHANGED letter /\ mailed' = <<>>

\* A form begins empty, and only an empty one is filled in.
Begin ==
    /\ letter' = <<>> /\ enclosed' = {} /\ mailed' = <<>>

Fill ==
    /\ letter = <<>> /\ letter' \in Openings
    /\ UNCHANGED enclosed /\ mailed' = <<>>

\* A tree that is enclosed with a plain letter is read in its place.
Send ==
    /\ mailed' \in {letter, AsRead(letter)} \cup enclosed
    /\ letter' = <<>> /\ enclosed' = {}

Save ==
    /\ mailed' \in {letter, AsRead(letter)}
    /\ UNCHANGED <<letter, enclosed>>

LetterNext == Enclose \/ Save \/ Send \/ Strike \/ Edit \/ Begin \/ Fill

LetterSpec == LetterInit /\ [][LetterNext]_letterVars
===============================================================================
