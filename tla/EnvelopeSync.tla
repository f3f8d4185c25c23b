---------------------------- MODULE EnvelopeSync -----------------------------
(***************************************************************************)
(* RealImap::list_messages and RealImap::set_flags (net.rs) of several     *)
(* connections over one mailbox of the server and one envelope cache.  A   *)
(* connection is a RealImap: the tabs of the program are processes that    *)
(* share the cache file, and inside one tab the synchronous backend, the   *)
(* background connection and every envelope fetch have a RealImap of their *)
(* own.                                                                    *)
(*                                                                         *)
(* Every statement on the cache and every IMAP command is a step, so the   *)
(* steps of the other connections, and of the other clients of the         *)
(* mailbox, fall between any two of them.                                  *)
(***************************************************************************)
EXTENDS EnvelopeCache

CONSTANTS
    Conns,       \* the connections
    Uncached,    \* those that could not open the cache file
    Limits,      \* the window sizes a view may ask for
    Worlds,      \* the worlds a behaviour may be in, see world below
    MaxFaults    \* bound: how many times something goes wrong

ASSUME ConnsAssumption ==
    /\ Uncached \subseteq Conns
    /\ Limits \subseteq Nat \ {0}
    /\ Worlds \subseteq [conns: SUBSET Conns,
                         ops: SUBSET {"deliver", "expunge", "flag", "recreate"},
                         edits: SUBSET [add: SUBSET Flags, remove: SUBSET Flags],
                         faults: SUBSET {"write", "abort"}]
    /\ MaxFaults \in Nat

\* No edit sets and clears one flag: every caller of set_flags names one flag.
ASSUME EditsAssumption == \A w \in Worlds : \A e \in w.edits : e.add \cap e.remove = {}

VARIABLES
    world,    \* which connections are used, what happens to the mailbox, is asked
              \* for and goes wrong
    gen,      \* the mailbox's UIDVALIDITY
    uidNext,  \* the UID of the next delivery
    box,      \* the mailbox: UID -> flags
    pc,       \* where each connection is in its call
    sel,      \* what SELECT told it: [gen, uids, next]
    limit,    \* list_messages' argument
    maxUid,   \* the highest cached UID it read
    got,      \* the headers the server sent it
    result,   \* the headers its last list returned
    edit,     \* set_flags' arguments: [uid, add, remove]
    faults

mailbox == <<gen, uidNext, box>>
connVars == <<pc, sel, limit, maxUid, got, result, edit>>
vars == <<world, cacheVars, mailbox, connVars, faults>>

MailboxOps == world.ops    \* what else happens to the mailbox, see Mailbox below
Edits == world.edits       \* the flag edits a connection is asked for: [add, remove]
Faults == world.faults     \* what may go wrong: a write fails, a call is cut short

Selected == [gen: Gens, uids: SUBSET Uids, next: 1..(MaxUid + 1)]
Stages == {"idle", "empty", "validity", "count", "max", "flush", "window",
           "store", "newer", "merge", "serve", "done",
           "add", "remove", "seen", "flagged"}

\* The header FETCH returns for a message.
Header(u) == [gen |-> gen, flags |-> box[u]]

Init ==
    /\ world \in Worlds
    /\ CacheInit
    /\ gen = 1 /\ uidNext = 1 /\ box = NoRows
    /\ pc = [c \in Conns |-> "idle"]
    /\ sel = [c \in Conns |-> [gen |-> 1, uids |-> {}, next |-> 1]]
    /\ limit \in [Conns -> Limits]
    /\ maxUid = [c \in Conns |-> 0]
    /\ got = [c \in Conns |-> NoRows]
    /\ result = [c \in Conns |-> NoRows]
    /\ edit = [c \in Conns |-> [uid |-> 0, add |-> {}, remove |-> {}]]
    /\ faults = 0

----------------------------------------------------------------------------
(* The mailbox: deliveries, and what other clients do to it.  A mailbox    *)
(* that is deleted and made again starts over under a larger UIDVALIDITY.  *)

Deliver ==
    /\ "deliver" \in MailboxOps
    /\ uidNext <= MaxUid
    /\ box' = [u \in DOMAIN box \cup {uidNext} |->
                   IF u = uidNext THEN {} ELSE box[u]]
    /\ uidNext' = uidNext + 1
    /\ UNCHANGED <<cacheVars, gen, connVars, faults>>

Expunge(u) ==
    /\ "expunge" \in MailboxOps
    /\ u \in DOMAIN box
    /\ box' = [v \in DOMAIN box \ {u} |-> box[v]]
    /\ UNCHANGED <<cacheVars, gen, uidNext, connVars, faults>>

Reflag(u, flag) ==
    /\ "flag" \in MailboxOps
    /\ u \in DOMAIN box
    /\ box' = [box EXCEPT ![u] = IF flag \in @ THEN @ \ {flag} ELSE @ \cup {flag}]
    /\ UNCHANGED <<cacheVars, gen, uidNext, connVars, faults>>

Recreate ==
    /\ "recreate" \in MailboxOps
    /\ gen < MaxGen
    /\ gen' = gen + 1 /\ uidNext' = 1 /\ box' = NoRows
    /\ UNCHANGED <<cacheVars, connVars, faults>>

Mailbox ==
    \/ Deliver
    \/ \E u \in Uids : Expunge(u)
    \/ \E u \in Uids, f \in Flags : Reflag(u, f)
    \/ Recreate

----------------------------------------------------------------------------
(* Calls that run out: a timeout or a lost connection at any await, or the *)
(* tab's process killed.  The cache file stays as it is.                   *)

Fault(kind) == kind \in Faults /\ faults < MaxFaults /\ faults' = faults + 1

Busy(c) == pc[c] \notin {"idle", "done"}

Goto(c, stage) == pc' = [pc EXCEPT ![c] = stage]

Abort(c) ==
    /\ Busy(c)
    /\ Fault("abort")
    /\ Goto(c, "idle")
    /\ UNCHANGED <<cacheVars, mailbox, sel, limit, maxUid, got, result, edit>>

\* A command on a mailbox that has been recreated since SELECT is refused.
Refused(c) ==
    /\ \/ pc[c] \in {"window", "newer"}
       \/ pc[c] \in {"add", "remove"} /\ edit[c][pc[c]] # {}
    /\ sel[c].gen # gen
    /\ Goto(c, "idle")
    /\ UNCHANGED <<cacheVars, mailbox, sel, limit, maxUid, got, result, edit, faults>>

\* A write on the cache, or its silent failure.
Write(change) ==
    \/ change /\ UNCHANGED faults
    \/ Fault("write") /\ UNCHANGED cacheVars

----------------------------------------------------------------------------
(* list_messages                                                           *)

Select(c) ==
    sel' = [sel EXCEPT ![c] = [gen |-> gen, uids |-> DOMAIN box, next |-> uidNext]]

Begin(c, n) ==
    /\ pc[c] \in {"idle", "done"}
    /\ limit[c] <= n     \* a view's window only ever grows
    /\ Select(c)
    /\ limit' = [limit EXCEPT ![c] = n]
    /\ got' = [got EXCEPT ![c] = NoRows]
    /\ maxUid' = [maxUid EXCEPT ![c] = 0]
    /\ Goto(c, IF box = NoRows THEN "empty"
               ELSE IF c \in Uncached THEN "window" ELSE "validity")
    /\ UNCHANGED <<cacheVars, mailbox, result, edit, faults>>

\* total == 0
ListEmpty(c) ==
    /\ pc[c] = "empty"
    /\ IF c \in Uncached THEN UNCHANGED <<cacheVars, faults>>
                         ELSE Write(InvalidateFolder(sel[c].gen))
    /\ result' = [result EXCEPT ![c] = NoRows]
    /\ Goto(c, "done")
    /\ UNCHANGED <<mailbox, sel, limit, maxUid, got, edit>>

\* Faulty variant: any UIDVALIDITY on record will do.
ReadValidityAny(c) ==
    /\ pc[c] = "validity"
    /\ Goto(c, IF uidvalidity # NoValidity THEN "count" ELSE "flush")
    /\ UNCHANGED <<cacheVars, mailbox, sel, limit, maxUid, got, result, edit, faults>>

ReadValidity(c) ==
    /\ pc[c] = "validity"
    /\ Goto(c, IF uidvalidity = sel[c].gen THEN "count" ELSE "flush")
    /\ UNCHANGED <<cacheVars, mailbox, sel, limit, maxUid, got, result, edit, faults>>

\* Faulty variant: any cached header will do.
ReadCountAny(c) ==
    /\ pc[c] = "count"
    /\ Goto(c, IF CachedCount > 0 THEN "serve" ELSE "max")
    /\ UNCHANGED <<cacheVars, mailbox, sel, limit, maxUid, got, result, edit, faults>>

\* Plan::ServeCached when the count reaches the server's total
ReadCount(c) ==
    /\ pc[c] = "count"
    /\ Goto(c, IF CachedCount >= Cardinality(sel[c].uids) THEN "serve" ELSE "max")
    /\ UNCHANGED <<cacheVars, mailbox, sel, limit, maxUid, got, result, edit, faults>>

\* Faulty variant: the UID after the highest is taken for the highest.
ReadMaxUidNext(c) ==
    /\ pc[c] = "max"
    /\ IF rows = NoRows
       THEN Goto(c, "flush") /\ UNCHANGED maxUid
       ELSE \E u \in DOMAIN rows :
               /\ IsNewest(u, DOMAIN rows)
               /\ Goto(c, "newer") /\ maxUid' = [maxUid EXCEPT ![c] = u + 1]
    /\ UNCHANGED <<cacheVars, mailbox, sel, limit, got, result, edit, faults>>

\* Plan::Incremental when there is a highest UID
ReadMaxUid(c) ==
    /\ pc[c] = "max"
    /\ IF rows = NoRows
       THEN Goto(c, "flush") /\ UNCHANGED maxUid
       ELSE \E u \in DOMAIN rows :
               /\ IsNewest(u, DOMAIN rows)
               /\ Goto(c, "newer") /\ maxUid' = [maxUid EXCEPT ![c] = u]
    /\ UNCHANGED <<cacheVars, mailbox, sel, limit, got, result, edit, faults>>

Flush(c) ==
    /\ pc[c] = "flush"
    /\ Write(InvalidateFolder(sel[c].gen))
    /\ Goto(c, "window")
    /\ UNCHANGED <<mailbox, sel, limit, maxUid, got, result, edit>>

\* FETCH of the last `limit` sequence numbers, as SELECT numbered them
FetchWindow(c) ==
    /\ pc[c] = "window" /\ sel[c].gen = gen
    /\ got' = [got EXCEPT ![c] =
                  [u \in Newest(sel[c].uids, limit[c]) \cap DOMAIN box |-> Header(u)]]
    /\ Goto(c, "store")
    /\ UNCHANGED <<cacheVars, mailbox, sel, limit, maxUid, result, edit, faults>>

StoreWindow(c) ==
    /\ pc[c] = "store"
    /\ IF c \in Uncached THEN UNCHANGED <<cacheVars, faults>>
                         ELSE Write(UpsertAll(got[c]))
    /\ result' = [result EXCEPT ![c] = got[c]]
    /\ Goto(c, "done")
    /\ UNCHANGED <<mailbox, sel, limit, maxUid, got, edit>>

\* Faulty variant: the range starts one UID too high.
FetchNewerSkipping(c) ==
    /\ pc[c] = "newer" /\ sel[c].gen = gen
    /\ got' = [got EXCEPT ![c] =
                  [u \in {v \in DOMAIN box : v > maxUid[c] + 1} \cup Newest(DOMAIN box, 1)
                      |-> Header(u)]]
    /\ Goto(c, "merge")
    /\ UNCHANGED <<cacheVars, mailbox, sel, limit, maxUid, result, edit, faults>>

\* UID FETCH maxUid+1:*, where `*` is the mailbox's last message whatever the
\* other end of the range
FetchNewer(c) ==
    /\ pc[c] = "newer" /\ sel[c].gen = gen
    /\ got' = [got EXCEPT ![c] =
                  [u \in {v \in DOMAIN box : v > maxUid[c]} \cup Newest(DOMAIN box, 1)
                      |-> Header(u)]]
    /\ Goto(c, "merge")
    /\ UNCHANGED <<cacheVars, mailbox, sel, limit, maxUid, result, edit, faults>>

MergeNewer(c) ==
    /\ pc[c] = "merge"
    /\ IF got[c] = NoRows THEN UNCHANGED <<cacheVars, faults>>
                          ELSE Write(UpsertAll(got[c]))
    /\ Goto(c, "serve")
    /\ UNCHANGED <<mailbox, sel, limit, maxUid, got, result, edit>>

Serve(c) ==
    /\ pc[c] = "serve"
    /\ result' = [result EXCEPT ![c] = GetLatest(limit[c])]
    /\ Goto(c, "done")
    /\ UNCHANGED <<cacheVars, mailbox, sel, limit, maxUid, got, edit, faults>>

----------------------------------------------------------------------------
(* set_flags                                                               *)

BeginEdit(c, u, e) ==
    /\ c \in world.conns
    /\ pc[c] \in {"idle", "done"}
    /\ u \in DOMAIN result[c]    \* the user edits a message of the list shown
    /\ Select(c)
    /\ edit' = [edit EXCEPT ![c] = [uid |-> u, add |-> e.add, remove |-> e.remove]]
    /\ Goto(c, "add")
    /\ UNCHANGED <<cacheVars, mailbox, limit, maxUid, got, result, faults>>

\* UID STORE on a message that is gone changes nothing and succeeds.
StoreFlags(c, stage, next, flags) ==
    /\ pc[c] = stage
    /\ Goto(c, next)
    /\ UNCHANGED <<cacheVars, gen, uidNext, sel, limit, maxUid, got, result, edit, faults>>
    /\ edit[c][stage] # {} => sel[c].gen = gen
    /\ box' = IF edit[c].uid \in DOMAIN box
              THEN [box EXCEPT ![edit[c].uid] = flags] ELSE box

AddFlags(c) ==
    StoreFlags(c, "add", "remove", box[edit[c].uid] \cup edit[c].add)
RemoveFlags(c) ==
    StoreFlags(c, "remove", "seen", box[edit[c].uid] \ edit[c].remove)

\* patch_flags: one statement for each flag that was touched
PatchColumn(c, flag, next) ==
    /\ pc[c] = flag
    /\ IF c \notin Uncached /\ flag \in edit[c].add \cup edit[c].remove
       THEN Write(PatchFlag(edit[c].uid, flag, flag \in edit[c].add))
       ELSE UNCHANGED <<cacheVars, faults>>
    /\ Goto(c, next)
    /\ UNCHANGED <<mailbox, sel, limit, maxUid, got, result, edit>>

PatchSeen(c) == PatchColumn(c, "seen", "flagged")
PatchFlagged(c) == PatchColumn(c, "flagged", "idle")

----------------------------------------------------------------------------
ListStep(c) ==
    \/ ListEmpty(c) \/ ReadValidity(c) \/ ReadCount(c) \/ ReadMaxUid(c)
    \/ Flush(c) \/ FetchWindow(c) \/ StoreWindow(c)
    \/ FetchNewer(c) \/ MergeNewer(c) \/ Serve(c)

EditStep(c) == AddFlags(c) \/ RemoveFlags(c) \/ PatchSeen(c) \/ PatchFlagged(c)

BeginAny(c) == c \in world.conns /\ \E n \in Limits : Begin(c, n)

Step ==
    \/ Mailbox
    \/ \E c \in Conns : BeginAny(c)
    \/ \E c \in Conns, u \in Uids, e \in Edits : BeginEdit(c, u, e)
    \/ \E c \in Conns : ListStep(c) \/ EditStep(c) \/ Refused(c) \/ Abort(c)

Next == Step /\ UNCHANGED world

Spec == Init /\ [][Next]_vars

\* A call that has begun goes on (the task that runs it is polled until it
\* returns) and a view lists its folder again and again.
Fairness ==
    \A c \in Conns :
        WF_vars(Next /\ (ListStep(c) \/ EditStep(c) \/ Refused(c) \/ BeginAny(c)))

FairSpec == Spec /\ Fairness

TypeOK ==
    /\ world \in Worlds
    /\ CacheTypeOK
    /\ gen \in Gens /\ uidNext \in 1..(MaxUid + 1)
    /\ box \in UNION {[S -> SUBSET Flags] : S \in SUBSET Uids}
    /\ pc \in [Conns -> Stages]
    /\ sel \in [Conns -> Selected]
    /\ limit \in [Conns -> Limits]
    /\ maxUid \in [Conns -> 0..MaxUid]
    /\ got \in [Conns -> Headers] /\ result \in [Conns -> Headers]
    /\ edit \in [Conns -> [uid: {0} \cup Uids, add: SUBSET Flags, remove: SUBSET Flags]]
    /\ faults \in 0..MaxFaults

----------------------------------------------------------------------------
(* What a list returns.                                                    *)

Listed(c) == DOMAIN result[c]
Done(c) == pc[c] = "done"

\* A list never shows headers of an incarnation of the mailbox other than the
\* one it selected, although flushes may fail, calls are cut short between the
\* flush and the refill, and the mailbox is recreated at any moment.
ListedOfSelected ==
    \A c \in Conns : Done(c) =>
        \A u \in Listed(c) : result[c][u].gen = sel[c].gen

\* The cache has no hole: of the messages the server has, those between the
\* lowest and the highest cached UID are cached.  This is what makes
\* "everything above the highest cached UID" the right thing to fetch.
NoHole ==
    uidvalidity = gen =>
        \A u \in DOMAIN box :
            (\E v, w \in DOMAIN rows : v < u /\ u < w
                                     /\ rows[v].gen = gen /\ rows[w].gen = gen)
                => u \in DOMAIN rows

OnlyGrows == MailboxOps = {"deliver"} /\ "write" \notin Faults

\* In a mailbox that only grows, a list is the `limit` newest messages of the
\* mailbox as it was at some moment between SELECT and the return (UIDs below some n >= sel.next).
ListIsNewest ==
    OnlyGrows => \A c \in Conns : Done(c) =>
        \E n \in sel[c].next..uidNext :
            Listed(c) = Newest({u \in DOMAIN box : u < n}, limit[c])

\* The headers a list shows carry the flags the server has, once no call is
\* under way: in a world where nothing goes wrong and no other client edits
\* flags, of which the program hears nothing.
FlagsSettle ==
    Faults = {} /\ "flag" \notin MailboxOps /\ (\A c \in Conns : ~Busy(c)) =>
        \A u \in DOMAIN rows \cap DOMAIN box :
            rows[u].gen = gen => rows[u].flags = box[u]

\* list_messages serves from the cache alone only when the cache holds every
\* message the server reported at SELECT.
ServeCachedHoldsAll ==
    \A c \in Conns : pc[c] = "serve" /\ maxUid[c] = 0 =>
        sel[c].uids \subseteq DOMAIN rows

\* In a world where nothing is expunged, every connection that keeps listing ends
\* up showing the newest messages.
NewMailListed ==
    \A c \in Conns :
        <>[](OnlyGrows /\ Done(c) => Listed(c) = Newest(DOMAIN box, limit[c]))

=============================================================================
