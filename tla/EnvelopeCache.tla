---------------------------- MODULE EnvelopeCache ----------------------------
(***************************************************************************)
(* The SQLite envelope cache (cache.rs), for one folder of one account.    *)
(* Folders never share a row, so one folder stands for all of them.        *)
(*                                                                         *)
(* A row is a message header: `gen` names the incarnation of the mailbox   *)
(* (its UIDVALIDITY) the header was fetched from, which stands for sender, *)
(* subject, date and Message-ID, and `flags` is what the row's two flag    *)
(* columns say.                                                            *)
(*                                                                         *)
(* A transaction of the code is one step here, and so is a statement that  *)
(* runs outside one: SQLite in WAL mode shows another process neither less *)
(* nor more.                                                               *)
(***************************************************************************)
EXTENDS Integers, FiniteSets, FiniteSetsExt, Functions

CONSTANTS
    MaxUid,       \* bound: the largest UID a mailbox assigns
    MaxGen,       \* bound: the largest UIDVALIDITY the server reports
    Flags,        \* the flag columns, a subset of {"seen", "flagged"}
    NoValidity    \* get_uidvalidity's None: the folder has no meta row

ASSUME BoundsAssumption == MaxUid \in Nat /\ MaxGen \in Nat \ {0}
ASSUME NoValidityAssumption == NoValidity \notin Nat
ASSUME FlagsAssumption == Flags \subseteq {"seen", "flagged"}

VARIABLES
    uidvalidity,  \* folder_meta.uidvalidity, or NoValidity
    count,        \* folder_meta.count (0 while there is no meta row)
    rows          \* the envelopes table: UID -> header

cacheVars == <<uidvalidity, count, rows>>

Uids == 1..MaxUid
Gens == 1..MaxGen
Envelope == [gen: Gens, flags: SUBSET Flags]

\* Every batch of headers: a header for each UID of some set of UIDs.
Headers == UNION {[S -> Envelope] : S \in SUBSET Uids}

NoRows == [u \in {} |-> 0]

EmptyCache == uidvalidity = NoValidity /\ count = 0 /\ rows = NoRows

----------------------------------------------------------------------------
(* Reads.                                                                  *)

CachedCount == count

\* The `limit` members of S that are largest: ORDER BY uid DESC LIMIT limit.
Newest(S, limit) == {u \in S : Cardinality({v \in S : v > u}) < limit}

IsNewest(u, S) == u \in S /\ \A v \in S : v <= u

GetLatest(limit) == Restrict(rows, Newest(DOMAIN rows, limit))

----------------------------------------------------------------------------
(* Writes.  A failed write leaves the database alone and is not reported.  *)

\* DELETE of the folder's rows and the meta upsert, in one transaction.
InvalidateFolder(validity) ==
    /\ rows' = NoRows
    /\ uidvalidity' = validity
    /\ count' = 0

\* Faulty variant: the batch is added to the count, not recounted.
UpsertAllAdding(headers) ==
    /\ rows' = [u \in DOMAIN rows \cup DOMAIN headers |->
                    IF u \in DOMAIN headers THEN headers[u] ELSE rows[u]]
    /\ count' = count + Cardinality(DOMAIN headers)
    /\ uidvalidity' = IF uidvalidity = NoValidity THEN 0 ELSE uidvalidity

\* Row upserts and the recount, in one transaction.  A folder without a meta
\* row gets one with UIDVALIDITY 0.
UpsertAll(headers) ==
    /\ rows' = [u \in DOMAIN rows \cup DOMAIN headers |->
                    IF u \in DOMAIN headers THEN headers[u] ELSE rows[u]]
    /\ count' = Cardinality(DOMAIN rows')
    /\ uidvalidity' = IF uidvalidity = NoValidity THEN 0 ELSE uidvalidity

\* Faulty variant: a flag is set whatever the new value.
PatchFlagSetting(uid, flag, on) ==
    /\ rows' = [u \in DOMAIN rows |->
                    IF u # uid THEN rows[u]
                    ELSE [rows[u] EXCEPT !.flags = @ \cup {flag}]]
    /\ UNCHANGED <<uidvalidity, count>>

\* One UPDATE of one flag column; no row, no effect.
PatchFlag(uid, flag, on) ==
    /\ rows' = [u \in DOMAIN rows |->
                    IF u # uid THEN rows[u]
                    ELSE [rows[u] EXCEPT !.flags = IF on THEN @ \cup {flag}
                                                         ELSE @ \ {flag}]]
    /\ UNCHANGED <<uidvalidity, count>>

\* DELETE of one row and the recount, in one transaction.
Remove(uid) ==
    /\ rows' = [u \in DOMAIN rows \ {uid} |-> rows[u]]
    /\ count' = IF uidvalidity = NoValidity THEN count
                ELSE Cardinality(DOMAIN rows')
    /\ UNCHANGED uidvalidity

\* open_at on a file that is no database: an empty one takes its place.
Reopen ==
    /\ rows' = NoRows
    /\ uidvalidity' = NoValidity
    /\ count' = 0

----------------------------------------------------------------------------
(* The cache on its own, driven by any sequence of calls.                  *)

CacheInit == EmptyCache

CacheNext ==
    \/ \E v \in Gens : InvalidateFolder(v)
    \/ \E headers \in Headers : UpsertAll(headers)
    \/ \E u \in Uids, f \in Flags, on \in BOOLEAN : PatchFlag(u, f, on)
    \/ \E u \in Uids : Remove(u)
    \/ Reopen

CacheSpec == CacheInit /\ [][CacheNext]_cacheVars

CacheTypeOK ==
    /\ uidvalidity \in Gens \cup {0, NoValidity}
    /\ count \in Nat
    /\ rows \in Headers

\* cached_count reads a stored number, and list_messages decides with it
\* whether to contact the server for headers at all: whatever the order of
\* flushes, batches that overlap earlier ones, patches and removals, it is the
\* number of rows.
CountMatchesRows == count = Cardinality(DOMAIN rows)

\* A folder without a meta row has no envelopes either, so "first visit" and
\* "nothing cached" are the same thing to list_messages.
NoMetaNoRows == uidvalidity = NoValidity => rows = NoRows

=============================================================================
