------------------------- MODULE EnvelopeSync_proofs --------------------------
(* Proofs about the cache alone (EnvelopeCache), for every bound and every   *)
(* set of flags: its type, and that the stored count is the number of rows.  *)
(* Then about EnvelopeSync, for any connections, windows, worlds and         *)
(* bounds: its type and the stored count.  With one connection on the cache  *)
(* also that a list is of the mailbox selected, that the cache has no hole,  *)
(* that cached flags settle and, with one window size, that a list is the    *)
(* newest messages.                                                          *)
EXTENDS EnvelopeSync, FiniteSetTheorems, TLAPS

(* ------------------------------------------------------------ the cache *)

(* A set of UIDs is finite, and so its cardinality is a number. *)
LEMMA UidSetFinite ==
    ASSUME NEW S, S \subseteq Uids
    PROVE  IsFiniteSet(S) /\ Cardinality(S) \in Nat
<1>1. IsFiniteSet(Uids)
  BY BoundsAssumption, FS_Interval DEF Uids
<1>2. IsFiniteSet(S)
  BY <1>1, FS_Subset
<1> QED
  BY <1>2, FS_CardinalityType

(* No headers is a batch of headers. *)
LEMMA NoRowsType == NoRows \in Headers /\ DOMAIN NoRows = {}
<1>1. NoRows \in [{} -> Envelope] /\ DOMAIN NoRows = {}
  BY DEF NoRows
<1> QED
  BY <1>1 DEF Headers

(* A batch of headers is a function on a set of UIDs, and conversely. *)
LEMMA HeadersType ==
    ASSUME NEW h
    PROVE  h \in Headers <=> /\ DOMAIN h \subseteq Uids
                             /\ h \in [DOMAIN h -> Envelope]
<1>1. ASSUME h \in Headers
      PROVE  DOMAIN h \subseteq Uids /\ h \in [DOMAIN h -> Envelope]
  <2>1. PICK S \in SUBSET Uids : h \in [S -> Envelope]
    BY <1>1 DEF Headers
  <2> QED
    BY <2>1
<1>2. ASSUME DOMAIN h \subseteq Uids, h \in [DOMAIN h -> Envelope]
      PROVE  h \in Headers
  BY <1>2 DEF Headers
<1> QED
  BY <1>1, <1>2

(* The number of rows of a batch of headers is a number. *)
LEMMA HeadersCount ==
    ASSUME NEW h \in Headers
    PROVE  Cardinality(DOMAIN h) \in Nat
BY HeadersType, UidSetFinite

(* What UpsertAll makes of the rows: the batch over what was there. *)
LEMMA UpsertType ==
    ASSUME rows \in Headers, NEW h \in Headers, UpsertAll(h)
    PROVE  /\ rows' \in Headers
           /\ DOMAIN rows' = DOMAIN rows \cup DOMAIN h
           /\ \A u \in DOMAIN h : rows'[u] = h[u]
           /\ \A u \in DOMAIN rows \ DOMAIN h : rows'[u] = rows[u]
<1>1. /\ DOMAIN rows' = DOMAIN rows \cup DOMAIN h
      /\ rows' = [u \in DOMAIN rows \cup DOMAIN h |->
                     IF u \in DOMAIN h THEN h[u] ELSE rows[u]]
  BY DEF UpsertAll
<1>2. /\ DOMAIN rows \subseteq Uids /\ rows \in [DOMAIN rows -> Envelope]
      /\ DOMAIN h \subseteq Uids /\ h \in [DOMAIN h -> Envelope]
  BY HeadersType
<1>3. DOMAIN rows' \subseteq Uids /\ rows' \in [DOMAIN rows' -> Envelope]
  BY <1>1, <1>2
<1>4. rows' \in Headers
  BY <1>3, HeadersType
<1> QED
  BY <1>1, <1>4

(* What PatchFlag makes of the rows: the same messages. *)
LEMMA PatchType ==
    ASSUME rows \in Headers, NEW u \in Uids \cup {0}, NEW f \in Flags,
           NEW on \in BOOLEAN, PatchFlag(u, f, on)
    PROVE  /\ rows' \in Headers
           /\ DOMAIN rows' = DOMAIN rows
           /\ \A v \in DOMAIN rows : rows'[v].gen = rows[v].gen
<1>1. DOMAIN rows \subseteq Uids /\ rows \in [DOMAIN rows -> Envelope]
  BY HeadersType
<1>2. DOMAIN rows' = DOMAIN rows
  BY DEF PatchFlag
<1>3. ASSUME NEW v \in DOMAIN rows
      PROVE  rows'[v] \in Envelope /\ rows'[v].gen = rows[v].gen
  <2>1. rows[v] \in [gen: Gens, flags: SUBSET Flags]
    BY <1>1, <1>3 DEF Envelope
  <2>2. CASE v # u
    BY <2>1, <2>2, <1>3 DEF PatchFlag, Envelope
  <2>3. CASE v = u /\ on
    <3>1. rows'[v] = [rows[v] EXCEPT !.flags = rows[v].flags \cup {f}]
      BY <2>3, <1>3 DEF PatchFlag
    <3> QED
      BY <3>1, <2>1 DEF Envelope
  <2>4. CASE v = u /\ ~on
    <3>1. rows'[v] = [rows[v] EXCEPT !.flags = rows[v].flags \ {f}]
      BY <2>4, <1>3 DEF PatchFlag
    <3> QED
      BY <3>1, <2>1 DEF Envelope
  <2> QED
    BY <2>2, <2>3, <2>4
<1>4. rows' \in [DOMAIN rows' -> Envelope]
  <2>1. rows' = [v \in DOMAIN rows' |-> rows'[v]]
    BY DEF PatchFlag
  <2> QED
    BY <2>1, <1>2, <1>3
<1> QED
  BY <1>1, <1>2, <1>3, <1>4, HeadersType

-----------------------------------------------------------------------------
(* The type is needed for the count only through the finiteness of the rows; *)
(* a folder without a meta row must have no rows, or Remove on it would      *)
(* leave the count behind.                                                   *)
CacheInv == CacheTypeOK /\ CountMatchesRows /\ NoMetaNoRows

(* The empty cache satisfies the invariant. *)
LEMMA EmptyCacheInv == EmptyCache => CacheInv
<1> SUFFICES ASSUME EmptyCache PROVE CacheInv
  OBVIOUS
<1>1. CacheTypeOK
  BY NoRowsType DEF EmptyCache, CacheTypeOK
<1>2. CountMatchesRows
  BY NoRowsType, FS_EmptySet DEF EmptyCache, CountMatchesRows
<1> QED
  BY <1>1, <1>2 DEF EmptyCache, CacheInv, NoMetaNoRows

(* Each write of the cache preserves it. *)
LEMMA InvalidateInv ==
    ASSUME NEW v \in Gens, InvalidateFolder(v)
    PROVE  CacheInv'
<1>1. rows' = NoRows /\ uidvalidity' = v /\ count' = 0
  BY DEF InvalidateFolder
<1>2. CacheTypeOK'
  BY <1>1, NoRowsType DEF CacheTypeOK
<1>3. CountMatchesRows'
  BY <1>1, NoRowsType, FS_EmptySet DEF CountMatchesRows
<1> QED
  BY <1>1, <1>2, <1>3 DEF CacheInv, NoMetaNoRows

LEMMA UpsertInv ==
    ASSUME CacheInv, NEW h \in Headers, UpsertAll(h)
    PROVE  CacheInv'
<1>1. rows \in Headers
  BY DEF CacheInv, CacheTypeOK
<1>2. rows' \in Headers
  BY <1>1, UpsertType
<1>3. count' = Cardinality(DOMAIN rows') /\ count' \in Nat
  BY <1>2, HeadersCount DEF UpsertAll
<1>4. uidvalidity' \in Gens \cup {0, NoValidity} /\ uidvalidity' # NoValidity
  BY NoValidityAssumption DEF CacheInv, CacheTypeOK, UpsertAll
<1> QED
  BY <1>2, <1>3, <1>4 DEF CacheInv, CacheTypeOK, CountMatchesRows, NoMetaNoRows

LEMMA PatchInv ==
    ASSUME CacheInv, NEW u \in Uids \cup {0}, NEW f \in Flags, NEW on \in BOOLEAN,
           PatchFlag(u, f, on)
    PROVE  CacheInv'
<1>1. rows \in Headers
  BY DEF CacheInv, CacheTypeOK
<1>2. rows' \in Headers /\ DOMAIN rows' = DOMAIN rows
  BY <1>1, PatchType
<1>3. UNCHANGED <<uidvalidity, count>>
  BY DEF PatchFlag
<1>4. uidvalidity = NoValidity => rows' = NoRows
  <2> SUFFICES ASSUME uidvalidity = NoValidity PROVE rows' = NoRows
    OBVIOUS
  <2>1. DOMAIN rows' = {}
    BY <1>2, NoRowsType DEF CacheInv, NoMetaNoRows
  <2>2. rows' = [v \in DOMAIN rows' |-> rows'[v]]
    BY DEF PatchFlag
  <2> QED
    BY <2>1, <2>2 DEF NoRows
<1> QED
  BY <1>2, <1>3, <1>4 DEF CacheInv, CacheTypeOK, CountMatchesRows, NoMetaNoRows

LEMMA RemoveInv ==
    ASSUME CacheInv, NEW u \in Uids, Remove(u)
    PROVE  CacheInv'
<1>1. rows \in Headers /\ DOMAIN rows \subseteq Uids /\ rows \in [DOMAIN rows -> Envelope]
  BY HeadersType DEF CacheInv, CacheTypeOK
<1>2. rows' = [v \in DOMAIN rows \ {u} |-> rows[v]] /\ UNCHANGED uidvalidity
  BY DEF Remove
<1>3. DOMAIN rows' = DOMAIN rows \ {u}
  BY <1>2
<1>4. rows' \in Headers
  BY <1>1, <1>2, <1>3, HeadersType
<1>5. CASE uidvalidity = NoValidity
  <2>1. rows = NoRows /\ DOMAIN rows = {} /\ count' = count
    BY <1>5, NoRowsType DEF CacheInv, NoMetaNoRows, Remove
  <2>2. rows' = NoRows
    BY <2>1, <1>2 DEF NoRows
  <2> QED
    BY <2>1, <2>2, <1>2, <1>4 DEF CacheInv, CacheTypeOK, CountMatchesRows, NoMetaNoRows
<1>6. CASE uidvalidity # NoValidity
  <2>1. count' = Cardinality(DOMAIN rows') /\ count' \in Nat
    BY <1>6, <1>4, HeadersCount DEF Remove
  <2> QED
    BY <2>1, <1>2, <1>4, <1>6 DEF CacheInv, CacheTypeOK, CountMatchesRows, NoMetaNoRows
<1> QED
  BY <1>5, <1>6

LEMMA CacheInductive == CacheInv /\ [CacheNext]_cacheVars => CacheInv'
<1> SUFFICES ASSUME CacheInv, [CacheNext]_cacheVars PROVE CacheInv'
  OBVIOUS
<1>1. ASSUME NEW v \in Gens, InvalidateFolder(v) PROVE CacheInv'
  BY <1>1, InvalidateInv
<1>2. ASSUME NEW h \in Headers, UpsertAll(h) PROVE CacheInv'
  BY <1>2, UpsertInv
<1>3. ASSUME NEW u \in Uids, NEW f \in Flags, NEW on \in BOOLEAN, PatchFlag(u, f, on)
      PROVE  CacheInv'
  BY <1>3, PatchInv
<1>4. ASSUME NEW u \in Uids, Remove(u) PROVE CacheInv'
  BY <1>4, RemoveInv
<1>5. CASE Reopen
  <2>1. EmptyCache'
    BY <1>5 DEF Reopen, EmptyCache
  <2>2. CacheTypeOK'
    BY <2>1, NoRowsType DEF EmptyCache, CacheTypeOK
  <2>3. CountMatchesRows'
    BY <2>1, NoRowsType, FS_EmptySet DEF EmptyCache, CountMatchesRows
  <2> QED
    BY <2>1, <2>2, <2>3 DEF EmptyCache, CacheInv, NoMetaNoRows
<1>6. CASE UNCHANGED cacheVars
  BY <1>6 DEF cacheVars, CacheInv, CacheTypeOK, CountMatchesRows, NoMetaNoRows
<1> QED
  BY <1>1, <1>2, <1>3, <1>4, <1>5, <1>6 DEF CacheNext

(* Whatever calls are made on the cache, in whatever order, its contents are *)
(* well-formed headers and the stored count is the number of rows.           *)
THEOREM CacheCorrect == CacheSpec => [](CacheTypeOK /\ CountMatchesRows)
<1>1. CacheInit => CacheInv
  BY EmptyCacheInv DEF CacheInit
<1>2. CacheInv /\ [CacheNext]_cacheVars => CacheInv'
  BY CacheInductive
<1>3. CacheInv => CacheTypeOK /\ CountMatchesRows
  BY DEF CacheInv
<1> QED
  BY <1>1, <1>2, <1>3, PTL DEF CacheSpec

(* ------------------------------------------------------------- the sync *)

LEMMA ConstantTypes ==
    /\ Uids \subseteq Nat \ {0} /\ Gens \subseteq Nat \ {0}
    /\ 1 \in Gens
    /\ 1 \in 1..(MaxUid + 1)
BY BoundsAssumption DEF Uids, Gens

(* The messages newer than some message of a set go with it into the newest  *)
(* of the set.                                                               *)
LEMMA NewestUpward ==
    ASSUME NEW S \in SUBSET Uids, NEW n \in Nat, NEW u \in S, NEW v \in Newest(S, n),
           v < u
    PROVE  u \in Newest(S, n)
<1> DEFINE A == {x \in S : x > u}
           B == {x \in S : x > v}
<1>0. S \subseteq Nat /\ v \in Nat /\ u \in Nat
  BY ConstantTypes DEF Newest
<1>1. ASSUME NEW x \in A PROVE x \in B
  BY <1>0, <1>1
<1>2. IsFiniteSet(B) /\ Cardinality(A) \in Nat /\ Cardinality(B) \in Nat
  BY UidSetFinite
<1>3. Cardinality(A) <= Cardinality(B)
  <2>1. A \subseteq B
    BY <1>1
  <2> QED
    BY <2>1, <1>2, FS_Subset
<1>4. Cardinality(B) < n
  BY DEF Newest
<1> QED
  BY <1>2, <1>3, <1>4 DEF Newest

(* The one newest of a set is above every other member. *)
LEMMA NewestOne ==
    ASSUME NEW S \in SUBSET Uids, NEW v \in Newest(S, 1), NEW u \in S
    PROVE  u <= v
<1> DEFINE B == {x \in S : x > v}
<1>1. IsFiniteSet(B) /\ Cardinality(B) \in Nat
  BY UidSetFinite
<1>2. Cardinality(B) < 1
  BY DEF Newest
<1>3. Cardinality(B) = 0
  BY <1>1, <1>2
<1>4. B = {}
  BY <1>1, <1>3, FS_EmptySet
<1>5. u \in Nat /\ v \in Nat
  BY ConstantTypes DEF Newest
<1> QED
  BY <1>4, <1>5

LEMMA NewestSubset ==
    ASSUME NEW S, NEW n
    PROVE  Newest(S, n) \subseteq S
BY DEF Newest

(* What the cache and the server hand out is a batch of headers. *)
LEMMA LatestType ==
    ASSUME rows \in Headers, NEW n
    PROVE  GetLatest(n) \in Headers
<1>1. DOMAIN rows \subseteq Uids /\ rows \in [DOMAIN rows -> Envelope]
  BY HeadersType
<1>2. Newest(DOMAIN rows, n) \subseteq DOMAIN rows
  BY NewestSubset
<1>3. GetLatest(n) = [u \in Newest(DOMAIN rows, n) |-> rows[u]]
  BY DEF GetLatest, Restrict
<1>4. GetLatest(n) \in [Newest(DOMAIN rows, n) -> Envelope]
  BY <1>1, <1>2, <1>3
<1> QED
  BY <1>1, <1>2, <1>4 DEF Headers

Boxes == UNION {[S -> SUBSET Flags] : S \in SUBSET Uids}

LEMMA BoxType ==
    ASSUME NEW b \in Boxes
    PROVE  DOMAIN b \subseteq Uids /\ b \in [DOMAIN b -> SUBSET Flags]
<1>1. PICK S \in SUBSET Uids : b \in [S -> SUBSET Flags]
  BY DEF Boxes
<1> QED
  BY <1>1

LEMMA FetchedType ==
    ASSUME box \in Boxes, gen \in Gens, NEW S, S \subseteq DOMAIN box
    PROVE  [u \in S |-> Header(u)] \in Headers
<1>1. DOMAIN box \subseteq Uids /\ box \in [DOMAIN box -> SUBSET Flags]
  BY BoxType
<1>2. \A u \in S : Header(u) \in Envelope
  BY <1>1 DEF Header, Envelope
<1>3. [u \in S |-> Header(u)] \in [S -> Envelope]
  BY <1>2
<1>4. S \in SUBSET Uids
  BY <1>1
<1> QED
  BY <1>3, <1>4 DEF Headers

-----------------------------------------------------------------------------
(* The type of the mailbox and of the connections' state; CacheInv adds the  *)
(* cache's.                                                                  *)
MailboxTypeOK ==
    /\ gen \in Gens /\ uidNext \in 1..(MaxUid + 1)
    /\ box \in Boxes

ConnTypeOK ==
    /\ pc \in [Conns -> Stages]
    /\ sel \in [Conns -> Selected]
    /\ limit \in [Conns -> Limits]
    /\ maxUid \in [Conns -> 0..MaxUid]
    /\ got \in [Conns -> Headers] /\ result \in [Conns -> Headers]
    /\ edit \in [Conns -> [uid: {0} \cup Uids, add: SUBSET Flags, remove: SUBSET Flags]]

SyncInv == CacheInv /\ MailboxTypeOK /\ ConnTypeOK /\ faults \in 0..MaxFaults

LEMMA InitSync == Init => SyncInv
<1> SUFFICES ASSUME Init PROVE SyncInv
  OBVIOUS
<1>1. CacheInv
  BY EmptyCacheInv DEF Init, CacheInit
<1>2. MailboxTypeOK
  <2>1. NoRows \in [{} -> SUBSET Flags]
    BY DEF NoRows
  <2>2. NoRows \in Boxes
    BY <2>1 DEF Boxes
  <2> QED
    BY <2>2, ConstantTypes DEF Init, MailboxTypeOK
<1>3. ConnTypeOK
  BY ConstantTypes, NoRowsType, BoundsAssumption DEF Init, ConnTypeOK, Stages, Selected
<1>4. faults \in 0..MaxFaults
  BY ConnsAssumption DEF Init
<1> QED
  BY <1>1, <1>2, <1>3, <1>4 DEF SyncInv

(* The cache after a write that may have failed. *)
LEMMA WriteFaults ==
    ASSUME faults \in 0..MaxFaults, NEW ACTION A, Write(A)
    PROVE  faults' \in 0..MaxFaults
BY ConnsAssumption DEF Write, Fault

LEMMA CacheKept == ASSUME CacheInv, UNCHANGED cacheVars PROVE CacheInv'
BY DEF cacheVars, CacheInv, CacheTypeOK, CountMatchesRows, NoMetaNoRows

LEMMA MailboxStep ==
    ASSUME MailboxTypeOK, Mailbox
    PROVE  MailboxTypeOK'
<1>1. DOMAIN box \subseteq Uids /\ box \in [DOMAIN box -> SUBSET Flags]
  BY BoxType DEF MailboxTypeOK
<1>2. CASE Deliver
  <2>1. uidNext \in Uids /\ uidNext' \in 1..(MaxUid + 1) /\ gen' = gen
    BY <1>2, BoundsAssumption DEF Deliver, MailboxTypeOK, Uids
  <2>2. box' \in [DOMAIN box \cup {uidNext} -> SUBSET Flags]
    BY <1>1, <1>2 DEF Deliver
  <2>3. box' \in Boxes
    BY <1>1, <2>1, <2>2 DEF Boxes
  <2> QED
    BY <2>1, <2>3 DEF MailboxTypeOK
<1>3. ASSUME NEW u \in Uids, Expunge(u) PROVE MailboxTypeOK'
  <2>1. box' \in [DOMAIN box \ {u} -> SUBSET Flags] /\ UNCHANGED <<gen, uidNext>>
    BY <1>1, <1>3 DEF Expunge
  <2>2. box' \in Boxes
    BY <1>1, <2>1 DEF Boxes
  <2> QED
    BY <2>1, <2>2 DEF MailboxTypeOK
<1>4. ASSUME NEW u \in Uids, NEW f \in Flags, Reflag(u, f) PROVE MailboxTypeOK'
  <2>1. box' \in [DOMAIN box -> SUBSET Flags] /\ UNCHANGED <<gen, uidNext>>
    BY <1>1, <1>4 DEF Reflag
  <2>2. box' \in Boxes
    BY <1>1, <2>1 DEF Boxes
  <2> QED
    BY <2>1, <2>2 DEF MailboxTypeOK
<1>5. CASE Recreate
  <2>1. gen' \in Gens /\ uidNext' \in 1..(MaxUid + 1) /\ box' = NoRows
    BY <1>5, BoundsAssumption, ConstantTypes DEF Recreate, MailboxTypeOK, Gens
  <2>2. NoRows \in [{} -> SUBSET Flags]
    BY DEF NoRows
  <2> QED
    BY <2>1, <2>2 DEF MailboxTypeOK, Boxes
<1> QED
  BY <1>2, <1>3, <1>4, <1>5 DEF Mailbox

(* The types survive every step of a connection. *)
LEMMA BeginStep ==
    ASSUME SyncInv, NEW c \in Conns, NEW n \in Limits, Begin(c, n)
    PROVE  SyncInv'
<1>1. UNCHANGED cacheVars /\ UNCHANGED <<mailbox, faults>>
  BY DEF Begin
<1>2. DOMAIN box \subseteq Uids
  BY BoxType DEF SyncInv, MailboxTypeOK
<1>3. [gen |-> gen, uids |-> DOMAIN box, next |-> uidNext] \in Selected
  BY <1>2 DEF SyncInv, MailboxTypeOK, Selected
<1>4. ConnTypeOK'
  BY <1>3, NoRowsType, BoundsAssumption DEF SyncInv, ConnTypeOK, Begin, Select, Goto, Stages
<1> QED
  BY <1>1, <1>4, CacheKept DEF SyncInv, MailboxTypeOK, mailbox

LEMMA BeginEditStep ==
    ASSUME SyncInv, world \in Worlds,
           NEW c \in Conns, NEW u \in Uids, NEW e \in Edits, BeginEdit(c, u, e)
    PROVE  SyncInv'
<1>1. UNCHANGED cacheVars /\ UNCHANGED <<mailbox, faults>>
  BY DEF BeginEdit
<1>2. DOMAIN box \subseteq Uids
  BY BoxType DEF SyncInv, MailboxTypeOK
<1>3. [gen |-> gen, uids |-> DOMAIN box, next |-> uidNext] \in Selected
  BY <1>2 DEF SyncInv, MailboxTypeOK, Selected
<1>4. [uid |-> u, add |-> e.add, remove |-> e.remove]
          \in [uid: {0} \cup Uids, add: SUBSET Flags, remove: SUBSET Flags]
  BY ConnsAssumption DEF Edits
<1>5. ConnTypeOK'
  BY <1>3, <1>4 DEF SyncInv, ConnTypeOK, BeginEdit, Select, Goto, Stages
<1> QED
  BY <1>1, <1>5, CacheKept DEF SyncInv, MailboxTypeOK, mailbox

LEMMA ListStepSync ==
    ASSUME SyncInv, NEW c \in Conns, ListStep(c)
    PROVE  SyncInv'
<1> USE DEF SyncInv
<1>0. /\ sel[c] \in Selected /\ sel[c].gen \in Gens /\ got[c] \in Headers
      /\ sel[c].uids \subseteq Uids
  BY DEF ConnTypeOK, Selected
<1>1. CASE ListEmpty(c)
  <2>1. UNCHANGED mailbox /\ ConnTypeOK'
    BY <1>1, NoRowsType DEF ListEmpty, ConnTypeOK, Goto, Stages
  <2>2. CacheInv' /\ faults' \in 0..MaxFaults
    BY <1>0, <1>1, CacheKept, InvalidateInv, ConnsAssumption DEF ListEmpty, Write, Fault
  <2> QED
    BY <2>1, <2>2 DEF MailboxTypeOK, mailbox
<1>2. CASE ReadValidity(c)
  BY <1>2, CacheKept DEF ReadValidity, ConnTypeOK, Goto, Stages, MailboxTypeOK, mailbox
<1>3. CASE ReadCount(c)
  BY <1>3, CacheKept DEF ReadCount, ConnTypeOK, Goto, Stages, MailboxTypeOK, mailbox
<1>4. CASE ReadMaxUid(c)
  <2>1. \A u \in DOMAIN rows : u \in 0..MaxUid
    BY HeadersType, BoundsAssumption DEF CacheInv, CacheTypeOK, Uids
  <2>2. ConnTypeOK'
    BY <1>4, <2>1 DEF ReadMaxUid, ConnTypeOK, Goto, Stages
  <2> QED
    BY <1>4, <2>2, CacheKept DEF ReadMaxUid, MailboxTypeOK, mailbox
<1>5. CASE Flush(c)
  <2>1. UNCHANGED mailbox /\ ConnTypeOK'
    BY <1>5 DEF Flush, ConnTypeOK, Goto, Stages
  <2>2. CacheInv' /\ faults' \in 0..MaxFaults
    BY <1>0, <1>5, CacheKept, InvalidateInv, ConnsAssumption DEF Flush, Write, Fault
  <2> QED
    BY <2>1, <2>2 DEF MailboxTypeOK, mailbox
<1>6. CASE FetchWindow(c)
  <2>1. [u \in Newest(sel[c].uids, limit[c]) \cap DOMAIN box |-> Header(u)] \in Headers
    BY FetchedType DEF MailboxTypeOK
  <2>2. ConnTypeOK'
    BY <1>6, <2>1 DEF FetchWindow, ConnTypeOK, Goto, Stages
  <2> QED
    BY <1>6, <2>2, CacheKept DEF FetchWindow, MailboxTypeOK, mailbox
<1>7. CASE StoreWindow(c)
  <2>1. UNCHANGED mailbox /\ ConnTypeOK'
    BY <1>0, <1>7 DEF StoreWindow, ConnTypeOK, Goto, Stages
  <2>2. CacheInv' /\ faults' \in 0..MaxFaults
    BY <1>0, <1>7, CacheKept, UpsertInv, ConnsAssumption DEF StoreWindow, Write, Fault
  <2> QED
    BY <2>1, <2>2 DEF MailboxTypeOK, mailbox
<1>8. CASE FetchNewer(c)
  <2>1. {v \in DOMAIN box : v > maxUid[c]} \cup Newest(DOMAIN box, 1) \subseteq DOMAIN box
    BY NewestSubset
  <2>2. [u \in {v \in DOMAIN box : v > maxUid[c]} \cup Newest(DOMAIN box, 1) |-> Header(u)]
            \in Headers
    BY <2>1, FetchedType DEF MailboxTypeOK
  <2>3. ConnTypeOK'
    BY <1>8, <2>2 DEF FetchNewer, ConnTypeOK, Goto, Stages
  <2> QED
    BY <1>8, <2>3, CacheKept DEF FetchNewer, MailboxTypeOK, mailbox
<1>9. CASE MergeNewer(c)
  <2>1. UNCHANGED mailbox /\ ConnTypeOK'
    BY <1>9 DEF MergeNewer, ConnTypeOK, Goto, Stages
  <2>2. CacheInv' /\ faults' \in 0..MaxFaults
    BY <1>0, <1>9, CacheKept, UpsertInv, ConnsAssumption DEF MergeNewer, Write, Fault
  <2> QED
    BY <2>1, <2>2 DEF MailboxTypeOK, mailbox
<1>10. CASE Serve(c)
  <2>1. GetLatest(limit[c]) \in Headers
    BY LatestType DEF CacheInv, CacheTypeOK
  <2>2. ConnTypeOK'
    BY <1>10, <2>1 DEF Serve, ConnTypeOK, Goto, Stages
  <2> QED
    BY <1>10, <2>2, CacheKept DEF Serve, MailboxTypeOK, mailbox
<1> QED
  BY <1>1, <1>2, <1>3, <1>4, <1>5, <1>6, <1>7, <1>8, <1>9, <1>10 DEF ListStep

LEMMA EditStepSync ==
    ASSUME SyncInv, NEW c \in Conns, EditStep(c)
    PROVE  SyncInv'
<1> USE DEF SyncInv
<1>0. /\ edit[c].uid \in Uids \cup {0}
      /\ edit[c].add \subseteq Flags /\ edit[c].remove \subseteq Flags
      /\ DOMAIN box \subseteq Uids /\ box \in [DOMAIN box -> SUBSET Flags]
  BY BoxType DEF ConnTypeOK, MailboxTypeOK
<1>1. ASSUME NEW stage, NEW next \in Stages, NEW flags,
             edit[c].uid \in DOMAIN box => flags \in SUBSET Flags,
             StoreFlags(c, stage, next, flags)
      PROVE  SyncInv'
  <2>1. box' \in [DOMAIN box -> SUBSET Flags] /\ UNCHANGED <<gen, uidNext>>
    BY <1>0, <1>1 DEF StoreFlags
  <2>2. MailboxTypeOK'
    BY <1>0, <2>1 DEF MailboxTypeOK, Boxes
  <2>3. ConnTypeOK'
    BY <1>1 DEF StoreFlags, ConnTypeOK, Goto
  <2> QED
    BY <1>1, <2>2, <2>3, CacheKept DEF StoreFlags
<1>2. CASE AddFlags(c)
  BY <1>0, <1>1, <1>2 DEF AddFlags, Stages
<1>3. CASE RemoveFlags(c)
  BY <1>0, <1>1, <1>3 DEF RemoveFlags, Stages
<1>4. ASSUME NEW flag, NEW next \in Stages, PatchColumn(c, flag, next)
      PROVE  SyncInv'
  <2>1. UNCHANGED mailbox /\ ConnTypeOK'
    BY <1>4 DEF PatchColumn, ConnTypeOK, Goto
  <2>2. ASSUME flag \in Flags, PatchFlag(edit[c].uid, flag, flag \in edit[c].add)
        PROVE  CacheInv'
    <3> (flag \in edit[c].add) \in BOOLEAN
      OBVIOUS
    <3> QED
      BY <1>0, <2>2, PatchInv
  <2>3. CacheInv' /\ faults' \in 0..MaxFaults
    BY <1>0, <1>4, <2>2, CacheKept, ConnsAssumption DEF PatchColumn, Write, Fault
  <2> QED
    BY <2>1, <2>3 DEF MailboxTypeOK, mailbox
<1>5. CASE PatchSeen(c)
  BY <1>4, <1>5 DEF PatchSeen, Stages
<1>6. CASE PatchFlagged(c)
  BY <1>4, <1>6 DEF PatchFlagged, Stages
<1> QED
  BY <1>2, <1>3, <1>5, <1>6 DEF EditStep

(* The invariant: the types, and the world is one of the worlds. *)
WorldInv == SyncInv /\ world \in Worlds

LEMMA SyncInductive == WorldInv /\ [Next]_vars => WorldInv'
<1> SUFFICES ASSUME SyncInv, world \in Worlds, [Next]_vars PROVE SyncInv' /\ world' \in Worlds
  BY DEF WorldInv
<1>0. world' \in Worlds
  <2>1. CASE Next
    BY <2>1 DEF Next
  <2>2. CASE UNCHANGED vars
    BY <2>2 DEF vars
  <2> QED
    BY <2>1, <2>2
<1>1. CASE Mailbox
  <2>1. UNCHANGED cacheVars /\ UNCHANGED <<connVars, faults>>
    BY <1>1 DEF Mailbox, Deliver, Expunge, Reflag, Recreate
  <2>2. MailboxTypeOK'
    BY <1>1, MailboxStep DEF SyncInv
  <2> QED
    BY <1>0, <2>1, <2>2, CacheKept DEF SyncInv, ConnTypeOK, connVars
<1>2. ASSUME NEW c \in Conns, NEW n \in Limits, Begin(c, n) PROVE SyncInv'
  BY <1>2, BeginStep
<1>3. ASSUME NEW c \in Conns, NEW u \in Uids, NEW e \in Edits, BeginEdit(c, u, e)
      PROVE  SyncInv'
  BY <1>3, BeginEditStep
<1>4. ASSUME NEW c \in Conns, ListStep(c) PROVE SyncInv'
  BY <1>4, ListStepSync
<1>5. ASSUME NEW c \in Conns, EditStep(c) PROVE SyncInv'
  BY <1>5, EditStepSync
<1>6. ASSUME NEW c \in Conns, Refused(c) PROVE SyncInv'
  BY <1>6, CacheKept
     DEF Refused, SyncInv, ConnTypeOK, MailboxTypeOK, Goto, Stages, mailbox
<1>7. ASSUME NEW c \in Conns, Abort(c) PROVE SyncInv'
  BY <1>7, CacheKept, ConnsAssumption
     DEF Abort, Fault, SyncInv, ConnTypeOK, MailboxTypeOK, Goto, Stages, mailbox
<1>8. CASE UNCHANGED vars
  BY <1>0, <1>8, CacheKept
     DEF vars, SyncInv, ConnTypeOK, MailboxTypeOK, connVars, mailbox
<1>9. ASSUME Step PROVE SyncInv'
  <2> SUFFICES ASSUME NEW c \in Conns, ~Mailbox,
                      \/ BeginAny(c)
                      \/ \E u \in Uids, e \in Edits : BeginEdit(c, u, e)
                      \/ ListStep(c) \/ EditStep(c) \/ Refused(c) \/ Abort(c)
               PROVE  SyncInv'
    BY <1>1, <1>9, ConnsAssumption DEF Step
  <2>1. CASE BeginAny(c)
    BY <1>2, <2>1 DEF BeginAny
  <2> QED
    BY <1>3, <1>4, <1>5, <1>6, <1>7, <2>1
<1>10. CASE Next
  BY <1>0, <1>9, <1>10 DEF Next
<1> QED
  BY <1>0, <1>8, <1>10

(* Type correctness, for any number of connections. *)
THEOREM SyncType == Spec => []TypeOK
<1>1. WorldInv => TypeOK
  BY DEF WorldInv, SyncInv, CacheInv, MailboxTypeOK, ConnTypeOK, Boxes, TypeOK
<1>2. Init => WorldInv
  BY InitSync DEF WorldInv, Init
<1> QED
  BY <1>1, <1>2, SyncInductive, PTL DEF Spec

(* However the statements of any number of connections interleave, and       *)
(* whichever of them fail or are never reached, the count that list_messages *)
(* compares with the server's total is the number of cached headers.         *)
THEOREM SyncCount == Spec => []CountMatchesRows
<1>1. WorldInv => CountMatchesRows
  BY DEF WorldInv, SyncInv, CacheInv
<1>2. Init => WorldInv
  BY InitSync DEF WorldInv, Init
<1> QED
  BY <1>1, <1>2, SyncInductive, PTL DEF Spec

-----------------------------------------------------------------------------
(* One connection on the cache.  With two, a flush or a batch of one falls   *)
(* between the reads of the other, and neither what a list returns nor what  *)
(* the cache holds can be told from the call alone.                          *)
OneCached == \A c, d \in Conns \ Uncached : c = d

(* All headers of a batch are of one incarnation of the mailbox. *)
OfGen(heads, g) == \A u \in DOMAIN heads : heads[u].gen = g

(* A set of UIDs below the next delivery's, and one that leaves out no       *)
(* message of the mailbox between two of its members.                        *)
Under(S, n) == \A u \in S : u < n
Convex(S, B) == \A u \in B : (\E v, w \in S : v < u /\ u < w) => u \in S

(* A connection without a cache goes around every statement on it. *)
Direct(c) ==
    c \in Uncached =>
        pc[c] \notin {"validity", "count", "max", "flush", "newer", "merge", "serve"}

(* What SELECT said is what the mailbox was: since then messages have gone,  *)
(* and others arrived at the end.                                            *)
SelInv(c) ==
    /\ sel[c].gen <= gen
    /\ sel[c].gen = gen =>
        /\ sel[c].next <= uidNext
        /\ Under(sel[c].uids, sel[c].next)
        /\ \A u \in DOMAIN box : u < sel[c].next => u \in sel[c].uids

(* What the server sent, and what was returned, is of the incarnation        *)
(* selected.                                                                 *)
AnswerInv(c) ==
    /\ pc[c] \in {"store", "merge"} => OfGen(got[c], sel[c].gen)
    /\ pc[c] = "done" => OfGen(result[c], sel[c].gen)

ConnInv(c) == Direct(c) /\ SelInv(c) /\ AnswerInv(c)

(* The cached headers are of the UIDVALIDITY on record, or a flush has       *)
(* failed and the record is older than what is selected from now on; beyond  *)
(* the comparison the record is what is selected.                            *)
RecordInv(c) ==
    /\ uidvalidity # NoValidity => uidvalidity <= sel[c].gen
    /\ \/ OfGen(rows, uidvalidity)
       \/ uidvalidity # NoValidity /\ uidvalidity < sel[c].gen
    /\ pc[c] \in {"count", "max", "newer", "merge", "serve"} => uidvalidity = sel[c].gen

(* A refill meets an empty cache, or one whose record is out of date; and    *)
(* what is about to be written leaves no hole.                               *)
BatchInv(c) ==
    /\ pc[c] \in {"flush", "window", "store"} /\ uidvalidity = sel[c].gen => rows = NoRows
    /\ pc[c] = "store" /\ sel[c].gen = gen =>
        Convex(DOMAIN got[c], DOMAIN box) /\ Under(DOMAIN got[c], uidNext)
    /\ pc[c] = "newer" => IsNewest(maxUid[c], DOMAIN rows)
    /\ pc[c] = "merge" /\ sel[c].gen = gen =>
        /\ Convex(DOMAIN rows \cup DOMAIN got[c], DOMAIN box)
        /\ Under(DOMAIN got[c], uidNext)

KeeperInv(c) == RecordInv(c) /\ BatchInv(c)

(* The record is never ahead of the mailbox; and once it is the mailbox's,   *)
(* the cached UIDs leave no hole.                                            *)
RowsInv ==
    /\ uidvalidity # NoValidity => uidvalidity <= gen
    /\ uidvalidity = gen => Convex(DOMAIN rows, DOMAIN box) /\ Under(DOMAIN rows, uidNext)

HoleInv ==
    /\ WorldInv
    /\ Under(DOMAIN box, uidNext)
    /\ RowsInv
    /\ \A c \in Conns : ConnInv(c)
    /\ \A c \in Conns \ Uncached : KeeperInv(c)

(* The types of one connection's state, of the mailbox and of the cache. *)
LEMMA PlainTypes ==
    ASSUME WorldInv
    PROVE  /\ gen \in Nat /\ uidNext \in Nat /\ DOMAIN box \subseteq Nat
           /\ DOMAIN box \subseteq Uids
           /\ rows \in Headers /\ DOMAIN rows \subseteq Nat
           /\ uidvalidity \in Nat \cup {NoValidity}
           /\ uidvalidity = NoValidity => rows = NoRows
<1>1. DOMAIN box \subseteq Uids
  BY BoxType DEF WorldInv, SyncInv, MailboxTypeOK
<1>2. gen \in Nat /\ uidNext \in Nat
  BY BoundsAssumption DEF WorldInv, SyncInv, MailboxTypeOK, Gens
<1>3. rows \in Headers /\ DOMAIN rows \subseteq Uids
  BY HeadersType DEF WorldInv, SyncInv, CacheInv, CacheTypeOK
<1>4. uidvalidity \in Nat \cup {NoValidity}
  BY ConstantTypes DEF WorldInv, SyncInv, CacheInv, CacheTypeOK
<1>5. uidvalidity = NoValidity => rows = NoRows
  BY DEF WorldInv, SyncInv, CacheInv, NoMetaNoRows
<1> QED
  BY <1>1, <1>2, <1>3, <1>4, <1>5, ConstantTypes

LEMMA ConnTypes ==
    ASSUME WorldInv, NEW c \in Conns
    PROVE  /\ sel[c].gen \in Gens /\ sel[c].gen \in Nat /\ sel[c].next \in Nat
           /\ sel[c].uids \in SUBSET Uids /\ sel[c].uids \subseteq Nat
           /\ limit[c] \in Nat /\ maxUid[c] \in Nat
           /\ got[c] \in Headers /\ DOMAIN got[c] \subseteq Nat
<1>1. /\ sel[c] \in Selected /\ limit[c] \in Limits
      /\ maxUid[c] \in 0..MaxUid /\ got[c] \in Headers
  BY DEF WorldInv, SyncInv, ConnTypeOK
<1>2. DOMAIN got[c] \subseteq Uids
  BY <1>1, HeadersType
<1>3. /\ sel[c].gen \in Gens /\ sel[c].uids \in SUBSET Uids
      /\ sel[c].next \in 1..(MaxUid + 1)
  BY <1>1 DEF Selected
<1>4. /\ sel[c].gen \in Nat /\ sel[c].next \in Nat
      /\ sel[c].uids \subseteq Nat
  <2>1. sel[c].gen \in Nat /\ sel[c].next \in Nat
    BY <1>3, BoundsAssumption DEF Gens
  <2>2. sel[c].uids \subseteq Nat
    BY <1>3 DEF Uids
  <2> QED
    BY <2>1, <2>2
<1>5. limit[c] \in Nat /\ maxUid[c] \in Nat
  <2>1. limit[c] \in Nat
    BY <1>1, ConnsAssumption
  <2>2. maxUid[c] \in Nat
    BY <1>1, BoundsAssumption
  <2> QED
    BY <2>1, <2>2
<1>6. DOMAIN got[c] \subseteq Nat
  BY <1>2 DEF Uids
<1> QED
  BY <1>1, <1>3, <1>4, <1>5, <1>6

LEMMA InitHole == Init => HoleInv
<1> SUFFICES ASSUME Init PROVE HoleInv
  OBVIOUS
<1>1. WorldInv
  BY InitSync DEF WorldInv, Init
<1>2. DOMAIN NoRows = {}
  BY DEF NoRows
<1>3. ASSUME NEW c \in Conns
      PROVE  ConnInv(c) /\ KeeperInv(c)
  <2>1. /\ pc[c] = "idle" /\ sel[c] = [gen |-> 1, uids |-> {}, next |-> 1]
        /\ gen = 1 /\ uidNext = 1 /\ box = NoRows
        /\ uidvalidity = NoValidity /\ rows = NoRows
    BY DEF Init, CacheInit, EmptyCache
  <2> QED
    BY <1>2, <2>1
       DEF ConnInv, Direct, SelInv, AnswerInv, KeeperInv, RecordInv, BatchInv, Under, OfGen
<1> QED
  BY <1>1, <1>2, <1>3
     DEF Init, CacheInit, EmptyCache, HoleInv, RowsInv, Convex, Under

-----------------------------------------------------------------------------
(* Steps of the mailbox. *)

(* What a step of the mailbox may do: start it over under a larger           *)
(* UIDVALIDITY, or take messages away and put others at the end.             *)
MailboxMoves ==
    /\ Under(DOMAIN box', uidNext')
    /\ \/ gen' > gen
       \/ /\ gen' = gen /\ uidNext' >= uidNext
          /\ \A u \in DOMAIN box' : u < uidNext => u \in DOMAIN box

LEMMA MailboxOnlyMoves ==
    ASSUME WorldInv, Under(DOMAIN box, uidNext), Mailbox
    PROVE  MailboxMoves
<1>0. gen \in Nat /\ uidNext \in Nat /\ DOMAIN box \subseteq Nat
  BY PlainTypes
<1>1. CASE Deliver
  BY <1>0, <1>1 DEF Deliver, MailboxMoves, Under
<1>2. ASSUME NEW u \in Uids, Expunge(u) PROVE MailboxMoves
  BY <1>0, <1>2 DEF Expunge, MailboxMoves, Under
<1>3. ASSUME NEW u \in Uids, NEW f \in Flags, Reflag(u, f) PROVE MailboxMoves
  <2>1. DOMAIN box' = DOMAIN box /\ UNCHANGED <<gen, uidNext>>
    BY <1>3 DEF Reflag
  <2> QED
    BY <1>0, <2>1 DEF MailboxMoves, Under
<1>4. CASE Recreate
  BY <1>0, <1>4 DEF Recreate, MailboxMoves, Under, NoRows
<1> QED
  BY <1>1, <1>2, <1>3, <1>4 DEF Mailbox

(* A set with no hole has none after such a step. *)
LEMMA ConvexMoves ==
    ASSUME NEW B, NEW C, NEW S, NEW n \in Nat, B \subseteq Nat, C \subseteq Nat, S \subseteq Nat,
           Under(S, n), Convex(S, B), \A u \in C : u < n => u \in B
    PROVE  Convex(S, C)
<1> SUFFICES ASSUME NEW u \in C, NEW v \in S, NEW w \in S, v < u, u < w PROVE u \in S
  BY DEF Convex
<1>1. u < n
  BY DEF Under
<1> QED
  BY <1>1 DEF Convex

LEMMA MailboxHole ==
    ASSUME HoleInv, WorldInv', Mailbox
    PROVE  HoleInv'
<1>0. /\ gen \in Nat /\ uidNext \in Nat /\ DOMAIN box \subseteq Nat /\ DOMAIN rows \subseteq Nat
      /\ gen' \in Nat /\ uidNext' \in Nat /\ DOMAIN box' \subseteq Nat
      /\ uidvalidity \in Nat \cup {NoValidity}
  <2>1. WorldInv
    BY DEF HoleInv
  <2>2. gen' \in Nat /\ uidNext' \in Nat /\ DOMAIN box' \subseteq Nat
    <3>1. MailboxTypeOK'
      BY DEF WorldInv, SyncInv
    <3>2. gen' \in Gens /\ uidNext' \in 1..(MaxUid + 1) /\ box' \in Boxes
      BY <3>1 DEF MailboxTypeOK
    <3>3. DOMAIN box' \subseteq Uids
      BY <3>2, BoxType
    <3>4. gen' \in Nat /\ uidNext' \in Nat
      BY <3>2, BoundsAssumption DEF Gens
    <3>5. DOMAIN box' \subseteq Nat
      BY <3>3 DEF Uids
    <3> QED
      BY <3>4, <3>5
  <2> QED
    BY <2>1, <2>2, PlainTypes
<1>1. MailboxMoves
  BY MailboxOnlyMoves DEF HoleInv
<1>2. UNCHANGED cacheVars /\ UNCHANGED connVars
  BY DEF Mailbox, Deliver, Expunge, Reflag, Recreate
<1>2a. /\ rows' = rows /\ uidvalidity' = uidvalidity /\ pc' = pc /\ sel' = sel
       /\ got' = got /\ result' = result /\ maxUid' = maxUid
  BY <1>2 DEF cacheVars, connVars
<1>3. gen' = gen => \A u \in DOMAIN box' : u < uidNext => u \in DOMAIN box
  BY <1>0, <1>1 DEF MailboxMoves
<1>3a. gen' = gen => uidNext <= uidNext'
  BY <1>0, <1>1 DEF MailboxMoves
<1>3b. gen' >= gen
  BY <1>0, <1>1 DEF MailboxMoves
<1>4. ASSUME NEW S, S \subseteq Nat, gen' = gen, Under(S, uidNext)
      PROVE  /\ Under(S, uidNext')
             /\ Convex(S, DOMAIN box) => Convex(S, DOMAIN box')
  <2>1. Under(S, uidNext')
    BY <1>0, <1>3a, <1>4 DEF Under
  <2>2. Convex(S, DOMAIN box) => Convex(S, DOMAIN box')
    BY <1>0, <1>3, <1>4, ConvexMoves
  <2> QED
    BY <2>1, <2>2
<1>5. ASSUME NEW c \in Conns PROVE ConnInv(c)'
  <2>0. /\ sel[c].gen \in Nat /\ sel[c].next \in Nat
        /\ Direct(c) /\ SelInv(c) /\ AnswerInv(c)
    BY ConnTypes DEF HoleInv, ConnInv
  <2>1. SelInv(c)'
    BY <1>0, <1>2a, <1>3, <1>3a, <1>3b, <2>0 DEF SelInv, Under
  <2> QED
    BY <1>2a, <2>0, <2>1 DEF ConnInv, Direct, AnswerInv
<1>6. ASSUME NEW c \in Conns \ Uncached PROVE KeeperInv(c)'
  <2>0. /\ sel[c].gen \in Nat /\ DOMAIN got[c] \subseteq Nat /\ sel[c].gen <= gen
        /\ RecordInv(c) /\ BatchInv(c) /\ RowsInv
    BY ConnTypes DEF HoleInv, KeeperInv, ConnInv, SelInv
  <2>1. RecordInv(c)'
    BY <1>2a, <2>0 DEF RecordInv
  <2>2. ASSUME pc[c] = "store", sel[c].gen = gen'
        PROVE  Convex(DOMAIN got[c], DOMAIN box') /\ Under(DOMAIN got[c], uidNext')
    <3>1. gen' = gen /\ sel[c].gen = gen
      BY <1>0, <1>3b, <2>0, <2>2
    <3> QED
      BY <1>4, <2>0, <2>2, <3>1 DEF BatchInv
  <2>3. ASSUME pc[c] = "merge", sel[c].gen = gen'
        PROVE  /\ Convex(DOMAIN rows \cup DOMAIN got[c], DOMAIN box')
               /\ Under(DOMAIN got[c], uidNext')
    <3>1. gen' = gen /\ sel[c].gen = gen
      BY <1>0, <1>3b, <2>0, <2>3
    <3>2. uidvalidity = gen
      BY <2>0, <2>3, <3>1 DEF RecordInv
    <3>3. Under(DOMAIN rows \cup DOMAIN got[c], uidNext)
      BY <2>0, <2>3, <3>1, <3>2 DEF BatchInv, RowsInv, Under
    <3>4. Convex(DOMAIN rows \cup DOMAIN got[c], DOMAIN box)
      BY <2>0, <2>3, <3>1 DEF BatchInv
    <3>5. DOMAIN rows \cup DOMAIN got[c] \subseteq Nat
      BY <1>0, <2>0
    <3>6. Convex(DOMAIN rows \cup DOMAIN got[c], DOMAIN box')
      BY <1>4, <3>1, <3>3, <3>4, <3>5
    <3> QED
      BY <1>4, <2>0, <2>3, <3>1, <3>6 DEF BatchInv
  <2>4. BatchInv(c)'
    BY <1>2a, <2>0, <2>2, <2>3 DEF BatchInv
  <2> QED
    BY <2>1, <2>4 DEF KeeperInv
<1>7. RowsInv'
  <2>0. uidvalidity # NoValidity => uidvalidity <= gen'
    BY <1>0, <1>3b, NoValidityAssumption DEF HoleInv, RowsInv
  <2> SUFFICES ASSUME uidvalidity = gen'
               PROVE  Convex(DOMAIN rows, DOMAIN box') /\ Under(DOMAIN rows, uidNext')
    BY <1>2a, <2>0 DEF RowsInv
  <2>1. CASE gen' = gen
    BY <1>0, <1>4, <2>1 DEF HoleInv, RowsInv
  <2>2. CASE gen' # gen
    BY <1>0, <1>3b, <2>2, NoValidityAssumption DEF HoleInv, RowsInv
  <2> QED
    BY <2>1, <2>2
<1>8. Under(DOMAIN box, uidNext)'
  BY <1>1 DEF MailboxMoves
<1> QED
  BY <1>5, <1>6, <1>7, <1>8 DEF HoleInv

-----------------------------------------------------------------------------
(* Steps of a connection. *)

ConnStep(d) ==
    \/ \E n \in Limits : Begin(d, n)
    \/ \E u \in Uids, e \in Edits : BeginEdit(d, u, e)
    \/ ListStep(d) \/ EditStep(d) \/ Refused(d) \/ Abort(d)

(* They leave the other connections alone, and take no message and add none. *)
LEMMA OthersKept ==
    ASSUME WorldInv, NEW d \in Conns, ConnStep(d), NEW c \in Conns, c # d
    PROVE  /\ pc'[c] = pc[c] /\ sel'[c] = sel[c] /\ limit'[c] = limit[c]
           /\ maxUid'[c] = maxUid[c] /\ got'[c] = got[c] /\ result'[c] = result[c]
           /\ edit'[c] = edit[c]
<1>0. ConnTypeOK
  BY DEF WorldInv, SyncInv
<1>1. ASSUME NEW n \in Limits, Begin(d, n)
      PROVE  /\ pc'[c] = pc[c] /\ sel'[c] = sel[c] /\ limit'[c] = limit[c]
             /\ maxUid'[c] = maxUid[c] /\ got'[c] = got[c] /\ result'[c] = result[c]
             /\ edit'[c] = edit[c]
  BY <1>0, <1>1 DEF ConnTypeOK, Begin, Select, Goto
<1>2. ASSUME NEW u \in Uids, NEW e \in Edits, BeginEdit(d, u, e)
      PROVE  /\ pc'[c] = pc[c] /\ sel'[c] = sel[c] /\ limit'[c] = limit[c]
             /\ maxUid'[c] = maxUid[c] /\ got'[c] = got[c] /\ result'[c] = result[c]
             /\ edit'[c] = edit[c]
  BY <1>0, <1>2 DEF ConnTypeOK, BeginEdit, Select, Goto
<1>3. CASE ListStep(d)
  <2>1. CASE ListEmpty(d) \/ Flush(d) \/ StoreWindow(d) \/ MergeNewer(d)
    BY <1>0, <2>1 DEF ConnTypeOK, ListEmpty, Flush, StoreWindow, MergeNewer, Goto
  <2>2. CASE ReadValidity(d) \/ ReadCount(d)
    BY <1>0, <2>2 DEF ConnTypeOK, ReadValidity, ReadCount, Goto
  <2>3. CASE ReadMaxUid(d)
    BY <1>0, <2>3 DEF ConnTypeOK, ReadMaxUid, Goto
  <2>4. CASE FetchWindow(d) \/ FetchNewer(d) \/ Serve(d)
    BY <1>0, <2>4 DEF ConnTypeOK, FetchWindow, FetchNewer, Serve, Goto
  <2> QED
    BY <1>3, <2>1, <2>2, <2>3, <2>4 DEF ListStep
<1>4. CASE EditStep(d)
  BY <1>0, <1>4
     DEF ConnTypeOK, EditStep, AddFlags, RemoveFlags, StoreFlags, PatchSeen, PatchFlagged,
         PatchColumn, Goto
<1>5. CASE Refused(d) \/ Abort(d)
  BY <1>0, <1>5 DEF ConnTypeOK, Refused, Abort, Goto
<1> QED
  BY <1>1, <1>2, <1>3, <1>4, <1>5 DEF ConnStep

LEMMA MailboxKept ==
    ASSUME WorldInv, NEW d \in Conns, ConnStep(d)
    PROVE  UNCHANGED <<gen, uidNext>> /\ DOMAIN box' = DOMAIN box
<1>1. CASE EditStep(d)
  <2>1. ASSUME NEW stage, NEW next, NEW flags, StoreFlags(d, stage, next, flags)
        PROVE  UNCHANGED <<gen, uidNext>> /\ DOMAIN box' = DOMAIN box
    BY <2>1, BoxType DEF StoreFlags, WorldInv, SyncInv, MailboxTypeOK
  <2>2. ASSUME NEW flag, NEW next, PatchColumn(d, flag, next)
        PROVE  UNCHANGED <<gen, uidNext>> /\ DOMAIN box' = DOMAIN box
    BY <2>2 DEF PatchColumn, mailbox
  <2> QED
    BY <1>1, <2>1, <2>2 DEF EditStep, AddFlags, RemoveFlags, PatchSeen, PatchFlagged
<1>2. CASE ListStep(d)
  BY <1>2
     DEF ListStep, ListEmpty, ReadValidity, ReadCount, ReadMaxUid, Flush, FetchWindow,
         StoreWindow, FetchNewer, MergeNewer, Serve, mailbox
<1>3. CASE Refused(d) \/ Abort(d)
  BY <1>3 DEF Refused, Abort, mailbox
<1>4. CASE \E n \in Limits : Begin(d, n)
  BY <1>4 DEF Begin, mailbox
<1>5. CASE \E u \in Uids, e \in Edits : BeginEdit(d, u, e)
  BY <1>5 DEF BeginEdit, mailbox
<1> QED
  BY <1>1, <1>2, <1>3, <1>4, <1>5 DEF ConnStep

(* A connection without the cache does not touch it. *)
LEMMA CacheUntouched ==
    ASSUME NEW d \in Uncached, Direct(d), ConnStep(d)
    PROVE  UNCHANGED cacheVars
<1>1. CASE EditStep(d)
  BY <1>1
     DEF EditStep, AddFlags, RemoveFlags, StoreFlags, PatchSeen, PatchFlagged, PatchColumn
<1>2. CASE ListStep(d)
  BY <1>2
     DEF Direct, ListStep, ListEmpty, ReadValidity, ReadCount, ReadMaxUid, Flush, FetchWindow,
         StoreWindow, FetchNewer, MergeNewer, Serve
<1>3. CASE Refused(d) \/ Abort(d)
  BY <1>3 DEF Refused, Abort
<1>4. CASE \E n \in Limits : Begin(d, n)
  BY <1>4 DEF Begin
<1>5. CASE \E u \in Uids, e \in Edits : BeginEdit(d, u, e)
  BY <1>5 DEF BeginEdit
<1> QED
  BY <1>1, <1>2, <1>3, <1>4, <1>5 DEF ConnStep

(* What SELECT says now. *)
LEMMA SelectNow ==
    ASSUME HoleInv, NEW d \in Conns, ConnStep(d),
           sel'[d] = [gen |-> gen, uids |-> DOMAIN box, next |-> uidNext]
    PROVE  SelInv(d)'
<1>1. gen' = gen /\ uidNext' = uidNext /\ DOMAIN box' = DOMAIN box
  BY MailboxKept DEF HoleInv
<1>2. gen \in Nat /\ uidNext \in Nat /\ Under(DOMAIN box, uidNext)
  BY PlainTypes DEF HoleInv
<1> QED
  BY <1>1, <1>2 DEF SelInv

LEMMA OwnConn ==
    ASSUME HoleInv, NEW d \in Conns, ConnStep(d)
    PROVE  ConnInv(d)'
<1>0. /\ ConnTypeOK /\ Direct(d) /\ SelInv(d) /\ AnswerInv(d)
  BY DEF HoleInv, WorldInv, SyncInv, ConnInv
<1>0a. gen' = gen /\ uidNext' = uidNext /\ DOMAIN box' = DOMAIN box
  BY MailboxKept DEF HoleInv
<1>0b. sel' = sel => SelInv(d)'
  BY <1>0, <1>0a DEF SelInv
<1>1. ASSUME NEW n \in Limits, Begin(d, n) PROVE ConnInv(d)'
  <2>1. /\ sel'[d] = [gen |-> gen, uids |-> DOMAIN box, next |-> uidNext]
        /\ pc'[d] \in {"empty", "window", "validity"}
        /\ d \in Uncached => pc'[d] # "validity"
    BY <1>0, <1>1 DEF ConnTypeOK, Begin, Select, Goto
  <2> QED
    BY <2>1, SelectNow DEF ConnInv, Direct, AnswerInv
<1>2. ASSUME NEW u \in Uids, NEW e \in Edits, BeginEdit(d, u, e) PROVE ConnInv(d)'
  <2>1. /\ sel'[d] = [gen |-> gen, uids |-> DOMAIN box, next |-> uidNext]
        /\ pc'[d] = "add"
    BY <1>0, <1>2 DEF ConnTypeOK, BeginEdit, Select, Goto
  <2> QED
    BY <2>1, SelectNow DEF ConnInv, Direct, AnswerInv
<1>3. CASE ListEmpty(d)
  <2>1. sel' = sel /\ pc'[d] = "done" /\ result'[d] = NoRows
    BY <1>0, <1>3 DEF ConnTypeOK, ListEmpty, Goto
  <2> QED
    BY <1>0b, <2>1 DEF ConnInv, Direct, AnswerInv, OfGen, NoRows
<1>4. CASE ReadValidity(d) \/ ReadCount(d) \/ ReadMaxUid(d) \/ Flush(d)
  <2>1. d \notin Uncached
    BY <1>0, <1>4 DEF Direct, ReadValidity, ReadCount, ReadMaxUid, Flush
  <2>2. CASE ReadValidity(d)
    BY <1>0, <1>0b, <2>1, <2>2 DEF ConnTypeOK, ReadValidity, Goto, ConnInv, Direct, AnswerInv
  <2>3. CASE ReadCount(d)
    BY <1>0, <1>0b, <2>1, <2>3 DEF ConnTypeOK, ReadCount, Goto, ConnInv, Direct, AnswerInv
  <2>4. CASE ReadMaxUid(d)
    <3>1. sel' = sel /\ pc'[d] \in {"flush", "newer"}
      BY <1>0, <2>4 DEF ConnTypeOK, ReadMaxUid, Goto
    <3> QED
      BY <1>0b, <2>1, <3>1 DEF ConnInv, Direct, AnswerInv
  <2>5. CASE Flush(d)
    BY <1>0, <1>0b, <2>1, <2>5 DEF ConnTypeOK, Flush, Goto, ConnInv, Direct, AnswerInv
  <2> QED
    BY <1>4, <2>2, <2>3, <2>4, <2>5
<1>5. CASE FetchWindow(d)
  <2>1. sel' = sel /\ pc'[d] = "store" /\ sel[d].gen = gen
    BY <1>0, <1>5 DEF ConnTypeOK, FetchWindow, Goto
  <2>2. OfGen(got'[d], gen)
    BY <1>0, <1>5 DEF ConnTypeOK, FetchWindow, OfGen, Header
  <2> QED
    BY <1>0b, <2>1, <2>2 DEF ConnInv, Direct, AnswerInv
<1>6. CASE StoreWindow(d)
  <2>1. sel' = sel /\ pc'[d] = "done" /\ result'[d] = got[d] /\ pc[d] = "store"
    BY <1>0, <1>6 DEF ConnTypeOK, StoreWindow, Goto
  <2> QED
    BY <1>0, <1>0b, <2>1 DEF ConnInv, Direct, AnswerInv
<1>7. CASE FetchNewer(d)
  <2>1. sel' = sel /\ pc'[d] = "merge" /\ pc[d] = "newer" /\ sel[d].gen = gen
    BY <1>0, <1>7 DEF ConnTypeOK, FetchNewer, Goto
  <2>2. OfGen(got'[d], gen)
    BY <1>0, <1>7 DEF ConnTypeOK, FetchNewer, OfGen, Header
  <2> QED
    BY <1>0, <1>0b, <2>1, <2>2 DEF ConnInv, Direct, AnswerInv
<1>8. CASE MergeNewer(d)
  <2>1. sel' = sel /\ pc'[d] = "serve" /\ pc[d] = "merge"
    BY <1>0, <1>8 DEF ConnTypeOK, MergeNewer, Goto
  <2> QED
    BY <1>0, <1>0b, <2>1 DEF ConnInv, Direct, AnswerInv
<1>9. CASE Serve(d)
  <2>1. /\ sel' = sel /\ pc'[d] = "done" /\ pc[d] = "serve"
        /\ result'[d] = GetLatest(limit[d])
    BY <1>0, <1>9 DEF ConnTypeOK, Serve, Goto
  <2>2. RecordInv(d) /\ d \notin Uncached
    BY <1>0, <2>1 DEF Direct, HoleInv, KeeperInv
  <2>3. sel[d].gen \in Nat
    BY ConnTypes DEF HoleInv
  <2>4. OfGen(rows, sel[d].gen)
    BY <2>1, <2>2, <2>3 DEF RecordInv
  <2>5. OfGen(GetLatest(limit[d]), sel[d].gen)
    <3>1. Newest(DOMAIN rows, limit[d]) \subseteq DOMAIN rows
      BY NewestSubset
    <3>2. GetLatest(limit[d]) = [u \in Newest(DOMAIN rows, limit[d]) |-> rows[u]]
      BY DEF GetLatest, Restrict
    <3> QED
      BY <2>4, <3>1, <3>2 DEF OfGen
  <2> QED
    BY <1>0b, <2>1, <2>5 DEF ConnInv, Direct, AnswerInv
<1>10. CASE EditStep(d)
  <2>1. sel' = sel /\ pc'[d] \in {"remove", "seen", "flagged", "idle"}
    BY <1>0, <1>10
       DEF ConnTypeOK, EditStep, AddFlags, RemoveFlags, StoreFlags, PatchSeen, PatchFlagged,
           PatchColumn, Goto
  <2> QED
    BY <1>0b, <2>1 DEF ConnInv, Direct, AnswerInv
<1>11. CASE Refused(d) \/ Abort(d)
  <2>1. sel' = sel /\ pc'[d] = "idle"
    BY <1>0, <1>11 DEF ConnTypeOK, Refused, Abort, Goto
  <2> QED
    BY <1>0b, <2>1 DEF ConnInv, Direct, AnswerInv
<1> QED
  BY <1>1, <1>2, <1>3, <1>4, <1>5, <1>6, <1>7, <1>8, <1>9, <1>10, <1>11
     DEF ConnStep, ListStep

(* The window fetched, less what has gone since SELECT, has no hole. *)
LEMMA WindowConvex ==
    ASSUME NEW S \in SUBSET Uids, NEW B \in SUBSET Uids, NEW n \in Nat, NEW k \in Nat,
           Under(S, k), \A u \in B : u < k => u \in S
    PROVE  Convex(Newest(S, n) \cap B, B)
<1> SUFFICES ASSUME NEW u \in B, NEW v \in Newest(S, n) \cap B,
                    NEW w \in Newest(S, n) \cap B, v < u, u < w
             PROVE  u \in Newest(S, n)
  BY DEF Convex
<1>1. w < k
  BY NewestSubset DEF Under
<1>2. u \in Nat /\ w \in Nat
  BY ConstantTypes
<1>3. u \in S
  BY <1>1, <1>2
<1> QED
  BY <1>3, NewestUpward

(* Nor do the headers above the highest cached one, with the last of all,    *)
(* added to a cache without a hole.                                          *)
LEMMA NewerConvex ==
    ASSUME NEW R \in SUBSET Uids, NEW B \in SUBSET Uids, NEW m, IsNewest(m, R), Convex(R, B)
    PROVE  Convex(R \cup ({v \in B : v > m} \cup Newest(B, 1)), B)
<1> DEFINE N == {v \in B : v > m}
<1> SUFFICES ASSUME NEW u \in B, NEW v \in R \cup (N \cup Newest(B, 1)),
                    NEW w \in R \cup (N \cup Newest(B, 1)), v < u, u < w
             PROVE  u \in R \cup N
  BY DEF Convex
<1>0. m \in R /\ m \in Nat /\ u \in Nat /\ v \in Nat /\ w \in Nat
  BY ConstantTypes, NewestSubset DEF IsNewest
<1>1. CASE u > m
  BY <1>1
<1>2. CASE u = m
  BY <1>0, <1>2
<1>3. CASE u < m
  <2>1. CASE v \in R
    BY <1>0, <1>3, <2>1 DEF Convex
  <2>2. CASE v \in N
    BY <1>0, <1>3, <2>2
  <2>3. CASE v \in Newest(B, 1)
    BY <1>0, <2>3, NewestOne
  <2> QED
    BY <2>1, <2>2, <2>3
<1> QED
  BY <1>0, <1>1, <1>2, <1>3

(* A batch of the incarnation selected keeps the record. *)
LEMMA UpsertRecord ==
    ASSUME HoleInv, NEW d \in Conns \ Uncached, UpsertAll(got[d]), OfGen(got[d], sel[d].gen)
    PROVE  /\ uidvalidity' = IF uidvalidity = NoValidity THEN 0 ELSE uidvalidity
           /\ uidvalidity' # NoValidity /\ uidvalidity' <= sel[d].gen
           /\ OfGen(rows', uidvalidity') \/ uidvalidity' < sel[d].gen
           /\ DOMAIN rows' = DOMAIN rows \cup DOMAIN got[d]
<1>1. /\ rows \in Headers /\ uidvalidity \in Nat \cup {NoValidity}
      /\ uidvalidity = NoValidity => rows = NoRows
  BY PlainTypes DEF HoleInv
<1>2. sel[d].gen \in Gens /\ sel[d].gen \in Nat /\ got[d] \in Headers
  BY ConnTypes DEF HoleInv
<1>2a. sel[d].gen > 0
  BY <1>2, ConstantTypes
<1>3. /\ DOMAIN rows' = DOMAIN rows \cup DOMAIN got[d]
      /\ \A u \in DOMAIN got[d] : rows'[u] = got[d][u]
      /\ \A u \in DOMAIN rows \ DOMAIN got[d] : rows'[u] = rows[u]
  BY <1>1, <1>2, UpsertType
<1>4. uidvalidity' = IF uidvalidity = NoValidity THEN 0 ELSE uidvalidity
  BY DEF UpsertAll
<1>5. RecordInv(d)
  BY DEF HoleInv, KeeperInv
<1>6. uidvalidity' # NoValidity /\ uidvalidity' <= sel[d].gen
  BY <1>1, <1>2, <1>4, <1>5, NoValidityAssumption DEF RecordInv
<1>7. OfGen(rows', uidvalidity') \/ uidvalidity' < sel[d].gen
  <2>1. CASE uidvalidity = NoValidity
    BY <1>2, <1>2a, <1>4, <2>1
  <2>2. CASE uidvalidity # NoValidity /\ uidvalidity < sel[d].gen
    BY <1>4, <2>2
  <2>3. CASE uidvalidity = sel[d].gen
    <3>1. OfGen(rows, sel[d].gen)
      BY <1>2, <1>5, <2>3 DEF RecordInv
    <3>2. uidvalidity' = sel[d].gen
      BY <1>1, <1>2, <1>4, <2>3, NoValidityAssumption
    <3> QED
      BY <1>3, <3>1, <3>2 DEF OfGen
  <2> QED
    BY <1>1, <1>2, <1>5, <2>1, <2>2, <2>3 DEF RecordInv
<1> QED
  BY <1>3, <1>4, <1>6, <1>7

(* A flush leaves nothing that could be of another incarnation. *)
LEMMA FlushRecord ==
    ASSUME NEW d, InvalidateFolder(sel[d].gen), sel[d].gen \in Nat, sel[d].gen <= gen
    PROVE  /\ rows' = NoRows /\ uidvalidity' = sel[d].gen
           /\ OfGen(rows', uidvalidity')
           /\ \A B : Convex(DOMAIN rows', B)
           /\ \A n : Under(DOMAIN rows', n)
BY DEF InvalidateFolder, OfGen, Convex, Under, NoRows

LEMMA OwnKeeper ==
    ASSUME HoleInv, NEW d \in Conns \ Uncached, ConnStep(d)
    PROVE  KeeperInv(d)' /\ RowsInv'
<1>0. /\ ConnTypeOK /\ SelInv(d) /\ AnswerInv(d) /\ RecordInv(d) /\ BatchInv(d)
      /\ RowsInv /\ Under(DOMAIN box, uidNext)
  BY DEF HoleInv, WorldInv, SyncInv, ConnInv, KeeperInv
<1>0a. gen' = gen /\ uidNext' = uidNext /\ DOMAIN box' = DOMAIN box
  BY MailboxKept DEF HoleInv
<1>0b. /\ gen \in Nat /\ uidNext \in Nat /\ uidvalidity \in Nat \cup {NoValidity}
       /\ rows \in Headers /\ DOMAIN rows \in SUBSET Uids /\ DOMAIN box \in SUBSET Uids
  BY PlainTypes, HeadersType DEF HoleInv
<1>0c. /\ sel[d].gen \in Nat /\ sel[d].next \in Nat /\ sel[d].uids \in SUBSET Uids
       /\ limit[d] \in Nat /\ sel[d].gen <= gen
  BY <1>0, ConnTypes DEF HoleInv, SelInv
<1>0d. UNCHANGED cacheVars => RowsInv'
  BY <1>0, <1>0a DEF cacheVars, RowsInv
\* Where nothing is read off the cache or about to be written.
<1>0e. ASSUME UNCHANGED cacheVars, sel'[d].gen \in {sel[d].gen, gen},
              pc'[d] \in {"idle", "done", "empty", "validity", "add", "remove", "seen"}
       PROVE  KeeperInv(d)'
  <2>1. rows' = rows /\ uidvalidity' = uidvalidity
    BY <1>0e DEF cacheVars
  <2>2. RecordInv(d)'
    BY <1>0, <1>0b, <1>0c, <1>0e, <2>1, NoValidityAssumption DEF RecordInv, RowsInv
  <2> QED
    BY <1>0e, <2>2 DEF KeeperInv, BatchInv
<1>1. ASSUME NEW n \in Limits, Begin(d, n) PROVE KeeperInv(d)' /\ RowsInv'
  BY <1>0, <1>0d, <1>0e, <1>1 DEF ConnTypeOK, Begin, Select, Goto
<1>2. ASSUME NEW u \in Uids, NEW e \in Edits, BeginEdit(d, u, e)
      PROVE  KeeperInv(d)' /\ RowsInv'
  BY <1>0, <1>0d, <1>0e, <1>2 DEF ConnTypeOK, BeginEdit, Select, Goto
<1>3. CASE ListEmpty(d)
  <2>1. sel' = sel /\ pc'[d] = "done" /\ Write(InvalidateFolder(sel[d].gen))
    BY <1>0, <1>3 DEF ConnTypeOK, ListEmpty, Goto
  <2>2. CASE UNCHANGED cacheVars
    BY <1>0d, <1>0e, <2>1, <2>2
  <2>3. CASE InvalidateFolder(sel[d].gen)
    BY <1>0a, <1>0c, <2>1, <2>3, FlushRecord DEF KeeperInv, RecordInv, BatchInv, RowsInv
  <2> QED
    BY <2>1, <2>2, <2>3 DEF Write
<1>4. CASE ReadValidity(d)
  <2>1. /\ sel' = sel /\ UNCHANGED cacheVars
        /\ pc'[d] = IF uidvalidity = sel[d].gen THEN "count" ELSE "flush"
    BY <1>0, <1>4 DEF ConnTypeOK, ReadValidity, Goto
  <2> QED
    BY <1>0, <1>0d, <2>1 DEF cacheVars, KeeperInv, RecordInv, BatchInv
<1>5. CASE ReadCount(d)
  <2>1. sel' = sel /\ UNCHANGED cacheVars /\ pc[d] = "count" /\ pc'[d] \in {"serve", "max"}
    BY <1>0, <1>5 DEF ConnTypeOK, ReadCount, Goto
  <2> QED
    BY <1>0, <1>0d, <2>1 DEF cacheVars, KeeperInv, RecordInv, BatchInv
<1>6. CASE ReadMaxUid(d)
  <2>1. sel' = sel /\ UNCHANGED cacheVars /\ pc[d] = "max"
    BY <1>6 DEF ReadMaxUid
  <2>2. \/ rows = NoRows /\ pc'[d] = "flush"
        \/ pc'[d] = "newer" /\ IsNewest(maxUid'[d], DOMAIN rows)
    BY <1>0, <1>6 DEF ConnTypeOK, ReadMaxUid, Goto
  <2>3. rows' = rows /\ uidvalidity' = uidvalidity
    BY <2>1 DEF cacheVars
  <2> QED
    BY <1>0, <1>0d, <2>1, <2>2, <2>3 DEF KeeperInv, RecordInv, BatchInv
<1>7. CASE Flush(d)
  <2>1. /\ sel' = sel /\ pc[d] = "flush" /\ pc'[d] = "window"
        /\ Write(InvalidateFolder(sel[d].gen))
    BY <1>0, <1>7 DEF ConnTypeOK, Flush, Goto
  <2>2. CASE UNCHANGED cacheVars
    BY <1>0, <1>0d, <2>1, <2>2 DEF cacheVars, KeeperInv, RecordInv, BatchInv
  <2>3. CASE InvalidateFolder(sel[d].gen)
    BY <1>0a, <1>0c, <2>1, <2>3, FlushRecord DEF KeeperInv, RecordInv, BatchInv, RowsInv
  <2> QED
    BY <2>1, <2>2, <2>3 DEF Write
<1>8. CASE FetchWindow(d)
  <2>1. /\ sel' = sel /\ UNCHANGED cacheVars /\ pc[d] = "window" /\ pc'[d] = "store"
        /\ sel[d].gen = gen
        /\ DOMAIN got'[d] = Newest(sel[d].uids, limit[d]) \cap DOMAIN box
    BY <1>0, <1>8 DEF ConnTypeOK, FetchWindow, Goto
  <2>2. Convex(DOMAIN got'[d], DOMAIN box')
    BY <1>0, <1>0a, <1>0b, <1>0c, <2>1, WindowConvex DEF SelInv
  <2>3. Under(DOMAIN got'[d], uidNext')
    BY <1>0, <1>0a, <2>1 DEF Under
  <2>4. rows' = rows /\ uidvalidity' = uidvalidity
    BY <2>1 DEF cacheVars
  <2> QED
    BY <1>0, <1>0d, <2>1, <2>2, <2>3, <2>4 DEF KeeperInv, RecordInv, BatchInv
<1>9. CASE StoreWindow(d)
  <2>1. sel' = sel /\ pc[d] = "store" /\ pc'[d] = "done" /\ Write(UpsertAll(got[d]))
    BY <1>0, <1>9 DEF ConnTypeOK, StoreWindow, Goto
  <2>2. CASE UNCHANGED cacheVars
    BY <1>0d, <1>0e, <2>1, <2>2
  <2>3. CASE UpsertAll(got[d])
    <3>1. /\ uidvalidity' = IF uidvalidity = NoValidity THEN 0 ELSE uidvalidity
          /\ uidvalidity' # NoValidity /\ uidvalidity' <= sel[d].gen
          /\ OfGen(rows', uidvalidity') \/ uidvalidity' < sel[d].gen
          /\ DOMAIN rows' = DOMAIN rows \cup DOMAIN got[d]
      BY <1>0, <2>1, <2>3, UpsertRecord DEF AnswerInv
    <3>2. KeeperInv(d)'
      BY <2>1, <3>1 DEF KeeperInv, RecordInv, BatchInv
    <3>3. uidvalidity' \in Nat
      BY <1>0b, <3>1
    <3>4. uidvalidity' <= gen'
      BY <1>0a, <1>0b, <1>0c, <3>1, <3>3
    <3>5. ASSUME uidvalidity' = gen'
          PROVE  Convex(DOMAIN rows', DOMAIN box') /\ Under(DOMAIN rows', uidNext')
      <4>1. gen # 0
        BY ConstantTypes DEF HoleInv, WorldInv, SyncInv, MailboxTypeOK
      <4>2. uidvalidity = sel[d].gen /\ sel[d].gen = gen
        BY <1>0a, <1>0b, <1>0c, <3>1, <3>5, <4>1
      <4>3. DOMAIN rows' = DOMAIN got[d]
        BY <1>0, <2>1, <3>1, <4>2 DEF BatchInv, NoRows
      <4> QED
        BY <1>0, <1>0a, <2>1, <4>2, <4>3 DEF BatchInv
    <3> QED
      BY <3>2, <3>4, <3>5 DEF RowsInv
  <2> QED
    BY <2>1, <2>2, <2>3 DEF Write
<1>10. CASE FetchNewer(d)
  <2>1. /\ sel' = sel /\ UNCHANGED cacheVars /\ pc[d] = "newer" /\ pc'[d] = "merge"
        /\ sel[d].gen = gen
        /\ DOMAIN got'[d] = {v \in DOMAIN box : v > maxUid[d]} \cup Newest(DOMAIN box, 1)
    BY <1>0, <1>10 DEF ConnTypeOK, FetchNewer, Goto
  <2>2. uidvalidity = sel[d].gen /\ IsNewest(maxUid[d], DOMAIN rows)
    BY <1>0, <2>1 DEF RecordInv, BatchInv
  <2>3. Convex(DOMAIN rows, DOMAIN box)
    BY <1>0, <2>1, <2>2 DEF RowsInv
  <2>4. Convex(DOMAIN rows \cup DOMAIN got'[d], DOMAIN box)
    BY <1>0b, <2>1, <2>2, <2>3, NewerConvex
  <2>5. Under(DOMAIN got'[d], uidNext)
    BY <1>0, <2>1, NewestSubset DEF Under
  <2>6. rows' = rows /\ uidvalidity' = uidvalidity
    BY <2>1 DEF cacheVars
  <2>7. RecordInv(d)' /\ BatchInv(d)'
    BY <1>0, <1>0a, <2>1, <2>2, <2>4, <2>5, <2>6 DEF RecordInv, BatchInv
  <2> QED
    BY <1>0d, <2>1, <2>7 DEF KeeperInv
<1>11. CASE MergeNewer(d)
  <2>1. /\ sel' = sel /\ pc[d] = "merge" /\ pc'[d] = "serve"
        /\ UNCHANGED cacheVars \/ UpsertAll(got[d])
    BY <1>0, <1>11 DEF ConnTypeOK, MergeNewer, Goto, Write
  <2>2. uidvalidity = sel[d].gen
    BY <1>0, <2>1 DEF RecordInv
  <2>3. CASE UNCHANGED cacheVars
    BY <1>0, <1>0d, <2>1, <2>2, <2>3 DEF cacheVars, KeeperInv, RecordInv, BatchInv
  <2>4. CASE UpsertAll(got[d])
    <3>1. /\ uidvalidity' = IF uidvalidity = NoValidity THEN 0 ELSE uidvalidity
          /\ uidvalidity' # NoValidity /\ uidvalidity' <= sel[d].gen
          /\ OfGen(rows', uidvalidity') \/ uidvalidity' < sel[d].gen
          /\ DOMAIN rows' = DOMAIN rows \cup DOMAIN got[d]
      BY <1>0, <2>1, <2>4, UpsertRecord DEF AnswerInv
    <3>2. uidvalidity' = sel[d].gen
      BY <1>0c, <2>2, <3>1, NoValidityAssumption
    <3>3. KeeperInv(d)'
      BY <2>1, <3>1, <3>2 DEF KeeperInv, RecordInv, BatchInv
    <3>4. ASSUME uidvalidity' = gen'
          PROVE  Convex(DOMAIN rows', DOMAIN box') /\ Under(DOMAIN rows', uidNext')
      <4>1. sel[d].gen = gen
        BY <1>0a, <3>2, <3>4
      <4>2. Under(DOMAIN rows, uidNext)
        BY <1>0, <2>2, <4>1 DEF RowsInv
      <4> QED
        BY <1>0, <1>0a, <2>1, <3>1, <4>1, <4>2 DEF BatchInv, Under
    <3> QED
      BY <1>0a, <1>0c, <3>2, <3>3, <3>4 DEF RowsInv
  <2> QED
    BY <2>1, <2>3, <2>4
<1>12. CASE Serve(d)
  BY <1>0, <1>0d, <1>0e, <1>12 DEF ConnTypeOK, Serve, Goto
<1>13. CASE EditStep(d)
  <2>1. CASE AddFlags(d) \/ RemoveFlags(d)
    BY <1>0, <1>0d, <1>0e, <2>1 DEF ConnTypeOK, AddFlags, RemoveFlags, StoreFlags, Goto
  <2>2. ASSUME NEW flag, NEW next \in {"flagged", "idle"}, PatchColumn(d, flag, next)
        PROVE  KeeperInv(d)' /\ RowsInv'
    <3>1. sel' = sel /\ pc'[d] \in {"flagged", "idle"}
      BY <1>0, <2>2 DEF ConnTypeOK, PatchColumn, Goto
    <3>2. /\ DOMAIN rows' = DOMAIN rows /\ uidvalidity' = uidvalidity
          /\ \A v \in DOMAIN rows : rows'[v].gen = rows[v].gen
      <4>1. CASE UNCHANGED cacheVars
        BY <4>1 DEF cacheVars
      <4>2. CASE /\ flag \in edit[d].add \cup edit[d].remove
                 /\ PatchFlag(edit[d].uid, flag, flag \in edit[d].add)
        <5>1. edit[d].uid \in Uids \cup {0} /\ flag \in Flags
          BY <1>0, <4>2 DEF ConnTypeOK
        <5>2. (flag \in edit[d].add) \in BOOLEAN
          OBVIOUS
        <5>3. UNCHANGED uidvalidity
          BY <4>2 DEF PatchFlag
        <5> QED
          BY <1>0b, <4>2, <5>1, <5>2, <5>3, PatchType
      <4> QED
        BY <2>2, <4>1, <4>2 DEF PatchColumn, Write
    <3>3. RecordInv(d)'
      BY <1>0, <3>1, <3>2 DEF RecordInv, OfGen
    <3>4. RowsInv'
      BY <1>0, <1>0a, <3>2 DEF RowsInv
    <3> QED
      BY <3>1, <3>3, <3>4 DEF KeeperInv, BatchInv
  <2> QED
    BY <1>13, <2>1, <2>2 DEF EditStep, PatchSeen, PatchFlagged
<1>14. CASE Refused(d) \/ Abort(d)
  BY <1>0, <1>0d, <1>0e, <1>14 DEF ConnTypeOK, Refused, Abort, Goto
<1> QED
  BY <1>1, <1>2, <1>3, <1>4, <1>5, <1>6, <1>7, <1>8, <1>9, <1>10, <1>11, <1>12, <1>13, <1>14
     DEF ConnStep, ListStep

(* A step of another connection: it leaves the cache alone, or there would   *)
(* be two on it.                                                             *)
LEMMA OtherConn ==
    ASSUME HoleInv, NEW d \in Conns, ConnStep(d), NEW c \in Conns, c # d
    PROVE  ConnInv(c)'
<1>1. /\ pc'[c] = pc[c] /\ sel'[c] = sel[c] /\ got'[c] = got[c] /\ result'[c] = result[c]
      /\ gen' = gen /\ uidNext' = uidNext /\ DOMAIN box' = DOMAIN box
  BY OthersKept, MailboxKept DEF HoleInv
<1>2. Direct(c) /\ SelInv(c) /\ AnswerInv(c)
  BY DEF HoleInv, ConnInv
<1> QED
  BY <1>1, <1>2 DEF ConnInv, Direct, SelInv, AnswerInv

LEMMA OtherKeeper ==
    ASSUME HoleInv, OneCached, NEW d \in Conns, ConnStep(d), NEW c \in Conns \ Uncached, c # d
    PROVE  KeeperInv(c)'
<1>1. /\ pc'[c] = pc[c] /\ sel'[c] = sel[c] /\ got'[c] = got[c] /\ maxUid'[c] = maxUid[c]
      /\ gen' = gen /\ uidNext' = uidNext /\ DOMAIN box' = DOMAIN box
  BY OthersKept, MailboxKept DEF HoleInv
<1>2. UNCHANGED cacheVars
  BY CacheUntouched DEF OneCached, HoleInv, ConnInv
<1>3. RecordInv(c) /\ BatchInv(c)
  BY DEF HoleInv, KeeperInv
<1>4. rows' = rows /\ uidvalidity' = uidvalidity
  BY <1>2 DEF cacheVars
<1> QED
  BY <1>1, <1>3, <1>4 DEF KeeperInv, RecordInv, BatchInv

LEMMA HoleInductive == OneCached /\ HoleInv /\ [Next]_vars => HoleInv'
<1> SUFFICES ASSUME OneCached, HoleInv, [Next]_vars PROVE HoleInv'
  OBVIOUS
<1>0. WorldInv'
  BY SyncInductive DEF HoleInv
<1>1. CASE Mailbox
  BY <1>0, <1>1, MailboxHole
<1>2. ASSUME NEW d \in Conns, ConnStep(d) PROVE HoleInv'
  <2>1. Under(DOMAIN box, uidNext)'
    BY <1>2, MailboxKept DEF HoleInv
  <2>2. \A c \in Conns : ConnInv(c)'
    BY <1>2, OwnConn, OtherConn
  <2>3. \A c \in Conns \ Uncached : KeeperInv(c)'
    BY <1>2, OwnKeeper, OtherKeeper
  <2>4. RowsInv'
    <3>1. CASE d \in Uncached
      <4>1. UNCHANGED cacheVars
        BY <1>2, <3>1, CacheUntouched DEF HoleInv, ConnInv
      <4>2. gen' = gen /\ uidNext' = uidNext /\ DOMAIN box' = DOMAIN box
        BY <1>2, MailboxKept DEF HoleInv
      <4> QED
        BY <4>1, <4>2 DEF HoleInv, RowsInv, cacheVars
    <3>2. CASE d \notin Uncached
      BY <1>2, <3>2, OwnKeeper
    <3> QED
      BY <3>1, <3>2
  <2> QED
    BY <1>0, <2>1, <2>2, <2>3, <2>4 DEF HoleInv
<1>3. CASE UNCHANGED vars
  BY <1>0, <1>3
     DEF vars, cacheVars, mailbox, connVars, HoleInv, RowsInv, ConnInv, Direct, SelInv,
         AnswerInv, KeeperInv, RecordInv, BatchInv
<1>4. CASE Next
  <2>1. CASE \E c \in Conns : BeginAny(c)
    BY <1>2, <2>1 DEF BeginAny, ConnStep
  <2>2. CASE \E c \in Conns, u \in Uids, e \in Edits : BeginEdit(c, u, e)
    BY <1>2, <2>2 DEF ConnStep
  <2>3. CASE \E c \in Conns : ListStep(c) \/ EditStep(c) \/ Refused(c) \/ Abort(c)
    BY <1>2, <2>3 DEF ConnStep
  <2> QED
    BY <1>1, <1>4, <2>1, <2>2, <2>3 DEF Next, Step
<1> QED
  BY <1>3, <1>4

(* With one connection on the cache, a list never shows headers of an        *)
(* incarnation of the mailbox other than the one it selected, whichever      *)
(* flushes and writes fail, wherever calls are cut short and whenever the    *)
(* mailbox is made anew.                                                     *)
THEOREM SyncListed == OneCached => (Spec => []ListedOfSelected)
<1> SUFFICES ASSUME OneCached PROVE Spec => []ListedOfSelected
  OBVIOUS
<1>1. HoleInv => ListedOfSelected
  BY DEF HoleInv, ConnInv, AnswerInv, OfGen, ListedOfSelected, Done, Listed
<1>2. HoleInv /\ [Next]_vars => HoleInv'
  BY HoleInductive
<1> QED
  BY <1>1, <1>2, InitHole, PTL DEF Spec

(* With one connection on the cache it has no hole, so that everything above *)
(* the highest cached UID is all that it lacks of the newer messages.        *)
THEOREM SyncNoHole == OneCached => (Spec => []NoHole)
<1> SUFFICES ASSUME OneCached PROVE Spec => []NoHole
  OBVIOUS
<1>1. HoleInv => NoHole
  BY DEF HoleInv, RowsInv, Convex, NoHole
<1>2. HoleInv /\ [Next]_vars => HoleInv'
  BY HoleInductive
<1> QED
  BY <1>1, <1>2, InitHole, PTL DEF Spec

-----------------------------------------------------------------------------
(* Flags.  Those on record agree with the server's where nothing goes wrong  *)
(* and nobody else edits them; an edit under way is the one exception, by    *)
(* what it has done of its two commands and its two statements.              *)

(* Edits come from connections that write them to the cache; one that does   *)
(* not is another client of the mailbox to the cache.                        *)
CachedEdits == \A w \in Worlds : w.edits = {} \/ w.conns \cap Uncached = {}

EditorInv(c) ==
    pc[c] \in {"add", "remove", "seen", "flagged"} =>
        c \notin Uncached /\ edit[c].add \cap edit[c].remove = {}

(* Cached headers are of messages that were there, of an incarnation already *)
(* selected.                                                                 *)
KnownInv ==
    \A u \in DOMAIN rows :
        /\ rows[u].gen <= gen
        /\ rows[u].gen = gen => u < uidNext
        /\ \A c \in Conns \ Uncached : rows[u].gen <= sel[c].gen

(* The server has heard of c's edit of u, the cache not yet in full; and what *)
(* it has heard accounts for a row with the flags f.                         *)
Editing(c, u) == u = edit[c].uid /\ pc[c] \in {"remove", "seen", "flagged"}

Pending(c, u, f) ==
    /\ box[u] = IF pc[c] = "remove" THEN f \cup edit[c].add
                                   ELSE (f \cup edit[c].add) \ edit[c].remove
    /\ pc[c] = "flagged" => ("seen" \in box[u] <=> "seen" \in f)

Undisturbed == Faults = {} /\ "flag" \notin MailboxOps

Agrees(heads, u) == heads[u].gen = gen => heads[u].flags = box[u]

RowFlagsInv ==
    \A u \in DOMAIN rows \cap DOMAIN box :
        /\ (\A c \in Conns \ Uncached : ~Editing(c, u)) => Agrees(rows, u)
        /\ \A c \in Conns \ Uncached :
              Editing(c, u) /\ rows[u].gen = gen => Pending(c, u, rows[u].flags)

BatchFlagsInv(c) ==
    pc[c] \in {"store", "merge"} =>
        \A u \in DOMAIN got[c] \cap DOMAIN box : Agrees(got[c], u)

FlagsInv ==
    /\ HoleInv
    /\ \A c \in Conns : EditorInv(c)
    /\ KnownInv
    /\ Undisturbed =>
        RowFlagsInv /\ \A c \in Conns \ Uncached : BatchFlagsInv(c)

LEMMA InitFlags == Init => FlagsInv
<1>1. DOMAIN NoRows = {}
  BY DEF NoRows
<1> QED
  BY <1>1, InitHole
     DEF Init, CacheInit, EmptyCache, FlagsInv, EditorInv, KnownInv, RowFlagsInv, BatchFlagsInv

(* What the rows hold are headers, with flags among the columns. *)
LEMMA RowTypes ==
    ASSUME WorldInv, NEW u \in DOMAIN rows
    PROVE  /\ u \in Uids /\ u \in Nat
           /\ rows[u].gen \in Nat /\ rows[u].flags \subseteq {"seen", "flagged"}
<1>1. rows \in [DOMAIN rows -> Envelope] /\ DOMAIN rows \subseteq Uids
  BY PlainTypes, HeadersType
<1>2. rows[u] \in Envelope
  BY <1>1
<1>3. rows[u].gen \in Gens /\ rows[u].flags \subseteq Flags
  BY <1>2 DEF Envelope
<1> QED
  BY <1>1, <1>3, ConstantTypes, FlagsAssumption

-----------------------------------------------------------------------------
(* Steps of the mailbox. *)

LEMMA MailboxFlags ==
    ASSUME FlagsInv, HoleInv', Mailbox, UNCHANGED world
    PROVE  FlagsInv'
<1>0. /\ gen \in Nat /\ uidNext \in Nat /\ DOMAIN box \subseteq Nat /\ gen' \in Nat
      /\ WorldInv
  <2>1. WorldInv /\ gen' \in Gens
    BY DEF FlagsInv, HoleInv, WorldInv, SyncInv, MailboxTypeOK
  <2>2. gen' \in Nat
    BY <2>1, ConstantTypes
  <2> QED
    BY <2>1, <2>2, PlainTypes
<1>1. MailboxMoves
  BY MailboxOnlyMoves DEF FlagsInv, HoleInv
<1>2. UNCHANGED cacheVars /\ UNCHANGED connVars
  BY DEF Mailbox, Deliver, Expunge, Reflag, Recreate
<1>2a. /\ rows' = rows /\ pc' = pc /\ sel' = sel /\ got' = got /\ edit' = edit
       /\ Undisturbed' = Undisturbed
  BY <1>2 DEF cacheVars, connVars, Undisturbed, Faults, MailboxOps
<1>3. ASSUME NEW c \in Conns PROVE EditorInv(c)'
  BY <1>2a DEF FlagsInv, EditorInv
<1>4. KnownInv'
  <2> SUFFICES ASSUME NEW u \in DOMAIN rows
               PROVE  /\ rows[u].gen <= gen'
                      /\ rows[u].gen = gen' => u < uidNext'
                      /\ \A c \in Conns \ Uncached : rows[u].gen <= sel[c].gen
    BY <1>2a DEF KnownInv
  <2>1. /\ rows[u].gen \in Nat /\ u \in Nat /\ uidNext' \in Nat
    <3>1. uidNext' \in 1..(MaxUid + 1)
      BY DEF HoleInv, WorldInv, SyncInv, MailboxTypeOK
    <3>2. uidNext' \in Nat
      BY <3>1, BoundsAssumption
    <3> QED
      BY <1>0, <3>2, RowTypes
  <2>2. /\ rows[u].gen <= gen
        /\ rows[u].gen = gen => u < uidNext
        /\ \A c \in Conns \ Uncached : rows[u].gen <= sel[c].gen
    BY DEF FlagsInv, KnownInv
  <2> QED
    BY <1>0, <1>1, <2>1, <2>2 DEF MailboxMoves
\* A message that is there, of a header of this incarnation, was there before.
<1>5. ASSUME Undisturbed, NEW u \in DOMAIN box', gen' = gen, u < uidNext
      PROVE  u \in DOMAIN box /\ box'[u] = box[u]
  <2>1. CASE Deliver
    BY <1>0, <1>5, <2>1 DEF Deliver
  <2>2. ASSUME NEW v \in Uids, Expunge(v) PROVE u \in DOMAIN box /\ box'[u] = box[u]
    BY <1>5, <2>2 DEF Expunge
  <2>3. ASSUME NEW v \in Uids, NEW f \in Flags, Reflag(v, f) PROVE FALSE
    BY <1>5, <2>3 DEF Reflag, Undisturbed
  <2>4. CASE Recreate
    BY <1>0, <1>5, <2>4 DEF Recreate
  <2> QED
    BY <2>1, <2>2, <2>3, <2>4 DEF Mailbox
<1>5a. gen' >= gen
  BY <1>0, <1>1 DEF MailboxMoves
<1>6. ASSUME Undisturbed PROVE RowFlagsInv'
  <2> SUFFICES ASSUME NEW u \in DOMAIN rows \cap DOMAIN box', rows[u].gen = gen'
               PROVE  /\ (\A c \in Conns \ Uncached : ~Editing(c, u)') => rows[u].flags = box'[u]
                      /\ \A c \in Conns \ Uncached :
                            Editing(c, u)' => Pending(c, u, rows[u].flags)'
    BY <1>2a DEF RowFlagsInv, Agrees
  <2>1. gen' = gen /\ u < uidNext
    <3>1. rows[u].gen <= gen /\ (rows[u].gen = gen => u < uidNext)
      BY DEF FlagsInv, KnownInv
    <3> QED
      BY <1>0, <1>5a, <3>1
  <2>2. u \in DOMAIN box /\ box'[u] = box[u]
    BY <1>5, <1>6, <2>1
  <2>3. /\ (\A c \in Conns \ Uncached : ~Editing(c, u)) => rows[u].flags = box[u]
        /\ \A c \in Conns \ Uncached : Editing(c, u) => Pending(c, u, rows[u].flags)
    BY <1>6, <2>1, <2>2 DEF FlagsInv, RowFlagsInv, Agrees
  <2> QED
    BY <1>2a, <2>2, <2>3 DEF Editing, Pending
<1>7. ASSUME Undisturbed, NEW c \in Conns \ Uncached PROVE BatchFlagsInv(c)'
  <2> SUFFICES ASSUME pc[c] \in {"store", "merge"}, NEW u \in DOMAIN got[c] \cap DOMAIN box',
                      got[c][u].gen = gen'
               PROVE  got[c][u].flags = box'[u]
    BY <1>2a DEF BatchFlagsInv, Agrees
  <2>1. sel[c].gen = gen' /\ sel[c].gen <= gen /\ sel[c].gen \in Nat
    BY <1>0, ConnTypes DEF FlagsInv, HoleInv, ConnInv, SelInv, AnswerInv, OfGen
  <2>2. gen' = gen
    BY <1>0, <1>5a, <2>1
  <2>3. u < uidNext
    BY <2>1, <2>2 DEF FlagsInv, HoleInv, KeeperInv, BatchInv, Under
  <2> QED
    BY <1>5, <1>7, <2>2, <2>3 DEF FlagsInv, BatchFlagsInv, Agrees
<1> QED
  BY <1>2a, <1>3, <1>4, <1>6, <1>7 DEF FlagsInv

-----------------------------------------------------------------------------
(* Steps of a connection. *)

(* The flags f of a row after the statement for one column. *)
Patched(f, e, flag) ==
    IF flag \notin e.add \cup e.remove THEN f
    ELSE IF flag \in e.add THEN f \cup {flag} ELSE f \ {flag}

(* That column then says what the edit made of it, and the edit would make   *)
(* nothing else of the row than it did.                                      *)
LEMMA PatchedSet ==
    ASSUME NEW f, NEW e, NEW flag, e.add \cap e.remove = {}
    PROVE  LET g == Patched(f, e, flag)
           IN  /\ (g \cup e.add) \ e.remove = (f \cup e.add) \ e.remove
               /\ flag \in (f \cup e.add) \ e.remove <=> flag \in g
               /\ \A x : x # flag => (x \in g <=> x \in f)
BY DEF Patched

LEMMA PatchedRows ==
    ASSUME WorldInv, Undisturbed, NEW d \in Conns \ Uncached, NEW flag, NEW next,
           PatchColumn(d, flag, next)
    PROVE  /\ DOMAIN rows' = DOMAIN rows
           /\ \A v \in DOMAIN rows :
                 /\ rows'[v].gen = rows[v].gen
                 /\ rows'[v].flags = IF v = edit[d].uid
                                     THEN Patched(rows[v].flags, edit[d], flag)
                                     ELSE rows[v].flags
<1>0. rows \in [DOMAIN rows -> Envelope]
  BY PlainTypes, HeadersType
<1>1. CASE flag \in edit[d].add \cup edit[d].remove
  <2>1. PatchFlag(edit[d].uid, flag, flag \in edit[d].add)
    BY <1>1 DEF PatchColumn, Write, Fault, Undisturbed
  <2>2. rows' = [v \in DOMAIN rows |->
                    IF v # edit[d].uid THEN rows[v]
                    ELSE [rows[v] EXCEPT !.flags = IF flag \in edit[d].add THEN @ \cup {flag}
                                                                         ELSE @ \ {flag}]]
    BY <2>1 DEF PatchFlag
  <2>3. ASSUME NEW v \in DOMAIN rows
        PROVE  /\ rows'[v].gen = rows[v].gen
               /\ rows'[v].flags = IF v = edit[d].uid
                                   THEN Patched(rows[v].flags, edit[d], flag)
                                   ELSE rows[v].flags
    <3>1. rows[v] \in Envelope
      BY <1>0
    <3>2. CASE v = edit[d].uid
      BY <1>1, <2>2, <3>1, <3>2 DEF Envelope, Patched
    <3>3. CASE v # edit[d].uid
      BY <2>2, <3>3
    <3> QED
      BY <3>2, <3>3
  <2> QED
    BY <2>2, <2>3
<1>2. CASE flag \notin edit[d].add \cup edit[d].remove
  <2>1. rows' = rows
    BY <1>2 DEF PatchColumn, cacheVars
  <2> QED
    BY <1>2, <2>1 DEF Patched
<1> QED
  BY <1>1, <1>2

(* Only an edit changes the server's flags. *)
LEMMA BoxKept ==
    ASSUME NEW d, ConnStep(d), ~AddFlags(d), ~RemoveFlags(d)
    PROVE  box' = box
<1>1. CASE EditStep(d)
  BY <1>1 DEF EditStep, PatchSeen, PatchFlagged, PatchColumn, mailbox
<1>2. CASE ListStep(d)
  BY <1>2
     DEF ListStep, ListEmpty, ReadValidity, ReadCount, ReadMaxUid, Flush, FetchWindow,
         StoreWindow, FetchNewer, MergeNewer, Serve, mailbox
<1>3. CASE Refused(d) \/ Abort(d)
  BY <1>3 DEF Refused, Abort, mailbox
<1>4. CASE \E n \in Limits : Begin(d, n)
  BY <1>4 DEF Begin, mailbox
<1>5. CASE \E u \in Uids, e \in Edits : BeginEdit(d, u, e)
  BY <1>5 DEF BeginEdit, mailbox
<1> QED
  BY <1>1, <1>2, <1>3, <1>4, <1>5 DEF ConnStep

LEMMA EditorStep ==
    ASSUME FlagsInv, CachedEdits, NEW d \in Conns, ConnStep(d)
    PROVE  EditorInv(d)'
<1>0. ConnTypeOK /\ EditorInv(d) /\ world \in Worlds
  BY DEF FlagsInv, HoleInv, WorldInv, SyncInv
<1>1. ASSUME NEW n \in Limits, Begin(d, n) PROVE EditorInv(d)'
  BY <1>0, <1>1 DEF ConnTypeOK, Begin, Goto, EditorInv
<1>2. ASSUME NEW u \in Uids, NEW e \in Edits, BeginEdit(d, u, e) PROVE EditorInv(d)'
  <2>1. d \notin Uncached
    BY <1>0, <1>2 DEF BeginEdit, CachedEdits, Edits
  <2>2. edit'[d].add = e.add /\ edit'[d].remove = e.remove
    BY <1>0, <1>2 DEF ConnTypeOK, BeginEdit
  <2>3. e.add \cap e.remove = {}
    BY <1>0, EditsAssumption DEF Edits
  <2> QED
    BY <2>1, <2>2, <2>3 DEF EditorInv
<1>3. CASE ListStep(d)
  <2>1. pc'[d] \notin {"add", "remove", "seen", "flagged"}
    <3>1. CASE ListEmpty(d) \/ Flush(d) \/ StoreWindow(d) \/ MergeNewer(d)
      BY <1>0, <3>1 DEF ConnTypeOK, ListEmpty, Flush, StoreWindow, MergeNewer, Goto
    <3>2. CASE ReadValidity(d) \/ ReadCount(d) \/ ReadMaxUid(d)
      BY <1>0, <3>2 DEF ConnTypeOK, ReadValidity, ReadCount, ReadMaxUid, Goto
    <3>3. CASE FetchWindow(d) \/ FetchNewer(d) \/ Serve(d)
      BY <1>0, <3>3 DEF ConnTypeOK, FetchWindow, FetchNewer, Serve, Goto
    <3> QED
      BY <1>3, <3>1, <3>2, <3>3 DEF ListStep
  <2> QED
    BY <2>1 DEF EditorInv
<1>4. CASE EditStep(d)
  <2>1. pc[d] \in {"add", "remove", "seen", "flagged"} /\ UNCHANGED edit
    BY <1>4
       DEF EditStep, AddFlags, RemoveFlags, StoreFlags, PatchSeen, PatchFlagged, PatchColumn
  <2> QED
    BY <1>0, <2>1 DEF EditorInv
<1>5. CASE Refused(d) \/ Abort(d)
  BY <1>0, <1>5 DEF ConnTypeOK, Refused, Abort, Goto, EditorInv
<1> QED
  BY <1>1, <1>2, <1>3, <1>4, <1>5 DEF ConnStep

(* What a step of a connection may do to the cached headers: keep, drop or   *)
(* patch some, and store those the server sent.                              *)
LEMMA RowsFrom ==
    ASSUME FlagsInv, NEW d \in Conns \ Uncached, ConnStep(d)
    PROVE  \A u \in DOMAIN rows' :
               \/ u \in DOMAIN rows /\ rows'[u].gen = rows[u].gen
               \/ /\ pc[d] \in {"store", "merge"} /\ sel' = sel
                  /\ u \in DOMAIN got[d] /\ rows'[u] = got[d][u]
<1>0. WorldInv /\ ConnTypeOK
  BY DEF FlagsInv, HoleInv, WorldInv, SyncInv
<1>1. CASE UNCHANGED cacheVars
  BY <1>1 DEF cacheVars
<1>2. CASE InvalidateFolder(sel[d].gen)
  BY <1>2 DEF InvalidateFolder, NoRows
<1>3. CASE UpsertAll(got[d]) /\ pc[d] \in {"store", "merge"} /\ sel' = sel
  <2>1. rows \in Headers /\ got[d] \in Headers
    BY <1>0, PlainTypes, ConnTypes
  <2> QED
    BY <1>3, <2>1, UpsertType
<1>4. ASSUME NEW flag, flag \in edit[d].add \cup edit[d].remove,
             PatchFlag(edit[d].uid, flag, flag \in edit[d].add)
      PROVE  DOMAIN rows' = DOMAIN rows /\ \A u \in DOMAIN rows : rows'[u].gen = rows[u].gen
  <2>1. edit[d].uid \in Uids \cup {0} /\ flag \in Flags /\ rows \in Headers
    BY <1>0, <1>4, PlainTypes DEF ConnTypeOK
  <2>2. (flag \in edit[d].add) \in BOOLEAN
    OBVIOUS
  <2> QED
    BY <1>4, <2>1, <2>2, PatchType
<1>5. CASE ListStep(d)
  <2>1. CASE ListEmpty(d) \/ Flush(d)
    BY <1>1, <1>2, <2>1 DEF ListEmpty, Flush, Write
  <2>2. CASE StoreWindow(d) \/ MergeNewer(d)
    BY <1>1, <1>3, <2>2 DEF StoreWindow, MergeNewer, Write
  <2>3. CASE ReadValidity(d) \/ ReadCount(d) \/ ReadMaxUid(d) \/ FetchWindow(d)
             \/ FetchNewer(d) \/ Serve(d)
    BY <1>1, <2>3 DEF ReadValidity, ReadCount, ReadMaxUid, FetchWindow, FetchNewer, Serve
  <2> QED
    BY <1>5, <2>1, <2>2, <2>3 DEF ListStep
<1>6. CASE EditStep(d)
  BY <1>1, <1>4, <1>6
     DEF EditStep, AddFlags, RemoveFlags, StoreFlags, PatchSeen, PatchFlagged, PatchColumn, Write
<1>7. CASE Refused(d) \/ Abort(d)
  BY <1>1, <1>7 DEF Refused, Abort
<1>8. CASE (\E n \in Limits : Begin(d, n)) \/ (\E u \in Uids, e \in Edits : BeginEdit(d, u, e))
  BY <1>1, <1>8 DEF Begin, BeginEdit
<1> QED
  BY <1>5, <1>6, <1>7, <1>8 DEF ConnStep

LEMMA KnownStep ==
    ASSUME FlagsInv, OneCached, NEW d \in Conns \ Uncached, ConnStep(d)
    PROVE  KnownInv'
<1>0. /\ ConnTypeOK /\ SelInv(d) /\ AnswerInv(d) /\ BatchInv(d) /\ KnownInv
      /\ gen' = gen /\ uidNext' = uidNext
  BY MailboxKept DEF FlagsInv, HoleInv, WorldInv, SyncInv, ConnInv, KeeperInv
<1>1. gen \in Nat /\ sel[d].gen \in Nat /\ sel[d].gen <= gen
  BY <1>0, PlainTypes, ConnTypes DEF FlagsInv, HoleInv, SelInv
<1>2. sel'[d].gen \in {sel[d].gen, gen}
  <2>1. CASE \E n \in Limits : Begin(d, n)
    BY <1>0, <2>1 DEF ConnTypeOK, Begin, Select
  <2>2. CASE \E u \in Uids, e \in Edits : BeginEdit(d, u, e)
    BY <1>0, <2>2 DEF ConnTypeOK, BeginEdit, Select
  <2>3. CASE ListStep(d)
    BY <2>3
       DEF ListStep, ListEmpty, ReadValidity, ReadCount, ReadMaxUid, Flush, FetchWindow,
           StoreWindow, FetchNewer, MergeNewer, Serve
  <2>4. CASE EditStep(d)
    BY <2>4
       DEF EditStep, AddFlags, RemoveFlags, StoreFlags, PatchSeen, PatchFlagged, PatchColumn
  <2>5. CASE Refused(d) \/ Abort(d)
    BY <2>5 DEF Refused, Abort
  <2> QED
    BY <2>1, <2>2, <2>3, <2>4, <2>5 DEF ConnStep
<1>3. ASSUME NEW u \in DOMAIN rows'
      PROVE  /\ rows'[u].gen <= gen
             /\ rows'[u].gen = gen => u < uidNext
             /\ rows'[u].gen <= sel'[d].gen
  <2>1. CASE u \in DOMAIN rows /\ rows'[u].gen = rows[u].gen
    <3>1. /\ rows[u].gen \in Nat /\ rows[u].gen <= gen /\ rows[u].gen <= sel[d].gen
          /\ rows[u].gen = gen => u < uidNext
      BY <1>0, <2>1, RowTypes DEF KnownInv, FlagsInv, HoleInv
    <3> QED
      BY <1>1, <1>2, <2>1, <3>1
  <2>2. CASE /\ pc[d] \in {"store", "merge"} /\ sel' = sel
             /\ u \in DOMAIN got[d] /\ rows'[u] = got[d][u]
    <3>1. rows'[u].gen = sel[d].gen
      BY <1>0, <2>2 DEF AnswerInv, OfGen
    <3>2. sel[d].gen = gen => u < uidNext
      BY <1>0, <2>2 DEF BatchInv, Under
    <3> QED
      BY <1>1, <2>2, <3>1, <3>2
  <2> QED
    BY <2>1, <2>2, RowsFrom
<1>4. \A c \in Conns \ Uncached : c = d
  BY DEF OneCached
<1> QED
  BY <1>0, <1>3, <1>4 DEF KnownInv

(* The connection on the cache keeps what its rows say of the flags.         *)
LEMMA OwnFlags ==
    ASSUME FlagsInv, OneCached, NEW d \in Conns \ Uncached, ConnStep(d), Undisturbed
    PROVE  RowFlagsInv' /\ BatchFlagsInv(d)'
<1>0. /\ WorldInv /\ ConnTypeOK /\ SelInv(d) /\ AnswerInv(d) /\ KnownInv /\ EditorInv(d)
      /\ RowFlagsInv /\ BatchFlagsInv(d)
      /\ gen' = gen /\ DOMAIN box' = DOMAIN box
  BY MailboxKept DEF FlagsInv, HoleInv, WorldInv, SyncInv, ConnInv
<1>1. gen \in Nat /\ sel[d].gen \in Nat /\ rows \in Headers /\ got[d] \in Headers
  BY <1>0, PlainTypes, ConnTypes
<1>2. ASSUME NEW u \in DOMAIN rows \cap DOMAIN box
      PROVE  /\ ~Editing(d, u) => Agrees(rows, u)
             /\ Editing(d, u) /\ rows[u].gen = gen => Pending(d, u, rows[u].flags)
  BY <1>0 DEF RowFlagsInv, OneCached
<1>2a. ASSUME DOMAIN rows' = DOMAIN rows,
              \A u \in DOMAIN rows \cap DOMAIN box :
                  /\ ~Editing(d, u)' => Agrees(rows, u)'
                  /\ Editing(d, u)' /\ rows'[u].gen = gen => Pending(d, u, rows[u].flags)'
       PROVE  RowFlagsInv'
  BY <1>0, <1>2a DEF RowFlagsInv, OneCached
<1>3. ASSUME pc[d] \notin {"remove", "seen", "flagged"}, NEW u \in DOMAIN rows \cap DOMAIN box
      PROVE  Agrees(rows, u)
  BY <1>2, <1>3 DEF Editing
\* Where neither the cache nor the server's flags change and no edit ends.
<1>4. ASSUME UNCHANGED cacheVars, box' = box, pc[d] \notin {"remove", "seen", "flagged"},
             pc'[d] \notin {"remove", "seen", "flagged"}
      PROVE  RowFlagsInv'
  BY <1>0, <1>2a, <1>3, <1>4 DEF cacheVars, Agrees, Editing
<1>5. pc'[d] \notin {"store", "merge"} => BatchFlagsInv(d)'
  BY DEF BatchFlagsInv
<1>6. CASE (\E n \in Limits : Begin(d, n)) \/ (\E u \in Uids, e \in Edits : BeginEdit(d, u, e))
  <2>1. /\ pc'[d] \in {"empty", "window", "validity", "add"} /\ UNCHANGED cacheVars /\ box' = box
        /\ pc[d] \in {"idle", "done"}
    BY <1>0, <1>6 DEF ConnTypeOK, Begin, BeginEdit, Goto, mailbox
  <2> QED
    BY <1>4, <1>5, <2>1
<1>7. CASE ListEmpty(d) \/ Flush(d)
  <2>1. /\ pc'[d] \notin {"store", "merge"} /\ box' = box
        /\ pc[d] \in {"empty", "flush"}
        /\ InvalidateFolder(sel[d].gen)
    BY <1>0, <1>7 DEF ConnTypeOK, ListEmpty, Flush, Goto, mailbox, Write, Fault, Undisturbed
  <2>2. DOMAIN rows' = {}
    BY <2>1 DEF InvalidateFolder, NoRows
  <2> QED
    BY <1>5, <2>1, <2>2 DEF RowFlagsInv
<1>8. CASE ReadValidity(d) \/ ReadCount(d) \/ ReadMaxUid(d)
  <2>1. /\ pc'[d] \in {"count", "flush", "serve", "max", "newer"} /\ UNCHANGED cacheVars
        /\ box' = box /\ pc[d] \in {"validity", "count", "max"}
    BY <1>0, <1>8 DEF ConnTypeOK, ReadValidity, ReadCount, ReadMaxUid, Goto, mailbox
  <2> QED
    BY <1>4, <1>5, <2>1
<1>9. CASE FetchWindow(d) \/ FetchNewer(d)
  <2>1. /\ UNCHANGED cacheVars /\ box' = box /\ pc[d] \in {"window", "newer"}
        /\ pc'[d] \in {"store", "merge"}
    BY <1>0, <1>9 DEF ConnTypeOK, FetchWindow, FetchNewer, Goto, mailbox
  <2>2. \A u \in DOMAIN got'[d] : got'[d][u].flags = box[u]
    BY <1>0, <1>9 DEF ConnTypeOK, FetchWindow, FetchNewer, Header
  <2>3. BatchFlagsInv(d)'
    BY <2>1, <2>2 DEF BatchFlagsInv, Agrees
  <2> QED
    BY <1>4, <2>1, <2>3
<1>10. CASE StoreWindow(d) \/ MergeNewer(d)
  <2>1. /\ pc'[d] \in {"done", "serve"} /\ box' = box /\ pc[d] \in {"store", "merge"}
        /\ UNCHANGED cacheVars \/ UpsertAll(got[d])
    BY <1>0, <1>10 DEF ConnTypeOK, StoreWindow, MergeNewer, Goto, mailbox, Write
  <2>2. CASE UpsertAll(got[d])
    <3>1. /\ DOMAIN rows' = DOMAIN rows \cup DOMAIN got[d]
          /\ \A u \in DOMAIN got[d] : rows'[u] = got[d][u]
          /\ \A u \in DOMAIN rows \ DOMAIN got[d] : rows'[u] = rows[u]
      BY <1>1, <2>2, UpsertType
    <3>2. \A u \in DOMAIN got[d] \cap DOMAIN box : Agrees(got[d], u)
      BY <1>0, <2>1 DEF BatchFlagsInv
    <3>3. \A u \in DOMAIN rows \cap DOMAIN box : Agrees(rows, u)
      BY <1>3, <2>1
    <3>4. RowFlagsInv'
      <4> SUFFICES ASSUME NEW u \in DOMAIN rows' \cap DOMAIN box
                   PROVE  Agrees(rows, u)' /\ ~Editing(d, u)'
        BY <1>0 DEF RowFlagsInv, OneCached
      <4> QED
        BY <1>0, <2>1, <3>1, <3>2, <3>3 DEF Agrees, Editing
    <3> QED
      BY <1>5, <2>1, <3>4
  <2> QED
    BY <1>4, <1>5, <2>1, <2>2
<1>11. CASE Serve(d)
  <2>1. /\ pc'[d] = "done" /\ UNCHANGED cacheVars /\ box' = box /\ pc[d] = "serve"
    BY <1>0, <1>11 DEF ConnTypeOK, Serve, Goto, mailbox
  <2> QED
    BY <1>4, <1>5, <2>1
<1>12. CASE AddFlags(d)
  <2>1. /\ pc[d] = "add" /\ pc'[d] = "remove" /\ UNCHANGED cacheVars /\ edit' = edit
        /\ \A u \in DOMAIN box : box'[u] = IF u = edit[d].uid THEN box[u] \cup edit[d].add
                                                              ELSE box[u]
    BY <1>0, <1>12, BoxType
       DEF ConnTypeOK, AddFlags, StoreFlags, Goto, WorldInv, SyncInv, MailboxTypeOK
  <2>2. \A u \in DOMAIN rows \cap DOMAIN box : Agrees(rows, u)
    BY <1>3, <2>1
  <2>3. rows' = rows
    BY <2>1 DEF cacheVars
  <2>4. RowFlagsInv'
    <3> SUFFICES ASSUME NEW u \in DOMAIN rows \cap DOMAIN box, rows[u].gen = gen
                 PROVE  /\ ~Editing(d, u)' => rows[u].flags = box'[u]
                        /\ Editing(d, u)' => Pending(d, u, rows[u].flags)'
      BY <1>0, <1>2a, <2>3 DEF Agrees
    <3> QED
      BY <2>1, <2>2, <2>3 DEF Editing, Pending, Agrees
  <2> QED
    BY <1>5, <2>1, <2>4
<1>13. CASE RemoveFlags(d)
  <2>1. /\ pc[d] = "remove" /\ pc'[d] = "seen" /\ UNCHANGED cacheVars /\ edit' = edit
        /\ \A u \in DOMAIN box : box'[u] = IF u = edit[d].uid THEN box[u] \ edit[d].remove
                                                              ELSE box[u]
    BY <1>0, <1>13, BoxType
       DEF ConnTypeOK, RemoveFlags, StoreFlags, Goto, WorldInv, SyncInv, MailboxTypeOK
  <2>2. rows' = rows
    BY <2>1 DEF cacheVars
  <2>3. RowFlagsInv'
    <3> SUFFICES ASSUME NEW u \in DOMAIN rows \cap DOMAIN box, rows[u].gen = gen
                 PROVE  /\ ~Editing(d, u)' => rows[u].flags = box'[u]
                        /\ Editing(d, u)' => Pending(d, u, rows[u].flags)'
      BY <1>0, <1>2a, <2>2 DEF Agrees
    <3>1. CASE u # edit[d].uid
      BY <1>2, <2>1, <3>1 DEF Editing, Agrees
    <3>2. CASE u = edit[d].uid
      <4>1. box[u] = rows[u].flags \cup edit[d].add
        BY <1>2, <2>1, <3>2 DEF Editing, Pending
      <4> QED
        BY <2>1, <2>2, <3>2, <4>1 DEF Editing, Pending
    <3> QED
      BY <3>1, <3>2
  <2> QED
    BY <1>5, <2>1, <2>3
<1>14. CASE PatchSeen(d)
  <2>1. /\ pc[d] = "seen" /\ pc'[d] = "flagged" /\ edit' = edit /\ box' = box
        /\ PatchColumn(d, "seen", "flagged")
    BY <1>0, <1>14 DEF ConnTypeOK, PatchSeen, PatchColumn, Goto, mailbox
  <2>2. /\ DOMAIN rows' = DOMAIN rows
        /\ \A v \in DOMAIN rows :
              /\ rows'[v].gen = rows[v].gen
              /\ rows'[v].flags = IF v = edit[d].uid
                                  THEN Patched(rows[v].flags, edit[d], "seen")
                                  ELSE rows[v].flags
    BY <1>0, <2>1, PatchedRows
  <2>3. edit[d].add \cap edit[d].remove = {}
    BY <1>0, <2>1 DEF EditorInv
  <2>4. RowFlagsInv'
    <3> SUFFICES ASSUME NEW u \in DOMAIN rows \cap DOMAIN box, rows[u].gen = gen
                 PROVE  /\ ~Editing(d, u)' => rows'[u].flags = box[u]
                        /\ Editing(d, u)' => Pending(d, u, rows[u].flags)'
      BY <1>0, <1>2a, <2>1, <2>2 DEF Agrees
    <3>1. CASE u # edit[d].uid
      BY <1>2, <2>1, <2>2, <3>1 DEF Editing, Agrees
    <3>2. CASE u = edit[d].uid
      <4>1. box[u] = (rows[u].flags \cup edit[d].add) \ edit[d].remove
        BY <1>2, <2>1, <3>2 DEF Editing, Pending
      <4>2. rows'[u].flags = Patched(rows[u].flags, edit[d], "seen")
        BY <2>2, <3>2
      <4>3. /\ box[u] = (rows'[u].flags \cup edit[d].add) \ edit[d].remove
            /\ "seen" \in box[u] <=> "seen" \in rows'[u].flags
        BY <2>3, <4>1, <4>2, PatchedSet
      <4> QED
        BY <2>1, <3>2, <4>3 DEF Editing, Pending
    <3> QED
      BY <3>1, <3>2
  <2> QED
    BY <1>5, <2>1, <2>4
<1>15. CASE PatchFlagged(d)
  <2>1. /\ pc[d] = "flagged" /\ pc'[d] = "idle" /\ box' = box
        /\ PatchColumn(d, "flagged", "idle")
    BY <1>0, <1>15 DEF ConnTypeOK, PatchFlagged, PatchColumn, Goto, mailbox
  <2>2. /\ DOMAIN rows' = DOMAIN rows
        /\ \A v \in DOMAIN rows :
              /\ rows'[v].gen = rows[v].gen
              /\ rows'[v].flags = IF v = edit[d].uid
                                  THEN Patched(rows[v].flags, edit[d], "flagged")
                                  ELSE rows[v].flags
    BY <1>0, <2>1, PatchedRows
  <2>3. edit[d].add \cap edit[d].remove = {}
    BY <1>0, <2>1 DEF EditorInv
  <2>4. RowFlagsInv'
    <3> SUFFICES ASSUME NEW u \in DOMAIN rows \cap DOMAIN box, rows[u].gen = gen
                 PROVE  rows'[u].flags = box[u]
      BY <1>0, <1>2a, <2>1, <2>2 DEF Agrees, Editing
    <3>1. CASE u # edit[d].uid
      BY <1>2, <2>1, <2>2, <3>1 DEF Editing, Agrees
    <3>2. CASE u = edit[d].uid
      <4>1. /\ box[u] = (rows[u].flags \cup edit[d].add) \ edit[d].remove
            /\ "seen" \in box[u] <=> "seen" \in rows[u].flags
        BY <1>2, <2>1, <3>2 DEF Editing, Pending
      <4>2. rows'[u].flags = Patched(rows[u].flags, edit[d], "flagged")
        BY <2>2, <3>2
      <4>3. /\ "flagged" \in box[u] <=> "flagged" \in rows'[u].flags
            /\ "seen" \in box[u] <=> "seen" \in rows'[u].flags
        BY <2>3, <4>1, <4>2, PatchedSet
      <4>4. box[u] \subseteq {"seen", "flagged"}
        BY <1>0, BoxType, FlagsAssumption DEF WorldInv, SyncInv, MailboxTypeOK
      <4>5. rows'[u].flags \subseteq {"seen", "flagged"}
        BY <1>0, <4>2, RowTypes DEF Patched
      <4> QED
        BY <4>3, <4>4, <4>5
    <3> QED
      BY <3>1, <3>2
  <2> QED
    BY <1>5, <2>1, <2>4
\* A command refused leaves rows of an incarnation that is gone.
<1>16. CASE Refused(d)
  <2>1. /\ pc'[d] = "idle" /\ UNCHANGED cacheVars /\ box' = box /\ sel[d].gen # gen
    BY <1>0, <1>16 DEF ConnTypeOK, Refused, Goto, mailbox
  <2>2. \A u \in DOMAIN rows : rows[u].gen # gen
    BY <1>0, <1>1, <2>1, RowTypes DEF KnownInv, SelInv
  <2> QED
    BY <1>0, <1>2a, <1>5, <2>1, <2>2 DEF cacheVars, Agrees, Editing
<1>17. ~Abort(d)
  BY DEF Abort, Fault, Undisturbed
<1> QED
  BY <1>6, <1>7, <1>8, <1>9, <1>10, <1>11, <1>12, <1>13, <1>14, <1>15, <1>16, <1>17
     DEF ConnStep, ListStep, EditStep

LEMMA FlagsInductive == OneCached /\ CachedEdits /\ FlagsInv /\ [Next]_vars => FlagsInv'
<1> SUFFICES ASSUME OneCached, CachedEdits, FlagsInv, [Next]_vars PROVE FlagsInv'
  OBVIOUS
<1>0. HoleInv'
  BY HoleInductive DEF FlagsInv
<1>1. UNCHANGED world
  BY DEF Next, vars
<1>1a. Undisturbed' = Undisturbed
  BY <1>1 DEF Undisturbed, Faults, MailboxOps
<1>2. CASE Mailbox
  BY <1>0, <1>1, <1>2, MailboxFlags
<1>3. ASSUME NEW d \in Conns, ConnStep(d) PROVE FlagsInv'
  <2>0. WorldInv /\ gen' = gen /\ uidNext' = uidNext /\ DOMAIN box' = DOMAIN box
    BY <1>3, MailboxKept DEF FlagsInv, HoleInv
  <2>1. ASSUME NEW c \in Conns PROVE EditorInv(c)'
    <3>1. CASE c = d
      BY <1>3, <3>1, EditorStep
    <3>2. CASE c # d
      BY <1>3, <2>0, <3>2, OthersKept DEF FlagsInv, EditorInv
    <3> QED
      BY <3>1, <3>2
  <2>2. CASE d \notin Uncached
    <3>1. \A c \in Conns \ Uncached : c = d
      BY <2>2 DEF OneCached
    <3>2. KnownInv'
      BY <1>3, <2>2, KnownStep
    <3>3. Undisturbed => RowFlagsInv' /\ BatchFlagsInv(d)'
      BY <1>3, <2>2, OwnFlags
    <3> QED
      BY <1>0, <1>1a, <2>1, <3>1, <3>2, <3>3 DEF FlagsInv
  <2>3. CASE d \in Uncached
    <3>1. UNCHANGED cacheVars
      BY <1>3, <2>3, CacheUntouched DEF FlagsInv, HoleInv, ConnInv
    <3>2. box' = box
      <4>1. EditorInv(d)
        BY DEF FlagsInv
      <4>2. ~AddFlags(d) /\ ~RemoveFlags(d)
        BY <2>3, <4>1 DEF AddFlags, RemoveFlags, StoreFlags, EditorInv
      <4> QED
        BY <1>3, <4>2, BoxKept
    <3>3. \A c \in Conns \ Uncached :
              pc'[c] = pc[c] /\ sel'[c] = sel[c] /\ got'[c] = got[c] /\ edit'[c] = edit[c]
      BY <1>3, <2>0, <2>3, OthersKept
    <3>4. rows' = rows
      BY <3>1 DEF cacheVars
    <3>5. KnownInv'
      BY <2>0, <3>3, <3>4 DEF FlagsInv, KnownInv
    <3>6. RowFlagsInv => RowFlagsInv'
      BY <2>0, <3>2, <3>3, <3>4 DEF RowFlagsInv, Agrees, Editing, Pending
    <3>7. \A c \in Conns \ Uncached : BatchFlagsInv(c) => BatchFlagsInv(c)'
      BY <2>0, <3>2, <3>3 DEF BatchFlagsInv, Agrees
    <3> QED
      BY <1>0, <1>1a, <2>1, <3>5, <3>6, <3>7 DEF FlagsInv
  <2> QED
    BY <2>2, <2>3
<1>4. CASE UNCHANGED vars
  BY <1>0, <1>1a, <1>4
     DEF vars, cacheVars, mailbox, connVars, FlagsInv, EditorInv, KnownInv, RowFlagsInv,
         BatchFlagsInv, Agrees, Editing, Pending
<1>5. CASE Next
  <2>1. CASE \E c \in Conns : BeginAny(c)
    BY <1>3, <2>1 DEF BeginAny, ConnStep
  <2>2. CASE \E c \in Conns, u \in Uids, e \in Edits : BeginEdit(c, u, e)
    BY <1>3, <2>2 DEF ConnStep
  <2>3. CASE \E c \in Conns : ListStep(c) \/ EditStep(c) \/ Refused(c) \/ Abort(c)
    BY <1>3, <2>3 DEF ConnStep
  <2> QED
    BY <1>2, <1>5, <2>1, <2>2, <2>3 DEF Next, Step
<1> QED
  BY <1>4, <1>5

(* Where nothing fails and only the one connection on the cache edits flags, *)
(* a cached header has the flags the server has once no call is under way:   *)
(* patch_flags does to the row what STORE did to the message.                *)
THEOREM SyncFlags == OneCached /\ CachedEdits => (Spec => []FlagsSettle)
<1> SUFFICES ASSUME OneCached, CachedEdits PROVE Spec => []FlagsSettle
  OBVIOUS
<1>1. FlagsInv => FlagsSettle
  <2> SUFFICES ASSUME FlagsInv, Undisturbed, \A c \in Conns : ~Busy(c),
                      NEW u \in DOMAIN rows \cap DOMAIN box, rows[u].gen = gen
               PROVE  rows[u].flags = box[u]
    BY DEF FlagsSettle, Undisturbed
  <2>1. \A c \in Conns \ Uncached : ~Editing(c, u)
    BY DEF Busy, Editing
  <2> QED
    BY <2>1 DEF FlagsInv, RowFlagsInv, Agrees
<1>2. FlagsInv /\ [Next]_vars => FlagsInv'
  BY FlagsInductive
<1> QED
  BY <1>1, <1>2, InitFlags, PTL DEF Spec

-----------------------------------------------------------------------------
(* A mailbox that only grows.  Its UIDs are 1, 2, ... without a gap, so what *)
(* is cached is an interval, and what a list shows one that ends at the last *)
(* message of some moment.                                                   *)

(* One window size; a larger window is served from the rows of a smaller one *)
(* (the hazard at net.rs:253).                                               *)
OneLimit == \A m, n \in Limits : m = n

(* The n newest of the UIDs up to hi. *)
UpTo(hi, n) == {u \in 1..hi : hi - u < n}

(* The UIDs of an interval that ends in lowest..last and goes back to the    *)
(* first message, or n messages.                                             *)
Covers(S, n, lowest, last) ==
    \E lo, hi \in Nat :
        /\ S = lo..hi /\ 1 <= lo /\ lowest <= hi /\ hi <= last
        /\ lo = 1 \/ lo + n <= hi + 1

LEMMA FirstUids == ASSUME NEW k \in Nat PROVE Cardinality(1..k) = k
<1>1. Cardinality(1..k) = IF 1 > k THEN 0 ELSE k - 1 + 1
  BY FS_Interval
<1> QED
  BY <1>1

LEMMA NewestOfInterval ==
    ASSUME NEW lo \in Nat, NEW hi \in Nat, NEW n \in Nat
    PROVE  Newest(lo..hi, n) = {u \in lo..hi : hi - u < n}
<1>1. ASSUME NEW u \in lo..hi
      PROVE  Cardinality({v \in lo..hi : v > u}) = hi - u
  <2>1. {v \in lo..hi : v > u} = (u + 1)..hi
    BY <1>1
  <2>2. Cardinality((u + 1)..hi) = IF u + 1 > hi THEN 0 ELSE hi - (u + 1) + 1
    BY <1>1, FS_Interval
  <2>3. Cardinality((u + 1)..hi) = hi - u
    BY <1>1, <2>2
  <2> QED
    BY <2>1, <2>3
<1> QED
  BY <1>1 DEF Newest

(* The newest of such an interval are those of all messages up to its end. *)
LEMMA NewestOfCovers ==
    ASSUME NEW lo \in Nat, NEW hi \in Nat, NEW n \in Nat, 1 <= lo,
           lo = 1 \/ lo + n <= hi + 1
    PROVE  Newest(lo..hi, n) = UpTo(hi, n)
BY NewestOfInterval DEF UpTo

LEMMA CoversMore ==
    ASSUME NEW S, NEW n \in Nat, NEW a \in Nat, NEW b \in Nat, NEW k \in Nat, NEW m \in Nat,
           Covers(S, n, a, k), b <= a, k <= m
    PROVE  Covers(S, n, b, m)
<1>1. PICK lo \in Nat, hi \in Nat :
          /\ S = lo..hi /\ 1 <= lo /\ a <= hi /\ hi <= k
          /\ lo = 1 \/ lo + n <= hi + 1
  BY DEF Covers
<1>2. b <= hi /\ hi <= m
  BY <1>1
<1> QED
  BY <1>1, <1>2 DEF Covers

LEMMA CoversNothing ==
    ASSUME NEW n \in Nat, NEW k \in Nat
    PROVE  Covers({}, n, 0, k)
<1>1. {} = 1..0
  OBVIOUS
<1> QED
  BY <1>1 DEF Covers

LEMMA CoversWindow ==
    ASSUME NEW hi \in Nat, NEW n \in Nat, NEW k \in Nat, hi <= k, n >= 1
    PROVE  Covers(UpTo(hi, n), n, 0, k)
<1>1. CASE hi <= n
  <2>1. UpTo(hi, n) = 1..hi
    BY <1>1 DEF UpTo
  <2> QED
    BY <2>1 DEF Covers
<1>2. CASE hi > n
  <2>1. UpTo(hi, n) = (hi + 1 - n)..hi /\ hi + 1 - n \in Nat /\ 1 <= hi + 1 - n
    BY <1>2 DEF UpTo
  <2> QED
    BY <2>1 DEF Covers
<1> QED
  BY <1>1, <1>2

(* Everything above the highest UID, and the last message, bring an interval *)
(* up to date.                                                               *)
LEMMA CoversNewer ==
    ASSUME NEW R, NEW n \in Nat, NEW k \in Nat, NEW m, Covers(R, n, 0, k), IsNewest(m, R)
    PROVE  Covers(R \cup ({v \in 1..k : v > m} \cup Newest(1..k, 1)), n, k, k)
<1>1. PICK lo \in Nat, hi \in Nat :
          /\ R = lo..hi /\ 1 <= lo /\ hi <= k
          /\ lo = 1 \/ lo + n <= hi + 1
  BY DEF Covers
<1>2. m = hi /\ lo <= hi
  <2>1. m \in lo..hi /\ \A v \in lo..hi : v <= m
    BY <1>1 DEF IsNewest
  <2>2. lo <= hi /\ hi \in lo..hi
    BY <2>1
  <2> QED
    BY <2>1, <2>2
<1>3. Newest(1..k, 1) = {u \in 1..k : k - u < 1}
  BY NewestOfInterval
<1>4. R \cup ({v \in 1..k : v > m} \cup Newest(1..k, 1)) = lo..k
  BY <1>1, <1>2, <1>3
<1>5. lo = 1 \/ lo + n <= k + 1
  BY <1>1
<1> QED
  BY <1>1, <1>4, <1>5 DEF Covers

(* A count that reaches the server's total is of an interval that reaches    *)
(* its last message.                                                         *)
LEMMA CoversCount ==
    ASSUME NEW R, NEW n \in Nat, NEW k \in Nat, NEW s \in Nat, Covers(R, n, 0, k),
           Cardinality(R) >= s
    PROVE  Covers(R, n, s, k)
<1>1. PICK lo \in Nat, hi \in Nat :
          /\ R = lo..hi /\ 1 <= lo /\ 0 <= hi /\ hi <= k
          /\ lo = 1 \/ lo + n <= hi + 1
  BY DEF Covers
<1>2. Cardinality(R) = IF lo > hi THEN 0 ELSE hi - lo + 1
  BY <1>1, FS_Interval
<1>3. s <= hi
  BY <1>1, <1>2
<1> QED
  BY <1>1, <1>3 DEF Covers

(* What a connection knows of the mailbox, and what it returned. *)
ReachInv(c) ==
    /\ sel[c].next <= uidNext /\ sel[c].uids = 1..(sel[c].next - 1)
    /\ pc[c] = "empty" => sel[c].next = 1
    /\ pc[c] = "store" => DOMAIN got[c] = UpTo(sel[c].next - 1, limit[c])
    /\ pc[c] = "done" =>
        \E hi \in (sel[c].next - 1)..(uidNext - 1) : Listed(c) = UpTo(hi, limit[c])

(* The cache holds an interval; a refill starts from nothing, and from the   *)
(* comparison on the interval reaches what SELECT told.                      *)
CoverInv(c) ==
    /\ Covers(DOMAIN rows, limit[c], 0, uidNext - 1)
    /\ pc[c] \in {"window", "store"} => DOMAIN rows = {}
    /\ pc[c] = "merge" =>
        Covers(DOMAIN rows \cup DOMAIN got[c], limit[c], sel[c].next - 1, uidNext - 1)
    /\ pc[c] = "serve" => Covers(DOMAIN rows, limit[c], sel[c].next - 1, uidNext - 1)

GrowInv ==
    /\ HoleInv
    /\ OnlyGrows =>
        /\ DOMAIN box = 1..(uidNext - 1)
        /\ \A c \in Conns : ReachInv(c)
        /\ \A c \in Conns \ Uncached : CoverInv(c)

LEMMA GrowTypes ==
    ASSUME WorldInv
    PROVE  /\ uidNext \in Nat /\ uidNext >= 1
           /\ \A c \in Conns : /\ sel[c].next \in Nat /\ sel[c].next >= 1
                               /\ limit[c] \in Nat /\ limit[c] >= 1 /\ limit[c] \in Limits
<1>1. uidNext \in 1..(MaxUid + 1)
  BY DEF WorldInv, SyncInv, MailboxTypeOK
<1>2. ASSUME NEW c \in Conns
      PROVE  sel[c].next \in 1..(MaxUid + 1) /\ limit[c] \in Limits
  BY DEF WorldInv, SyncInv, ConnTypeOK, Selected
<1>3. \A n \in Limits : n \in Nat /\ n >= 1
  BY ConnsAssumption
<1> QED
  BY <1>1, <1>2, <1>3, BoundsAssumption

LEMMA InitGrow == Init => GrowInv
<1> SUFFICES ASSUME Init PROVE GrowInv
  OBVIOUS
<1>1. DOMAIN NoRows = {} /\ {} = 1..0
  BY DEF NoRows
<1>2. WorldInv
  BY InitHole DEF HoleInv
<1>3. ASSUME NEW c \in Conns PROVE ReachInv(c) /\ CoverInv(c)
  <2>1. /\ pc[c] = "idle" /\ sel[c] = [gen |-> 1, uids |-> {}, next |-> 1]
        /\ uidNext = 1 /\ DOMAIN rows = {} /\ limit[c] \in Nat
    BY <1>1, <1>2, GrowTypes DEF Init, CacheInit, EmptyCache
  <2>2. ReachInv(c)
    BY <1>1, <2>1 DEF ReachInv
  <2>3. CoverInv(c)
    BY <2>1, CoversNothing DEF CoverInv
  <2> QED
    BY <2>2, <2>3
<1> QED
  BY <1>1, <1>3, InitHole DEF Init, GrowInv

LEMMA DeliverGrow ==
    ASSUME GrowInv, HoleInv', OnlyGrows, OnlyGrows', Mailbox
    PROVE  GrowInv'
<1>0. WorldInv /\ WorldInv'
  BY DEF GrowInv, HoleInv
<1>1. Deliver
  BY DEF Mailbox, OnlyGrows, Expunge, Reflag, Recreate
<1>2. uidNext' = uidNext + 1 /\ DOMAIN box' = DOMAIN box \cup {uidNext}
  BY <1>1 DEF Deliver
<1>3. /\ rows' = rows /\ pc' = pc /\ sel' = sel /\ got' = got /\ result' = result
      /\ limit' = limit
  BY <1>1 DEF Deliver, cacheVars, connVars
<1>4. uidNext \in Nat /\ uidNext >= 1
  BY <1>0, GrowTypes
<1>5. DOMAIN box' = 1..(uidNext' - 1)
  BY <1>2, <1>4 DEF GrowInv
<1>6. ASSUME NEW c \in Conns PROVE ReachInv(c)'
  <2>1. ReachInv(c) /\ sel[c].next \in Nat
    BY <1>0, GrowTypes DEF GrowInv
  <2>2. sel[c].next <= uidNext'
    BY <1>2, <1>4, <2>1 DEF ReachInv
  <2>3. ASSUME NEW hi \in (sel[c].next - 1)..(uidNext - 1)
        PROVE  hi \in (sel[c].next - 1)..(uidNext' - 1)
    BY <1>2, <1>4, <2>1
  <2> QED
    BY <1>3, <2>1, <2>2, <2>3 DEF ReachInv, Listed
<1>7. ASSUME NEW c \in Conns \ Uncached PROVE CoverInv(c)'
  <2>1. CoverInv(c) /\ sel[c].next - 1 \in Nat /\ limit[c] \in Nat
    BY <1>0, GrowTypes DEF GrowInv
  <2>2. uidNext - 1 \in Nat /\ uidNext' - 1 \in Nat /\ uidNext - 1 <= uidNext' - 1
    BY <1>2, <1>4
  <2> QED
    BY <1>3, <2>1, <2>2, CoversMore DEF CoverInv
<1> QED
  BY <1>5, <1>6, <1>7 DEF GrowInv

(* A connection's own step: what it knows and returned. *)
LEMMA OwnReach ==
    ASSUME GrowInv, OnlyGrows, OneLimit, NEW d \in Conns, ConnStep(d)
    PROVE  ReachInv(d)'
<1>0. /\ WorldInv /\ ConnTypeOK /\ ReachInv(d) /\ Direct(d)
      /\ uidNext' = uidNext /\ DOMAIN box' = DOMAIN box /\ DOMAIN box = 1..(uidNext - 1)
  BY MailboxKept DEF GrowInv, HoleInv, WorldInv, SyncInv, ConnInv
<1>1. /\ uidNext \in Nat /\ uidNext >= 1 /\ sel[d].next \in Nat /\ sel[d].next >= 1
      /\ limit[d] \in Nat
  BY <1>0, GrowTypes
\* A call that does not fetch, return or select.
<1>2. ASSUME sel' = sel, limit' = limit, pc'[d] \notin {"empty", "store", "done"}
      PROVE  ReachInv(d)'
  BY <1>0, <1>2 DEF ReachInv
<1>3. ASSUME NEW n \in Limits, Begin(d, n) PROVE ReachInv(d)'
  <2>1. /\ sel'[d] = [gen |-> gen, uids |-> DOMAIN box, next |-> uidNext]
        /\ pc'[d] \in {"empty", "window", "validity"}
        /\ pc'[d] = "empty" => box = NoRows
    BY <1>0, <1>3 DEF ConnTypeOK, Begin, Select, Goto
  <2>2. box = NoRows => uidNext = 1
    <3> SUFFICES ASSUME box = NoRows PROVE uidNext = 1
      OBVIOUS
    <3>1. DOMAIN box = {}
      BY DEF NoRows
    <3>2. 1 \notin 1..(uidNext - 1)
      BY <1>0, <3>1
    <3> QED
      BY <1>1, <3>2
  <2> QED
    BY <1>0, <1>1, <2>1, <2>2 DEF ReachInv
<1>4. ASSUME NEW u \in Uids, NEW e \in Edits, BeginEdit(d, u, e) PROVE ReachInv(d)'
  <2>1. /\ sel'[d] = [gen |-> gen, uids |-> DOMAIN box, next |-> uidNext]
        /\ pc'[d] = "add"
    BY <1>0, <1>4 DEF ConnTypeOK, BeginEdit, Select, Goto
  <2> QED
    BY <1>0, <1>1, <2>1 DEF ReachInv
<1>5. CASE ListEmpty(d)
  <2>1. /\ sel' = sel /\ limit' = limit /\ pc[d] = "empty" /\ pc'[d] = "done"
        /\ DOMAIN result'[d] = {}
    BY <1>0, <1>5 DEF ConnTypeOK, ListEmpty, Goto, NoRows
  <2>2. {} = UpTo(0, limit[d])
    BY DEF UpTo
  <2>3. 0 \in (sel[d].next - 1)..(uidNext - 1)
    BY <1>0, <1>1, <2>1 DEF ReachInv
  <2> QED
    BY <1>0, <2>1, <2>2, <2>3 DEF ReachInv, Listed
<1>6. CASE ReadValidity(d) \/ ReadCount(d) \/ ReadMaxUid(d) \/ Flush(d)
  <2>1. sel' = sel /\ limit' = limit
    BY <1>6 DEF ReadValidity, ReadCount, ReadMaxUid, Flush
  <2>2. pc'[d] \in {"count", "flush", "serve", "max", "newer", "window"}
    BY <1>0, <1>6 DEF ConnTypeOK, ReadValidity, ReadCount, ReadMaxUid, Flush, Goto
  <2> QED
    BY <1>2, <2>1, <2>2
<1>7. CASE FetchWindow(d)
  <2>1. /\ sel' = sel /\ limit' = limit /\ pc'[d] = "store"
        /\ DOMAIN got'[d] = Newest(sel[d].uids, limit[d]) \cap DOMAIN box
    BY <1>0, <1>7 DEF ConnTypeOK, FetchWindow, Goto
  <2>2. Newest(sel[d].uids, limit[d]) = UpTo(sel[d].next - 1, limit[d])
    <3>1. sel[d].next - 1 \in Nat
      BY <1>1
    <3>2. sel[d].uids = 1..(sel[d].next - 1)
      BY <1>0 DEF ReachInv
    <3> QED
      BY <1>1, <3>1, <3>2, NewestOfInterval DEF UpTo
  <2>3. UpTo(sel[d].next - 1, limit[d]) \subseteq DOMAIN box
    BY <1>0, <1>1 DEF ReachInv, UpTo
  <2> QED
    BY <1>0, <2>1, <2>2, <2>3 DEF ReachInv
<1>8. CASE StoreWindow(d)
  <2>1. /\ sel' = sel /\ limit' = limit /\ pc[d] = "store" /\ pc'[d] = "done"
        /\ result'[d] = got[d]
    BY <1>0, <1>8 DEF ConnTypeOK, StoreWindow, Goto
  <2>2. sel[d].next - 1 \in (sel[d].next - 1)..(uidNext - 1)
    BY <1>0, <1>1 DEF ReachInv
  <2> QED
    BY <1>0, <2>1, <2>2 DEF ReachInv, Listed
<1>9. CASE FetchNewer(d) \/ MergeNewer(d)
  <2>1. sel' = sel /\ limit' = limit
    BY <1>9 DEF FetchNewer, MergeNewer
  <2>2. pc'[d] \in {"merge", "serve"}
    BY <1>0, <1>9 DEF ConnTypeOK, FetchNewer, MergeNewer, Goto
  <2> QED
    BY <1>2, <2>1, <2>2
<1>10. CASE Serve(d)
  <2>1. /\ sel' = sel /\ limit' = limit /\ pc[d] = "serve" /\ pc'[d] = "done"
        /\ result'[d] = GetLatest(limit[d])
    BY <1>0, <1>10 DEF ConnTypeOK, Serve, Goto
  <2>2. d \notin Uncached
    BY <1>0, <2>1 DEF Direct
  <2>3. Covers(DOMAIN rows, limit[d], sel[d].next - 1, uidNext - 1)
    BY <2>1, <2>2 DEF GrowInv, CoverInv
  <2>4. PICK lo \in Nat, hi \in Nat :
            /\ DOMAIN rows = lo..hi /\ 1 <= lo /\ sel[d].next - 1 <= hi /\ hi <= uidNext - 1
            /\ lo = 1 \/ lo + limit[d] <= hi + 1
    BY <2>3 DEF Covers
  <2>5. Newest(DOMAIN rows, limit[d]) = UpTo(hi, limit[d])
    BY <1>1, <2>4, NewestOfCovers
  <2>6. DOMAIN GetLatest(limit[d]) = Newest(DOMAIN rows, limit[d])
    <3>1. GetLatest(limit[d]) = [u \in Newest(DOMAIN rows, limit[d]) |-> rows[u]]
      BY DEF GetLatest, Restrict
    <3> QED
      BY <3>1
  <2>7. hi \in (sel[d].next - 1)..(uidNext - 1)
    BY <1>1, <2>4
  <2> QED
    BY <1>0, <2>1, <2>5, <2>6, <2>7 DEF ReachInv, Listed
<1>11. CASE EditStep(d)
  <2>1. sel' = sel /\ limit' = limit
    BY <1>11
       DEF EditStep, AddFlags, RemoveFlags, StoreFlags, PatchSeen, PatchFlagged, PatchColumn
  <2>2. pc'[d] \in {"remove", "seen", "flagged", "idle"}
    BY <1>0, <1>11
       DEF ConnTypeOK, EditStep, AddFlags, RemoveFlags, StoreFlags, PatchSeen, PatchFlagged,
           PatchColumn, Goto
  <2> QED
    BY <1>2, <2>1, <2>2
<1>12. CASE Refused(d) \/ Abort(d)
  <2>1. sel' = sel /\ limit' = limit /\ pc'[d] = "idle"
    BY <1>0, <1>12 DEF ConnTypeOK, Refused, Abort, Goto
  <2> QED
    BY <1>2, <2>1
<1> QED
  BY <1>3, <1>4, <1>5, <1>6, <1>7, <1>8, <1>9, <1>10, <1>11, <1>12 DEF ConnStep, ListStep

(* The step of the connection on the cache: what the cache holds. *)
LEMMA OwnCover ==
    ASSUME GrowInv, OnlyGrows, OneLimit, NEW d \in Conns \ Uncached, ConnStep(d)
    PROVE  CoverInv(d)'
<1>0. /\ WorldInv /\ ConnTypeOK /\ ReachInv(d) /\ CoverInv(d) /\ BatchInv(d)
      /\ uidNext' = uidNext /\ DOMAIN box = 1..(uidNext - 1)
  BY MailboxKept DEF GrowInv, HoleInv, WorldInv, SyncInv, KeeperInv
<1>1. /\ uidNext - 1 \in Nat /\ sel[d].next - 1 \in Nat /\ limit[d] \in Nat /\ limit[d] >= 1
      /\ sel[d].next - 1 <= uidNext - 1 /\ limit[d] \in Limits
  BY <1>0, GrowTypes DEF ReachInv
<1>2. Covers({}, limit[d], 0, uidNext - 1)
  BY <1>1, CoversNothing
\* A step that leaves the UIDs cached alone and neither refills nor reads on.
<1>3. ASSUME DOMAIN rows' = DOMAIN rows, limit'[d] = limit[d],
             pc'[d] \notin {"window", "store", "merge", "serve"}
      PROVE  CoverInv(d)'
  BY <1>0, <1>3 DEF CoverInv
<1>4. ASSUME NEW n \in Limits, Begin(d, n) PROVE CoverInv(d)'
  <2>1. limit'[d] = n /\ rows' = rows /\ pc'[d] \in {"empty", "validity"}
    BY <1>0, <1>4 DEF ConnTypeOK, Begin, Goto, cacheVars
  <2>2. n = limit[d]
    BY <1>1 DEF OneLimit
  <2> QED
    BY <1>3, <2>1, <2>2
<1>5. ASSUME NEW u \in Uids, NEW e \in Edits, BeginEdit(d, u, e) PROVE CoverInv(d)'
  BY <1>0, <1>3, <1>5 DEF ConnTypeOK, BeginEdit, Goto, cacheVars
<1>6. CASE ListEmpty(d) \/ Flush(d)
  <2>1. /\ limit' = limit /\ pc'[d] \in {"done", "window"}
        /\ InvalidateFolder(sel[d].gen)
    BY <1>0, <1>6 DEF ConnTypeOK, ListEmpty, Flush, Goto, Write, Fault, OnlyGrows
  <2>2. DOMAIN rows' = {}
    BY <2>1 DEF InvalidateFolder, NoRows
  <2> QED
    BY <1>0, <1>2, <2>1, <2>2 DEF CoverInv
<1>7. CASE ReadValidity(d) \/ ReadMaxUid(d)
  <2>1. limit' = limit /\ rows' = rows
    BY <1>7 DEF ReadValidity, ReadMaxUid, cacheVars
  <2>2. pc'[d] \in {"count", "flush", "newer"}
    BY <1>0, <1>7 DEF ConnTypeOK, ReadValidity, ReadMaxUid, Goto
  <2> QED
    BY <1>3, <2>1, <2>2
<1>8. CASE ReadCount(d)
  <2>1. limit' = limit /\ sel' = sel /\ rows' = rows
    BY <1>8 DEF ReadCount, cacheVars
  <2>2. pc'[d] = IF CachedCount >= Cardinality(sel[d].uids) THEN "serve" ELSE "max"
    BY <1>0, <1>8 DEF ConnTypeOK, ReadCount, Goto
  <2>3. CASE CachedCount >= Cardinality(sel[d].uids)
    <3>1. CachedCount = Cardinality(DOMAIN rows)
      BY <1>0 DEF WorldInv, SyncInv, CacheInv, CountMatchesRows, CachedCount
    <3>2. Cardinality(sel[d].uids) = sel[d].next - 1
      BY <1>0, <1>1, FirstUids DEF ReachInv
    <3>3. Covers(DOMAIN rows, limit[d], 0, uidNext - 1)
      BY <1>0 DEF CoverInv
    <3>4. Cardinality(DOMAIN rows) >= sel[d].next - 1
      BY <2>3, <3>1, <3>2
    <3>5. Covers(DOMAIN rows, limit[d], sel[d].next - 1, uidNext - 1)
      BY <1>1, <3>3, <3>4, CoversCount
    <3> QED
      BY <1>0, <2>1, <2>2, <2>3, <3>3, <3>5 DEF CoverInv
  <2>4. CASE ~(CachedCount >= Cardinality(sel[d].uids))
    BY <1>3, <2>1, <2>2, <2>4
  <2> QED
    BY <2>3, <2>4
<1>9. CASE FetchWindow(d)
  <2>1. limit' = limit /\ rows' = rows /\ pc[d] = "window" /\ pc'[d] = "store"
    BY <1>0, <1>9 DEF ConnTypeOK, FetchWindow, Goto, cacheVars
  <2> QED
    BY <1>0, <2>1 DEF CoverInv
<1>10. CASE StoreWindow(d)
  <2>1. limit' = limit /\ pc[d] = "store" /\ pc'[d] = "done" /\ UpsertAll(got[d])
    BY <1>0, <1>10 DEF ConnTypeOK, StoreWindow, Goto, Write, Fault, OnlyGrows
  <2>2. DOMAIN rows' = DOMAIN rows \cup DOMAIN got[d]
    BY <2>1 DEF UpsertAll
  <2>3. DOMAIN rows' = UpTo(sel[d].next - 1, limit[d])
    BY <1>0, <2>1, <2>2 DEF CoverInv, ReachInv
  <2>4. Covers(DOMAIN rows', limit[d], 0, uidNext - 1)
    BY <1>1, <2>3, CoversWindow
  <2> QED
    BY <1>0, <2>1, <2>4 DEF CoverInv
<1>11. CASE FetchNewer(d)
  <2>1. /\ limit' = limit /\ sel' = sel /\ rows' = rows /\ pc[d] = "newer" /\ pc'[d] = "merge"
        /\ DOMAIN got'[d] = {v \in DOMAIN box : v > maxUid[d]} \cup Newest(DOMAIN box, 1)
    BY <1>0, <1>11 DEF ConnTypeOK, FetchNewer, Goto, cacheVars
  <2>2. IsNewest(maxUid[d], DOMAIN rows)
    BY <1>0, <2>1 DEF BatchInv
  <2>3. Covers(DOMAIN rows, limit[d], 0, uidNext - 1)
    BY <1>0 DEF CoverInv
  <2>4. Covers(DOMAIN rows \cup DOMAIN got'[d], limit[d], uidNext - 1, uidNext - 1)
    BY <1>0, <1>1, <2>1, <2>2, <2>3, CoversNewer
  <2>5. Covers(DOMAIN rows \cup DOMAIN got'[d], limit[d], sel[d].next - 1, uidNext - 1)
    BY <1>1, <2>4, CoversMore
  <2> QED
    BY <1>0, <2>1, <2>3, <2>5 DEF CoverInv
<1>12. CASE MergeNewer(d)
  <2>1. /\ limit' = limit /\ sel' = sel /\ pc[d] = "merge" /\ pc'[d] = "serve"
        /\ IF got[d] = NoRows THEN UNCHANGED cacheVars ELSE UpsertAll(got[d])
    BY <1>0, <1>12 DEF ConnTypeOK, MergeNewer, Goto, Write, Fault, OnlyGrows
  <2>2. DOMAIN rows' = DOMAIN rows \cup DOMAIN got[d]
    BY <2>1 DEF UpsertAll, cacheVars, NoRows
  <2>3. Covers(DOMAIN rows', limit[d], sel[d].next - 1, uidNext - 1)
    BY <1>0, <2>1, <2>2 DEF CoverInv
  <2>4. Covers(DOMAIN rows', limit[d], 0, uidNext - 1)
    BY <1>1, <2>3, CoversMore
  <2> QED
    BY <1>0, <2>1, <2>3, <2>4 DEF CoverInv
<1>13. CASE Serve(d)
  <2>1. limit' = limit /\ rows' = rows /\ pc'[d] = "done"
    BY <1>0, <1>13 DEF ConnTypeOK, Serve, Goto, cacheVars
  <2> QED
    BY <1>3, <2>1
<1>14. CASE AddFlags(d) \/ RemoveFlags(d)
  <2>1. limit' = limit /\ rows' = rows /\ pc'[d] \in {"remove", "seen"}
    BY <1>0, <1>14 DEF ConnTypeOK, AddFlags, RemoveFlags, StoreFlags, Goto, cacheVars
  <2> QED
    BY <1>3, <2>1
<1>15. CASE PatchSeen(d) \/ PatchFlagged(d)
  <2>1. limit' = limit /\ pc'[d] \in {"flagged", "idle"} /\ DOMAIN rows' = DOMAIN rows
    BY <1>0, <1>15
       DEF ConnTypeOK, PatchSeen, PatchFlagged, PatchColumn, Goto, Write, PatchFlag, cacheVars
  <2> QED
    BY <1>3, <2>1
<1>16. CASE Refused(d) \/ Abort(d)
  <2>1. limit' = limit /\ rows' = rows /\ pc'[d] = "idle"
    BY <1>0, <1>16 DEF ConnTypeOK, Refused, Abort, Goto, cacheVars
  <2> QED
    BY <1>3, <2>1
<1> QED
  BY <1>4, <1>5, <1>6, <1>7, <1>8, <1>9, <1>10, <1>11, <1>12, <1>13, <1>14, <1>15, <1>16
     DEF ConnStep, ListStep, EditStep

LEMMA GrowInductive == OneCached /\ OneLimit /\ GrowInv /\ [Next]_vars => GrowInv'
<1> SUFFICES ASSUME OneCached, OneLimit, GrowInv, [Next]_vars PROVE GrowInv'
  OBVIOUS
<1>0. HoleInv'
  BY HoleInductive DEF GrowInv
<1>1. OnlyGrows' = OnlyGrows
  BY DEF Next, vars, OnlyGrows, MailboxOps, Faults
<1> SUFFICES ASSUME OnlyGrows PROVE GrowInv'
  BY <1>0, <1>1 DEF GrowInv
<1>2. CASE Mailbox
  BY <1>0, <1>1, <1>2, DeliverGrow
<1>3. ASSUME NEW d \in Conns, ConnStep(d) PROVE GrowInv'
  <2>0. WorldInv /\ uidNext' = uidNext /\ DOMAIN box' = DOMAIN box
    BY <1>3, MailboxKept DEF GrowInv, HoleInv
  <2>1. ASSUME NEW c \in Conns PROVE ReachInv(c)'
    <3>1. CASE c = d
      BY <1>3, <3>1, OwnReach
    <3>2. CASE c # d
      <4>1. /\ pc'[c] = pc[c] /\ sel'[c] = sel[c] /\ got'[c] = got[c]
            /\ result'[c] = result[c] /\ limit'[c] = limit[c]
        BY <1>3, <2>0, <3>2, OthersKept
      <4> QED
        BY <2>0, <4>1 DEF GrowInv, ReachInv, Listed
    <3> QED
      BY <3>1, <3>2
  <2>2. ASSUME NEW c \in Conns \ Uncached PROVE CoverInv(c)'
    <3>1. CASE c = d
      BY <1>3, <2>2, <3>1, OwnCover
    <3>2. CASE c # d
      <4>1. d \in Uncached
        BY <3>2 DEF OneCached
      <4>2. /\ pc'[c] = pc[c] /\ sel'[c] = sel[c] /\ got'[c] = got[c]
            /\ limit'[c] = limit[c]
        BY <1>3, <2>0, <3>2, OthersKept
      <4>3. rows' = rows
        BY <1>3, <4>1, CacheUntouched DEF GrowInv, HoleInv, ConnInv, cacheVars
      <4> QED
        BY <2>0, <4>2, <4>3 DEF GrowInv, CoverInv
    <3> QED
      BY <3>1, <3>2
  <2> QED
    BY <1>0, <2>0, <2>1, <2>2 DEF GrowInv
<1>4. CASE UNCHANGED vars
  BY <1>0, <1>4
     DEF vars, cacheVars, mailbox, connVars, GrowInv, ReachInv, CoverInv, Listed
<1>5. CASE Next
  <2>1. CASE \E c \in Conns : BeginAny(c)
    BY <1>3, <2>1 DEF BeginAny, ConnStep
  <2>2. CASE \E c \in Conns, u \in Uids, e \in Edits : BeginEdit(c, u, e)
    BY <1>3, <2>2 DEF ConnStep
  <2>3. CASE \E c \in Conns : ListStep(c) \/ EditStep(c) \/ Refused(c) \/ Abort(c)
    BY <1>3, <2>3 DEF ConnStep
  <2> QED
    BY <1>2, <1>5, <2>1, <2>2, <2>3 DEF Next, Step
<1> QED
  BY <1>4, <1>5

(* In a mailbox that only grows, with one connection on the cache and one    *)
(* window size, a list is the newest messages of some moment between SELECT  *)
(* and the return, whichever calls before it were cut short.                 *)
THEOREM SyncNewest == OneCached /\ OneLimit => (Spec => []ListIsNewest)
<1> SUFFICES ASSUME OneCached, OneLimit PROVE Spec => []ListIsNewest
  OBVIOUS
<1>1. GrowInv => ListIsNewest
  <2> SUFFICES ASSUME GrowInv, OnlyGrows, NEW c \in Conns, pc[c] = "done"
               PROVE  \E n \in sel[c].next..uidNext :
                          Listed(c) = Newest({u \in DOMAIN box : u < n}, limit[c])
    BY DEF ListIsNewest, Done
  <2>1. PICK hi \in (sel[c].next - 1)..(uidNext - 1) : Listed(c) = UpTo(hi, limit[c])
    BY DEF GrowInv, ReachInv
  <2>2. /\ uidNext \in Nat /\ sel[c].next \in Nat /\ sel[c].next >= 1 /\ limit[c] \in Nat
        /\ DOMAIN box = 1..(uidNext - 1)
    BY GrowTypes DEF GrowInv, HoleInv
  <2>3. hi \in Nat /\ hi + 1 \in sel[c].next..uidNext
    BY <2>1, <2>2
  <2>4. {u \in DOMAIN box : u < hi + 1} = 1..hi
    BY <2>1, <2>2, <2>3
  <2>5. Newest(1..hi, limit[c]) = UpTo(hi, limit[c])
    BY <2>2, <2>3, NewestOfInterval DEF UpTo
  <2> QED
    BY <2>1, <2>3, <2>4, <2>5
<1>2. GrowInv /\ [Next]_vars => GrowInv'
  BY GrowInductive
<1> QED
  BY <1>1, <1>2, InitGrow, PTL DEF Spec

=============================================================================
