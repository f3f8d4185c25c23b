------------------------- MODULE SettingsFile_proofs --------------------------
(* Proofs about SettingsFile, for any tabs, parts, values and files: its     *)
(* type, that a reader finds a whole file where saves do not overlap, that   *)
(* parts are kept, and that it implements SettingsStore.                     *)
EXTENDS SettingsFile, TLAPS

Stages == {"idle", "loaded", "open", "written"}

(* What a file, a copy and a write may hold. *)
LEMMA WholeTypes ==
    /\ Full \subseteq Whole /\ Empty \in Whole
    /\ \A all \in Whole, part \in Parts, v \in Values : [all EXCEPT ![part] = v] \in Whole
    /\ \A all \in Full, part \in Parts, v \in Values : [all EXCEPT ![part] = v] \in Full
    /\ Whole \cap Unreadable = {} /\ Full \cap Unreadable = {}
BY SettingsAssumption DEF Full, Whole, Empty, Unreadable

LEMMA OverlaidTypes ==
    ASSUME NEW old, NEW new, NEW after \in Overlaid(old, new)
    PROVE  after = new \/ after = Torn
BY DEF Overlaid

LEMMA InitType == Init => TypeOK
<1> SUFFICES ASSUME Init PROVE TypeOK
  OBVIOUS
<1>1. data \in [Inodes -> Whole \cup Unreadable]
  BY WholeTypes DEF Init, Unreadable
<1>2. serial \in BOOLEAN /\ complete \in BOOLEAN /\ path \in File /\ tmp \in File
  BY SettingsAssumption DEF Init, File
<1>3. /\ pc \in [Tabs -> {"idle", "loaded", "open", "written"}]
      /\ copy \in [Tabs -> Whole] /\ held \in [Tabs -> File]
  BY WholeTypes DEF Init, File
<1> QED
  BY <1>1, <1>2, <1>3 DEF TypeOK

LEMMA StepType == TypeOK /\ [Next]_vars => TypeOK'
<1> SUFFICES ASSUME TypeOK, [Next]_vars PROVE TypeOK'
  OBVIOUS
<1>1. CASE UNCHANGED vars
  BY <1>1 DEF TypeOK, vars, world, names
<1>2. ASSUME NEW p \in Tabs, NEW part \in Parts, NEW v \in Values, Load(p, part, v)
      PROVE  TypeOK'
  <2>1. PICK all \in Loadable : copy' = [copy EXCEPT ![p] = [all EXCEPT ![part] = v]]
    BY <1>2 DEF Load
  <2>2. all \in Whole
    BY <2>1, WholeTypes DEF Loadable, TypeOK, File
  <2>3. [all EXCEPT ![part] = v] \in Whole
    BY <2>2, WholeTypes
  <2> QED
    BY <1>2, <2>1, <2>3 DEF Load, TypeOK, Goto, world, names
<1>3. ASSUME NEW p \in Tabs, Open(p) PROVE TypeOK'
  <2>1. PICK i \in IF tmp = Absent THEN Unused ELSE {tmp} :
            /\ tmp' = i
            /\ held' = [held EXCEPT ![p] = i]
            /\ data' = [data EXCEPT ![i] = Blank]
    BY <1>3 DEF Open
  <2>2. i \in Inodes
    BY <2>1 DEF Unused, TypeOK, File
  <2> QED
    BY <1>3, <2>1, <2>2 DEF Open, TypeOK, Goto, world, File, Unreadable
<1>4. ASSUME NEW p \in Tabs, Write(p) PROVE TypeOK'
  <2>1. PICK new \in Overlaid(data[held[p]], copy[p]) :
            data' = [data EXCEPT ![held[p]] = new]
    BY <1>4 DEF Write
  <2>2. new \in Whole \cup Unreadable
    BY <2>1, OverlaidTypes DEF TypeOK, Unreadable
  <2> QED
    BY <1>4, <2>1, <2>2 DEF Write, TypeOK, Goto, world, names, File
<1>5. ASSUME NEW p \in Tabs, Rename(p) PROVE TypeOK'
  <2>1. path' \in File /\ tmp' \in File
    BY <1>5 DEF Rename, TypeOK, names, File
  <2> QED
    BY <1>5, <2>1, WholeTypes DEF Rename, TypeOK, End, Goto, world
<1>6. ASSUME NEW p \in Tabs, Fail(p) PROVE TypeOK'
  BY <1>6, WholeTypes DEF Fail, TypeOK, End, Goto, world, names, File, Unreadable
<1>7. ASSUME NEW p \in Tabs, Die(p) PROVE TypeOK'
  BY <1>7, WholeTypes DEF Die, TypeOK, End, Goto, world, names, File
<1> QED
  BY <1>1, <1>2, <1>3, <1>4, <1>5, <1>6, <1>7 DEF Next

-----------------------------------------------------------------------------
(* A file that had every part keeps them: so has every readable file, and    *)
(* every copy that is about to be written.                                   *)
PartsInv ==
    complete => /\ path # Absent
                /\ data \in [Inodes -> Full \cup Unreadable]
                /\ \A p \in Tabs : pc[p] # "idle" => copy[p] \in Full

(* The two names are never of one file. *)
NamesInv == tmp # Absent => tmp # path

(* Where saves do not overlap: one tab saves; it has what is stored, with    *)
(* one part changed; the temporary file is its own.                          *)
SaveInv(p) ==
    /\ pc[p] # "idle" =>
           /\ \A q \in Tabs : q # p => pc[q] = "idle"
           /\ \E part \in Parts, v \in Values : copy[p] = [Stored EXCEPT ![part] = v]
    /\ pc[p] = "open" => held[p] = tmp /\ tmp # Absent /\ data[tmp] = Blank
    /\ pc[p] = "written" => tmp # Absent /\ data[tmp] = copy[p]

SerialInv == serial => Readable /\ \A p \in Tabs : SaveInv(p)

Inv == TypeOK /\ PartsInv /\ NamesInv /\ SerialInv

LEMMA InitInv == Init => Inv
<1> SUFFICES ASSUME Init PROVE Inv
  OBVIOUS
<1>1. TypeOK
  BY InitType
<1>2. PartsInv /\ NamesInv
  BY SettingsAssumption DEF Init, PartsInv, NamesInv, Unreadable
<1>3. Readable
  <2>1. CASE path = Absent
    BY <2>1, WholeTypes DEF Readable, Stored
  <2>2. CASE path # Absent
    <3>1. path \in Inodes /\ data[path] # Blank
      BY <2>2 DEF Init
    <3>2. data[path] \in Full
      BY <3>1 DEF Init
    <3> QED
      BY <2>2, <3>2, WholeTypes DEF Readable, Stored
  <2> QED
    BY <2>1, <2>2
<1>4. \A p \in Tabs : SaveInv(p)
  BY DEF Init, SaveInv
<1> QED
  BY <1>1, <1>2, <1>3, <1>4 DEF Inv, SerialInv

LEMMA StepParts == TypeOK /\ PartsInv /\ [Next]_vars => PartsInv'
<1> SUFFICES ASSUME TypeOK, PartsInv, [Next]_vars, complete' PROVE
        /\ path' # Absent
        /\ data' \in [Inodes -> Full \cup Unreadable]
        /\ \A p \in Tabs : pc'[p] # "idle" => copy'[p] \in Full
  BY DEF PartsInv
<1>0. /\ complete /\ path # Absent /\ path \in Inodes
      /\ data \in [Inodes -> Full \cup Unreadable]
      /\ \A p \in Tabs : pc[p] # "idle" => copy[p] \in Full
  <2>1. complete
    BY DEF vars, world, Next, Load, Open, Write, Rename, Fail, Die
  <2> QED
    BY <2>1 DEF PartsInv, TypeOK, File
<1>1. CASE UNCHANGED vars
  BY <1>0, <1>1 DEF vars, world, names
<1>2. ASSUME NEW p \in Tabs, NEW part \in Parts, NEW v \in Values, Load(p, part, v)
      PROVE  copy'[p] \in Full /\ copy' = [copy EXCEPT ![p] = copy'[p]]
  <2>1. PICK all \in Loadable : copy' = [copy EXCEPT ![p] = [all EXCEPT ![part] = v]]
    BY <1>2 DEF Load
  <2>2. all \in Full
    BY <1>0, <2>1 DEF Loadable
  <2>3. [all EXCEPT ![part] = v] \in Full
    BY <2>2, WholeTypes
  <2> QED
    BY <2>1, <2>3 DEF TypeOK
<1>3. ASSUME NEW p \in Tabs, Open(p) PROVE data' \in [Inodes -> Full \cup Unreadable]
  BY <1>0, <1>3 DEF Open, Unreadable
<1>4. ASSUME NEW p \in Tabs, Write(p) PROVE data' \in [Inodes -> Full \cup Unreadable]
  <2>1. PICK new \in Overlaid(data[held[p]], copy[p]) :
            data' = [data EXCEPT ![held[p]] = new]
    BY <1>4 DEF Write
  <2>2. copy[p] \in Full
    BY <1>0, <1>4 DEF Write
  <2>3. new \in Full \cup Unreadable
    BY <2>1, <2>2, OverlaidTypes DEF Unreadable
  <2> QED
    BY <1>0, <2>1, <2>3
<1>6. CASE \E p \in Tabs, part \in Parts, v \in Values : Load(p, part, v)
  <2>1. PICK p \in Tabs, part \in Parts, v \in Values : Load(p, part, v)
    BY <1>6
  <2>2. copy'[p] \in Full /\ copy' = [copy EXCEPT ![p] = copy'[p]]
    BY <1>2, <2>1
  <2>3. UNCHANGED <<path, data>> /\ \A q \in Tabs : q # p => pc'[q] = pc[q]
    BY <2>1 DEF Load, Goto, names, TypeOK
  <2> QED
    BY <1>0, <2>2, <2>3 DEF TypeOK
<1>7. CASE \E p \in Tabs : Open(p)
  BY <1>0, <1>3, <1>7 DEF Open, Goto, TypeOK
<1>8. CASE \E p \in Tabs : Write(p)
  BY <1>0, <1>4, <1>8 DEF Write, Goto, TypeOK, names
<1>9. CASE \E p \in Tabs : Rename(p)
  BY <1>0, <1>9 DEF Rename, End, Goto, TypeOK, names
<1>10. CASE \E p \in Tabs : Fail(p)
  BY <1>0, <1>10 DEF Fail, End, Goto, TypeOK, names, Unreadable
<1>11. CASE \E p \in Tabs : Die(p)
  BY <1>0, <1>11 DEF Die, End, Goto, TypeOK, names
<1> QED
  BY <1>1, <1>6, <1>7, <1>8, <1>9, <1>10, <1>11 DEF Next

LEMMA StepNames == TypeOK /\ NamesInv /\ [Next]_vars => NamesInv'
<1> SUFFICES ASSUME TypeOK, NamesInv, [Next]_vars PROVE NamesInv'
  OBVIOUS
<1>1. CASE UNCHANGED names
  BY <1>1 DEF names, NamesInv
<1>2. CASE \E p \in Tabs : Open(p)
  BY <1>2 DEF Open, NamesInv, Unused
<1>3. CASE \E p \in Tabs : Rename(p)
  BY <1>3 DEF Rename, NamesInv, names
<1> QED
  BY <1>1, <1>2, <1>3 DEF Next, Load, Write, Fail, Die, vars

-----------------------------------------------------------------------------
(* Where saves do not overlap.                                               *)

LEMMA StepSerial == Inv /\ [Next]_vars => SerialInv'
<1> SUFFICES ASSUME Inv, [Next]_vars, serial' PROVE Readable' /\ \A r \in Tabs : SaveInv(r)'
  BY DEF SerialInv
<1>0. /\ serial /\ TypeOK /\ NamesInv /\ Readable
      /\ \A r \in Tabs : SaveInv(r)
  <2>1. serial
    BY DEF vars, world, Next, Load, Open, Write, Rename, Fail, Die
  <2> QED
    BY <2>1 DEF Inv, SerialInv
<1>1. CASE UNCHANGED vars
  <2>1. UNCHANGED <<path, tmp, data, pc, copy, held>> /\ Stored' = Stored
    BY <1>1 DEF vars, names, Stored
  <2>2. Readable'
    BY <1>0, <2>1 DEF Readable
  <2>3. ASSUME NEW r \in Tabs PROVE SaveInv(r)'
    <3>1. SaveInv(r)
      BY <1>0
    <3> QED
      BY <2>1, <3>1 DEF SaveInv
  <2> QED
    BY <2>2, <2>3
<1>2. ASSUME NEW p \in Tabs, NEW part \in Parts, NEW v \in Values, Load(p, part, v)
      PROVE  Readable' /\ \A r \in Tabs : SaveInv(r)'
  <2>1. PICK all \in Loadable : copy' = [copy EXCEPT ![p] = [all EXCEPT ![part] = v]]
    BY <1>2 DEF Load
  <2>2. all = Stored
    BY <2>1 DEF Loadable, Stored
  <2>3. UNCHANGED <<path, tmp, data, held>> /\ Stored' = Stored
    BY <1>2 DEF Load, names, Stored
  <2>4. copy'[p] = [Stored' EXCEPT ![part] = v]
    BY <1>0, <2>1, <2>2, <2>3 DEF TypeOK
  <2>5. \A q \in Tabs : pc[q] = "idle" /\ pc'[q] = IF q = p THEN "loaded" ELSE "idle"
    BY <1>0, <1>2 DEF Load, Goto, TypeOK
  <2> QED
    BY <1>0, <2>3, <2>4, <2>5 DEF SaveInv, Readable
<1>3. ASSUME NEW p \in Tabs, Open(p)
      PROVE  Readable' /\ \A r \in Tabs : SaveInv(r)'
  <2>1. PICK i \in IF tmp = Absent THEN Unused ELSE {tmp} :
            /\ tmp' = i
            /\ held' = [held EXCEPT ![p] = i]
            /\ data' = [data EXCEPT ![i] = Blank]
    BY <1>3 DEF Open
  <2>2. i \in Inodes /\ i # path /\ i # Absent
    BY <1>0, <2>1, SettingsAssumption DEF Unused, TypeOK, File, NamesInv
  <2>3. Stored' = Stored
    BY <1>0, <1>3, <2>1, <2>2 DEF Open, Stored, TypeOK, File
  <2>4. /\ \A q \in Tabs : q # p => pc[q] = "idle"
        /\ \A q \in Tabs : pc'[q] = IF q = p THEN "open" ELSE "idle"
        /\ \E part \in Parts, v \in Values : copy'[p] = [Stored' EXCEPT ![part] = v]
    BY <1>0, <1>3, <2>3 DEF Open, Goto, TypeOK, SaveInv
  <2>5. held'[p] = tmp' /\ tmp' # Absent /\ data'[tmp'] = Blank
    BY <1>0, <2>1, <2>2 DEF TypeOK
  <2> QED
    BY <1>0, <2>3, <2>4, <2>5 DEF SaveInv, Readable
<1>4. ASSUME NEW p \in Tabs, Write(p)
      PROVE  Readable' /\ \A r \in Tabs : SaveInv(r)'
  <2>1. /\ held[p] = tmp /\ tmp # Absent /\ tmp \in Inodes /\ data[tmp] = Blank
        /\ tmp # path
        /\ \A q \in Tabs : q # p => pc[q] = "idle"
        /\ \E part \in Parts, v \in Values : copy[p] = [Stored EXCEPT ![part] = v]
    BY <1>0, <1>4 DEF Write, SaveInv, NamesInv, TypeOK, File
  <2>2. UNCHANGED <<path, tmp, copy>> /\ data' = [data EXCEPT ![tmp] = copy[p]]
    BY <1>4, <2>1 DEF Write, Overlaid, names
  <2>3. Stored' = Stored
    BY <1>0, <2>1, <2>2 DEF Stored, TypeOK, File
  <2>4. \A q \in Tabs : pc'[q] = IF q = p THEN "written" ELSE "idle"
    BY <1>0, <1>4, <2>1 DEF Write, Goto, TypeOK
  <2>5. tmp' # Absent /\ data'[tmp'] = copy'[p]
    BY <1>0, <2>1, <2>2 DEF TypeOK
  <2> QED
    BY <1>0, <2>1, <2>2, <2>3, <2>4, <2>5 DEF SaveInv, Readable
<1>5. ASSUME NEW p \in Tabs, Rename(p)
      PROVE  Readable' /\ \A r \in Tabs : SaveInv(r)'
  <2>1. /\ tmp # Absent /\ data[tmp] = copy[p]
        /\ \A q \in Tabs : q # p => pc[q] = "idle"
    BY <1>0, <1>5 DEF Rename, SaveInv
  <2>2. path' = tmp /\ data' = data
    BY <1>5, <2>1 DEF Rename
  <2>3. Readable'
    BY <1>0, <2>1, <2>2, WholeTypes DEF Readable, Stored, TypeOK
  <2>4. \A q \in Tabs : pc'[q] = "idle"
    BY <1>0, <1>5, <2>1 DEF Rename, End, Goto, TypeOK
  <2> QED
    BY <2>3, <2>4 DEF SaveInv
<1>6. ASSUME NEW p \in Tabs, Fail(p)
      PROVE  Readable' /\ \A r \in Tabs : SaveInv(r)'
  <2>1. /\ held[p] = tmp /\ tmp # Absent /\ tmp \in Inodes /\ tmp # path
        /\ \A q \in Tabs : q # p => pc[q] = "idle"
    BY <1>0, <1>6 DEF Fail, SaveInv, NamesInv, TypeOK, File
  <2>2. Stored' = Stored
    BY <1>0, <1>6, <2>1 DEF Fail, Stored, TypeOK, File, names
  <2>3. \A q \in Tabs : pc'[q] = "idle"
    BY <1>0, <1>6, <2>1 DEF Fail, End, Goto, TypeOK
  <2> QED
    BY <1>0, <2>2, <2>3 DEF SaveInv, Readable
<1>7. ASSUME NEW p \in Tabs, Die(p)
      PROVE  Readable' /\ \A r \in Tabs : SaveInv(r)'
  <2>1. Stored' = Stored
    BY <1>7 DEF Die, Stored, names
  <2>2. \A q \in Tabs : pc'[q] = "idle"
    BY <1>0, <1>7 DEF Die, End, Goto, TypeOK, SaveInv
  <2> QED
    BY <1>0, <2>1, <2>2 DEF SaveInv, Readable
<1> QED
  BY <1>1, <1>2, <1>3, <1>4, <1>5, <1>6, <1>7 DEF Next

LEMMA Inductive == Inv /\ [Next]_vars => Inv'
BY StepType, StepParts, StepNames, StepSerial DEF Inv

LEMMA Invariance == Spec => []Inv
BY InitInv, Inductive, PTL DEF Spec

(* Where saves do not overlap a reader finds a whole file or none: at every  *)
(* moment of a save, and after one that failed or was killed anywhere.       *)
THEOREM SettingsReadable == Spec => []ReadableIfSerial
<1>1. Inv => ReadableIfSerial
  BY DEF Inv, SerialInv, ReadableIfSerial
<1> QED
  BY <1>1, Invariance, PTL

(* However the saves of any number of tabs overlap, fail or are killed, a    *)
(* file that can be read has every part that was there at the start.         *)
THEOREM SettingsKept == Spec => []PartsKept
<1>1. Inv => PartsKept
  BY DEF Inv, PartsInv, PartsKept, Stored, Readable, TypeOK, File
<1> QED
  BY <1>1, Invariance, PTL

(* The initial file is one of the store's, and every step is a save, nothing *)
(* at all, or, where saves overlap, one of what the store then allows.       *)
LEMMA InitStore == Init => Store!StoreInit
<1> SUFFICES ASSUME Init PROVE Store!StoreInit
  OBVIOUS
<1>1. Inv
  BY InitInv
<1>2. CASE path = Absent
  BY <1>1, <1>2, WholeTypes, SettingsAssumption
     DEF Init, Inv, TypeOK, Stored, Store!StoreInit, Store!Whole, Store!Full, Whole
<1>3. CASE path # Absent
  <2>1. path \in Inodes /\ data[path] \in Full
    BY <1>3 DEF Init
  <2> QED
    BY <1>1, <1>3, <2>1, WholeTypes
       DEF Inv, TypeOK, Stored, Store!StoreInit, Store!Whole, Store!Full, Whole, Full
<1> QED
  BY <1>2, <1>3

LEMMA StepStore == Inv /\ Inv' /\ [Next]_vars => [Store!StoreNext]_(Store!storeVars)
<1> SUFFICES ASSUME Inv, Inv', [Next]_vars PROVE [Store!StoreNext]_(Store!storeVars)
  OBVIOUS
<1>1. UNCHANGED <<serial, complete>>
  BY DEF vars, world, Next, Load, Open, Write, Rename, Fail, Die
<1>2. CASE ~serial
  <2>1. /\ Stored' \in Whole \cup Unreadable
        /\ complete => Stored' \in Full \cup Unreadable
    BY <1>1, WholeTypes DEF Inv, TypeOK, PartsInv, Stored, File
  <2>2. Store!Overlap
    BY <1>2, <2>1 DEF Store!Overlap, Store!Whole, Store!Full, Whole, Full
  <2> QED
    BY <1>1, <2>2 DEF Store!StoreNext
<1>3. CASE serial
  <2>1. /\ TypeOK /\ NamesInv /\ \A p \in Tabs : SaveInv(p)
    BY <1>3 DEF Inv, SerialInv
  <2>2. CASE UNCHANGED <<path, data>>
    BY <1>1, <2>2 DEF Stored, Store!storeVars
  <2>3. ASSUME NEW p \in Tabs, Open(p) PROVE Stored' = Stored
    <3>1. PICK i \in IF tmp = Absent THEN Unused ELSE {tmp} : data' = [data EXCEPT ![i] = Blank]
      BY <2>3 DEF Open
    <3>2. i # path
      BY <2>1, <3>1 DEF Unused, NamesInv
    <3> QED
      BY <2>1, <2>3, <3>1, <3>2 DEF Open, Stored, TypeOK, File
  <2>4. ASSUME NEW p \in Tabs, Write(p) \/ Fail(p) PROVE Stored' = Stored
    <3>1. held[p] = tmp /\ tmp # path /\ path' = path
      BY <2>1, <2>4 DEF Write, Fail, SaveInv, NamesInv, names
    <3>2. \E new : data' = [data EXCEPT ![tmp] = new]
      BY <2>4, <3>1 DEF Write, Fail
    <3> QED
      BY <2>1, <3>1, <3>2 DEF Stored, TypeOK, File
  <2>5. ASSUME NEW p \in Tabs, Rename(p)
        PROVE  \E part \in Parts, v \in Values : Store!Save(part, v)
    <3>1. tmp # Absent /\ data[tmp] = copy[p] /\ path' = tmp /\ data' = data
      BY <2>1, <2>5 DEF Rename, SaveInv
    <3>2. Stored' = copy[p]
      BY <3>1 DEF Stored
    <3>3. \E part \in Parts, v \in Values : copy[p] = [Stored EXCEPT ![part] = v]
      BY <2>1, <2>5 DEF Rename, SaveInv
    <3> QED
      BY <3>2, <3>3 DEF Store!Save
  <2>6. ASSUME Stored' = Stored PROVE UNCHANGED Store!storeVars
    BY <1>1, <2>6 DEF Store!storeVars
  <2>7. CASE \E p \in Tabs : Open(p) \/ Write(p) \/ Fail(p)
    BY <2>3, <2>4, <2>6, <2>7
  <2>8. CASE \E p \in Tabs : Rename(p)
    BY <1>1, <2>5, <2>8 DEF Store!StoreNext
  <2> QED
    BY <2>2, <2>7, <2>8 DEF Next, Load, Die, vars, names
<1> QED
  BY <1>2, <1>3

(* The settings file implements SettingsStore, for any number of tabs.       *)
THEOREM SettingsImplementStore == Spec => ImplementsStore
BY InitStore, StepStore, Invariance, PTL
   DEF Spec, ImplementsStore, Store!StoreSpec

=============================================================================
