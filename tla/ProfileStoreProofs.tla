-------------------------- MODULE ProfileStoreProofs --------------------------
(***************************************************************************)
(* Theorems of ProfileStore, for any names, any number of workers and any  *)
(* number of keys, and of ClientWindow, which works on the profile that is *)
(* selected there.                                                         *)
(*                                                                         *)
(* Who creates a key file owns it until it is reported or removed, because *)
(* nobody else can create it meanwhile and nobody replaces it; only an     *)
(* owner fills or removes a file.  So what is reported has no owner, and   *)
(* nothing that happens to a file happens to it.                           *)
(***************************************************************************)
EXTENDS ProfileStore, ClientWindow, TLAPS

USE DEF files, ui, wk, history, WritingFails

Selecting == uiPc \in {"open", "write"}

HasWallet ==
    \/ uiPc \in {"walletWrite", "walletDrop", "identity", "identityWrite",
                 "identityDrop", "undoOne", "list", "undoBoth"}
    \/ Selecting /\ uiOp = "create"
HasIdentity ==
    \/ uiPc \in {"identityWrite", "identityDrop", "list", "undoBoth", "undoIdentity"}
    \/ Selecting /\ uiOp = "create"

\* The files the window's thread, and a worker, made and did not yet report.
UiOwns(p) == \/ HasWallet /\ p = Wallet(uiName)
             \/ HasIdentity /\ p = Identity(uiName)
WkOwns(w, p) == wkPc[w] \in {"write", "drop"} /\ p = Target(w)

\* A file has one owner, and it is there.
Owners ==
    /\ \A p \in Paths : UiOwns(p) => file[p] # NoFile
    /\ \A p \in Paths, w \in Workers : WkOwns(w, p) => file[p] = Torn /\ ~UiOwns(p)
    /\ \A p \in Paths, v, w \in Workers : WkOwns(v, p) /\ WkOwns(w, p) => v = w

\* A reported key is in its file, and nobody owns the file any more.
KeptOne(r) ==
    /\ file[r[1]] = r[2]
    /\ ~UiOwns(r[1])
    /\ \A w \in Workers : ~WkOwns(w, r[1])
Kept == \A r \in reported : KeptOne(r)

\* Where an operation is says what it works on.
Places ==
    /\ uiPc # "idle" => uiName \in Profiles
    /\ uiPc \notin {"idle", "unselect"} => uiName \in Names
    /\ uiPc \notin {"idle", "unselect", "open", "write"} => uiOp = "create"
    /\ Selecting => uiOp \in {"create", "select"}
    /\ \A w \in Workers :
        /\ wkPc[w] # "idle" => wkJob[w] \in Jobs
        /\ wkPc[w] \in {"reach", "write", "drop", "read"} => wkProfile[w] \in Profiles

\* What the window's thread has made is a key.
KeysMade ==
    /\ \/ uiPc \in {"identity", "identityWrite", "identityDrop", "list"}
       \/ Selecting /\ uiOp = "create"
       => file[Wallet(uiName)] \in Keys
    /\ uiPc = "list" \/ (Selecting /\ uiOp = "create") => file[Identity(uiName)] \in Keys

Inv == TypeOK /\ Places /\ Owners /\ KeysMade /\ Kept

-----------------------------------------------------------------------------
(* Files.                                                                   *)

LEMMA PathFacts ==
    \A n \in Profiles : /\ Wallet(n) \in Paths /\ Identity(n) \in Paths
                        /\ Wallet(n) # Identity(n)
BY DEF Paths, Wallet, Identity

LEMMA TargetPath ==
    ASSUME NEW w \in Workers, wkJob[w] \in Jobs, wkProfile[w] \in Profiles
    PROVE  Target(w) \in Paths
BY DEF Target, Jobs, Paths

Only(p) == \A q \in Paths : q # p => file'[q] = file[q]

LEMMA NewFileFacts ==
    ASSUME TypeOK, NEW p \in Paths, NewFile(p)
    PROVE  /\ file' \in [Paths -> FileStates] /\ Only(p)
           /\ file[p] = NoFile /\ file'[p] = Torn /\ file'[p] # NoFile
BY MarksAssumption DEF TypeOK, NewFile, Only, FileStates

LEMMA FillFileFacts ==
    ASSUME TypeOK, NEW p \in Paths, FillFile(p)
    PROVE  /\ file' \in [Paths -> FileStates] /\ Only(p)
           /\ lastKey' = lastKey + 1 /\ lastKey' \in 0..MaxKeys
           /\ file'[p] = lastKey' /\ file'[p] \in Keys /\ file'[p] # NoFile
<1>1. lastKey' = lastKey + 1 /\ lastKey' \in Keys /\ lastKey' \in 0..MaxKeys
    BY NamesAssumption DEF TypeOK, FillFile, Keys
<1>2. file' = [file EXCEPT ![p] = lastKey'] /\ file \in [Paths -> FileStates]
    BY DEF TypeOK, FillFile
<1>3. lastKey' \in FileStates /\ lastKey' # NoFile
    BY <1>1, MarksAssumption DEF FileStates
<1>4. QED
    BY <1>1, <1>2, <1>3 DEF Only

LEMMA RemoveFacts ==
    ASSUME TypeOK, NEW p \in Paths, Remove(p)
    PROVE  /\ file' \in [Paths -> FileStates] /\ Only(p)
           /\ file'[p] \in {file[p], NoFile}
BY DEF TypeOK, Remove, Only, FileStates

\* What the window's thread does to files it owns, or to files that are not
\* there, leaves every other owner and every reported key alone.
LEMMA UiKeeps ==
    ASSUME TypeOK, Owners, Kept,
           NEW P \in SUBSET Paths,
           \A q \in Paths \ P : file'[q] = file[q],
           \A q \in P : file[q] = NoFile \/ UiOwns(q),
           \A q \in Paths : UiOwns(q)' => file'[q] # NoFile /\ (UiOwns(q) \/ q \in P),
           UNCHANGED wk
    PROVE  Owners' /\ \A r \in reported : KeptOne(r)'
<1>1. \A w \in Workers, q \in Paths : WkOwns(w, q)' <=> WkOwns(w, q)
    BY DEF WkOwns, Target
<1>2. \A w \in Workers, q \in Paths : WkOwns(w, q) => q \notin P /\ file[q] = Torn
    BY MarksAssumption DEF Owners, FileStates
<1>3. Owners'
    BY <1>1, <1>2 DEF Owners
<1>4. ASSUME NEW r \in reported
      PROVE  KeptOne(r)'
    <2>1. r[1] \in Paths /\ r[2] \in Keys
        BY DEF TypeOK
    <2>2. r[1] \notin P
        BY <2>1, MarksAssumption DEF Kept, KeptOne
    <2>3. QED
        BY <1>1, <2>1, <2>2 DEF Kept, KeptOne
<1>5. QED
    BY <1>3, <1>4

\* The same of a worker, which owns at most one file.
LEMMA WkKeeps ==
    ASSUME TypeOK, Owners, Kept, NEW w \in Workers,
           NEW P \in SUBSET Paths,
           \A q \in Paths \ P : file'[q] = file[q],
           \A q \in P : file[q] = NoFile \/ WkOwns(w, q),
           \A q \in Paths : WkOwns(w, q)' => file'[q] = Torn /\ (WkOwns(w, q) \/ q \in P),
           \A v \in Workers \ {w}, q \in Paths : WkOwns(v, q)' <=> WkOwns(v, q),
           UNCHANGED ui
    PROVE  Owners' /\ \A r \in reported : KeptOne(r)'
<1>1. \A q \in Paths : UiOwns(q)' <=> UiOwns(q)
    BY DEF UiOwns, HasWallet, HasIdentity, Selecting
<1>2. \A q \in Paths : UiOwns(q) => q \notin P
    BY DEF Owners
<1>3. \A v \in Workers \ {w}, q \in Paths : WkOwns(v, q) => q \notin P
    BY MarksAssumption DEF Owners, FileStates
<1>4. Owners'
    BY <1>1, <1>2, <1>3 DEF Owners
<1>5. ASSUME NEW r \in reported
      PROVE  KeptOne(r)'
    <2>1. r[1] \in Paths /\ r[2] \in Keys
        BY DEF TypeOK
    <2>2. r[1] \notin P
        BY <2>1, MarksAssumption DEF Kept, KeptOne
    <2>3. QED
        BY <1>1, <2>1, <2>2 DEF Kept, KeptOne
<1>6. QED
    BY <1>4, <1>5

-----------------------------------------------------------------------------
(* The window's thread.                                                     *)

LEMMA UiPaths ==
    Places /\ uiPc # "idle" => Wallet(uiName) \in Paths /\ Identity(uiName) \in Paths
BY PathFacts DEF Places

\* The parts of TypeOK.
FileType == /\ file \in [Paths -> FileStates] /\ lastKey \in 0..MaxKeys
NameType == /\ active \in Names \cup {NoFile, Empty} /\ list \subseteq Names
UiType == /\ uiPc \in UiPcs /\ uiOp \in {"create", "select", None}
          /\ uiName \in Profiles \cup {None} /\ answer \in Profiles \cup {None}
WkType == /\ wkPc \in [Workers -> WkPcs]
          /\ wkJob \in [Workers -> Jobs \cup {None}]
          /\ wkProfile \in [Workers -> Profiles \cup {None}]
          /\ held \in [Workers -> Paths \cup {Active, None}]
ReportType == reported \subseteq Paths \X Keys

UnfinishedType == unfinished \subseteq Paths \cup {Active}

LEMMA TypeParts ==
    TypeOK <=> FileType /\ NameType /\ UiType /\ WkType /\ ReportType /\ UnfinishedType
BY Zenon DEF TypeOK, FileType, NameType, UiType, WkType, ReportType, UnfinishedType

LEMMA UiFileType ==
    ASSUME TypeOK, Places, UiStep
    PROVE  FileType'
<1>0. FileType
    BY TypeParts
<1> USE <1>0
<1>1. ASSUME NEW n \in Names, BeginCreate(n)
      PROVE  FileType'
    BY <1>1, UiPaths DEF BeginCreate, Return, FileType
<1>2. ASSUME NEW n \in Profiles, BeginSelect(n)
      PROVE  FileType'
    BY <1>2, UiPaths DEF BeginSelect, Return, FileType
<1>3. CASE CreateWallet
    BY <1>3, NewFileFacts, UiPaths DEF CreateWallet, GoUi, Return, FileType
<1>4. CASE WriteWallet
    BY <1>4, FillFileFacts, UiPaths DEF WriteWallet, GoUi, FileType
<1>5. CASE DropWallet
    BY <1>5, RemoveFacts, UiPaths DEF DropWallet, Return, FileType
<1>6. CASE CreateIdentity
    BY <1>6, NewFileFacts, UiPaths DEF CreateIdentity, GoUi, FileType
<1>7. CASE WriteIdentity
    BY <1>7, FillFileFacts, UiPaths DEF WriteIdentity, GoUi, FileType
<1>8. CASE DropIdentity
    BY <1>8, RemoveFacts, UiPaths DEF DropIdentity, GoUi, FileType
<1>9. CASE UndoOne
    BY <1>9, RemoveFacts, UiPaths DEF UndoOne, Return, FileType
<1>10. CASE AddToList
    BY <1>10, UiPaths DEF AddToList, GoUi, FileType
<1>11. CASE OpenActive
    BY <1>11, UiPaths DEF OpenActive, GoUi, AfterFailedSelection, Return, FileType
<1>12. CASE WriteActive
    BY <1>12, UiPaths DEF WriteActive, Return, AfterFailedSelection, GoUi, FileType
<1>13. CASE UndoBoth
    BY <1>13, RemoveFacts, UiPaths DEF UndoBoth, GoUi, FileType
<1>14. CASE UndoIdentity
    BY <1>14, RemoveFacts, UiPaths DEF UndoIdentity, Return, FileType
<1>15. CASE Unselect
    BY <1>15, UiPaths DEF Unselect, Return, FileType
<1>16. QED
    BY <1>1, <1>2, <1>3, <1>4, <1>5, <1>6, <1>7, <1>8, <1>9, <1>10, <1>11, <1>12, <1>13, <1>14, <1>15 DEF UiStep

LEMMA UiNameType ==
    ASSUME TypeOK, Places, UiStep
    PROVE  NameType'
<1>0. NameType
    BY TypeParts
<1> USE <1>0, NamesAssumption
<1>1. ASSUME NEW n \in Names, BeginCreate(n)
      PROVE  NameType'
    BY <1>1 DEF BeginCreate, Return, NameType, Places
<1>2. ASSUME NEW n \in Profiles, BeginSelect(n)
      PROVE  NameType'
    BY <1>2 DEF BeginSelect, Return, NameType, Places
<1>3. CASE CreateWallet
    BY <1>3 DEF CreateWallet, GoUi, Return, NameType, Places
<1>4. CASE WriteWallet
    BY <1>4 DEF WriteWallet, GoUi, NameType, Places
<1>5. CASE DropWallet
    BY <1>5 DEF DropWallet, Return, NameType, Places
<1>6. CASE CreateIdentity
    BY <1>6 DEF CreateIdentity, GoUi, NameType, Places
<1>7. CASE WriteIdentity
    BY <1>7 DEF WriteIdentity, GoUi, NameType, Places
<1>8. CASE DropIdentity
    BY <1>8 DEF DropIdentity, GoUi, NameType, Places
<1>9. CASE UndoOne
    BY <1>9 DEF UndoOne, Return, NameType, Places
<1>10. CASE AddToList
    BY <1>10 DEF AddToList, GoUi, NameType, Places
<1>11. CASE OpenActive
    BY <1>11 DEF OpenActive, GoUi, AfterFailedSelection, Return, NameType, Places
<1>12. CASE WriteActive
    BY <1>12 DEF WriteActive, Return, AfterFailedSelection, GoUi, NameType, Places
<1>13. CASE UndoBoth
    BY <1>13 DEF UndoBoth, GoUi, NameType, Places
<1>14. CASE UndoIdentity
    BY <1>14 DEF UndoIdentity, Return, NameType, Places
<1>15. CASE Unselect
    BY <1>15 DEF Unselect, Return, NameType, Places
<1>16. QED
    BY <1>1, <1>2, <1>3, <1>4, <1>5, <1>6, <1>7, <1>8, <1>9, <1>10, <1>11, <1>12, <1>13, <1>14, <1>15 DEF UiStep

LEMMA UiUiType ==
    ASSUME TypeOK, Places, UiStep
    PROVE  UiType'
<1>0. UiType
    BY TypeParts
<1> USE <1>0
<1>1. ASSUME NEW n \in Names, BeginCreate(n)
      PROVE  UiType'
    BY <1>1 DEF BeginCreate, Return, UiType, UiPcs, Places, Profiles
<1>2. ASSUME NEW n \in Profiles, BeginSelect(n)
      PROVE  UiType'
    BY <1>2 DEF BeginSelect, Return, UiType, UiPcs, Places, Profiles
<1>3. CASE CreateWallet
    BY <1>3 DEF CreateWallet, GoUi, Return, UiType, UiPcs, Places, Profiles
<1>4. CASE WriteWallet
    BY <1>4 DEF WriteWallet, GoUi, UiType, UiPcs, Places, Profiles
<1>5. CASE DropWallet
    BY <1>5 DEF DropWallet, Return, UiType, UiPcs, Places, Profiles
<1>6. CASE CreateIdentity
    BY <1>6 DEF CreateIdentity, GoUi, UiType, UiPcs, Places, Profiles
<1>7. CASE WriteIdentity
    BY <1>7 DEF WriteIdentity, GoUi, UiType, UiPcs, Places, Profiles
<1>8. CASE DropIdentity
    BY <1>8 DEF DropIdentity, GoUi, UiType, UiPcs, Places, Profiles
<1>9. CASE UndoOne
    BY <1>9 DEF UndoOne, Return, UiType, UiPcs, Places, Profiles
<1>10. CASE AddToList
    BY <1>10 DEF AddToList, GoUi, UiType, UiPcs, Places, Profiles
<1>11. CASE OpenActive
    BY <1>11 DEF OpenActive, GoUi, AfterFailedSelection, Return, UiType, UiPcs, Places, Profiles
<1>12. CASE WriteActive
    BY <1>12 DEF WriteActive, Return, AfterFailedSelection, GoUi, UiType, UiPcs, Places, Profiles
<1>13. CASE UndoBoth
    BY <1>13 DEF UndoBoth, GoUi, UiType, UiPcs, Places, Profiles
<1>14. CASE UndoIdentity
    BY <1>14 DEF UndoIdentity, Return, UiType, UiPcs, Places, Profiles
<1>15. CASE Unselect
    BY <1>15 DEF Unselect, Return, UiType, UiPcs, Places, Profiles
<1>16. QED
    BY <1>1, <1>2, <1>3, <1>4, <1>5, <1>6, <1>7, <1>8, <1>9, <1>10, <1>11, <1>12, <1>13, <1>14, <1>15 DEF UiStep

LEMMA UiPlaces ==
    ASSUME TypeOK, Places, UiStep
    PROVE  Places'
<1>0. Default \notin Names
    BY NamesAssumption
<1> USE <1>0
<1>1. ASSUME NEW n \in Names, BeginCreate(n)
      PROVE  Places'
    BY <1>1 DEF BeginCreate, Return, Places, Profiles, Selecting
<1>2. ASSUME NEW n \in Profiles, BeginSelect(n)
      PROVE  Places'
    BY <1>2 DEF BeginSelect, Return, Places, Profiles, Selecting
<1>3. CASE CreateWallet
    BY <1>3 DEF CreateWallet, GoUi, Return, Places, Profiles, Selecting
<1>4. CASE WriteWallet
    BY <1>4 DEF WriteWallet, GoUi, Places, Profiles, Selecting
<1>5. CASE DropWallet
    BY <1>5 DEF DropWallet, Return, Places, Profiles, Selecting
<1>6. CASE CreateIdentity
    BY <1>6 DEF CreateIdentity, GoUi, Places, Profiles, Selecting
<1>7. CASE WriteIdentity
    BY <1>7 DEF WriteIdentity, GoUi, Places, Profiles, Selecting
<1>8. CASE DropIdentity
    BY <1>8 DEF DropIdentity, GoUi, Places, Profiles, Selecting
<1>9. CASE UndoOne
    BY <1>9 DEF UndoOne, Return, Places, Profiles, Selecting
<1>10. CASE AddToList
    BY <1>10 DEF AddToList, GoUi, Places, Profiles, Selecting
<1>11. CASE OpenActive
    BY <1>11 DEF OpenActive, GoUi, AfterFailedSelection, Return, Places, Profiles, Selecting
<1>12. CASE WriteActive
    BY <1>12 DEF WriteActive, Return, AfterFailedSelection, GoUi, Places, Profiles, Selecting
<1>13. CASE UndoBoth
    BY <1>13 DEF UndoBoth, GoUi, Places, Profiles, Selecting
<1>14. CASE UndoIdentity
    BY <1>14 DEF UndoIdentity, Return, Places, Profiles, Selecting
<1>15. CASE Unselect
    BY <1>15 DEF Unselect, Return, Places, Profiles, Selecting
<1>16. QED
    BY <1>1, <1>2, <1>3, <1>4, <1>5, <1>6, <1>7, <1>8, <1>9, <1>10, <1>11, <1>12, <1>13, <1>14, <1>15 DEF UiStep

LEMMA UiKeysMade ==
    ASSUME TypeOK, Places, KeysMade, UiStep
    PROVE  KeysMade'
<1>1. ASSUME NEW n \in Names, BeginCreate(n)
      PROVE  KeysMade'
    BY <1>1, UiPaths, PathFacts DEF BeginCreate, Return, KeysMade, Only, Selecting, Places, Profiles
<1>2. ASSUME NEW n \in Profiles, BeginSelect(n)
      PROVE  KeysMade'
    BY <1>2, UiPaths, PathFacts DEF BeginSelect, Return, KeysMade, Only, Selecting, Places, Profiles
<1>3. CASE CreateWallet
    BY <1>3, NewFileFacts, UiPaths, PathFacts DEF CreateWallet, GoUi, Return, KeysMade, Only, Selecting, Places, Profiles
<1>4. CASE WriteWallet
    BY <1>4, FillFileFacts, UiPaths, PathFacts DEF WriteWallet, GoUi, KeysMade, Only, Selecting, Places, Profiles
<1>5. CASE DropWallet
    BY <1>5, RemoveFacts, UiPaths, PathFacts DEF DropWallet, Return, KeysMade, Only, Selecting, Places, Profiles
<1>6. CASE CreateIdentity
    BY <1>6, NewFileFacts, UiPaths, PathFacts DEF CreateIdentity, GoUi, KeysMade, Only, Selecting, Places, Profiles
<1>7. CASE WriteIdentity
    BY <1>7, FillFileFacts, UiPaths, PathFacts DEF WriteIdentity, GoUi, KeysMade, Only, Selecting, Places, Profiles
<1>8. CASE DropIdentity
    BY <1>8, RemoveFacts, UiPaths, PathFacts DEF DropIdentity, GoUi, KeysMade, Only, Selecting, Places, Profiles
<1>9. CASE UndoOne
    BY <1>9, RemoveFacts, UiPaths, PathFacts DEF UndoOne, Return, KeysMade, Only, Selecting, Places, Profiles
<1>10. CASE AddToList
    BY <1>10, UiPaths, PathFacts DEF AddToList, GoUi, KeysMade, Only, Selecting, Places, Profiles
<1>11. CASE OpenActive
    BY <1>11, UiPaths, PathFacts DEF OpenActive, GoUi, AfterFailedSelection, Return, KeysMade, Only, Selecting, Places, Profiles
<1>12. CASE WriteActive
    BY <1>12, UiPaths, PathFacts DEF WriteActive, Return, AfterFailedSelection, GoUi, KeysMade, Only, Selecting, Places, Profiles
<1>13. CASE UndoBoth
    BY <1>13, RemoveFacts, UiPaths, PathFacts DEF UndoBoth, GoUi, KeysMade, Only, Selecting, Places, Profiles
<1>14. CASE UndoIdentity
    BY <1>14, RemoveFacts, UiPaths, PathFacts DEF UndoIdentity, Return, KeysMade, Only, Selecting, Places, Profiles
<1>15. CASE Unselect
    BY <1>15, UiPaths, PathFacts DEF Unselect, Return, KeysMade, Only, Selecting, Places, Profiles
<1>16. QED
    BY <1>1, <1>2, <1>3, <1>4, <1>5, <1>6, <1>7, <1>8, <1>9, <1>10, <1>11, <1>12, <1>13, <1>14, <1>15 DEF UiStep

LEMMA UiOwners ==
    ASSUME TypeOK, Places, Owners, Kept, UiStep
    PROVE  Owners' /\ \A r \in reported : KeptOne(r)'
<1>0. ASSUME UNCHANGED <<file, wk>>, \A q \in Paths : UiOwns(q)' => UiOwns(q)
      PROVE  Owners' /\ \A r \in reported : KeptOne(r)'
    <2>1. /\ {} \in SUBSET Paths
          /\ \A q \in Paths \ {} : file'[q] = file[q]
          /\ \A q \in {} : file[q] = NoFile \/ UiOwns(q)
        BY <1>0
    <2>2. \A q \in Paths : UiOwns(q)' => file'[q] # NoFile /\ (UiOwns(q) \/ q \in {})
        BY <1>0 DEF Owners
    <2>3. QED
        BY <1>0, <2>1, <2>2, UiKeeps
<1>1. ASSUME NEW n \in Names, BeginCreate(n)
      PROVE  Owners' /\ \A r \in reported : KeptOne(r)'
    BY <1>1, <1>0 DEF BeginCreate, Return, UiOwns, HasWallet, HasIdentity, Selecting, Owners, Places, Profiles
<1>2. ASSUME NEW n \in Profiles, BeginSelect(n)
      PROVE  Owners' /\ \A r \in reported : KeptOne(r)'
    BY <1>2, <1>0 DEF BeginSelect, Return, UiOwns, HasWallet, HasIdentity, Selecting, Owners, Places, Profiles
<1>3. CASE CreateWallet
    <2> DEFINE P == IF file' = file THEN {} ELSE {Wallet(uiName)}
    <2>1. P \in SUBSET Paths /\ \A q \in Paths \ P : file'[q] = file[q]
        BY <1>3, UiPaths, NewFileFacts DEF CreateWallet, GoUi, Return, Only
    <2>2. \A q \in P : file[q] = NoFile \/ UiOwns(q)
        BY <1>3, UiPaths, NewFileFacts DEF CreateWallet, GoUi, Return, UiOwns, HasWallet, HasIdentity, Selecting
    <2>3. \A q \in Paths : UiOwns(q)' => file'[q] # NoFile /\ (UiOwns(q) \/ q \in P)
        BY <1>3, UiPaths, PathFacts, NewFileFacts DEF CreateWallet, GoUi, Return, Only, Owners, Places, UiOwns, HasWallet, HasIdentity, Selecting
    <2>4. QED
        BY <1>3, <2>1, <2>2, <2>3, UiKeeps DEF CreateWallet
<1>4. CASE WriteWallet
    <2> DEFINE P == IF file' = file THEN {} ELSE {Wallet(uiName)}
    <2>1. P \in SUBSET Paths /\ \A q \in Paths \ P : file'[q] = file[q]
        BY <1>4, UiPaths, FillFileFacts DEF WriteWallet, GoUi, Only
    <2>2. \A q \in P : file[q] = NoFile \/ UiOwns(q)
        BY <1>4, UiPaths, FillFileFacts DEF WriteWallet, GoUi, UiOwns, HasWallet, HasIdentity, Selecting
    <2>3. \A q \in Paths : UiOwns(q)' => file'[q] # NoFile /\ (UiOwns(q) \/ q \in P)
        BY <1>4, UiPaths, PathFacts, FillFileFacts DEF WriteWallet, GoUi, Only, Owners, Places, UiOwns, HasWallet, HasIdentity, Selecting
    <2>4. QED
        BY <1>4, <2>1, <2>2, <2>3, UiKeeps DEF WriteWallet
<1>5. CASE DropWallet
    <2> DEFINE P == IF file' = file THEN {} ELSE {Wallet(uiName)}
    <2>1. P \in SUBSET Paths /\ \A q \in Paths \ P : file'[q] = file[q]
        BY <1>5, UiPaths, RemoveFacts DEF DropWallet, Return, Only
    <2>2. \A q \in P : file[q] = NoFile \/ UiOwns(q)
        BY <1>5, UiPaths, RemoveFacts DEF DropWallet, Return, UiOwns, HasWallet, HasIdentity, Selecting
    <2>3. \A q \in Paths : UiOwns(q)' => file'[q] # NoFile /\ (UiOwns(q) \/ q \in P)
        BY <1>5, UiPaths, PathFacts, RemoveFacts DEF DropWallet, Return, Only, Owners, Places, UiOwns, HasWallet, HasIdentity, Selecting
    <2>4. QED
        BY <1>5, <2>1, <2>2, <2>3, UiKeeps DEF DropWallet
<1>6. CASE CreateIdentity
    <2> DEFINE P == IF file' = file THEN {} ELSE {Identity(uiName)}
    <2>1. P \in SUBSET Paths /\ \A q \in Paths \ P : file'[q] = file[q]
        BY <1>6, UiPaths, NewFileFacts DEF CreateIdentity, GoUi, Only
    <2>2. \A q \in P : file[q] = NoFile \/ UiOwns(q)
        BY <1>6, UiPaths, NewFileFacts DEF CreateIdentity, GoUi, UiOwns, HasWallet, HasIdentity, Selecting
    <2>3. \A q \in Paths : UiOwns(q)' => file'[q] # NoFile /\ (UiOwns(q) \/ q \in P)
        BY <1>6, UiPaths, PathFacts, NewFileFacts DEF CreateIdentity, GoUi, Only, Owners, Places, UiOwns, HasWallet, HasIdentity, Selecting
    <2>4. QED
        BY <1>6, <2>1, <2>2, <2>3, UiKeeps DEF CreateIdentity
<1>7. CASE WriteIdentity
    <2> DEFINE P == IF file' = file THEN {} ELSE {Identity(uiName)}
    <2>1. P \in SUBSET Paths /\ \A q \in Paths \ P : file'[q] = file[q]
        BY <1>7, UiPaths, FillFileFacts DEF WriteIdentity, GoUi, Only
    <2>2. \A q \in P : file[q] = NoFile \/ UiOwns(q)
        BY <1>7, UiPaths, FillFileFacts DEF WriteIdentity, GoUi, UiOwns, HasWallet, HasIdentity, Selecting
    <2>3. \A q \in Paths : UiOwns(q)' => file'[q] # NoFile /\ (UiOwns(q) \/ q \in P)
        BY <1>7, UiPaths, PathFacts, FillFileFacts DEF WriteIdentity, GoUi, Only, Owners, Places, UiOwns, HasWallet, HasIdentity, Selecting
    <2>4. QED
        BY <1>7, <2>1, <2>2, <2>3, UiKeeps DEF WriteIdentity
<1>8. CASE DropIdentity
    <2> DEFINE P == IF file' = file THEN {} ELSE {Identity(uiName)}
    <2>1. P \in SUBSET Paths /\ \A q \in Paths \ P : file'[q] = file[q]
        BY <1>8, UiPaths, RemoveFacts DEF DropIdentity, GoUi, Only
    <2>2. \A q \in P : file[q] = NoFile \/ UiOwns(q)
        BY <1>8, UiPaths, RemoveFacts DEF DropIdentity, GoUi, UiOwns, HasWallet, HasIdentity, Selecting
    <2>3. \A q \in Paths : UiOwns(q)' => file'[q] # NoFile /\ (UiOwns(q) \/ q \in P)
        BY <1>8, UiPaths, PathFacts, RemoveFacts DEF DropIdentity, GoUi, Only, Owners, Places, UiOwns, HasWallet, HasIdentity, Selecting
    <2>4. QED
        BY <1>8, <2>1, <2>2, <2>3, UiKeeps DEF DropIdentity
<1>9. CASE UndoOne
    <2> DEFINE P == IF file' = file THEN {} ELSE {Wallet(uiName)}
    <2>1. P \in SUBSET Paths /\ \A q \in Paths \ P : file'[q] = file[q]
        BY <1>9, UiPaths, RemoveFacts DEF UndoOne, Return, Only
    <2>2. \A q \in P : file[q] = NoFile \/ UiOwns(q)
        BY <1>9, UiPaths, RemoveFacts DEF UndoOne, Return, UiOwns, HasWallet, HasIdentity, Selecting
    <2>3. \A q \in Paths : UiOwns(q)' => file'[q] # NoFile /\ (UiOwns(q) \/ q \in P)
        BY <1>9, UiPaths, PathFacts, RemoveFacts DEF UndoOne, Return, Only, Owners, Places, UiOwns, HasWallet, HasIdentity, Selecting
    <2>4. QED
        BY <1>9, <2>1, <2>2, <2>3, UiKeeps DEF UndoOne
<1>10. CASE AddToList
    BY <1>10, <1>0 DEF AddToList, GoUi, UiOwns, HasWallet, HasIdentity, Selecting, Owners, Places, Profiles
<1>11. CASE OpenActive
    BY <1>11, <1>0 DEF OpenActive, GoUi, AfterFailedSelection, Return, UiOwns, HasWallet, HasIdentity, Selecting, Owners, Places, Profiles
<1>12. CASE WriteActive
    BY <1>12, <1>0 DEF WriteActive, Return, AfterFailedSelection, GoUi, UiOwns, HasWallet, HasIdentity, Selecting, Owners, Places, Profiles
<1>13. CASE UndoBoth
    <2> DEFINE P == IF file' = file THEN {} ELSE {Wallet(uiName)}
    <2>1. P \in SUBSET Paths /\ \A q \in Paths \ P : file'[q] = file[q]
        BY <1>13, UiPaths, RemoveFacts DEF UndoBoth, GoUi, Only
    <2>2. \A q \in P : file[q] = NoFile \/ UiOwns(q)
        BY <1>13, UiPaths, RemoveFacts DEF UndoBoth, GoUi, UiOwns, HasWallet, HasIdentity, Selecting
    <2>3. \A q \in Paths : UiOwns(q)' => file'[q] # NoFile /\ (UiOwns(q) \/ q \in P)
        BY <1>13, UiPaths, PathFacts, RemoveFacts DEF UndoBoth, GoUi, Only, Owners, Places, UiOwns, HasWallet, HasIdentity, Selecting
    <2>4. QED
        BY <1>13, <2>1, <2>2, <2>3, UiKeeps DEF UndoBoth
<1>14. CASE UndoIdentity
    <2> DEFINE P == IF file' = file THEN {} ELSE {Identity(uiName)}
    <2>1. P \in SUBSET Paths /\ \A q \in Paths \ P : file'[q] = file[q]
        BY <1>14, UiPaths, RemoveFacts DEF UndoIdentity, Return, Only
    <2>2. \A q \in P : file[q] = NoFile \/ UiOwns(q)
        BY <1>14, UiPaths, RemoveFacts DEF UndoIdentity, Return, UiOwns, HasWallet, HasIdentity, Selecting
    <2>3. \A q \in Paths : UiOwns(q)' => file'[q] # NoFile /\ (UiOwns(q) \/ q \in P)
        BY <1>14, UiPaths, PathFacts, RemoveFacts DEF UndoIdentity, Return, Only, Owners, Places, UiOwns, HasWallet, HasIdentity, Selecting
    <2>4. QED
        BY <1>14, <2>1, <2>2, <2>3, UiKeeps DEF UndoIdentity
<1>15. CASE Unselect
    BY <1>15, <1>0 DEF Unselect, Return, UiOwns, HasWallet, HasIdentity, Selecting, Owners, Places, Profiles
<1>16. QED
    BY <1>1, <1>2, <1>3, <1>4, <1>5, <1>6, <1>7, <1>8, <1>9, <1>10, <1>11, <1>12, <1>13, <1>14, <1>15 DEF UiStep

\* Only a success of a create reports, and what it reports is made.
LEMMA UiReports ==
    ASSUME TypeOK, Places, KeysMade, UiStep
    PROVE  \/ reported' = reported
           \/ /\ WriteActive /\ uiOp = "create" /\ UNCHANGED file /\ uiPc' = "idle"
              /\ reported' = reported \cup Made(uiName)
<1>1. ASSUME NEW n \in Names, BeginCreate(n)
      PROVE  \/ reported' = reported
             \/ /\ WriteActive /\ uiOp = "create" /\ UNCHANGED file /\ uiPc' = "idle"
                /\ reported' = reported \cup Made(uiName)
    BY <1>1 DEF BeginCreate, Return
<1>2. ASSUME NEW n \in Profiles, BeginSelect(n)
      PROVE  \/ reported' = reported
             \/ /\ WriteActive /\ uiOp = "create" /\ UNCHANGED file /\ uiPc' = "idle"
                /\ reported' = reported \cup Made(uiName)
    BY <1>2 DEF BeginSelect, Return
<1>3. CASE CreateWallet
    BY <1>3 DEF CreateWallet, GoUi, Return
<1>4. CASE WriteWallet
    BY <1>4 DEF WriteWallet, GoUi
<1>5. CASE DropWallet
    BY <1>5 DEF DropWallet, Return
<1>6. CASE CreateIdentity
    BY <1>6 DEF CreateIdentity, GoUi
<1>7. CASE WriteIdentity
    BY <1>7 DEF WriteIdentity, GoUi
<1>8. CASE DropIdentity
    BY <1>8 DEF DropIdentity, GoUi
<1>9. CASE UndoOne
    BY <1>9 DEF UndoOne, Return
<1>10. CASE AddToList
    BY <1>10 DEF AddToList, GoUi
<1>11. CASE OpenActive
    BY <1>11 DEF OpenActive, GoUi, AfterFailedSelection, Return
<1>12. CASE WriteActive
    BY <1>12 DEF WriteActive, Return, AfterFailedSelection, GoUi
<1>13. CASE UndoBoth
    BY <1>13 DEF UndoBoth, GoUi
<1>14. CASE UndoIdentity
    BY <1>14 DEF UndoIdentity, Return
<1>15. CASE Unselect
    BY <1>15 DEF Unselect, Return
<1>16. QED
    BY <1>1, <1>2, <1>3, <1>4, <1>5, <1>6, <1>7, <1>8, <1>9, <1>10, <1>11, <1>12, <1>13, <1>14, <1>15 DEF UiStep

LEMMA MadeFacts ==
    ASSUME TypeOK, Places, Owners, KeysMade, uiPc = "write", uiOp = "create",
           NEW r \in Made(uiName)
    PROVE  /\ r \in Paths \X Keys /\ file[r[1]] = r[2] /\ UiOwns(r[1])
           /\ \A w \in Workers : ~WkOwns(w, r[1])
<1>1. PICK p \in {Wallet(uiName), Identity(uiName)} : r = <<p, file[p]>>
    BY DEF Made
<1>2. p \in Paths /\ file[p] \in Keys
    BY UiPaths DEF KeysMade, Selecting
<1>3. UiOwns(p)
    BY DEF UiOwns, HasWallet, HasIdentity, Selecting
<1>4. QED
    BY <1>1, <1>2, <1>3 DEF Owners

LEMMA UiKept ==
    ASSUME TypeOK, Places, Owners, KeysMade, Kept, UiStep
    PROVE  ReportType' /\ Kept'
<1>1. ReportType /\ \A r \in reported : KeptOne(r)'
    BY TypeParts, UiOwners
<1>2. CASE reported' = reported
    BY <1>1, <1>2 DEF Kept, ReportType
<1>3. CASE /\ WriteActive /\ uiOp = "create" /\ UNCHANGED file /\ uiPc' = "idle"
           /\ reported' = reported \cup Made(uiName)
    <2>1. uiPc = "write" /\ UNCHANGED wk
        BY <1>3 DEF WriteActive
    <2>2. ASSUME NEW r \in Made(uiName) PROVE r \in Paths \X Keys /\ KeptOne(r)'
        <3>1. /\ r \in Paths \X Keys /\ file[r[1]] = r[2]
              /\ \A w \in Workers : ~WkOwns(w, r[1])
            BY <1>3, <2>1, MadeFacts
        <3>2. file'[r[1]] = r[2] /\ ~UiOwns(r[1])'
            BY <1>3, <3>1 DEF UiOwns, HasWallet, HasIdentity, Selecting
        <3>3. \A w \in Workers : ~WkOwns(w, r[1])'
            BY <2>1, <3>1 DEF WkOwns, Target
        <3>4. QED
            BY <3>1, <3>2, <3>3 DEF KeptOne
    <2>3. QED
        BY <1>1, <1>3, <2>2 DEF ReportType, Kept
<1>4. QED
    BY <1>2, <1>3, UiReports

LEMMA UiUnfinishedType ==
    ASSUME TypeOK, Places, UiStep
    PROVE  UnfinishedType'
<1>1. UnfinishedType
    BY TypeParts
<1>2. CASE WriteWallet \/ WriteIdentity
    BY <1>1, <1>2, UiPaths DEF WriteWallet, WriteIdentity, FillFile, UnfinishedType
<1>3. CASE OpenActive \/ Unselect
    BY <1>1, <1>3 DEF OpenActive, Unselect, UnfinishedType
<1>4. CASE ~ (WriteWallet \/ WriteIdentity \/ OpenActive \/ Unselect)
    <2>1. UNCHANGED unfinished
        BY <1>4 DEF UiStep, BeginCreate, BeginSelect, CreateWallet, DropWallet,
           CreateIdentity, DropIdentity, UndoOne, AddToList, WriteActive, UndoBoth,
           UndoIdentity
    <2>2. QED
        BY <1>1, <2>1 DEF UnfinishedType
<1>5. QED
    BY <1>2, <1>3, <1>4

LEMMA UiInv == Inv /\ UiStep => Inv'
<1> SUFFICES ASSUME Inv, UiStep PROVE Inv'
    OBVIOUS
<1>1. WkType'
    <2>1. UNCHANGED wk
        BY DEF UiStep, BeginCreate, BeginSelect, CreateWallet, WriteWallet, DropWallet,
           CreateIdentity, WriteIdentity, DropIdentity, UndoOne, AddToList, OpenActive,
           WriteActive, UndoBoth, UndoIdentity, Unselect
    <2>2. QED
        BY <2>1, TypeParts DEF Inv, WkType
<1>2. FileType' /\ NameType' /\ UiType'
    BY UiFileType, UiNameType, UiUiType DEF Inv
<1>3. Places' /\ KeysMade' /\ Owners'
    BY UiPlaces, UiKeysMade, UiOwners DEF Inv
<1>4. ReportType' /\ Kept' /\ UnfinishedType'
    BY UiKept, UiUnfinishedType DEF Inv
<1>5. TypeOK'
    BY <1>1, <1>2, <1>4, TypeParts, PTL
<1>6. QED
    BY <1>3, <1>4, <1>5 DEF Inv

-----------------------------------------------------------------------------
(* A worker.                                                                *)

LEMMA WkPath ==
    ASSUME Places, NEW w \in Workers, wkPc[w] \in {"reach", "write", "drop", "read"}
    PROVE  Target(w) \in Paths
BY TargetPath DEF Places

LEMMA WkFileType ==
    ASSUME TypeOK, Places, NEW w \in Workers, WorkerStep(w)
    PROVE  FileType'
<1>0. FileType
    BY TypeParts
<1> USE <1>0
<1>1. ASSUME NEW job \in Jobs, BeginJob(w, job)
      PROVE  FileType'
    BY <1>1 DEF BeginJob, GoWk, FileType
<1>2. CASE Resolve(w)
    BY <1>2 DEF Resolve, GoWk, Finish, FileType
<1>3. CASE Reach(w)
    BY <1>3, NewFileFacts, WkPath DEF Reach, GoWk, Finish, FileType
<1>4. CASE Write(w)
    BY <1>4, FillFileFacts, WkPath DEF Write, GoWk, Finish, FileType
<1>5. CASE Drop(w)
    BY <1>5, RemoveFacts, WkPath DEF Drop, Finish, FileType
<1>6. CASE OpenKey(w)
    BY <1>6 DEF OpenKey, GoWk, Finish, FileType
<1>7. CASE CloseKey(w)
    BY <1>7 DEF CloseKey, Finish, FileType
<1>8. QED
    BY <1>1, <1>2, <1>3, <1>4, <1>5, <1>6, <1>7 DEF WorkerStep

LEMMA WkWkType ==
    ASSUME TypeOK, Places, NEW w \in Workers, WorkerStep(w)
    PROVE  WkType'
<1>0. WkType
    BY TypeParts
<1> USE <1>0
<1>1. ASSUME NEW job \in Jobs, BeginJob(w, job)
      PROVE  WkType'
    BY <1>1 DEF BeginJob, GoWk, WkType, WkPcs, Profiles
<1>2. CASE Resolve(w)
    BY <1>2 DEF Resolve, GoWk, Finish, WkType, WkPcs, Profiles
<1>3. CASE Reach(w)
    BY <1>3 DEF Reach, GoWk, Finish, WkType, WkPcs, Profiles
<1>4. CASE Write(w)
    BY <1>4 DEF Write, GoWk, Finish, WkType, WkPcs, Profiles
<1>5. CASE Drop(w)
    BY <1>5 DEF Drop, Finish, WkType, WkPcs, Profiles
<1>6. CASE OpenKey(w)
    BY <1>6, WkPath DEF OpenKey, GoWk, Finish, WkType, WkPcs, Profiles
<1>7. CASE CloseKey(w)
    BY <1>7 DEF CloseKey, Finish, WkType, WkPcs, Profiles
<1>8. QED
    BY <1>1, <1>2, <1>3, <1>4, <1>5, <1>6, <1>7 DEF WorkerStep

LEMMA WkPlaces ==
    ASSUME TypeOK, Places, NEW w \in Workers, WorkerStep(w)
    PROVE  Places'
<1>0. WkType
    BY TypeParts
<1> USE <1>0
<1>1. ASSUME NEW job \in Jobs, BeginJob(w, job)
      PROVE  Places'
    BY <1>1 DEF BeginJob, GoWk, Places, Selecting, Profiles, WkType
<1>2. CASE Resolve(w)
    BY <1>2 DEF Resolve, GoWk, Finish, Places, Selecting, Profiles, WkType
<1>3. CASE Reach(w)
    BY <1>3 DEF Reach, GoWk, Finish, Places, Selecting, Profiles, WkType
<1>4. CASE Write(w)
    BY <1>4 DEF Write, GoWk, Finish, Places, Selecting, Profiles, WkType
<1>5. CASE Drop(w)
    BY <1>5 DEF Drop, Finish, Places, Selecting, Profiles, WkType
<1>6. CASE OpenKey(w)
    BY <1>6 DEF OpenKey, GoWk, Finish, Places, Selecting, Profiles, WkType
<1>7. CASE CloseKey(w)
    BY <1>7 DEF CloseKey, Finish, Places, Selecting, Profiles, WkType
<1>8. QED
    BY <1>1, <1>2, <1>3, <1>4, <1>5, <1>6, <1>7 DEF WorkerStep

LEMMA WkKeysMade ==
    ASSUME TypeOK, Places, Owners, KeysMade, NEW w \in Workers, WorkerStep(w)
    PROVE  KeysMade'
<1>1. ASSUME NEW job \in Jobs, BeginJob(w, job)
      PROVE  KeysMade'
    BY <1>1 DEF BeginJob, GoWk, KeysMade, Selecting, Only, Owners, WkOwns, UiOwns, HasWallet, HasIdentity
<1>2. CASE Resolve(w)
    BY <1>2 DEF Resolve, GoWk, Finish, KeysMade, Selecting, Only, Owners, WkOwns, UiOwns, HasWallet, HasIdentity
<1>3. CASE Reach(w)
    BY <1>3, NewFileFacts, UiPaths, WkPath, MarksAssumption DEF Reach, GoWk, Finish, KeysMade, Selecting, Only, Owners, WkOwns, UiOwns, HasWallet, HasIdentity
<1>4. CASE Write(w)
    BY <1>4, FillFileFacts, UiPaths, WkPath, MarksAssumption DEF Write, GoWk, Finish, KeysMade, Selecting, Only, Owners, WkOwns, UiOwns, HasWallet, HasIdentity
<1>5. CASE Drop(w)
    BY <1>5, RemoveFacts, UiPaths, WkPath, MarksAssumption DEF Drop, Finish, KeysMade, Selecting, Only, Owners, WkOwns, UiOwns, HasWallet, HasIdentity
<1>6. CASE OpenKey(w)
    BY <1>6 DEF OpenKey, GoWk, Finish, KeysMade, Selecting, Only, Owners, WkOwns, UiOwns, HasWallet, HasIdentity
<1>7. CASE CloseKey(w)
    BY <1>7 DEF CloseKey, Finish, KeysMade, Selecting, Only, Owners, WkOwns, UiOwns, HasWallet, HasIdentity
<1>8. QED
    BY <1>1, <1>2, <1>3, <1>4, <1>5, <1>6, <1>7 DEF WorkerStep

LEMMA WkOwners ==
    ASSUME TypeOK, Places, Owners, Kept, NEW w \in Workers, WorkerStep(w)
    PROVE  Owners' /\ \A r \in reported : KeptOne(r)'
<1>w. WkType
    BY TypeParts
<1> USE <1>w
<1>0. ASSUME UNCHANGED <<file, ui>>, \A q \in Paths : ~WkOwns(w, q)',
             \A v \in Workers \ {w}, q \in Paths : WkOwns(v, q)' <=> WkOwns(v, q)
      PROVE  Owners' /\ \A r \in reported : KeptOne(r)'
    <2>1. /\ {} \in SUBSET Paths
          /\ \A q \in Paths \ {} : file'[q] = file[q]
          /\ \A q \in {} : file[q] = NoFile \/ WkOwns(w, q)
        BY <1>0
    <2>2. \A q \in Paths : WkOwns(w, q)' => file'[q] = Torn /\ (WkOwns(w, q) \/ q \in {})
        BY <1>0
    <2>3. QED
        BY <1>0, <2>1, <2>2, WkKeeps
<1>1. ASSUME NEW job \in Jobs, BeginJob(w, job)
      PROVE  Owners' /\ \A r \in reported : KeptOne(r)'
    BY <1>1, <1>0 DEF BeginJob, GoWk, WkOwns, Target, WkType
<1>2. CASE Resolve(w)
    BY <1>2, <1>0 DEF Resolve, GoWk, Finish, WkOwns, Target, WkType
<1>3. CASE Reach(w)
    <2> DEFINE P == IF file' = file THEN {} ELSE {Target(w)}
    <2>1. wkPc[w] \in {"reach", "write", "drop"} /\ Target(w) \in Paths
        BY <1>3, WkPath DEF Reach
    <2>2. P \in SUBSET Paths /\ \A q \in Paths \ P : file'[q] = file[q]
        BY <1>3, <2>1, NewFileFacts DEF Reach, GoWk, Finish, Only
    <2>3. \A q \in P : file[q] = NoFile \/ WkOwns(w, q)
        BY <1>3, <2>1, NewFileFacts DEF Reach, GoWk, Finish, WkOwns
    <2>4. \A q \in Paths : WkOwns(w, q)' => file'[q] = Torn /\ (WkOwns(w, q) \/ q \in P)
        BY <1>3, <2>1, NewFileFacts, MarksAssumption DEF Reach, GoWk, Finish, WkOwns, Target, Owners, WkType
    <2>5. \A v \in Workers \ {w}, q \in Paths : WkOwns(v, q)' <=> WkOwns(v, q)
        BY <1>3 DEF Reach, GoWk, Finish, WkOwns, Target, WkType
    <2>6. QED
        BY <1>3, <2>2, <2>3, <2>4, <2>5, WkKeeps DEF Reach
<1>4. CASE Write(w)
    <2> DEFINE P == IF file' = file THEN {} ELSE {Target(w)}
    <2>1. wkPc[w] \in {"reach", "write", "drop"} /\ Target(w) \in Paths
        BY <1>4, WkPath DEF Write
    <2>2. P \in SUBSET Paths /\ \A q \in Paths \ P : file'[q] = file[q]
        BY <1>4, <2>1, FillFileFacts DEF Write, GoWk, Finish, Only
    <2>3. \A q \in P : file[q] = NoFile \/ WkOwns(w, q)
        BY <1>4, <2>1, FillFileFacts DEF Write, GoWk, Finish, WkOwns
    <2>4. \A q \in Paths : WkOwns(w, q)' => file'[q] = Torn /\ (WkOwns(w, q) \/ q \in P)
        BY <1>4, <2>1, FillFileFacts, MarksAssumption DEF Write, GoWk, Finish, WkOwns, Target, Owners, WkType
    <2>5. \A v \in Workers \ {w}, q \in Paths : WkOwns(v, q)' <=> WkOwns(v, q)
        BY <1>4 DEF Write, GoWk, Finish, WkOwns, Target, WkType
    <2>6. QED
        BY <1>4, <2>2, <2>3, <2>4, <2>5, WkKeeps DEF Write
<1>5. CASE Drop(w)
    <2> DEFINE P == IF file' = file THEN {} ELSE {Target(w)}
    <2>1. wkPc[w] \in {"reach", "write", "drop"} /\ Target(w) \in Paths
        BY <1>5, WkPath DEF Drop
    <2>2. P \in SUBSET Paths /\ \A q \in Paths \ P : file'[q] = file[q]
        BY <1>5, <2>1, RemoveFacts DEF Drop, Finish, Only
    <2>3. \A q \in P : file[q] = NoFile \/ WkOwns(w, q)
        BY <1>5, <2>1, RemoveFacts DEF Drop, Finish, WkOwns
    <2>4. \A q \in Paths : WkOwns(w, q)' => file'[q] = Torn /\ (WkOwns(w, q) \/ q \in P)
        BY <1>5, <2>1, RemoveFacts, MarksAssumption DEF Drop, Finish, WkOwns, Target, Owners, WkType
    <2>5. \A v \in Workers \ {w}, q \in Paths : WkOwns(v, q)' <=> WkOwns(v, q)
        BY <1>5 DEF Drop, Finish, WkOwns, Target, WkType
    <2>6. QED
        BY <1>5, <2>2, <2>3, <2>4, <2>5, WkKeeps DEF Drop
<1>6. CASE OpenKey(w)
    BY <1>6, <1>0 DEF OpenKey, GoWk, Finish, WkOwns, Target, WkType
<1>7. CASE CloseKey(w)
    BY <1>7, <1>0 DEF CloseKey, Finish, WkOwns, Target, WkType
<1>8. QED
    BY <1>1, <1>2, <1>3, <1>4, <1>5, <1>6, <1>7 DEF WorkerStep

LEMMA WkKept ==
    ASSUME TypeOK, Places, Owners, Kept, NEW w \in Workers, WorkerStep(w)
    PROVE  ReportType' /\ Kept'
<1>1. ReportType /\ WkType /\ \A r \in reported : KeptOne(r)'
    BY TypeParts, WkOwners
<1>2. CASE reported' = reported
    BY <1>1, <1>2 DEF Kept, ReportType
<1>3. CASE Write(w) /\ reported' = reported \cup {<<Target(w), lastKey + 1>>}
    <2>0. wkPc[w] = "write" /\ Target(w) \in Paths
        BY <1>3, WkPath DEF Write
    <2>1. PICK p \in Paths : p = Target(w) /\ wkPc[w] = "write"
        BY <2>0
    <2>2. CASE FillFile(p) /\ Finish(w)
        <3>0. lastKey + 1 \in Keys /\ file'[p] = lastKey + 1
            BY <2>1, <2>2, FillFileFacts
        <3>1. PICK k \in Keys : k = lastKey + 1 /\ file'[p] = k
            BY <3>0
        <3>2. WkOwns(w, p)
            BY <2>1 DEF WkOwns
        <3>3. ~UiOwns(p)'
            <4>1. ~UiOwns(p)
                BY <2>1, <3>2 DEF Owners
            <4>2. UNCHANGED ui
                BY <1>3 DEF Write
            <4>3. QED
                BY <4>1, <4>2 DEF UiOwns, HasWallet, HasIdentity, Selecting
        <3>4. ASSUME NEW v \in Workers PROVE ~WkOwns(v, p)'
            <4>1. CASE v = w
                BY <1>1, <2>2, <4>1 DEF Finish, WkOwns, WkType
            <4>2. CASE v # w
                <5>1. ~WkOwns(v, p)
                    BY <2>1, <3>2, <4>2 DEF Owners
                <5>2. WkOwns(v, p)' => WkOwns(v, p)
                    BY <1>1, <2>2, <4>2 DEF Finish, WkOwns, WkType, Target
                <5>3. QED
                    BY <5>1, <5>2
            <4>3. QED
                BY <4>1, <4>2
        <3>5. KeptOne(<<p, k>>)'
            BY <3>1, <3>3, <3>4 DEF KeptOne
        <3>6. QED
            BY <1>1, <1>3, <2>1, <3>1, <3>5 DEF ReportType, Kept
    <2>3. CASE reported' = reported
        BY <1>2, <2>3
    <2>4. QED
        BY <1>3, <2>1, <2>2, <2>3 DEF Write
<1>4. reported' = reported \/ (Write(w) /\ reported' = reported \cup {<<Target(w), lastKey + 1>>})
    BY DEF WorkerStep, BeginJob, Resolve, Reach, Write, Drop, OpenKey, CloseKey
<1>5. QED
    BY <1>2, <1>3, <1>4

LEMMA WkUnfinishedType ==
    ASSUME TypeOK, Places, NEW w \in Workers, WorkerStep(w)
    PROVE  UnfinishedType'
<1>1. UnfinishedType
    BY TypeParts
<1>2. CASE Write(w)
    <2>1. unfinished' \subseteq unfinished \cup {Target(w)}
        BY <1>2 DEF Write, FillFile
    <2>2. Target(w) \in Paths
        BY <1>2, WkPath DEF Write
    <2>3. QED
        BY <1>1, <2>1, <2>2 DEF UnfinishedType
<1>3. CASE ~Write(w)
    BY <1>1, <1>3 DEF WorkerStep, BeginJob, Resolve, Reach, Drop, OpenKey, CloseKey,
       UnfinishedType
<1>4. QED
    BY <1>2, <1>3

LEMMA WkInv == \A w \in Workers : Inv /\ WorkerStep(w) => Inv'
<1> SUFFICES ASSUME NEW w \in Workers, Inv, WorkerStep(w) PROVE Inv'
    OBVIOUS
<1>1. UNCHANGED <<active, list, ui>>
    BY DEF WorkerStep, BeginJob, Resolve, Reach, Write, Drop, OpenKey, CloseKey
<1>2. NameType' /\ UiType'
    BY <1>1, TypeParts DEF Inv, NameType, UiType
<1>3. FileType' /\ WkType'
    BY WkFileType, WkWkType DEF Inv
<1>4. Places' /\ KeysMade' /\ Owners'
    BY WkPlaces, WkKeysMade, WkOwners DEF Inv
<1>5. ReportType' /\ Kept' /\ UnfinishedType'
    BY WkKept, WkUnfinishedType DEF Inv
<1>6. TypeOK'
    BY <1>2, <1>3, <1>5, TypeParts, PTL
<1>7. QED
    BY <1>4, <1>5, <1>6 DEF Inv

-----------------------------------------------------------------------------
(* The specification.                                                       *)

LEMMA CrashInv == Inv /\ Crash => Inv'
<1> SUFFICES ASSUME Inv, Crash PROVE Inv'
    OBVIOUS
<1>1. UNCHANGED <<files, reported>> /\ uiPc' = "idle" /\ UnfinishedType'
    BY TypeParts DEF Inv, Crash, Return, UnfinishedType
<1>2. \A w \in Workers : wkPc'[w] = "idle"
    BY DEF Crash
<1>3. FileType' /\ NameType' /\ ReportType'
    BY <1>1, TypeParts DEF Inv, FileType, NameType, ReportType
<1>4. UiType' /\ WkType'
    BY TypeParts DEF Inv, Crash, Return, UiType, WkType, UiPcs, WkPcs
<1>5. TypeOK'
    BY <1>1, <1>3, <1>4, TypeParts, PTL
<1>6. Places' /\ KeysMade'
    BY <1>1, <1>2 DEF Places, KeysMade, Selecting
<1>7. \A p \in Paths : ~UiOwns(p)' /\ \A w \in Workers : ~WkOwns(w, p)'
    BY <1>1, <1>2 DEF UiOwns, HasWallet, HasIdentity, Selecting, WkOwns
<1>8. Owners'
    BY <1>7 DEF Owners
<1>9. Kept'
    <2>1. \A r \in reported : r[1] \in Paths
        BY TypeParts DEF Inv, ReportType
    <2>2. QED
        BY <1>1, <1>7, <2>1 DEF Inv, Kept, KeptOne
<1>10. QED
    BY <1>5, <1>6, <1>8, <1>9 DEF Inv

LEMMA InitInv == Init => Inv
<1> SUFFICES ASSUME Init PROVE Inv
    OBVIOUS
<1>1. TypeOK
    BY NamesAssumption DEF Init, TypeOK, FileStates, UiPcs, WkPcs, Keys
<1>2. Places /\ KeysMade /\ Owners /\ Kept
    BY DEF Init, Places, KeysMade, Selecting, Owners, UiOwns, HasWallet, HasIdentity,
       WkOwns, Kept
<1>3. QED
    BY <1>1, <1>2 DEF Inv

LEMMA Invariance == Spec => []Inv
<1>1. Inv /\ UNCHANGED vars => Inv'
    <2> SUFFICES ASSUME Inv, UNCHANGED vars PROVE Inv'
        OBVIOUS
    <2>1. TypeOK' /\ Places' /\ KeysMade'
        BY DEF Inv, vars, TypeOK, Places, KeysMade, Selecting
    <2>2. \A p : UiOwns(p)' <=> UiOwns(p)
        BY DEF vars, UiOwns, HasWallet, HasIdentity, Selecting
    <2>3. \A p, w : WkOwns(w, p)' <=> WkOwns(w, p)
        BY DEF vars, WkOwns, Target
    <2>4. Owners' /\ Kept'
        BY <2>2, <2>3 DEF Inv, vars, Owners, Kept, KeptOne
    <2>5. QED
        BY <2>1, <2>4 DEF Inv
<1>2. Inv /\ [Next]_vars => Inv'
    BY <1>1, UiInv, WkInv, CrashInv DEF Next
<1>3. QED
    BY <1>2, InitInv, PTL DEF Spec

\* Every variable keeps its type, through every failure and every crash.
THEOREM TypeCorrect == Spec => []TypeOK
<1>1. Inv => TypeOK
    BY DEF Inv
<1>2. QED
    BY <1>1, Invariance, PTL

\* No operation, no clean-up of a failed one and no crash takes from its file a
\* key the user was told is his, however many commands run beside the window.
THEOREM KeysAreKept == Spec => []KeysKept
<1>1. Inv => KeysKept
    BY DEF Inv, Kept, KeptOne, KeysKept
<1>2. QED
    BY <1>1, Invariance, PTL

-----------------------------------------------------------------------------
(* What an operation has established when it succeeds, and that nothing     *)
(* takes it away afterwards: active.profile is only written while an        *)
(* operation runs, which has taken back the last answer first.  A file that *)
(* holds no valid key is being written, or its last writing did not end.    *)

TornUnfinished ==
    \A p \in Paths : file[p] = Torn =>
        p \in unfinished \/ UiWrites(p) \/ \E w \in Workers : WkWrites(w, p)

\* The wallet a selection finds: a key, or what an unfinished writing has left.
WalletThere(n) == file[Wallet(n)] \in Keys \/ Wallet(n) \in unfinished

ServedInv ==
    /\ TornUnfinished
    /\ uiPc # "idle" => answer = None
    /\ uiPc = "unselect" => uiOp = "select" /\ uiName = Default
    /\ Selecting \/ uiPc = "unselect" => file[Identity(uiName)] \in Keys /\ WalletThere(uiName)
    /\ Selecting /\ uiOp = "create" => uiName \in list
    /\ SuccessIsServed

LEMMA NamesFacts ==
    /\ None \notin Profiles /\ None \notin Names /\ Default \notin Names /\ None # Default
    /\ Names \subseteq Profiles /\ Default \in Profiles
BY NamesAssumption, MarksAssumption DEF Profiles

LEMMA ActiveFacts == Active \notin Paths
BY DEF Active, Paths

\* A key is taken out of its file by the window's thread alone.
LEMMA WorkersKeepKeys ==
    ASSUME TypeOK, Places, Owners, NEW w \in Workers, WorkerStep(w),
           NEW p \in Paths, file[p] \in Keys
    PROVE  file'[p] \in Keys
<1>0. file[p] # NoFile /\ file[p] # Torn
    BY MarksAssumption
<1>1. CASE Reach(w)
    BY <1>0, <1>1, NewFileFacts, WkPath DEF Reach, Only
<1>2. CASE Write(w)
    BY <1>0, <1>2, FillFileFacts, WkPath DEF Write, Only
<1>3. CASE Drop(w)
    <2>1. Target(w) \in Paths /\ WkOwns(w, Target(w))
        BY <1>3, WkPath DEF Drop, WkOwns
    <2>2. p # Target(w)
        BY <1>0, <2>1 DEF Owners
    <2>3. QED
        BY <1>3, <2>1, <2>2, RemoveFacts DEF Drop, Only
<1>4. UNCHANGED file \/ Reach(w) \/ Write(w) \/ Drop(w)
    BY DEF WorkerStep, BeginJob, Resolve, OpenKey, CloseKey
<1>5. QED
    BY <1>1, <1>2, <1>3, <1>4

\* A path leaves the unfinished ones with a key in it.
LEMMA WkUnfinished ==
    ASSUME Inv, NEW w \in Workers, WorkerStep(w), NEW p \in Paths, p \in unfinished
    PROVE  p \in unfinished' \/ file'[p] \in Keys
<1>1. CASE Write(w)
    <2>1. Target(w) \in Paths
        BY <1>1, WkPath DEF Write, Inv
    <2>2. CASE FillFile(Target(w))
        <3>1. CASE p = Target(w)
            BY <2>1, <2>2, <3>1, FillFileFacts DEF Inv
        <3>2. CASE p # Target(w)
            BY <2>2, <3>2 DEF FillFile
        <3>3. QED
            BY <3>1, <3>2
    <2>3. CASE ~FillFile(Target(w))
        BY <1>1, <2>3 DEF Write
    <2>4. QED
        BY <2>2, <2>3
<1>2. CASE ~Write(w)
    BY <1>2 DEF WorkerStep, BeginJob, Resolve, Reach, Drop, OpenKey, CloseKey
<1>3. QED
    BY <1>1, <1>2

\* What a worker does to one path: begin or end to write it, or remove it.
LEMMA WkTorn ==
    ASSUME Inv, TornUnfinished, NEW w \in Workers, WorkerStep(w)
    PROVE  TornUnfinished'
<1>0. UNCHANGED ui /\ wkPc \in [Workers -> WkPcs] /\ wkPc' \in [Workers -> WkPcs]
      /\ \A p : UiWrites(p)' <=> UiWrites(p)
    <2>1. UNCHANGED ui /\ wkPc \in [Workers -> WkPcs] /\ wkPc' \in [Workers -> WkPcs]
        BY WkWkType, TypeParts DEF WorkerStep, BeginJob, Resolve, Reach, Write, Drop, OpenKey,
           CloseKey, Inv, WkType
    <2>2. QED
        BY <2>1 DEF UiWrites
<1>1. \A v \in Workers \ {w}, p \in Paths : WkWrites(v, p)' <=> WkWrites(v, p)
    <2>1. \A v \in Workers \ {w} : wkPc'[v] = wkPc[v] /\ wkJob'[v] = wkJob[v]
                                    /\ wkProfile'[v] = wkProfile[v]
        BY TypeParts DEF WorkerStep, BeginJob, Resolve, Reach, Write, Drop, OpenKey, CloseKey,
           GoWk, Finish, Inv, WkType
    <2>2. QED
        BY <2>1 DEF WkWrites, Target
<1>2. CASE Reach(w)
    <2>1. Target(w) \in Paths
        BY <1>2, WkPath DEF Reach, Inv
    <2>2. CASE NewFile(Target(w)) /\ GoWk(w, "write") /\ UNCHANGED <<wkJob, wkProfile, held>>
        <3>1. PICK p \in Paths : p = Target(w)
            BY <2>1
        <3>2. Only(p) /\ UNCHANGED unfinished
            BY <1>2, <2>2, <3>1, NewFileFacts DEF Reach, Inv
        <3>3. WkWrites(w, p)'
            BY <1>0, <2>2, <3>1 DEF GoWk, WkWrites, Target
        <3>4. \A q \in Paths : ~WkWrites(w, q)
            BY <1>2 DEF Reach, WkWrites
        <3>5. QED
            BY <1>0, <1>1, <3>2, <3>3, <3>4 DEF TornUnfinished, Only
    <2>3. CASE UNCHANGED file
        <3>1. \A p \in Paths : ~WkWrites(w, p)
            BY <1>2 DEF Reach, WkWrites
        <3>2. QED
            BY <1>0, <1>1, <1>2, <2>3, <3>1 DEF Reach, TornUnfinished
    <2>4. QED
        BY <1>2, <2>2, <2>3 DEF Reach
<1>3. CASE Write(w)
    <2>1. Target(w) \in Paths /\ \A p \in Paths : WkWrites(w, p) => p = Target(w)
        BY <1>3, WkPath DEF Write, Inv, WkWrites
    <2>2. CASE FillFile(Target(w))
        <3>1. Only(Target(w)) /\ file'[Target(w)] # Torn
              /\ unfinished' = unfinished \ {Target(w)}
            BY <2>1, <2>2, FillFileFacts, MarksAssumption DEF Inv, FillFile
        <3>2. QED
            BY <1>0, <1>1, <2>1, <3>1 DEF TornUnfinished, Only
    <2>3. CASE WritingFails(Target(w))
        BY <1>0, <1>1, <2>1, <2>3 DEF TornUnfinished
    <2>4. QED
        BY <1>3, <2>2, <2>3 DEF Write
<1>4. CASE Drop(w)
    <2>1. Target(w) \in Paths /\ \A p \in Paths : ~WkWrites(w, p)
        BY <1>4, WkPath DEF Drop, Inv, WkWrites
    <2>2. Only(Target(w)) /\ file'[Target(w)] \in {file[Target(w)], NoFile}
          /\ UNCHANGED unfinished
        BY <1>4, <2>1, RemoveFacts DEF Drop, Inv
    <2>3. QED
        BY <1>0, <1>1, <2>1, <2>2, MarksAssumption DEF TornUnfinished, Only
<1>5. CASE ~Reach(w) /\ ~Write(w) /\ ~Drop(w)
    <2>1. UNCHANGED <<file, unfinished>> /\ wkPc[w] \in {"idle", "resolve", "reach", "read"}
        BY <1>5 DEF WorkerStep, BeginJob, Resolve, OpenKey, CloseKey
    <2>2. \A p \in Paths : ~WkWrites(w, p)
        BY <2>1 DEF WkWrites
    <2>3. QED
        BY <1>0, <1>1, <2>1, <2>2 DEF TornUnfinished
<1>6. QED
    BY <1>2, <1>3, <1>4, <1>5

LEMMA WkServed ==
    ASSUME Inv, ServedInv, NEW w \in Workers, WorkerStep(w)
    PROVE  ServedInv'
<1>1. UNCHANGED <<active, list, ui>>
    BY DEF WorkerStep, BeginJob, Resolve, Reach, Write, Drop, OpenKey, CloseKey
<1>2. \A p \in Paths : file[p] \in Keys => file'[p] \in Keys
    BY WorkersKeepKeys DEF Inv
<1>3. Selecting \/ uiPc = "unselect" => uiName \in Profiles
    BY DEF Inv, Selecting, Places
<1>4. \A n \in Profiles : /\ Wallet(n) \in Paths /\ Identity(n) \in Paths
                          /\ WalletThere(n) => WalletThere(n)'
    BY <1>2, PathFacts, WkUnfinished DEF WalletThere
<1>5. Active \in unfinished' <=> Active \in unfinished
    <2>1. unfinished' = unfinished \/ Write(w)
        BY DEF WorkerStep, BeginJob, Resolve, Reach, Drop, OpenKey, CloseKey
    <2>2. CASE Write(w)
        <3>1. Target(w) # Active
            BY <2>2, WkPath, ActiveFacts DEF Write, Inv
        <3>2. QED
            BY <2>2, <3>1 DEF Write, FillFile
    <2>3. QED
        BY <2>1, <2>2
<1>6. answer # None => answer \in Profiles
    BY TypeParts DEF Inv, UiType
<1>7. SuccessIsServed'
    BY <1>1, <1>2, <1>4, <1>5, <1>6
    DEF ServedInv, SuccessIsServed, SelectionServed, WalletServed, WalletThere
<1>8. TornUnfinished'
    BY WkTorn DEF ServedInv
<1>9. QED
    BY <1>1, <1>2, <1>3, <1>4, <1>7, <1>8 DEF ServedInv, Selecting

\* What the window's thread does to one path, in the same way.
LEMMA UiTorn ==
    ASSUME Inv, TornUnfinished, UiStep
    PROVE  TornUnfinished'
<1>0. \A w, p : WkWrites(w, p)' <=> WkWrites(w, p)
    <2>1. UNCHANGED wk
        BY DEF UiStep, BeginCreate, BeginSelect, CreateWallet, WriteWallet, DropWallet,
           CreateIdentity, WriteIdentity, DropIdentity, UndoOne, AddToList, OpenActive,
           WriteActive, UndoBoth, UndoIdentity, Unselect
    <2>2. QED
        BY <2>1 DEF WkWrites, Target
<1>1. ASSUME NEW p \in Paths, Only(p), UiWrites(p)', UNCHANGED unfinished,
             \A q : ~UiWrites(q)
      PROVE  TornUnfinished'
    BY <1>0, <1>1 DEF TornUnfinished, Only
<1>2. ASSUME NEW p \in Paths, FillFile(p), \A q : UiWrites(q) => q = p
      PROVE  TornUnfinished'
    <2>1. Only(p) /\ file'[p] # Torn /\ unfinished' = unfinished \ {p}
        BY <1>2, FillFileFacts, MarksAssumption DEF Inv, FillFile
    <2>2. QED
        BY <1>0, <1>2, <2>1 DEF TornUnfinished, Only
<1>3. ASSUME NEW p \in Paths, WritingFails(p), \A q : UiWrites(q) => q = p
      PROVE  TornUnfinished'
    BY <1>0, <1>3 DEF TornUnfinished
<1>4. ASSUME NEW p \in Paths, Remove(p), UNCHANGED unfinished, \A q : ~UiWrites(q)
      PROVE  TornUnfinished'
    <2>1. Only(p) /\ file'[p] \in {file[p], NoFile} /\ NoFile # Torn
        BY <1>4, RemoveFacts, MarksAssumption DEF Inv
    <2>2. QED
        BY <1>0, <1>4, <2>1 DEF TornUnfinished, Only
<1>5. ASSUME UNCHANGED file, \A p \in Paths : p \in unfinished => p \in unfinished',
             \A q : ~UiWrites(q)
      PROVE  TornUnfinished'
    BY <1>0, <1>5 DEF TornUnfinished
<1>6. CASE CreateWallet \/ CreateIdentity
    <2>1. /\ \A q : ~UiWrites(q)
          /\ UNCHANGED unfinished /\ Wallet(uiName) \in Paths /\ Identity(uiName) \in Paths
        BY <1>6, UiPaths DEF CreateWallet, CreateIdentity, UiWrites, Inv
    <2>2. CASE CreateWallet /\ NewFile(Wallet(uiName)) /\ GoUi("walletWrite")
        <3>1. PICK p \in Paths : p = Wallet(uiName)
            BY <2>1
        <3>2. Only(p) /\ UiWrites(p)'
            BY <2>2, <3>1, NewFileFacts DEF GoUi, UiWrites, Inv
        <3>3. QED
            BY <1>1, <2>1, <3>2
    <2>3. CASE CreateIdentity /\ NewFile(Identity(uiName)) /\ GoUi("identityWrite")
        <3>1. PICK p \in Paths : p = Identity(uiName)
            BY <2>1
        <3>2. Only(p) /\ UiWrites(p)'
            BY <2>3, <3>1, NewFileFacts DEF GoUi, UiWrites, Inv
        <3>3. QED
            BY <1>1, <2>1, <3>2
    <2>4. CASE UNCHANGED file
        BY <1>5, <2>1, <2>4
    <2>5. QED
        BY <1>6, <2>2, <2>3, <2>4 DEF CreateWallet, CreateIdentity
<1>7. CASE WriteWallet
    <2>1. Wallet(uiName) \in Paths /\ \A q : UiWrites(q) => q = Wallet(uiName)
        BY <1>7, UiPaths DEF WriteWallet, UiWrites, Inv
    <2>2. QED
        BY <1>2, <1>3, <1>7, <2>1 DEF WriteWallet
<1>8. CASE WriteIdentity
    <2>1. Identity(uiName) \in Paths /\ \A q : UiWrites(q) => q = Identity(uiName)
        BY <1>8, UiPaths DEF WriteIdentity, UiWrites, Inv
    <2>2. QED
        BY <1>2, <1>3, <1>8, <2>1 DEF WriteIdentity
<1>9. CASE DropWallet \/ UndoOne \/ UndoBoth
    <2>1. Wallet(uiName) \in Paths /\ (\A q : ~UiWrites(q)) /\ UNCHANGED unfinished
          /\ Remove(Wallet(uiName))
        BY <1>9, UiPaths DEF DropWallet, UndoOne, UndoBoth, UiWrites, Inv
    <2>2. QED
        BY <1>4, <2>1
<1>10. CASE DropIdentity \/ UndoIdentity
    <2>1. Identity(uiName) \in Paths /\ (\A q : ~UiWrites(q)) /\ UNCHANGED unfinished
          /\ Remove(Identity(uiName))
        BY <1>10, UiPaths DEF DropIdentity, UndoIdentity, UiWrites, Inv
    <2>2. QED
        BY <1>4, <2>1
<1>11. CASE \/ \E n \in Names : BeginCreate(n)
            \/ \E n \in Profiles : BeginSelect(n)
            \/ AddToList \/ OpenActive \/ WriteActive \/ Unselect
    <2>1. UNCHANGED file /\ \A q : ~UiWrites(q)
        BY <1>11 DEF BeginCreate, BeginSelect, AddToList, OpenActive, WriteActive, Unselect,
           UiWrites
    <2>2. \A p \in Paths : p \in unfinished => p \in unfinished'
        BY <1>11, ActiveFacts DEF BeginCreate, BeginSelect, AddToList, OpenActive, WriteActive,
           Unselect
    <2>3. QED
        BY <1>5, <2>1, <2>2
<1>12. QED
    BY <1>6, <1>7, <1>8, <1>9, <1>10, <1>11 DEF UiStep

\* The steps of the window's thread that are not the last of a success.
LEMMA UnansweredServed ==
    ASSUME TornUnfinished', answer' = None,
           uiPc' = "unselect" => uiOp' = "select" /\ uiName' = Default,
           Selecting' \/ uiPc' = "unselect" =>
               file'[Identity(uiName')] \in Keys /\ WalletThere(uiName)',
           Selecting' /\ uiOp' = "create" => uiName' \in list'
    PROVE  ServedInv'
BY DEF ServedInv, SuccessIsServed

LEMMA UiServed ==
    ASSUME Inv, ServedInv, UiStep
    PROVE  ServedInv'
<1> USE NamesFacts
<1>0. TornUnfinished'
    BY UiTorn DEF ServedInv
<1>1. ASSUME NEW n \in Names, BeginCreate(n)
      PROVE  ServedInv'
    BY <1>0, <1>1, UnansweredServed DEF BeginCreate, Return, Selecting
<1>2. ASSUME NEW n \in Profiles, BeginSelect(n)
      PROVE  ServedInv'
    <2>1. CASE Return(None)
        BY <1>0, <2>1, UnansweredServed DEF Return, Selecting
    <2>2. CASE /\ Usable(n)
               /\ uiPc' = IF n = Default THEN "unselect" ELSE "open"
               /\ uiOp' = "select" /\ uiName' = n /\ answer' = None
        <3>1. Wallet(n) \in Paths /\ file[Wallet(n)] # NoFile
              /\ ~UiWrites(Wallet(n)) /\ \A w \in Workers : ~WkWrites(w, Wallet(n))
            BY <2>2, PathFacts DEF Usable, Openable
        <3>2. WalletThere(n)
            BY <3>1, TypeParts DEF Inv, FileType, FileStates, ServedInv, TornUnfinished,
               WalletThere
        <3>3. UNCHANGED <<file, unfinished>> /\ file[Identity(n)] \in Keys
            BY <1>2, <2>2 DEF BeginSelect, Usable
        <3>4. WalletThere(uiName)' /\ file'[Identity(uiName')] \in Keys
            BY <2>2, <3>2, <3>3 DEF WalletThere
        <3>5. QED
            BY <1>0, <2>2, <3>4, UnansweredServed DEF Selecting
    <2>3. QED
        BY <1>2, <2>1, <2>2 DEF BeginSelect
<1>3. CASE CreateWallet
    BY <1>0, <1>3, UnansweredServed DEF CreateWallet, GoUi, Return, Selecting, ServedInv
<1>4. CASE WriteWallet
    BY <1>0, <1>4, UnansweredServed DEF WriteWallet, GoUi, Selecting, ServedInv
<1>5. CASE DropWallet
    BY <1>0, <1>5, UnansweredServed DEF DropWallet, Return, Selecting, ServedInv
<1>6. CASE CreateIdentity
    BY <1>0, <1>6, UnansweredServed DEF CreateIdentity, GoUi, Selecting, ServedInv
<1>7. CASE WriteIdentity
    BY <1>0, <1>7, UnansweredServed DEF WriteIdentity, GoUi, Selecting, ServedInv
<1>8. CASE DropIdentity
    BY <1>0, <1>8, UnansweredServed DEF DropIdentity, GoUi, Selecting, ServedInv
<1>9. CASE UndoOne
    BY <1>0, <1>9, UnansweredServed DEF UndoOne, Return, Selecting, ServedInv
<1>10. CASE AddToList
    <2>1. file[Identity(uiName)] \in Keys /\ file[Wallet(uiName)] \in Keys
        BY <1>10 DEF AddToList, Inv, KeysMade
    <2>2. QED
        BY <1>0, <1>10, <2>1, UnansweredServed
        DEF AddToList, GoUi, Selecting, ServedInv, WalletThere
<1>11. CASE OpenActive
    <2>1. Selecting /\ UNCHANGED <<file, list>> /\ Wallet(uiName) # Active
        BY <1>11, UiPaths, ActiveFacts DEF OpenActive, Selecting, Inv
    <2>2. WalletThere(uiName) => file'[Wallet(uiName)] \in Keys \/ Wallet(uiName) \in unfinished'
        BY <1>11, <2>1 DEF OpenActive, WalletThere
    <2>3. QED
        BY <1>0, <1>11, <2>1, <2>2, UnansweredServed
        DEF OpenActive, AfterFailedSelection, GoUi, Return, Selecting, ServedInv, WalletThere
<1>12. CASE WriteActive
    <2>1. /\ uiPc = "write" /\ Selecting /\ uiName \in Names /\ uiOp \in {"create", "select"}
          /\ UNCHANGED <<file, list, unfinished>>
        BY <1>12 DEF WriteActive, Selecting, Inv, Places
    <2>2. CASE active' = uiName /\ Return(uiName)
        <3>1. file[Identity(uiName)] \in Keys /\ WalletThere(uiName)
            BY <2>1 DEF ServedInv
        <3>2. uiOp = "create" => file[Wallet(uiName)] \in Keys /\ uiName \in list
            BY <2>1 DEF ServedInv, Inv, KeysMade
        <3>3. answer' = uiName /\ uiPc' = "idle" /\ uiOp' = uiOp
            BY <2>1, <2>2 DEF Return
        <3>4. SuccessIsServed'
            BY <2>1, <2>2, <3>1, <3>2, <3>3
            DEF SuccessIsServed, SelectionServed, WalletServed, WalletThere
        <3>5. QED
            BY <1>0, <3>3, <3>4 DEF ServedInv, Selecting
    <2>3. CASE AfterFailedSelection
        BY <1>0, <2>1, <2>3, UnansweredServed
        DEF AfterFailedSelection, GoUi, Return, Selecting, ServedInv
    <2>4. QED
        BY <1>12, <2>2, <2>3 DEF WriteActive
<1>13. CASE UndoBoth
    BY <1>0, <1>13, UnansweredServed DEF UndoBoth, GoUi, Selecting, ServedInv
<1>14. CASE UndoIdentity
    BY <1>0, <1>14, UnansweredServed DEF UndoIdentity, Return, Selecting, ServedInv
<1>15. CASE Unselect
    <2>1. /\ uiPc = "unselect" /\ uiOp = "select" /\ uiName = Default
          /\ file[Identity(Default)] \in Keys /\ WalletThere(Default) /\ UNCHANGED file
        BY <1>15 DEF Unselect, ServedInv
    <2>2. uiPc' = "idle" /\ answer' = Default /\ uiOp' = "select"
        BY <1>15, <2>1 DEF Unselect, Return
    <2>3. SelectionServed'
        BY <1>15, <2>2 DEF Unselect, SelectionServed
    <2>4. WalletServed'
        <3>1. Wallet(Default) # Active
            BY PathFacts, ActiveFacts
        <3>2. Wallet(Default) \in unfinished => Wallet(Default) \in unfinished'
            BY <1>15, <3>1 DEF Unselect
        <3>3. QED
            BY <2>1, <2>2, <3>2 DEF WalletServed, WalletThere
    <2>5. SuccessIsServed'
        BY <2>1, <2>2, <2>3, <2>4 DEF SuccessIsServed
    <2>6. QED
        BY <1>0, <2>2, <2>5 DEF ServedInv, Selecting
<1>16. QED
    BY <1>1, <1>2, <1>3, <1>4, <1>5, <1>6, <1>7, <1>8, <1>9, <1>10, <1>11, <1>12,
       <1>13, <1>14, <1>15 DEF UiStep

\* A crash takes nothing from disk, and leaves what was being written unfinished.
LEMMA CrashServed ==
    ASSUME Inv, ServedInv, Crash
    PROVE  ServedInv'
<1>1. UNCHANGED <<file, active, list, answer>> /\ uiPc' = "idle"
      /\ unfinished \subseteq unfinished' /\ (answer # None => uiOp' = uiOp)
      /\ (Active \in unfinished' <=> Active \in unfinished)
    BY ActiveFacts DEF Crash, Return
<1>2. TornUnfinished'
    BY <1>1 DEF Crash, ServedInv, TornUnfinished
<1>3. SuccessIsServed'
    BY <1>1 DEF ServedInv, SuccessIsServed, SelectionServed, WalletServed
<1>4. QED
    BY <1>1, <1>2, <1>3 DEF ServedInv, Selecting

\* What the last successful creation or selection has promised holds through every
\* failure, crash and command after it, until the next one begins, with the two
\* exceptions SuccessIsServed names: Default after a refused removal, and a selected
\* wallet that a failed or interrupted writing has left behind.
THEOREM SuccessServed == Spec => []SuccessIsServed
<1>1. Init => ServedInv
    BY NamesFacts, MarksAssumption DEF Init, ServedInv, SuccessIsServed, Selecting,
       TornUnfinished
<1>2. Inv /\ ServedInv /\ [Next]_vars => ServedInv'
    <2> SUFFICES ASSUME Inv, ServedInv, [Next]_vars PROVE ServedInv'
        OBVIOUS
    <2>1. CASE Crash
        BY <2>1, CrashServed
    <2>2. CASE UNCHANGED vars
        BY <2>2 DEF vars, ServedInv, SuccessIsServed, SelectionServed, WalletServed,
           Selecting, TornUnfinished, WalletThere, UiWrites, WkWrites, Target
    <2>3. QED
        BY <2>1, <2>2, UiServed, WkServed DEF Next
<1>3. ServedInv => SuccessIsServed
    BY DEF ServedInv
<1>4. QED
    BY <1>1, <1>2, <1>3, Invariance, PTL DEF Spec

-----------------------------------------------------------------------------
(* The window beside these files: theorems of ClientWindow, whose selected  *)
(* profile is one of these, for any limits and any set of contracts.        *)
(*                                                                          *)
(* The one place for a request is taken only by a window that sees no busy  *)
(* flag, and the flag stays until what was taken is done; STOPPED is posted *)
(* only at the worker's end; and what the tracker counted as new and did    *)
(* not miss is in its memory, or is the one it is about to record.          *)
USE DEF loop, memory, walk, ghosts, tracker, shared, worker, outside, Walking, NoText

Pcs == {"init", "top", "execute", "identity", "rest", "publish",
        "shutdown", "ended"}

LoopType ==
    /\ {window, prompt, quit, exited} \subseteq BOOLEAN
    /\ boxes \in 0..MaxBoxes
    /\ at \in Nat
    /\ Walking => boxes < MaxBoxes
MemoryType ==
    /\ tracked \in Identities \cup {NoIdentity}
    /\ seen \in Seq(Texts) /\ Len(seen) <= SeenMax
    /\ told \subseteq Contracts /\ missed \subseteq Contracts
    /\ seenReady \in BOOLEAN /\ again \in BOOLEAN /\ arrived \in BOOLEAN
\* Where the walk is, what is remembered so far and what waits for its record.
WalkType ==
    /\ at \in 0..(SeenMax + 1)
    /\ look \in Texts \cup {NoText}
    /\ ~seenReady => Len(seen) = IF at = 0 THEN 0 ELSE at - 1
    /\ look # NoText => at \in 1..SeenMax /\ Len(seen) < SeenMax /\ seenReady
TrackType == MemoryType /\ WalkType
SharedType ==
    /\ posted \subseteq {"UPDATED", "STOPPED"}
    /\ stopping \in BOOLEAN /\ ready \in BOOLEAN /\ busy \in BOOLEAN
    /\ pending \in 0..MaxRequests
    /\ snap \in Snapshots
WorkerType ==
    /\ pc \in Pcs
    /\ running \in 0..MaxRequests
    /\ s \in Snapshots
    /\ display \in Displays
OutsideType ==
    /\ budget \in Budgets
    /\ selected \in Identities /\ selects \in 0..budget.selects
    /\ changes \in 0..budget.changes
    /\ asked \in 0..MaxRequests /\ done \subseteq Requests

\* The one place for a request is taken only when no request waits or runs.
RequestInv ==
    /\ asked \in 0..MaxRequests /\ pending \in 0..MaxRequests
    /\ running \in 0..MaxRequests
    /\ pc = "execute" <=> running # 0
    /\ (pending # 0 \/ running # 0) => busy
    /\ pending = 0 \/ running = 0
    /\ pending <= asked /\ running <= asked
    /\ done \subseteq 1..asked
    /\ RequestsAccounted

EndInv ==
    /\ "STOPPED" \in posted \/ ~window => pc = "ended"
    /\ quit \/ exited => ~window
    /\ exited => ~prompt

\* What was counted and not missed is remembered, or about to be.
AnnounceInv ==
    /\ ~again
    /\ ~seenReady => told = {}
    /\ told \ missed \subseteq Remembered \cup {look}

\* The worker, and time, leave the window's loops and its tracker alone.
LEMMA WorkerSteps ==
    ASSUME Worker \/ Expire
    PROVE  UNCHANGED <<loop, tracker, selected, selects, asked, budget>>
<1>1. CASE StartCore \/ TakeRequest \/ Execute
    BY <1>1 DEF StartCore, TakeRequest, Execute
<1>2. CASE ReadIdentity \/ ReadRest \/ ReadFails \/ Publish \/ End \/ Expire
    BY <1>2 DEF ReadIdentity, ReadRest, ReadFails, Publish, End, Expire
<1>3. QED
    BY <1>1, <1>2 DEF Worker

\* The window leaves the worker alone.
LEMMA WindowSteps ==
    ASSUME User \/ Messages
    PROVE  UNCHANGED <<worker, outside, done, snap, ready>>
<1>1. CASE User
    BY <1>1 DEF User, QueueRequest, OpenPrompt, ClosePrompt, DismissBox, Close, UseWallet
<1>2. CASE Track \/ Stopped \/ PromptTakesQuit \/ Exit
    BY <1>2 DEF Track, Stopped, PromptTakesQuit, Exit
<1>3. CASE VisitEntry \/ RecordEntry \/ EndWalk
    BY <1>3 DEF VisitEntry, RecordEntry, EndWalk
<1>4. QED
    BY <1>1, <1>2, <1>3 DEF Messages, Walk

\* The walk, a message that is tracked and another profile move the tracker.
LEMMA TrackerSteps ==
    ASSUME WindowNext
    PROVE  \/ Track \/ VisitEntry \/ RecordEntry \/ EndWalk
           \/ ~Walking /\ ResetTracker /\ UNCHANGED walk
           \/ UNCHANGED tracker
<1>1. CASE User
    BY <1>1 DEF User, QueueRequest, OpenPrompt, ClosePrompt, DismissBox, Close,
       UseWallet, SelectProfile, Enabled
<1>2. CASE Stopped \/ PromptTakesQuit \/ Exit
    BY <1>2 DEF Stopped, PromptTakesQuit, Exit
<1>3. CASE Worker \/ Expire
    BY <1>3, WorkerSteps
<1>4. QED
    BY <1>1, <1>2, <1>3 DEF WindowNext, Messages, Walk

LEMMA LoopTypeKept ==
    ASSUME LoopType, WalkType, WindowNext
    PROVE  LoopType'
<1> USE ClientAssumption
<1>1. CASE QueueRequest \/ Close \/ OpenPrompt
    BY <1>1 DEF QueueRequest, Close, OpenPrompt, LoopType
<1>2. ASSUME NEW p \in Identities, UseWallet(p)
      PROVE  LoopType'
    BY <1>2 DEF UseWallet, SelectProfile, LoopType
<1>3. CASE ClosePrompt
    BY <1>3 DEF ClosePrompt, SelectProfile, LoopType
<1>4. CASE DismissBox
    BY <1>4 DEF DismissBox, LoopType
<1>5. CASE Track
    <2>1. at' \in {0, 1}
        BY <1>5 DEF Track, BeginWalk, LoopType
    <2>2. UNCHANGED loop /\ boxes < MaxBoxes
        BY <1>5 DEF Track
    <2>3. QED
        BY <2>1, <2>2 DEF LoopType
<1>6. CASE VisitEntry
    <2>1. at' \in {at, at + 1}
        BY <1>6 DEF VisitEntry, TakeFirst, PassSeen, CountNew, NextEntry
    <2>2. QED
        BY <1>6, <2>1 DEF VisitEntry, LoopType
<1>7. CASE RecordEntry
    BY <1>7 DEF RecordEntry, NextEntry, LoopType
<1>8. CASE EndWalk
    BY <1>8 DEF EndWalk, LoopType
<1>9. CASE Stopped
    <2>1. CASE stopping
        <3>1. window' = FALSE /\ quit' = TRUE /\ boxes' = 0 /\ UNCHANGED <<prompt, exited, at>>
            BY <1>9, <2>1 DEF Stopped
        <3>2. 0 \in 0..MaxBoxes /\ at = 0
            BY <1>9 DEF Stopped, LoopType
        <3>3. {window', prompt', quit', exited'} \subseteq BOOLEAN
            BY <3>1 DEF LoopType
        <3>4. boxes' \in 0..MaxBoxes /\ at' \in Nat /\ ~(at' > 0)
            BY <3>1, <3>2
        <3>5. QED
            BY <3>3, <3>4 DEF LoopType
    <2>2. CASE ~stopping
        BY <1>9, <2>2 DEF Stopped, LoopType
    <2>3. QED
        BY <2>1, <2>2
<1>10. CASE PromptTakesQuit \/ Exit
    BY <1>10 DEF PromptTakesQuit, Exit, LoopType
<1>11. CASE Worker \/ Expire
    BY <1>11, WorkerSteps DEF LoopType
<1>12. QED
    BY <1>1, <1>2, <1>3, <1>4, <1>5, <1>6, <1>7, <1>8, <1>9, <1>10, <1>11
       DEF WindowNext, User, Messages, Walk

\* An entry of a list is a text, and a list is no longer than the memory.
LEMMA ListFacts ==
    ASSUME SharedType, WorkerType
    PROVE  /\ Count \subseteq 0..SeenMax
           /\ \A i \in Nat : Entry(i) \subseteq Texts /\ Entry(i) # {}
<1>1. snap.list \in ChainLists /\ s.list \in ChainLists
    BY DEF SharedType, WorkerType, Snapshots
<1>2. /\ snap.list \in Seq(Contracts) /\ Len(snap.list) <= SeenMax
      /\ s.list \in Seq(Contracts) /\ Len(s.list) <= SeenMax
    BY <1>1, ClientAssumption
<1>3. Count \subseteq {Len(snap.list), Len(s.list)}
    BY DEF Count, Found
<1>4. \A i \in Nat : EntryOf(snap.list, i) \in Texts /\ EntryOf(s.list, i) \in Texts
    BY <1>2 DEF EntryOf, Texts
<1>5. \A i \in Nat : Entry(i) \subseteq Texts /\ Entry(i) # {}
    BY <1>4 DEF Entry, Texts
<1>6. QED
    BY <1>2, <1>3, <1>5, ClientAssumption

LEMMA AddressFacts ==
    ASSUME SharedType, WorkerType
    PROVE  Address \subseteq Identities \cup {NoIdentity}
BY DEF Address, Found, SharedType, WorkerType, Snapshots

LEMMA AppendFacts ==
    ASSUME TrackType, NEW text \in Texts, seen' = Append(seen, text)
    PROVE  /\ seen' \in Seq(Texts) /\ Len(seen') = Len(seen) + 1
           /\ Remembered' = Remembered \cup {text}
<1>1. seen \in Seq(Texts)
    BY DEF TrackType, MemoryType
<1>2. seen' \in Seq(Texts) /\ Len(seen') = Len(seen) + 1
    BY <1>1
<1>3. DOMAIN seen = 1..Len(seen) /\ DOMAIN seen' = 1..(Len(seen) + 1) /\ Len(seen) \in Nat
    BY <1>1, <1>2
<1>4. /\ \A k \in 1..Len(seen) : seen'[k] = seen[k]
      /\ seen'[Len(seen) + 1] = text
    BY <1>1
<1>5. Remembered' \subseteq Remembered \cup {text}
    BY <1>3, <1>4 DEF Remembered
<1>6. Remembered \cup {text} \subseteq Remembered'
    BY <1>3, <1>4 DEF Remembered
<1>7. QED
    BY <1>2, <1>5, <1>6

LEMMA ResetTrackType ==
    ASSUME TrackType, ~Walking, ResetTracker, at' \in {0, 1}, look' = look,
           arrived' = arrived
    PROVE  TrackType'
<1>1. at = 0 /\ look = NoText
    BY DEF TrackType, WalkType
<1>2. seen' = <<>> /\ seen' \in Seq(Texts) /\ Len(seen') = 0
    BY DEF ResetTracker
<1>3. MemoryType'
    BY <1>2, ClientAssumption DEF TrackType, MemoryType, ResetTracker
<1>4. WalkType'
    BY <1>1, <1>2, ClientAssumption DEF WalkType, ResetTracker
<1>5. QED
    BY <1>3, <1>4 DEF TrackType

LEMMA TrackTrackType ==
    ASSUME TrackType, SharedType, WorkerType, Track
    PROVE  TrackType'
<1>1. ~Walking
    BY DEF Track
<1>2. CASE ResetTracker /\ UNCHANGED walk
    BY <1>1, <1>2, ResetTrackType DEF TrackType, WalkType
<1>3. CASE BeginWalk /\ UNCHANGED <<memory, ghosts>>
    <2>1. at' \in {0, 1} /\ at = 0 /\ UNCHANGED <<arrived, look>>
        BY <1>1, <1>3 DEF BeginWalk, TrackType, WalkType
    <2>2. MemoryType'
        BY <1>3, <2>1 DEF TrackType, MemoryType
    <2>3. WalkType'
        <3>1. UNCHANGED <<seen, seenReady>> /\ (~seenReady => Len(seen) = 0)
            BY <1>3, <2>1 DEF TrackType, WalkType
        <3>2. look = NoText
            BY <2>1 DEF TrackType, WalkType
        <3>3. at' \in 0..(SeenMax + 1) /\ (IF at' = 0 THEN 0 ELSE at' - 1) = 0
            BY <2>1, ClientAssumption
        <3>4. look' = NoText /\ (~seenReady' => Len(seen') = 0)
            BY <2>1, <3>1, <3>2
        <3>5. QED
            BY <3>3, <3>4 DEF WalkType
    <2>4. QED
        BY <2>2, <2>3 DEF TrackType
<1>4. CASE /\ tracked' \in Address /\ seen' = <<>> /\ seenReady' = FALSE
           /\ told' = {} /\ missed' = {} /\ UNCHANGED again
           /\ BeginWalk
    <2>1. at' \in {0, 1} /\ at = 0 /\ look = NoText /\ UNCHANGED <<arrived, look>>
        BY <1>1, <1>4 DEF BeginWalk, TrackType, WalkType
    <2>2. seen' \in Seq(Texts) /\ Len(seen') = 0
        BY <1>4
    <2>3. MemoryType'
        BY <1>4, <2>1, <2>2, AddressFacts, ClientAssumption DEF TrackType, MemoryType
    <2>4. WalkType'
        BY <1>4, <2>1, <2>2, ClientAssumption DEF WalkType
    <2>5. QED
        BY <2>3, <2>4 DEF TrackType
<1>5. QED
    BY <1>2, <1>3, <1>4 DEF Track

LEMMA VisitTrackType ==
    ASSUME TrackType, SharedType, WorkerType, VisitEntry
    PROVE  TrackType'
<1>1. at \in 1..SeenMax /\ look = NoText /\ UNCHANGED <<tracked, seenReady>>
    BY ListFacts, ClientAssumption DEF VisitEntry, TrackType, WalkType
<1>2. Entry(at) \subseteq Texts
    BY <1>1, ListFacts
<1>3. CASE TakeFirst
    <2>1. PICK text \in Texts : seen' = Append(seen, text)
        BY <1>2, <1>3 DEF TakeFirst
    <2>2. Len(seen) = at - 1 /\ ~seenReady
        BY <1>1, <1>3 DEF TakeFirst, TrackType, WalkType
    <2>3. seen' \in Seq(Texts) /\ Len(seen') = at
        BY <1>1, <2>1, <2>2, AppendFacts, ClientAssumption
    <2>4. MemoryType'
        BY <1>1, <1>3, <2>3, ClientAssumption DEF TakeFirst, NextEntry, TrackType, MemoryType
    <2>5. WalkType'
        BY <1>1, <1>3, <2>2, <2>3, ClientAssumption DEF TakeFirst, NextEntry, WalkType
    <2>6. QED
        BY <2>4, <2>5 DEF TrackType
<1>4. CASE PassSeen
    <2>1. MemoryType'
        BY <1>1, <1>4 DEF PassSeen, NextEntry, TrackType, MemoryType
    <2>2. WalkType'
        BY <1>1, <1>4, ClientAssumption DEF PassSeen, NextEntry, TrackType, WalkType
    <2>3. QED
        BY <2>1, <2>2 DEF TrackType
<1>5. CASE CountNew
    <2>1. told' \subseteq Contracts /\ missed' \subseteq Contracts /\ again' \in BOOLEAN
        BY <1>5 DEF CountNew, TrackType, MemoryType
    <2>2. MemoryType'
        BY <1>1, <1>5, <2>1 DEF CountNew, TrackType, MemoryType
    <2>3. seenReady' /\ UNCHANGED seen
        BY <1>1, <1>5 DEF CountNew
    <2>4. WalkType'
        <3>1. CASE Room
            <4>1. at' = at /\ look' \in Texts
                BY <1>2, <1>5, <3>1 DEF CountNew
            <4>2. QED
                BY <1>1, <2>3, <3>1, <4>1, ClientAssumption DEF Room, WalkType
        <3>2. CASE ~Room
            <4>1. at' = at + 1 /\ look' = NoText
                BY <1>1, <1>5, <3>2 DEF CountNew
            <4>2. QED
                BY <1>1, <2>3, <4>1, ClientAssumption DEF WalkType
        <3>3. QED
            BY <3>1, <3>2
    <2>5. QED
        BY <2>2, <2>4 DEF TrackType
<1>6. QED
    BY <1>3, <1>4, <1>5 DEF VisitEntry

LEMMA RecordTrackType ==
    ASSUME TrackType, SharedType, WorkerType, RecordEntry
    PROVE  TrackType'
<1>1. at \in 1..SeenMax /\ Len(seen) < SeenMax /\ seenReady
    BY DEF RecordEntry, TrackType, WalkType
<1>2. PICK text \in Entry(at) :
         /\ Remember(text)
         /\ missed' = IF text = look THEN missed \ {look}
                      ELSE missed \cup (({look} \cap told) \ Remembered)
    BY DEF RecordEntry
<1>3. text \in Texts /\ seen' = Append(seen, text)
    BY <1>1, <1>2, ListFacts DEF Remember
<1>4. seen' \in Seq(Texts) /\ Len(seen') = Len(seen) + 1 /\ Len(seen) \in Nat
    BY <1>3, AppendFacts DEF TrackType, MemoryType
<1>5. missed' \subseteq Contracts
    BY <1>2 DEF TrackType, MemoryType
<1>6. MemoryType'
    BY <1>1, <1>4, <1>5, ClientAssumption DEF RecordEntry, NextEntry, TrackType, MemoryType
<1>7. WalkType'
    BY <1>1, <1>4, ClientAssumption DEF RecordEntry, NextEntry, WalkType
<1>8. QED
    BY <1>6, <1>7 DEF TrackType

LEMMA EndTrackType ==
    ASSUME TrackType, SharedType, WorkerType, EndWalk
    PROVE  TrackType'
<1>1. seen' \in Seq(Texts) /\ Len(seen') <= SeenMax
    <2>1. CASE seenReady
        BY <2>1 DEF EndWalk, TrackType, MemoryType
    <2>2. CASE ~seenReady
        <3>1. PICK n \in Count : seen' = [k \in 1..n |-> EntryOf(seen, k)]
            BY <2>2 DEF EndWalk
        <3>2. n \in Nat /\ n <= SeenMax
            BY ListFacts, ClientAssumption
        <3>3. \A k \in 1..n : EntryOf(seen, k) \in Texts
            BY DEF EntryOf, Texts, TrackType, MemoryType
        <3>4. QED
            BY <3>1, <3>2, <3>3
    <2>3. QED
        BY <2>1, <2>2
<1>2. MemoryType'
    BY <1>1 DEF EndWalk, TrackType, MemoryType
<1>3. WalkType'
    BY <1>1, ClientAssumption DEF EndWalk, WalkType
<1>4. QED
    BY <1>2, <1>3 DEF TrackType

LEMMA TrackTypeKept ==
    ASSUME TrackType, SharedType, WorkerType, WindowNext
    PROVE  TrackType'
<1>1. CASE ~Walking /\ ResetTracker /\ UNCHANGED walk
    BY <1>1, ResetTrackType DEF TrackType, WalkType
<1>2. CASE UNCHANGED tracker
    BY <1>2 DEF TrackType, MemoryType, WalkType
<1>3. QED
    BY <1>1, <1>2, TrackerSteps, TrackTrackType, VisitTrackType, RecordTrackType, EndTrackType

\* A counted contract that was counted before is one of those missed.
LEMMA CountAnnounceInv ==
    ASSUME AnnounceInv, TrackType, SharedType, WorkerType, VisitEntry, CountNew
    PROVE  AnnounceInv'
<1> DEFINE counted == IF Entry(at) \subseteq Contracts THEN Entry(at) ELSE {}
<1>1. /\ told' = told \cup counted
      /\ missed' = IF Room THEN missed ELSE missed \cup counted
      /\ again' = (again \/ counted \cap (told \ missed) # {})
      /\ seenReady /\ seenReady' /\ look = NoText /\ seen' = seen
    BY DEF VisitEntry, CountNew
<1>2. told \ missed \subseteq Remembered
    <2>1. told \subseteq Contracts
        BY DEF TrackType, MemoryType
    <2>2. QED
        BY <1>1, <2>1, ClientAssumption DEF AnnounceInv
<1>3. ASSUME counted # {}
      PROVE  \E c \in Contracts : Entry(at) = {c} /\ counted = {c}
    <2>1. Entry(at) \subseteq Contracts /\ counted = Entry(at)
        BY <1>3
    <2>2. Garbled \notin Entry(at)
        BY <2>1, ClientAssumption
    <2>3. Entry(at) = {EntryOf(snap.list, at)}
        BY <2>2 DEF Entry
    <2>4. QED
        BY <2>1, <2>3
<1>4. counted \cap (told \ missed) = {}
    <2> SUFFICES ASSUME NEW c \in counted, c \in told \ missed
                 PROVE  FALSE
        OBVIOUS
    <2>1. c \in Contracts /\ Entry(at) = {c}
        BY <1>3
    <2>2. c \in Remembered \ {Garbled}
        BY <1>2, <2>1, ClientAssumption
    <2>3. QED
        BY <2>1, <2>2 DEF CountNew, WasNotSeen
<1>5. told' \ missed' \subseteq Remembered' \cup {look'}
    <2>1. Remembered' = Remembered
        BY <1>1 DEF Remembered
    <2>2. CASE Room
        <3>1. look' \in Entry(at)
            BY <2>2 DEF CountNew
        <3>2. counted \subseteq {look'}
            BY <1>3, <3>1
        <3>3. QED
            BY <1>1, <1>2, <2>1, <2>2, <3>2
    <2>3. CASE ~Room
        BY <1>1, <1>2, <2>1, <2>3
    <2>4. QED
        BY <2>2, <2>3
<1>6. QED
    BY <1>1, <1>4, <1>5 DEF AnnounceInv

LEMMA RecordAnnounceInv ==
    ASSUME AnnounceInv, TrackType, SharedType, WorkerType, RecordEntry
    PROVE  AnnounceInv'
<1>1. at \in 1..SeenMax /\ seenReady /\ UNCHANGED <<seenReady, told, again>>
    BY DEF RecordEntry, TrackType, WalkType
<1>2. PICK text \in Entry(at) :
         /\ Remember(text)
         /\ missed' = IF text = look THEN missed \ {look}
                      ELSE missed \cup (({look} \cap told) \ Remembered)
    BY DEF RecordEntry
<1>3. text \in Texts /\ seen' = Append(seen, text)
    BY <1>1, <1>2, ListFacts DEF Remember
<1>4. Remembered' = Remembered \cup {text}
    BY <1>3, AppendFacts
<1>5. told' \ missed' \subseteq Remembered'
    <2>1. CASE text = look
        BY <1>1, <1>2, <1>4, <2>1 DEF AnnounceInv
    <2>2. CASE text # look
        BY <1>1, <1>2, <1>4, <2>2 DEF AnnounceInv
    <2>3. QED
        BY <2>1, <2>2
<1>6. QED
    BY <1>1, <1>5 DEF AnnounceInv

LEMMA AnnounceInvKept ==
    ASSUME AnnounceInv, TrackType, SharedType, WorkerType, WindowNext
    PROVE  AnnounceInv'
<1>1. CASE ResetTracker
    BY <1>1 DEF ResetTracker, AnnounceInv
<1>2. CASE Track
    <2>1. CASE ResetTracker
        BY <1>1, <2>1
    <2>2. CASE BeginWalk /\ UNCHANGED <<memory, ghosts>>
        BY <2>2 DEF BeginWalk, AnnounceInv, Remembered
    <2>3. CASE told' = {} /\ UNCHANGED again
        BY <2>3 DEF AnnounceInv
    <2>4. QED
        BY <1>2, <2>1, <2>2, <2>3 DEF Track
<1>3. CASE VisitEntry
    <2>1. CASE TakeFirst
        BY <1>3, <2>1 DEF VisitEntry, TakeFirst, AnnounceInv
    <2>2. CASE PassSeen
        BY <1>3, <2>2 DEF VisitEntry, PassSeen, AnnounceInv, Remembered
    <2>3. CASE CountNew
        BY <1>3, <2>3, CountAnnounceInv
    <2>4. QED
        BY <1>3, <2>1, <2>2, <2>3 DEF VisitEntry
<1>4. CASE RecordEntry
    BY <1>4, RecordAnnounceInv
<1>5. CASE EndWalk
    <2>1. CASE seenReady
        BY <1>5, <2>1 DEF EndWalk, AnnounceInv, Remembered
    <2>2. CASE ~seenReady
        BY <1>5, <2>2 DEF EndWalk, AnnounceInv
    <2>3. QED
        BY <2>1, <2>2
<1>6. CASE UNCHANGED tracker
    BY <1>6 DEF AnnounceInv, Remembered
<1>7. QED
    BY <1>1, <1>2, <1>3, <1>4, <1>5, <1>6, TrackerSteps

LEMMA SharedTypeKept ==
    ASSUME SharedType, WorkerType, OutsideType, RequestInv, WindowNext
    PROVE  SharedType'
<1> USE ClientAssumption
<1>1. CASE QueueRequest
    BY <1>1 DEF QueueRequest, SharedType, OutsideType
<1>2. ASSUME NEW p \in Identities, UseWallet(p)
      PROVE  SharedType'
    BY <1>2 DEF UseWallet, SelectProfile, SharedType
<1>3. CASE ClosePrompt
    BY <1>3 DEF ClosePrompt, SelectProfile, SharedType
<1>4. CASE OpenPrompt \/ DismissBox \/ Close
    BY <1>4 DEF OpenPrompt, DismissBox, Close, SharedType
<1>5. CASE Track
    BY <1>5 DEF Track, Dispatch, SharedType
<1>6. CASE VisitEntry \/ RecordEntry \/ EndWalk
    BY <1>6 DEF VisitEntry, RecordEntry, EndWalk, SharedType
<1>7. CASE Stopped
    BY <1>7 DEF Stopped, Dispatch, SharedType
<1>8. CASE PromptTakesQuit \/ Exit
    BY <1>8 DEF PromptTakesQuit, Exit, SharedType
<1>9. CASE StartCore
    BY <1>9 DEF StartCore, Post, SharedType
<1>10. CASE TakeRequest
    BY <1>10 DEF TakeRequest, SharedType
<1>11. CASE Execute
    BY <1>11 DEF Execute, SharedType
<1>12. CASE ReadIdentity \/ ReadRest \/ Expire
    BY <1>12 DEF ReadIdentity, ReadRest, Expire, SharedType
<1>13. CASE ReadFails
    BY <1>13 DEF ReadFails, Post, SharedType
<1>14. CASE Publish
    BY <1>14 DEF Publish, Post, SharedType, WorkerType
<1>15. CASE End
    BY <1>15 DEF End, Post, SharedType
<1>16. QED
    BY <1>1, <1>2, <1>3, <1>4, <1>5, <1>6, <1>7, <1>8, <1>9, <1>10, <1>11, <1>12, <1>13,
       <1>14, <1>15 DEF WindowNext, User, Messages, Walk, Worker

LEMMA BlankFacts ==
    /\ Blank \in Snapshots /\ NoDisplay \in Displays
BY ClientAssumption DEF Blank, NoDisplay, Snapshots, Displays

LEMMA WorkerTypeKept ==
    ASSUME WorkerType, RequestInv, OutsideType, WindowNext
    PROVE  WorkerType'
<1>1. CASE User \/ Messages
    BY <1>1, WindowSteps DEF WorkerType
<1>2. CASE StartCore
    BY <1>2 DEF StartCore, WorkerType, Pcs
<1>3. CASE TakeRequest
    BY <1>3 DEF TakeRequest, Tick, WorkerType, Pcs, RequestInv
<1>4. CASE Execute
    <2>1. running' = 0 /\ 0 \in 0..MaxRequests
        BY <1>4, ClientAssumption DEF Execute
    <2>2. display' \in Displays
        BY <1>4 DEF Execute, WorkerType, Displays
    <2>3. QED
        BY <1>4, <2>1, <2>2 DEF Execute, Tick, WorkerType, Pcs
<1>5. CASE ReadIdentity
    <2>1. s' \in Snapshots
        BY <1>5, BlankFacts DEF ReadIdentity, OutsideType, Snapshots, Blank
    <2>2. QED
        BY <1>5, <2>1 DEF ReadIdentity, WorkerType, Pcs
<1>6. CASE ReadRest
    <2>1. display' \in Displays
        <3>1. CASE Refresh
            <4>1. PICK there \in BOOLEAN, now \in ChainLists :
                    display' = [valid |-> TRUE, id |-> s.id, wallet |-> selected,
                                avail |-> there, list |-> now]
                BY <1>6, <3>1 DEF ReadRest, ReadDisplay
            <4>2. s.id \in Identities \cup {NoIdentity} /\ selected \in Identities
                BY DEF WorkerType, OutsideType, Snapshots
            <4>3. QED
                BY <4>1, <4>2 DEF Displays
        <3>2. CASE ~Refresh
            BY <1>6, <3>2 DEF ReadRest, WorkerType
        <3>3. QED
            BY <3>1, <3>2
    <2>2. s' \in Snapshots
        BY <1>6, <2>1 DEF ReadRest, WorkerType, Snapshots, Displays
    <2>3. QED
        BY <1>6, <2>1, <2>2 DEF ReadRest, WorkerType, Pcs
<1>7. CASE ReadFails
    <2>1. display' \in Displays
        BY <1>7, BlankFacts DEF ReadFails, WorkerType, Displays, NoDisplay
    <2>2. QED
        BY <1>7, <2>1, BlankFacts DEF ReadFails, WorkerType, Pcs
<1>8. CASE Publish
    BY <1>8, BlankFacts DEF Publish, WorkerType, Pcs
<1>9. CASE End
    BY <1>9 DEF End, WorkerType, Pcs
<1>10. CASE Expire
    BY <1>10 DEF Expire, WorkerType, Displays
<1>11. QED
    BY <1>1, <1>2, <1>3, <1>4, <1>5, <1>6, <1>7, <1>8, <1>9, <1>10
       DEF WindowNext, Worker

LEMMA OutsideTypeKept ==
    ASSUME OutsideType, RequestInv, WindowNext
    PROVE  OutsideType'
<1>1. budget \in [requests : 0..MaxRequests, selects : Nat, changes : Nat, interrupted : BOOLEAN]
    BY ClientAssumption DEF OutsideType
<1>2. budget.requests \in 0..MaxRequests /\ budget.selects \in Nat /\ budget.changes \in Nat
    BY <1>1
<1>3. ASSUME NEW p \in Identities, SelectProfile(p)
      PROVE  selected' \in Identities /\ selects' \in 0..budget.selects
    BY <1>2, <1>3 DEF SelectProfile, OutsideType
<1>4. CASE QueueRequest
    BY <1>2, <1>4, ClientAssumption DEF QueueRequest, OutsideType
<1>5. ASSUME NEW p \in Identities, UseWallet(p)
      PROVE  OutsideType'
    BY <1>3, <1>5 DEF UseWallet, OutsideType
<1>6. CASE ClosePrompt
    <2>1. selected' \in Identities /\ selects' \in 0..budget.selects
        BY <1>3, <1>6 DEF ClosePrompt, OutsideType
    <2>2. QED
        BY <1>6, <2>1 DEF ClosePrompt, OutsideType
<1>7. CASE OpenPrompt \/ DismissBox \/ Close
    BY <1>7 DEF OpenPrompt, DismissBox, Close, OutsideType
<1>8. CASE Messages
    <2>1. UNCHANGED <<budget, changes, done>>
        BY <1>8, WindowSteps
    <2>2. UNCHANGED <<selected, selects, asked>>
        BY <1>8 DEF Messages, Walk, Track, VisitEntry, RecordEntry, EndWalk, Stopped,
           PromptTakesQuit, Exit
    <2>3. QED
        BY <2>1, <2>2 DEF OutsideType
<1>9. CASE Execute
    <2>1. running \in Requests
        BY <1>9, ClientAssumption DEF Execute, RequestInv, Requests
    <2>2. QED
        BY <1>9, <2>1 DEF Execute, OutsideType
<1>10. CASE ReadRest
    <2>1. changes' \in 0..budget.changes
        BY <1>2, <1>10 DEF ReadRest, ReadDisplay, OutsideType
    <2>2. QED
        BY <1>10, <2>1 DEF ReadRest, OutsideType
<1>11. CASE StartCore \/ TakeRequest \/ ReadIdentity
    BY <1>11 DEF StartCore, TakeRequest, ReadIdentity, OutsideType
<1>12. CASE ReadFails \/ Publish \/ End \/ Expire
    BY <1>12 DEF ReadFails, Publish, End, Expire, OutsideType
<1>13. QED
    BY <1>4, <1>5, <1>6, <1>7, <1>8, <1>9, <1>10, <1>11, <1>12
       DEF WindowNext, User, Worker

LEMMA RequestInvKept ==
    ASSUME RequestInv, OutsideType, WindowNext
    PROVE  RequestInv'
<1>1. CASE QueueRequest
    <2>1. pending = 0 /\ running = 0 /\ UNCHANGED <<running, pc, done>>
        BY <1>1 DEF QueueRequest, RequestInv
    <2>2. /\ asked' = asked + 1 /\ pending' = asked + 1 /\ busy'
          /\ asked + 1 \in 0..MaxRequests
        <3>1. budget.requests \in 0..MaxRequests
            BY ClientAssumption DEF OutsideType
        <3>2. QED
            BY <1>1, <3>1, ClientAssumption DEF QueueRequest, RequestInv
    <2>3. \A r \in 1..asked : r \in done
        BY <2>1, ClientAssumption DEF RequestInv, RequestsAccounted
    <2>4. RequestsAccounted'
        BY <2>1, <2>2, <2>3, ClientAssumption DEF RequestInv, RequestsAccounted
    <2>5. QED
        BY <2>1, <2>2, <2>4, ClientAssumption DEF RequestInv
<1>2. ASSUME NEW p \in Identities, UseWallet(p)
      PROVE  RequestInv'
    BY <1>2 DEF UseWallet, RequestInv, RequestsAccounted
<1>3. CASE OpenPrompt \/ ClosePrompt \/ DismissBox \/ Close
    BY <1>3 DEF OpenPrompt, ClosePrompt, DismissBox, Close, RequestInv, RequestsAccounted
<1>4. CASE Messages
    <2>1. UNCHANGED <<asked, pending, busy, running, pc, done>>
        BY <1>4 DEF Messages, Walk, Track, VisitEntry, RecordEntry, EndWalk, Stopped,
           PromptTakesQuit, Exit
    <2>2. QED
        BY <2>1 DEF RequestInv, RequestsAccounted
<1>5. CASE StartCore
    BY <1>5, ClientAssumption DEF StartCore, RequestInv, RequestsAccounted
<1>6. CASE TakeRequest
    BY <1>6, ClientAssumption DEF TakeRequest, Tick, RequestInv, RequestsAccounted
<1>7. CASE Execute
    BY <1>7, ClientAssumption DEF Execute, Tick, RequestInv, RequestsAccounted
<1>8. CASE ReadIdentity \/ ReadRest \/ Expire
    BY <1>8 DEF ReadIdentity, ReadRest, Expire, RequestInv, RequestsAccounted
<1>9. CASE ReadFails \/ Publish \/ End
    BY <1>9 DEF ReadFails, Publish, End, RequestInv, RequestsAccounted
<1>10. QED
    BY <1>1, <1>2, <1>3, <1>4, <1>5, <1>6, <1>7, <1>8, <1>9 DEF WindowNext, User, Worker

LEMMA EndInvKept ==
    ASSUME EndInv, WindowNext
    PROVE  EndInv'
<1>1. CASE QueueRequest \/ OpenPrompt \/ DismissBox \/ Close
    BY <1>1 DEF QueueRequest, OpenPrompt, DismissBox, Close, Enabled, EndInv
<1>2. ASSUME NEW p \in Identities, UseWallet(p)
      PROVE  EndInv'
    BY <1>2 DEF UseWallet, SelectProfile, EndInv
<1>3. CASE ClosePrompt
    BY <1>3 DEF ClosePrompt, SelectProfile, EndInv
<1>4. CASE Track
    BY <1>4 DEF Track, Dispatch, EndInv
<1>5. CASE VisitEntry \/ RecordEntry \/ EndWalk
    BY <1>5 DEF VisitEntry, RecordEntry, EndWalk, EndInv
<1>6. CASE Stopped
    BY <1>6 DEF Stopped, Dispatch, EndInv
<1>7. CASE PromptTakesQuit \/ Exit
    BY <1>7 DEF PromptTakesQuit, Exit, EndInv
<1>8. CASE StartCore
    BY <1>8 DEF StartCore, Post, EndInv
<1>9. CASE TakeRequest \/ Execute
    BY <1>9 DEF TakeRequest, Execute, EndInv
<1>10. CASE ReadIdentity \/ ReadRest \/ Expire
    BY <1>10 DEF ReadIdentity, ReadRest, Expire, EndInv
<1>11. CASE ReadFails
    BY <1>11 DEF ReadFails, Post, EndInv
<1>12. CASE Publish
    BY <1>12 DEF Publish, Post, EndInv
<1>13. CASE End
    BY <1>13 DEF End, Post, EndInv
<1>14. QED
    BY <1>1, <1>2, <1>3, <1>4, <1>5, <1>6, <1>7, <1>8, <1>9, <1>10, <1>11, <1>12, <1>13
       DEF WindowNext, User, Messages, Walk, Worker

WindowInv == LoopType /\ TrackType /\ SharedType /\ WorkerType /\ OutsideType
       /\ RequestInv /\ EndInv /\ AnnounceInv

LEMMA WindowInitInv == WindowInit => WindowInv
<1> SUFFICES ASSUME WindowInit PROVE WindowInv
    OBVIOUS
<1>1. LoopType /\ EndInv
    <2>1. /\ window = TRUE /\ prompt = FALSE /\ boxes = 0 /\ quit = FALSE /\ exited = FALSE
          /\ at = 0 /\ posted = {}
        BY DEF WindowInit
    <2>2. 0 \in 0..MaxBoxes
        BY ClientAssumption
    <2>3. {window, prompt, quit, exited} \subseteq BOOLEAN
        BY <2>1
    <2>4. boxes \in 0..MaxBoxes /\ at \in Nat /\ ~(at > 0)
        BY <2>1, <2>2
    <2>5. QED
        BY <2>1, <2>3, <2>4 DEF LoopType, EndInv
<1>2. seen = <<>> /\ seen \in Seq(Texts) /\ Len(seen) = 0
    BY DEF WindowInit
<1>3. MemoryType /\ WalkType
    <2>1. /\ tracked = NoIdentity /\ seenReady = FALSE /\ at = 0 /\ arrived = FALSE
          /\ look = NoText /\ told = {} /\ missed = {} /\ again = FALSE
        BY DEF WindowInit
    <2>2. MemoryType
        BY <1>2, <2>1, ClientAssumption DEF MemoryType
    <2>3. WalkType
        BY <1>2, <2>1, ClientAssumption DEF WalkType
    <2>4. QED
        BY <2>2, <2>3
<1>4. AnnounceInv
    BY DEF WindowInit, AnnounceInv
<1>5. SharedType
    <2>1. /\ posted = {} /\ stopping = FALSE /\ ready = FALSE /\ busy = FALSE
          /\ pending = 0 /\ snap = Blank
        BY DEF WindowInit
    <2>2. 0 \in 0..MaxRequests
        BY ClientAssumption
    <2>3. QED
        BY <2>1, <2>2, BlankFacts DEF SharedType
<1>6. WorkerType
    BY BlankFacts, ClientAssumption DEF WindowInit, WorkerType, Pcs
<1>7. OutsideType
    <2>1. budget \in [requests : 0..MaxRequests, selects : Nat, changes : Nat,
                      interrupted : BOOLEAN]
        BY ClientAssumption DEF WindowInit
    <2>2. budget.selects \in Nat /\ budget.changes \in Nat
        BY <2>1
    <2>3. QED
        BY <2>2, ClientAssumption DEF WindowInit, OutsideType, Requests
<1>8. RequestInv
    BY ClientAssumption DEF WindowInit, RequestInv, RequestsAccounted
<1>9. QED
    BY <1>1, <1>3, <1>4, <1>5, <1>6, <1>7, <1>8 DEF WindowInv, TrackType

LEMMA WindowNextInv == WindowInv /\ [WindowNext]_windowVars => WindowInv'
<1> SUFFICES ASSUME WindowInv, [WindowNext]_windowVars PROVE WindowInv'
    OBVIOUS
<1>1. CASE WindowNext
    <2>1. LoopType' /\ TrackType'
        BY <1>1, LoopTypeKept, TrackTypeKept DEF WindowInv, TrackType
    <2>2. SharedType' /\ WorkerType' /\ OutsideType'
        BY <1>1, SharedTypeKept, WorkerTypeKept, OutsideTypeKept DEF WindowInv
    <2>3. RequestInv' /\ EndInv' /\ AnnounceInv'
        BY <1>1, RequestInvKept, EndInvKept, AnnounceInvKept DEF WindowInv
    <2>4. QED
        BY <2>1, <2>2, <2>3 DEF WindowInv
<1>2. CASE UNCHANGED windowVars
    BY <1>2 DEF windowVars, WindowInv, LoopType, TrackType, MemoryType, WalkType, SharedType,
       WorkerType, OutsideType, RequestInv, RequestsAccounted, EndInv, AnnounceInv, Remembered
<1>3. QED
    BY <1>1, <1>2

LEMMA WindowInvFacts ==
    WindowInv => WindowTypeOK /\ AnnouncedOnce /\ RequestsAccounted /\ WindowOutlivesCore
<1> SUFFICES ASSUME WindowInv
             PROVE  WindowTypeOK /\ AnnouncedOnce /\ RequestsAccounted /\ WindowOutlivesCore
    OBVIOUS
<1>1. WindowTypeOK
    BY DEF WindowInv, WindowTypeOK, LoopType, TrackType, MemoryType, WalkType, SharedType,
       WorkerType, OutsideType, Pcs
<1>2. QED
    BY <1>1 DEF WindowInv, AnnounceInv, AnnouncedOnce, RequestInv, EndInv,
       WindowOutlivesCore

\* The types of the client's window and worker, and that the tracker never
\* remembers more contracts than it has places for, whatever their number.
THEOREM WindowTypeCorrect == WindowSpec => []WindowTypeOK
<1>1. WindowInit => WindowInv
    BY WindowInitInv
<1>2. WindowInv /\ [WindowNext]_windowVars => WindowInv'
    BY WindowNextInv
<1>3. WindowInv => WindowTypeOK
    BY WindowInvFacts
<1>4. QED
    BY <1>1, <1>2, <1>3, PTL DEF WindowSpec

\* While it follows one identity the contract tracker counts a contract as new
\* once, whatever the worker copies over the list under its walk and whatever
\* its message boxes dispatch (stnc_contract_tracking_update): except one that
\* finds no room, one whose entry is replaced before it is recorded, and an
\* entry that is being copied, which is nobody's contract.
THEOREM AnnouncesOnce == WindowSpec => []AnnouncedOnce
<1>1. WindowInit => WindowInv
    BY WindowInitInv
<1>2. WindowInv /\ [WindowNext]_windowVars => WindowInv'
    BY WindowNextInv
<1>3. WindowInv => AnnouncedOnce
    BY WindowInvFacts
<1>4. QED
    BY <1>1, <1>2, <1>3, PTL DEF WindowSpec

\* A request the window accepted waits, runs or is done, and is never done
\* twice: the one place for it is not overwritten (queue_request, runtime).
THEOREM AccountsRequests == WindowSpec => []RequestsAccounted
<1>1. WindowInit => WindowInv
    BY WindowInitInv
<1>2. WindowInv /\ [WindowNext]_windowVars => WindowInv'
    BY WindowNextInv
<1>3. WindowInv => RequestsAccounted
    BY WindowInvFacts
<1>4. QED
    BY <1>1, <1>2, <1>3, PTL DEF WindowSpec

\* The window is destroyed only after Core was shut down, and the program
\* returns only when window and prompt are gone (proc, stnc_gui_run).
THEOREM WindowOutlives == WindowSpec => []WindowOutlivesCore
<1>1. WindowInit => WindowInv
    BY WindowInitInv
<1>2. WindowInv /\ [WindowNext]_windowVars => WindowInv'
    BY WindowNextInv
<1>3. WindowInv => WindowOutlivesCore
    BY WindowInvFacts
<1>4. QED
    BY <1>1, <1>2, <1>3, PTL DEF WindowSpec

=============================================================================
