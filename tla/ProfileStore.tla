---------------------------- MODULE ProfileStore ----------------------------
(***************************************************************************)
(* The profiles of one application directory (stnc_profile.c) and the two  *)
(* key stores behind them (stnc_wallet_store.c, stnc_identity.c).          *)
(*                                                                         *)
(* A profile is a wallet file and an identity file; active.profile names   *)
(* the selected one and its absence selects the Default profile.  The      *)
(* window's thread creates and selects profiles.  Meanwhile the worker     *)
(* thread, and any command run beside the window, creates and loads keys   *)
(* through readers of active.profile of their own.  Every call that        *)
(* touches a file is one step, a process may end between any two of them,  *)
(* and a file that somebody has open for reading cannot be removed.        *)
(***************************************************************************)
EXTENDS Naturals, FiniteSets

CONSTANTS
    Names,      \* profile names a user may choose
    Default,    \* the profile selected by having no active.profile
    Beginning,  \* the other names a half-written name may read as
    Workers,    \* who works through the selection: the worker, commands
    NoFile, Empty, Torn, None,
    MaxKeys     \* bound: keys generated in a behaviour

Profiles == Names \cup {Default}
Keys     == 1..MaxKeys
Paths    == {"wallet", "identity"} \X Profiles
Wallet(n)   == <<"wallet", n>>
Identity(n) == <<"identity", n>>
Active == <<"active", "profile">>   \* the name of active.profile

ASSUME NamesAssumption ==
    /\ Default \notin Names
    /\ Beginning \in [Names -> SUBSET Names]
    /\ MaxKeys \in Nat

ASSUME MarksAssumption ==
    /\ NoFile \notin Keys \cup Profiles \cup {Empty, Torn}
    /\ Torn \notin Keys
    /\ Empty \notin Profiles
    /\ None \notin Profiles

VARIABLES
    file,       \* key files: NoFile, Torn (not, or not yet, a valid key), a key
    active,     \* active.profile: NoFile, Empty, or the name in it
    list,       \* the names in profiles.list
    lastKey,    \* the last key the random source gave
    uiPc,       \* where the window's thread is in a profile operation
    uiOp,       \* "create" or "select"
    uiName,     \* the profile it works on
    answer,     \* the profile the last operation returned, None if it failed
    wkPc,       \* where each worker is in its operation
    wkJob,      \* what it does: create or load a wallet or an identity
    wkProfile,  \* the profile it resolved active.profile to
    held,       \* what it has open for reading
    reported,   \* history: keys some operation has told the user are his
    unfinished  \* history: key files whose last writing failed or was cut off, and
                \* the name of active.profile after a refused removal

files == <<file, active, list, lastKey>>
ui    == <<uiPc, uiOp, uiName, answer>>
wk    == <<wkPc, wkJob, wkProfile, held>>
history == <<reported, unfinished>>
vars  == <<files, ui, wk, history>>

UiPcs == {"idle", "wallet", "walletWrite", "walletDrop", "identity",
          "identityWrite", "identityDrop", "list", "unselect", "open", "write",
          "undoOne", "undoBoth", "undoIdentity"}
WkPcs == {"idle", "resolve", "reach", "write", "drop", "read"}
Jobs  == {"create", "load"} \X {"wallet", "identity"}

Target(w) == <<wkJob[w][2], wkProfile[w]>>

-----------------------------------------------------------------------------
(* Files.  CreateFileA(CREATE_NEW) with no sharing: while it is written a   *)
(* key file cannot be opened by anybody else.                               *)

UiWrites(p) == \/ uiPc \in {"walletWrite"} /\ p = Wallet(uiName)
               \/ uiPc \in {"identityWrite"} /\ p = Identity(uiName)
WkWrites(w, p) == wkPc[w] = "write" /\ p = Target(w)
Openable(p) ==
    /\ file[p] # NoFile
    /\ ~UiWrites(p)
    /\ \A w \in Workers : ~WkWrites(w, p)
IsHeld(p) == \E w \in Workers : held[w] = p

(* stnc_platform_write_private_file, in the steps another thread can see: a *)
(* new empty file, its content, and the file removed when writing failed.   *)
NewFileOrOver(p) == file' = [file EXCEPT ![p] = Torn]  \* CREATE_ALWAYS
NewFile(p) == file[p] = NoFile /\ file' = [file EXCEPT ![p] = Torn]
FillFile(p)  == /\ lastKey < MaxKeys
                /\ lastKey' = lastKey + 1
                /\ file' = [file EXCEPT ![p] = lastKey + 1]
                /\ unfinished' = unfinished \ {p}
WritingFails(p) == unfinished' = unfinished \cup {p} /\ UNCHANGED <<file, lastKey>>
(* remove(): refused, unnoticed by every caller, while a reader has it open. *)
Remove(p) == file' = [file EXCEPT ![p] = IF IsHeld(p) THEN @ ELSE NoFile]

(* profile_usable: the wallet file opens and the identity file is valid.    *)
Usable(n) == /\ Openable(Wallet(n))
             /\ Openable(Identity(n)) /\ file[Identity(n)] \in Keys

(* stnc_profile_active: the profile the window shows.                       *)
ActiveProfile == IF active \in Names /\ Usable(active) THEN active ELSE Default

-----------------------------------------------------------------------------
(* The window's thread.                                                     *)

GoUi(pc) == uiPc' = pc /\ UNCHANGED <<uiOp, uiName, answer>>

Return(result) ==
    /\ uiPc' = "idle" /\ uiName' = None /\ answer' = result
    /\ uiOp' = IF result = None THEN None ELSE uiOp

(* stnc_profile_create up to the check that the name has no wallet file.    *)
BeginCreate(n) ==
    /\ uiPc = "idle"
    /\ \/ /\ ~Openable(Wallet(n))
          /\ uiPc' = "wallet" /\ uiOp' = "create" /\ uiName' = n /\ answer' = None
       \/ Openable(Wallet(n)) /\ Return(None)
    /\ UNCHANGED <<files, wk, history>>

(* stnc_wallet_store_create_at; the failure before a file exists also is    *)
(* the random source's.                                                     *)
CreateWallet ==
    /\ uiPc = "wallet"
    /\ \/ NewFile(Wallet(uiName)) /\ GoUi("walletWrite")
       \/ Return(None) /\ UNCHANGED file
    /\ UNCHANGED <<active, list, lastKey, wk, history>>

WriteWallet ==
    /\ uiPc = "walletWrite"
    /\ \/ FillFile(Wallet(uiName)) /\ GoUi("identity")
       \/ WritingFails(Wallet(uiName)) /\ GoUi("walletDrop")
    /\ UNCHANGED <<active, list, wk, reported>>

DropWallet ==
    /\ uiPc = "walletDrop"
    /\ Remove(Wallet(uiName)) /\ Return(None)
    /\ UNCHANGED <<active, list, lastKey, wk, history>>

(* stnc_identity_create_at: on failure the new wallet is removed.           *)
CreateIdentity ==
    /\ uiPc = "identity"
    /\ \/ NewFile(Identity(uiName)) /\ GoUi("identityWrite")
       \/ GoUi("undoOne") /\ UNCHANGED file
    /\ UNCHANGED <<active, list, lastKey, wk, history>>

WriteIdentity ==
    /\ uiPc = "identityWrite"
    /\ \/ FillFile(Identity(uiName)) /\ GoUi("list")
       \/ WritingFails(Identity(uiName)) /\ GoUi("identityDrop")
    /\ UNCHANGED <<active, list, wk, reported>>

DropIdentity ==
    /\ uiPc = "identityDrop"
    /\ Remove(Identity(uiName)) /\ GoUi("undoOne")
    /\ UNCHANGED <<active, list, lastKey, wk, history>>

UndoOne ==
    /\ uiPc = "undoOne"
    /\ Remove(Wallet(uiName)) /\ Return(None)
    /\ UNCHANGED <<active, list, lastKey, wk, history>>

(* profile_list_add appends a name that is not in the list.                 *)
AddToList ==
    /\ uiPc = "list"
    /\ \/ list' = list \cup {uiName} /\ GoUi("open")
       \/ uiName \notin list /\ GoUi("undoBoth") /\ UNCHANGED list
    /\ UNCHANGED <<file, active, lastKey, wk, history>>

(* A failure to write the selection that is not noticed.                    *)
FailedSelectionUnnoticed == Return(uiName)

(* active_write truncates the file before it writes the name.               *)
AfterFailedSelection ==
    \/ uiOp = "create" /\ GoUi("undoBoth")
    \/ uiOp = "select" /\ Return(None)

OpenActive ==
    /\ uiPc = "open"
    /\ \/ active' = Empty /\ GoUi("write") /\ unfinished' = unfinished \ {Active}
       \/ AfterFailedSelection /\ UNCHANGED <<active, unfinished>>
    /\ UNCHANGED <<file, list, lastKey, wk, reported>>

Made(n) == {<<p, file[p]>> : p \in {Wallet(n), Identity(n)}}

WriteActive ==
    /\ uiPc = "write"
    /\ \/ /\ active' = uiName /\ Return(uiName)
          /\ reported' = IF uiOp = "create" THEN reported \cup Made(uiName)
                                            ELSE reported
       \/ /\ active' \in {Empty, uiName} \cup Beginning[uiName]
          /\ AfterFailedSelection
          /\ UNCHANGED reported
    /\ UNCHANGED <<file, list, lastKey, wk, unfinished>>

UndoBoth ==
    /\ uiPc = "undoBoth"
    /\ Remove(Wallet(uiName)) /\ GoUi("undoIdentity")
    /\ UNCHANGED <<active, list, lastKey, wk, history>>

UndoIdentity ==
    /\ uiPc = "undoIdentity"
    /\ Remove(Identity(uiName)) /\ Return(None)
    /\ UNCHANGED <<active, list, lastKey, wk, history>>

(* stnc_profile_select: Default removes active.profile and does not look    *)
(* whether it could.                                                        *)
BeginSelect(n) ==
    /\ uiPc = "idle"
    /\ \/ /\ Usable(n)
          /\ uiPc' = IF n = Default THEN "unselect" ELSE "open"
          /\ uiOp' = "select" /\ uiName' = n /\ answer' = None
       \/ ~Usable(n) /\ Return(None)
    /\ UNCHANGED <<files, wk, history>>

Unselect ==
    /\ uiPc = "unselect"
    /\ \/ IsHeld(Active) /\ UNCHANGED active /\ unfinished' = unfinished \cup {Active}
       \/ ~IsHeld(Active) /\ active' = NoFile /\ unfinished' = unfinished \ {Active}
    /\ Return(Default)
    /\ UNCHANGED <<file, list, lastKey, wk, reported>>

UiStep ==
    \/ \E n \in Names : BeginCreate(n)
    \/ \E n \in Profiles : BeginSelect(n)
    \/ CreateWallet \/ WriteWallet \/ DropWallet
    \/ CreateIdentity \/ WriteIdentity \/ DropIdentity \/ UndoOne
    \/ AddToList \/ OpenActive \/ WriteActive
    \/ UndoBoth \/ UndoIdentity \/ Unselect

-----------------------------------------------------------------------------
(* A worker: wallet_path or identity_path, then the key file.               *)

GoWk(w, pc) == wkPc' = [wkPc EXCEPT ![w] = pc]

Finish(w) ==
    /\ wkPc' = [wkPc EXCEPT ![w] = "idle"]
    /\ wkJob' = [wkJob EXCEPT ![w] = None]
    /\ wkProfile' = [wkProfile EXCEPT ![w] = None]
    /\ held' = [held EXCEPT ![w] = None]

(* The path: no active.profile means the Default files; an open one is read *)
(* in a step of its own, and a name is taken as it stands.                  *)
BeginJob(w, job) ==
    /\ wkPc[w] = "idle"
    /\ wkJob' = [wkJob EXCEPT ![w] = job]
    /\ \/ /\ active = NoFile
          /\ wkProfile' = [wkProfile EXCEPT ![w] = Default]
          /\ GoWk(w, "reach") /\ UNCHANGED held
       \/ /\ active # NoFile
          /\ held' = [held EXCEPT ![w] = Active]
          /\ GoWk(w, "resolve") /\ UNCHANGED wkProfile
    /\ UNCHANGED <<files, ui, history>>

Resolve(w) ==
    /\ wkPc[w] = "resolve"
    /\ \/ /\ active \in Names
          /\ wkProfile' = [wkProfile EXCEPT ![w] = active]
          /\ held' = [held EXCEPT ![w] = None]
          /\ GoWk(w, "reach") /\ UNCHANGED wkJob
       \/ active \notin Names /\ Finish(w)
    /\ UNCHANGED <<files, ui, history>>

(* stnc_wallet_store_create_at and stnc_identity_create_at of the resolved  *)
(* path; the failure is an existing file or the random source's.            *)
Reach(w) ==
    /\ wkPc[w] = "reach" /\ wkJob[w][1] = "create"
    /\ \/ NewFile(Target(w)) /\ GoWk(w, "write") /\ UNCHANGED <<wkJob, wkProfile, held>>
       \/ Finish(w) /\ UNCHANGED file
    /\ UNCHANGED <<active, list, lastKey, ui, history>>

Write(w) ==
    /\ wkPc[w] = "write"
    /\ \/ /\ FillFile(Target(w)) /\ Finish(w)
          /\ reported' = reported \cup {<<Target(w), lastKey + 1>>}
       \/ /\ WritingFails(Target(w)) /\ GoWk(w, "drop")
          /\ UNCHANGED <<wkJob, wkProfile, held, reported>>
    /\ UNCHANGED <<active, list, ui>>

Drop(w) ==
    /\ wkPc[w] = "drop"
    /\ Remove(Target(w)) /\ Finish(w)
    /\ UNCHANGED <<active, list, lastKey, ui, history>>

(* stnc_wallet_store_load and stnc_identity_status_read.                    *)
OpenKey(w) ==
    /\ wkPc[w] = "reach" /\ wkJob[w][1] = "load"
    /\ \/ /\ Openable(Target(w))
          /\ held' = [held EXCEPT ![w] = Target(w)]
          /\ GoWk(w, "read") /\ UNCHANGED <<wkJob, wkProfile>>
       \/ ~Openable(Target(w)) /\ Finish(w)
    /\ UNCHANGED <<files, ui, history>>

CloseKey(w) ==
    /\ wkPc[w] = "read"
    /\ Finish(w)
    /\ UNCHANGED <<files, ui, history>>

WorkerStep(w) ==
    \/ \E job \in Jobs : BeginJob(w, job)
    \/ Resolve(w) \/ Reach(w) \/ Write(w) \/ Drop(w)
    \/ OpenKey(w) \/ CloseKey(w)

-----------------------------------------------------------------------------
(* Every process ends between two steps and is started again: what is on    *)
(* disk stays, and a file being written stays as it is.                     *)
Crash ==
    /\ uiPc # "idle" \/ \E w \in Workers : wkPc[w] # "idle"
    /\ Return(answer)
    /\ unfinished' = unfinished \cup
         {p \in Paths : UiWrites(p) \/ \E w \in Workers : WkWrites(w, p)}
    /\ wkPc' = [w \in Workers |-> "idle"]
    /\ wkJob' = [w \in Workers |-> None]
    /\ wkProfile' = [w \in Workers |-> None]
    /\ held' = [w \in Workers |-> None]
    /\ UNCHANGED <<files, reported>>

Init ==
    /\ file = [p \in Paths |-> NoFile]
    /\ active = NoFile /\ list = {} /\ lastKey = 0
    /\ uiPc = "idle" /\ uiOp = None /\ uiName = None /\ answer = None
    /\ wkPc = [w \in Workers |-> "idle"]
    /\ wkJob = [w \in Workers |-> None]
    /\ wkProfile = [w \in Workers |-> None]
    /\ held = [w \in Workers |-> None]
    /\ reported = {} /\ unfinished = {}

Next == UiStep \/ (\E w \in Workers : WorkerStep(w)) \/ Crash

Spec == Init /\ [][Next]_vars

-----------------------------------------------------------------------------
FileStates == Keys \cup {NoFile, Torn}

TypeOK ==
    /\ file \in [Paths -> FileStates]
    /\ active \in Names \cup {NoFile, Empty}
    /\ list \subseteq Names /\ lastKey \in 0..MaxKeys
    /\ uiPc \in UiPcs /\ uiOp \in {"create", "select", None}
    /\ uiName \in Profiles \cup {None} /\ answer \in Profiles \cup {None}
    /\ wkPc \in [Workers -> WkPcs]
    /\ wkJob \in [Workers -> Jobs \cup {None}]
    /\ wkProfile \in [Workers -> Profiles \cup {None}]
    /\ held \in [Workers -> Paths \cup {Active, None}]
    /\ reported \subseteq Paths \X Keys /\ unfinished \subseteq Paths \cup {Active}

(* A key that an operation told the user is his, a wallet's or an          *)
(* identity's, stays in its file whatever other operation runs beside it   *)
(* or fails after it, and wherever the processes end: nothing replaces it  *)
(* and no clean-up of a failed operation removes it.                       *)
KeysKept == \A r \in reported : file[r[1]] = r[2]

(* What the last creation or selection that succeeded has promised holds    *)
(* until the next one begins, whatever fails, runs beside it or crashes:    *)
(* active.profile selects that profile for all three of its readers (the    *)
(* window, the wallet store and the identity), its identity and its wallet  *)
(* are valid, and a created one is in the list.  Two promises the code does *)
(* not keep are excepted by name: a selection of Default succeeds though    *)
(* the removal of active.profile was refused (stnc_profile.c:77), and       *)
(* main.c:17 asks a selected profile for a valid wallet, of which select    *)
(* only sees that it opens, be it what a failed writing left behind.        *)
SelectionServed ==
    IF answer = Default THEN active = NoFile \/ Active \in unfinished
                        ELSE active = answer

WalletServed ==
    \/ file[Wallet(answer)] \in Keys
    \/ uiOp = "select" /\ Wallet(answer) \in unfinished

SuccessIsServed ==
    answer # None =>
        /\ SelectionServed
        /\ file[Identity(answer)] \in Keys
        /\ WalletServed
        /\ uiOp = "create" => answer \in list

=============================================================================
