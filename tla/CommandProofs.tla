---------------------------- MODULE CommandProofs ----------------------------
(***************************************************************************)
(* What the front end's two modules promise.  ConfigStore: proved for any  *)
(* number of processes, any settings and any number of crashes and refused *)
(* calls.  Command: proved for every operation, every template and every   *)
(* way Chain moves, by an invariant that says, of each step an operation   *)
(* may be at, which operation it is, what it holds, and what is true of    *)
(* Chain, of the files and of the search by then.                          *)
(***************************************************************************)
EXTENDS Command, ConfigStore, WellFoundedInduction, TLAPS

-----------------------------------------------------------------------------
(* ConfigStore                                                             *)

\* Processes that hold settings in memory, and those that hold more to restore.
Initialized == {"ready", "reloading"} \union Saving

MemoryOK ==
  \A p \in Process :
    /\ doing[p] \in Initialized => mem[p] \in Document
    /\ doing[p] \in Saving \union {"reloading"} => previous[p] \in Document
    /\ doing[p] \in Creating => mem[p] = Defaults

\* The temporary file is half a document only while somebody writes it.
TmpWhole == tmp = Torn => faults > 0 \/ TmpHeld

\* A save that is alone is the only one, and nobody writes a first file.
AloneIsAlone ==
  \A p \in alone :
    /\ doing[p] \in Saving
    /\ \A q \in Process \ {p} : doing[q] \notin Saving \union Creating

\* What a lone save has left in the two files after each of its calls.
AloneFiles ==
  \A p \in alone :
    /\ doing[p] \in {"writing", "removing"} => path = found[p]
    /\ doing[p] \in {"removing", "renaming"} => tmp = mem[p]
    /\ doing[p] = "renaming" => path = Absent

ConfigInv ==
  ConfigTypeOK /\ MemoryOK /\ TmpWhole /\ NeverTorn /\ AloneIsAlone /\ AloneFiles

\* Names of groups of states and of variables, open in every step below.
USE DEF Saving, Creating, Reading, Initialized, locals, Fault, NoFault,
        TmpHeld, PathHeld

-----------------------------------------------------------------------------
(* The data                                                                *)

\* The built-in settings are a document, and no document is taken for a file
\* that is missing or half written.
LEMMA Documents ==
  /\ Defaults \in Document
  /\ Absent \notin Document
  /\ Torn \notin Document
  /\ Absent # Torn
<1>1. Defaults \in Document
  BY ConfigAssumption DEF Defaults, Document, CpuLimit
<1>2. \A d \in Document : DOMAIN d = {"network", "enabled", "backend", "limit"}
  BY DEF Document
<1>3. DOMAIN Absent = {"missing"} /\ DOMAIN Torn = {"missing"}
  BY DEF Absent, Torn
<1>4. Absent # Torn
  <2>1. Absent.missing # Torn.missing
    BY DEF Absent, Torn
  <2> QED BY <2>1
<1>5. "missing" \notin {"network", "enabled", "backend", "limit"}
  OBVIOUS
<1> QED BY <1>1, <1>2, <1>3, <1>4, <1>5

\* Each setter makes a document of a document.
LEMMA Setters ==
  ASSUME NEW d \in Document
  PROVE  /\ \A on \in BOOLEAN : [d EXCEPT !.enabled = on] \in Document
         /\ \A backend \in Backend : [d EXCEPT !.backend = backend] \in Document
         /\ \A limit \in CpuLimit : [d EXCEPT !.limit = limit] \in Document
BY DEF Document
-----------------------------------------------------------------------------
(* The invariant, action by action                                         *)

LEMMA ProbeStep ==
  ASSUME NEW p \in Process, ConfigInv, Probe(p)
  PROVE  ConfigInv'
<1> USE DEF Probe
<1>1. ConfigTypeOK'
  BY Documents, ConfigAssumption
    DEF ConfigInv, ConfigTypeOK, MemoryOK, File, Memory, Cleared, Step
<1>2. MemoryOK'
  BY Documents DEF ConfigInv, ConfigTypeOK, MemoryOK
<1>3. TmpWhole'
  BY Documents, ConfigAssumption DEF ConfigInv, ConfigTypeOK, MemoryOK, TmpWhole
<1>4. NeverTorn'
  BY Documents, ConfigAssumption DEF ConfigInv, ConfigTypeOK, TmpWhole, NeverTorn
<1>5. AloneIsAlone'
  BY DEF ConfigInv, ConfigTypeOK, AloneIsAlone
<1>6. AloneFiles'
  BY DEF ConfigInv, ConfigTypeOK, AloneIsAlone, AloneFiles
<1> QED BY <1>1, <1>2, <1>3, <1>4, <1>5, <1>6 DEF ConfigInv

LEMMA CreateDefaultsStep ==
  ASSUME NEW p \in Process, ConfigInv, CreateDefaults(p)
  PROVE  ConfigInv'
<1> USE DEF CreateDefaults, GoDown, Return
<1>1. ConfigTypeOK'
  <2> USE DEF ConfigInv, ConfigTypeOK, MemoryOK
  <2>1. path' \in File /\ tmp' \in File
    BY Documents DEF File
  <2>2. doing' \in [Process -> Step]
    BY DEF Step
  <2>3. mem' \in [Process -> Memory]
    BY DEF Memory, Cleared
  <2>4. previous' \in [Process -> Memory]
    BY DEF Memory, Cleared
  <2>5. faults' \in 0..MaxFaults
    BY ConfigAssumption
  <2>6. alone' \subseteq Process /\ found' \in [Process -> File]
    BY DEF File
  <2> QED BY <2>1, <2>2, <2>3, <2>4, <2>5, <2>6
<1>2. MemoryOK'
  BY Documents DEF ConfigInv, ConfigTypeOK, MemoryOK
<1>3. TmpWhole'
  BY Documents, ConfigAssumption DEF ConfigInv, ConfigTypeOK, MemoryOK, TmpWhole
<1>4. NeverTorn'
  BY Documents, ConfigAssumption DEF ConfigInv, ConfigTypeOK, TmpWhole, NeverTorn
<1>5. AloneIsAlone'
  BY DEF ConfigInv, ConfigTypeOK, AloneIsAlone
<1>6. AloneFiles'
  BY DEF ConfigInv, ConfigTypeOK, AloneIsAlone, AloneFiles
<1> QED BY <1>1, <1>2, <1>3, <1>4, <1>5, <1>6 DEF ConfigInv

LEMMA DefaultsWrittenStep ==
  ASSUME NEW p \in Process, ConfigInv, DefaultsWritten(p)
  PROVE  ConfigInv'
<1> USE DEF DefaultsWritten, GoDown, Return
<1>1. ConfigTypeOK'
  <2> USE DEF ConfigInv, ConfigTypeOK, MemoryOK
  <2>1. path' \in File /\ tmp' \in File
    BY Documents DEF File
  <2>2. doing' \in [Process -> Step]
    BY DEF Step
  <2>3. mem' \in [Process -> Memory]
    BY DEF Memory, Cleared
  <2>4. previous' \in [Process -> Memory]
    BY DEF Memory, Cleared
  <2>5. faults' \in 0..MaxFaults
    BY ConfigAssumption
  <2>6. alone' \subseteq Process /\ found' \in [Process -> File]
    BY DEF File
  <2> QED BY <2>1, <2>2, <2>3, <2>4, <2>5, <2>6
<1>2. MemoryOK'
  BY Documents DEF ConfigInv, ConfigTypeOK, MemoryOK
<1>3. TmpWhole'
  BY Documents, ConfigAssumption DEF ConfigInv, ConfigTypeOK, MemoryOK, TmpWhole
<1>4. NeverTorn'
  BY Documents, ConfigAssumption DEF ConfigInv, ConfigTypeOK, TmpWhole, NeverTorn
<1>5. AloneIsAlone'
  BY DEF ConfigInv, ConfigTypeOK, AloneIsAlone
<1>6. AloneFiles'
  BY DEF ConfigInv, ConfigTypeOK, AloneIsAlone, AloneFiles
<1> QED BY <1>1, <1>2, <1>3, <1>4, <1>5, <1>6 DEF ConfigInv

LEMMA OpenToLoadStep ==
  ASSUME NEW p \in Process, ConfigInv, OpenToLoad(p)
  PROVE  ConfigInv'
<1> USE DEF OpenToLoad, GoDown, Return
<1>1. ConfigTypeOK'
  BY Documents, ConfigAssumption
    DEF ConfigInv, ConfigTypeOK, MemoryOK, File, Memory, Cleared, Step
<1>2. MemoryOK'
  BY Documents DEF ConfigInv, ConfigTypeOK, MemoryOK
<1>3. TmpWhole'
  BY Documents, ConfigAssumption DEF ConfigInv, ConfigTypeOK, MemoryOK, TmpWhole
<1>4. NeverTorn'
  BY Documents, ConfigAssumption DEF ConfigInv, ConfigTypeOK, TmpWhole, NeverTorn
<1>5. AloneIsAlone'
  BY DEF ConfigInv, ConfigTypeOK, AloneIsAlone
<1>6. AloneFiles'
  BY DEF ConfigInv, ConfigTypeOK, AloneIsAlone, AloneFiles
<1> QED BY <1>1, <1>2, <1>3, <1>4, <1>5, <1>6 DEF ConfigInv

LEMMA LoadStep ==
  ASSUME NEW p \in Process, ConfigInv, Load(p)
  PROVE  ConfigInv'
<1> USE DEF Load, GoDown, Return
<1>1. ConfigTypeOK'
  <2> USE DEF ConfigInv, ConfigTypeOK, MemoryOK
  <2>1. path' \in File /\ tmp' \in File
    BY Documents DEF File
  <2>2. doing' \in [Process -> Step]
    BY DEF Step
  <2>3. mem' \in [Process -> Memory]
    BY DEF Memory, Cleared
  <2>4. previous' \in [Process -> Memory]
    BY DEF Memory, Cleared
  <2>5. faults' \in 0..MaxFaults
    BY ConfigAssumption
  <2>6. alone' \subseteq Process /\ found' \in [Process -> File]
    BY DEF File
  <2> QED BY <2>1, <2>2, <2>3, <2>4, <2>5, <2>6
<1>2. MemoryOK'
  BY Documents DEF ConfigInv, ConfigTypeOK, MemoryOK
<1>3. TmpWhole'
  BY Documents, ConfigAssumption DEF ConfigInv, ConfigTypeOK, MemoryOK, TmpWhole
<1>4. NeverTorn'
  BY Documents, ConfigAssumption DEF ConfigInv, ConfigTypeOK, TmpWhole, NeverTorn
<1>5. AloneIsAlone'
  BY DEF ConfigInv, ConfigTypeOK, AloneIsAlone
<1>6. AloneFiles'
  BY DEF ConfigInv, ConfigTypeOK, AloneIsAlone, AloneFiles
<1> QED BY <1>1, <1>2, <1>3, <1>4, <1>5, <1>6 DEF ConfigInv

LEMMA OpenToReloadStep ==
  ASSUME NEW p \in Process, ConfigInv, OpenToReload(p)
  PROVE  ConfigInv'
<1> USE DEF OpenToReload
<1>1. ConfigTypeOK'
  BY Documents, ConfigAssumption
    DEF ConfigInv, ConfigTypeOK, MemoryOK, File, Memory, Cleared, Step
<1>2. MemoryOK'
  BY Documents DEF ConfigInv, ConfigTypeOK, MemoryOK
<1>3. TmpWhole'
  BY Documents, ConfigAssumption DEF ConfigInv, ConfigTypeOK, MemoryOK, TmpWhole
<1>4. NeverTorn'
  BY Documents, ConfigAssumption DEF ConfigInv, ConfigTypeOK, TmpWhole, NeverTorn
<1>5. AloneIsAlone'
  BY DEF ConfigInv, ConfigTypeOK, AloneIsAlone
<1>6. AloneFiles'
  BY DEF ConfigInv, ConfigTypeOK, AloneIsAlone, AloneFiles
<1> QED BY <1>1, <1>2, <1>3, <1>4, <1>5, <1>6 DEF ConfigInv

LEMMA ReloadStep ==
  ASSUME NEW p \in Process, ConfigInv, Reload(p)
  PROVE  ConfigInv'
<1> USE DEF Reload, Return
<1>1. ConfigTypeOK'
  BY Documents, ConfigAssumption
    DEF ConfigInv, ConfigTypeOK, MemoryOK, File, Memory, Cleared, Step
<1>2. MemoryOK'
  BY Documents DEF ConfigInv, ConfigTypeOK, MemoryOK
<1>3. TmpWhole'
  BY Documents, ConfigAssumption DEF ConfigInv, ConfigTypeOK, MemoryOK, TmpWhole
<1>4. NeverTorn'
  BY Documents, ConfigAssumption DEF ConfigInv, ConfigTypeOK, TmpWhole, NeverTorn
<1>5. AloneIsAlone'
  BY DEF ConfigInv, ConfigTypeOK, AloneIsAlone
<1>6. AloneFiles'
  BY DEF ConfigInv, ConfigTypeOK, AloneIsAlone, AloneFiles
<1> QED BY <1>1, <1>2, <1>3, <1>4, <1>5, <1>6 DEF ConfigInv

LEMMA BeginSaveStep ==
  ASSUME NEW p \in Process, NEW d \in Document, ConfigInv, BeginSave(p, d)
  PROVE  ConfigInv'
<1> USE DEF BeginSave, Writers
<1>1. ConfigTypeOK'
  <2> USE DEF ConfigInv, ConfigTypeOK, MemoryOK
  <2>1. path' \in File /\ tmp' \in File
    BY Documents DEF File
  <2>2. doing' \in [Process -> Step]
    BY DEF Step
  <2>3. mem' \in [Process -> Memory]
    BY DEF Memory, Cleared
  <2>4. previous' \in [Process -> Memory]
    BY DEF Memory, Cleared
  <2>5. faults' \in 0..MaxFaults
    BY ConfigAssumption
  <2>6. alone' \subseteq Process /\ found' \in [Process -> File]
    BY DEF File
  <2> QED BY <2>1, <2>2, <2>3, <2>4, <2>5, <2>6
<1>2. MemoryOK'
  BY Documents DEF ConfigInv, ConfigTypeOK, MemoryOK
<1>3. TmpWhole'
  BY Documents, ConfigAssumption DEF ConfigInv, ConfigTypeOK, MemoryOK, TmpWhole
<1>4. NeverTorn'
  BY Documents, ConfigAssumption DEF ConfigInv, ConfigTypeOK, TmpWhole, NeverTorn
<1>5. AloneIsAlone'
  BY DEF ConfigInv, ConfigTypeOK, AloneIsAlone
<1>6. AloneFiles'
  BY DEF ConfigInv, ConfigTypeOK, AloneIsAlone, AloneFiles
<1> QED BY <1>1, <1>2, <1>3, <1>4, <1>5, <1>6 DEF ConfigInv

LEMMA CloseTmpStep ==
  ASSUME NEW p \in Process, ConfigInv, CloseTmp(p)
  PROVE  ConfigInv'
<1> USE DEF CloseTmp, Abandon, Return
<1>1. ConfigTypeOK'
  <2> USE DEF ConfigInv, ConfigTypeOK, MemoryOK
  <2>1. path' \in File /\ tmp' \in File
    BY Documents DEF File
  <2>2. doing' \in [Process -> Step]
    BY DEF Step
  <2>3. mem' \in [Process -> Memory]
    BY DEF Memory, Cleared
  <2>4. previous' \in [Process -> Memory]
    BY DEF Memory, Cleared
  <2>5. faults' \in 0..MaxFaults
    BY ConfigAssumption
  <2>6. alone' \subseteq Process /\ found' \in [Process -> File]
    BY DEF File
  <2> QED BY <2>1, <2>2, <2>3, <2>4, <2>5, <2>6
<1>2. MemoryOK'
  BY Documents DEF ConfigInv, ConfigTypeOK, MemoryOK
<1>3. TmpWhole'
  BY Documents, ConfigAssumption DEF ConfigInv, ConfigTypeOK, MemoryOK, TmpWhole
<1>4. NeverTorn'
  BY Documents, ConfigAssumption DEF ConfigInv, ConfigTypeOK, TmpWhole, NeverTorn
<1>5. AloneIsAlone'
  BY DEF ConfigInv, ConfigTypeOK, AloneIsAlone
<1>6. AloneFiles'
  BY DEF ConfigInv, ConfigTypeOK, AloneIsAlone, AloneFiles
<1> QED BY <1>1, <1>2, <1>3, <1>4, <1>5, <1>6 DEF ConfigInv

LEMMA RemoveOldStep ==
  ASSUME NEW p \in Process, ConfigInv, RemoveOld(p)
  PROVE  ConfigInv'
<1> USE DEF RemoveOld, Abandon, Return
<1>1. ConfigTypeOK'
  <2> USE DEF ConfigInv, ConfigTypeOK, MemoryOK
  <2>1. path' \in File /\ tmp' \in File
    BY Documents DEF File
  <2>2. doing' \in [Process -> Step]
    BY DEF Step
  <2>3. mem' \in [Process -> Memory]
    BY DEF Memory, Cleared
  <2>4. previous' \in [Process -> Memory]
    BY DEF Memory, Cleared
  <2>5. faults' \in 0..MaxFaults
    BY ConfigAssumption
  <2>6. alone' \subseteq Process /\ found' \in [Process -> File]
    BY DEF File
  <2> QED BY <2>1, <2>2, <2>3, <2>4, <2>5, <2>6
<1>2. MemoryOK'
  BY Documents DEF ConfigInv, ConfigTypeOK, MemoryOK
<1>3. TmpWhole'
  BY Documents, ConfigAssumption DEF ConfigInv, ConfigTypeOK, MemoryOK, TmpWhole
<1>4. NeverTorn'
  BY Documents, ConfigAssumption DEF ConfigInv, ConfigTypeOK, TmpWhole, NeverTorn
<1>5. AloneIsAlone'
  BY DEF ConfigInv, ConfigTypeOK, AloneIsAlone
<1>6. AloneFiles'
  BY DEF ConfigInv, ConfigTypeOK, AloneIsAlone, AloneFiles
<1> QED BY <1>1, <1>2, <1>3, <1>4, <1>5, <1>6 DEF ConfigInv

LEMMA RenameStep ==
  ASSUME NEW p \in Process, ConfigInv, Rename(p)
  PROVE  ConfigInv'
<1> USE DEF Rename, CanRename, Abandon, Return
<1>1. ConfigTypeOK'
  <2> USE DEF ConfigInv, ConfigTypeOK, MemoryOK
  <2>1. path' \in File /\ tmp' \in File
    BY Documents DEF File
  <2>2. doing' \in [Process -> Step]
    BY DEF Step
  <2>3. mem' \in [Process -> Memory]
    BY DEF Memory, Cleared
  <2>4. previous' \in [Process -> Memory]
    BY DEF Memory, Cleared
  <2>5. faults' \in 0..MaxFaults
    BY ConfigAssumption
  <2>6. alone' \subseteq Process /\ found' \in [Process -> File]
    BY DEF File
  <2> QED BY <2>1, <2>2, <2>3, <2>4, <2>5, <2>6
<1>2. MemoryOK'
  BY Documents DEF ConfigInv, ConfigTypeOK, MemoryOK
<1>3. TmpWhole'
  BY Documents, ConfigAssumption DEF ConfigInv, ConfigTypeOK, MemoryOK, TmpWhole
<1>4. NeverTorn'
  BY Documents, ConfigAssumption DEF ConfigInv, ConfigTypeOK, TmpWhole, NeverTorn
<1>5. AloneIsAlone'
  BY DEF ConfigInv, ConfigTypeOK, AloneIsAlone
<1>6. AloneFiles'
  BY DEF ConfigInv, ConfigTypeOK, AloneIsAlone, AloneFiles
<1> QED BY <1>1, <1>2, <1>3, <1>4, <1>5, <1>6 DEF ConfigInv

LEMMA StopStep ==
  ASSUME NEW p \in Process, ConfigInv, Stop(p)
  PROVE  ConfigInv'
<1> USE DEF Stop, GoDown, Return
<1>1. ConfigTypeOK'
  BY Documents, ConfigAssumption
    DEF ConfigInv, ConfigTypeOK, MemoryOK, File, Memory, Cleared, Step
<1>2. MemoryOK'
  BY Documents DEF ConfigInv, ConfigTypeOK, MemoryOK
<1>3. TmpWhole'
  BY Documents, ConfigAssumption DEF ConfigInv, ConfigTypeOK, MemoryOK, TmpWhole
<1>4. NeverTorn'
  BY Documents, ConfigAssumption DEF ConfigInv, ConfigTypeOK, TmpWhole, NeverTorn
<1>5. AloneIsAlone'
  BY DEF ConfigInv, ConfigTypeOK, AloneIsAlone
<1>6. AloneFiles'
  BY DEF ConfigInv, ConfigTypeOK, AloneIsAlone, AloneFiles
<1> QED BY <1>1, <1>2, <1>3, <1>4, <1>5, <1>6 DEF ConfigInv

LEMMA CrashStep ==
  ASSUME NEW p \in Process, ConfigInv, Crash(p)
  PROVE  ConfigInv'
<1> USE DEF Crash, GoDown, Return
<1>1. ConfigTypeOK'
  BY Documents, ConfigAssumption
    DEF ConfigInv, ConfigTypeOK, MemoryOK, File, Memory, Cleared, Step
<1>2. MemoryOK'
  BY Documents DEF ConfigInv, ConfigTypeOK, MemoryOK
<1>3. TmpWhole'
  BY Documents, ConfigAssumption DEF ConfigInv, ConfigTypeOK, MemoryOK, TmpWhole
<1>4. NeverTorn'
  BY Documents, ConfigAssumption DEF ConfigInv, ConfigTypeOK, TmpWhole, NeverTorn
<1>5. AloneIsAlone'
  BY DEF ConfigInv, ConfigTypeOK, AloneIsAlone
<1>6. AloneFiles'
  BY DEF ConfigInv, ConfigTypeOK, AloneIsAlone, AloneFiles
<1> QED BY <1>1, <1>2, <1>3, <1>4, <1>5, <1>6 DEF ConfigInv

-----------------------------------------------------------------------------
(* The invariant, and the properties                                       *)

LEMMA ConfigInitial == ConfigInit => ConfigInv
<1> SUFFICES ASSUME ConfigInit PROVE ConfigInv
  OBVIOUS
<1> USE DEF ConfigInit
<1>1. ConfigTypeOK
  BY ConfigAssumption DEF ConfigTypeOK, File, Memory, Cleared, Step
<1>2. MemoryOK /\ AloneIsAlone /\ AloneFiles
  BY DEF MemoryOK, AloneIsAlone, AloneFiles
<1>3. TmpWhole /\ NeverTorn
  BY Documents, ConfigAssumption DEF TmpWhole, NeverTorn
<1> QED BY <1>1, <1>2, <1>3 DEF ConfigInv

\* A setter is a save of the document it makes.
LEMMA SetterStep ==
  ASSUME NEW p \in Process, ConfigInv,
         SetMiningEnabled(p) \/ SetMiningBackend(p) \/ SetMiningCpuLimit(p)
  PROVE  \E d \in Document : BeginSave(p, d)
<1>1. mem[p] \in Document
  BY DEF ConfigInv, MemoryOK, SetMiningEnabled, SetMiningBackend, SetMiningCpuLimit,
         BeginSave
<1>2. CASE SetMiningEnabled(p)
  <2>1. PICK on \in BOOLEAN : BeginSave(p, [mem[p] EXCEPT !.enabled = on])
    BY <1>2 DEF SetMiningEnabled
  <2> QED BY <1>1, <2>1, Setters
<1>3. CASE SetMiningBackend(p)
  <2>1. PICK backend \in Backend : BeginSave(p, [mem[p] EXCEPT !.backend = backend])
    BY <1>3 DEF SetMiningBackend
  <2> QED BY <1>1, <2>1, Setters
<1>4. CASE SetMiningCpuLimit(p)
  <2>1. PICK limit \in CpuLimit : BeginSave(p, [mem[p] EXCEPT !.limit = limit])
    BY <1>4 DEF SetMiningCpuLimit
  <2> QED BY <1>1, <2>1, Setters
<1> QED BY <1>2, <1>3, <1>4

LEMMA ConfigSteps == ConfigInv /\ [ConfigNext]_configVars => ConfigInv'
<1> SUFFICES ASSUME ConfigInv, [ConfigNext]_configVars PROVE ConfigInv'
  OBVIOUS
<1>1. CASE UNCHANGED configVars
  BY <1>1 DEF configVars, ConfigInv, ConfigTypeOK, MemoryOK, TmpWhole, NeverTorn, AloneIsAlone,
              AloneFiles
<1>2. CASE ConfigNext
  <2>1. PICK p \in Process :
          \/ Probe(p) \/ CreateDefaults(p) \/ DefaultsWritten(p)
          \/ OpenToLoad(p) \/ Load(p) \/ OpenToReload(p) \/ Reload(p)
          \/ SetMiningEnabled(p) \/ SetMiningBackend(p) \/ SetMiningCpuLimit(p)
          \/ CloseTmp(p) \/ RemoveOld(p) \/ Rename(p) \/ Stop(p) \/ Crash(p)
    BY <1>2 DEF ConfigNext
  <2>2. CASE SetMiningEnabled(p) \/ SetMiningBackend(p) \/ SetMiningCpuLimit(p)
    BY <2>2, SetterStep, BeginSaveStep
  <2>3. CASE Probe(p) \/ CreateDefaults(p) \/ DefaultsWritten(p)
    BY <2>3, ProbeStep, CreateDefaultsStep, DefaultsWrittenStep
  <2>4. CASE OpenToLoad(p) \/ Load(p) \/ OpenToReload(p) \/ Reload(p)
    BY <2>4, OpenToLoadStep, LoadStep, OpenToReloadStep, ReloadStep
  <2>5. CASE CloseTmp(p) \/ RemoveOld(p) \/ Rename(p)
    BY <2>5, CloseTmpStep, RemoveOldStep, RenameStep
  <2>6. CASE Stop(p) \/ Crash(p)
    BY <2>6, StopStep, CrashStep
  <2> QED BY <2>1, <2>2, <2>3, <2>4, <2>5, <2>6
<1> QED BY <1>1, <1>2

LEMMA ConfigInvariance == ConfigSpec => []ConfigInv
BY ConfigInitial, ConfigSteps, PTL DEF ConfigSpec

\* Every variable keeps its type: no process ever holds or stores settings
\* that are not a document.
THEOREM ConfigTypeCorrect == ConfigSpec => []ConfigTypeOK
<1>1. ConfigInv => ConfigTypeOK
  BY DEF ConfigInv
<1> QED BY <1>1, ConfigInvariance, PTL

\* However many processes save at once on the one temporary file, config.json
\* is never half a document without a crash or a refused call, but while a
\* first one is written.
THEOREM ConfigurationNeverTorn == ConfigSpec => []NeverTorn
<1>1. ConfigInv => NeverTorn
  BY DEF ConfigInv
<1> QED BY <1>1, ConfigInvariance, PTL

\* Only the save's own last steps end it: no other process moves p.
LEMMA EndOfSave ==
  ASSUME ConfigInv, [ConfigNext]_configVars, NEW p \in Process,
         doing[p] \in Saving, doing'[p] = "ready"
  PROVE  CloseTmp(p) \/ RemoveOld(p) \/ Rename(p)
<1>1. doing \in [Process -> Step] /\ doing' # doing
  BY DEF ConfigInv, ConfigTypeOK
<1>2. ConfigNext
  BY <1>1 DEF configVars
<1>3. PICK q \in Process :
        \/ Probe(q) \/ CreateDefaults(q) \/ DefaultsWritten(q)
        \/ OpenToLoad(q) \/ Load(q) \/ OpenToReload(q) \/ Reload(q)
        \/ SetMiningEnabled(q) \/ SetMiningBackend(q) \/ SetMiningCpuLimit(q)
        \/ CloseTmp(q) \/ RemoveOld(q) \/ Rename(q) \/ Stop(q) \/ Crash(q)
  BY <1>2 DEF ConfigNext
<1>4. CASE SetMiningEnabled(q) \/ SetMiningBackend(q) \/ SetMiningCpuLimit(q)
  <2>1. PICK d \in Document : BeginSave(q, d)
    BY <1>4, SetterStep
  <2> QED BY <1>1, <2>1 DEF BeginSave
<1>5. CASE Probe(q) \/ CreateDefaults(q) \/ DefaultsWritten(q)
  BY <1>1, <1>5 DEF Probe, CreateDefaults, DefaultsWritten, GoDown
<1>6. CASE OpenToLoad(q) \/ Load(q) \/ OpenToReload(q) \/ Reload(q)
  BY <1>1, <1>6 DEF OpenToLoad, Load, OpenToReload, Reload, GoDown
<1>7. CASE Stop(q) \/ Crash(q)
  BY <1>1, <1>7 DEF Stop, Crash, GoDown
<1>8. CASE CloseTmp(q) \/ RemoveOld(q) \/ Rename(q)
  <2>1. doing' = [doing EXCEPT ![q] = doing'[q]]
    BY <1>1, <1>8 DEF CloseTmp, RemoveOld, Rename, Abandon
  <2> QED BY <1>1, <1>8, <2>1
<1> QED BY <1>3, <1>4, <1>5, <1>6, <1>7, <1>8

\* A successful save that nobody overlapped is in config.json.
THEOREM SavedIsStored == ConfigSpec => SavedMeansStored
<1>1. ASSUME ConfigInv, [ConfigNext]_configVars, NEW p \in Process, Saved(p), p \in alone
      PROVE  path' = mem[p]
  <2>1. doing[p] = "renaming" /\ path = Absent /\ tmp = mem[p]
    BY <1>1 DEF ConfigInv, AloneFiles, Saved
  <2>2. Rename(p)
    BY <1>1, <2>1, EndOfSave DEF Saved, CloseTmp, RemoveOld
  <2> QED BY <1>1, <2>1, <2>2 DEF Rename, Saved
<1>2. ConfigInv /\ [ConfigNext]_configVars =>
        [\A p \in Process : Saved(p) /\ p \in alone => path' = mem[p]]_configVars
  BY <1>1
<1> QED BY <1>2, ConfigInvariance, PTL DEF ConfigSpec, SavedMeansStored

\* A save that nobody overlapped and that no call was refused leaves
\* config.json as it found it when it fails, and restores the option.
THEOREM FailureIsHarmless == ConfigSpec => FailureChangesNothing
<1>1. ASSUME ConfigInv, [ConfigNext]_configVars, NEW p \in Process, SaveFailed(p), p \in alone
      PROVE  path' = found[p] /\ mem'[p] = previous[p]
  <2>1. /\ doing[p] \in Saving /\ doing'[p] = "ready" /\ NoFault /\ ~Saved(p)
        /\ doing \in [Process -> Step] /\ mem \in [Process -> Memory]
        /\ faults \in Nat
    BY <1>1, ConfigAssumption DEF ConfigInv, ConfigTypeOK, SaveFailed
  <2>2. CASE CloseTmp(p)
    BY <2>1, <2>2 DEF CloseTmp
  <2>3. CASE RemoveOld(p)
    <3>1. path = found[p] /\ path' = path
      BY <1>1, <2>1, <2>3 DEF ConfigInv, AloneFiles, RemoveOld
    <3> QED BY <2>1, <2>3, <3>1 DEF RemoveOld, Abandon
  <2>4. CASE Rename(p)
    <3>1. path = Absent /\ tmp = mem[p] /\ mem[p] \in Document /\ ~TmpHeld
      BY <1>1, <2>4 DEF ConfigInv, AloneFiles, AloneIsAlone, MemoryOK, Rename
    <3>2. CanRename
      BY <3>1, Documents DEF CanRename
    <3>3. path' = tmp
      BY <2>1, <2>4, <3>2 DEF Rename
    <3> QED BY <2>1, <2>4, <3>1, <3>3, Documents DEF Saved, Rename
  <2> QED BY <1>1, <2>1, <2>2, <2>3, <2>4, EndOfSave
<1>2. ConfigInv /\ [ConfigNext]_configVars =>
        [\A p \in Process : SaveFailed(p) /\ p \in alone =>
           path' = found[p] /\ mem'[p] = previous[p]]_configVars
  BY <1>1
<1> QED BY <1>2, ConfigInvariance, PTL DEF ConfigSpec, FailureChangesNothing

HIDE DEF Saving, Creating, Reading, Initialized, locals, Fault, NoFault,
         TmpHeld, PathHeld

-----------------------------------------------------------------------------
(* Command                                                                 *)

USE DEF chain, line, stored, watch, mining

Searched == {"recheck", "submit work", "work answer"}
BeforeSearch == {"miner", "identity", "template", "match", "base", "search"}
Waiting == {"work answer", "transaction answer"}

\* Keys and buffers are only held between the step that took them and the
\* one that clears them.
HeldWhere ==
  /\ "key" \in held =>
       pc \in {"wallet read", "identity", "sign transfer", "submit transaction",
              "transaction answer", "balance"}
  /\ "payload" \in held =>
       pc \in {"printing", "match", "base", "search", "recheck", "submit work", "work answer"}
  /\ "contract" \in held \/ "transaction" \in held =>
       pc \in {"sign contract", "submit transaction", "transaction answer", "balance"}

\* Which operation takes which steps.
OpWhere ==
  /\ pc \in BeforeSearch \cup Searched => op \in Mining
  /\ pc \in {"submit work", "work answer"} => op = "mining mine-once"
  /\ pc = "sign transfer" => op \in Transfers
  /\ pc = "sign contract" => op = "create contract"
  /\ pc \in {"submit transaction", "transaction answer"} =>
       op \in Transfers \cup {"create contract"}
  /\ pc = "balance" => op \in Transfers
  /\ pc = "wallet read" => op \in WalletReads
  /\ pc = "check base" => op = "mining check"
  /\ pc = "printing" => op = "mining template"

\* A run sends one submission and has Chain's judgement only of that one, once
\* it is no longer pending; nothing is taken without having been sent.
SentOnce ==
  /\ \A j, k \in sent : j.run = run /\ k.run = run => j = k
  /\ \A j \in sent : j.run = run => j.op = op
JudgedOnce ==
  /\ verdict # "none" => ~Pending(run)
  /\ verdict = "taken" => IF op \in Mining THEN run \in mined ELSE run \in admitted
  /\ Taken(run) => verdict = "taken"

\* What has been sent and heard by which step.
SentWhere ==
  /\ pc # "exited" => run >= 1
  /\ SentOnce /\ JudgedOnce
  /\ pc \notin Waiting \cup {"balance", "exited"} => ~Pending(run) /\ verdict = "none"
  /\ heard \in {"none", verdict}
  /\ pc \notin {"balance", "exited"} => heard = "none"
  /\ pc = "balance" => heard = "taken"
  /\ included \subseteq admitted

\* The work a block is built on was current after its search unless Chain
\* has moved since, and every attempt of a finished search was made.
SearchedWhere ==
  /\ pc \in BeforeSearch => attempts >= 1
  /\ pc = "recheck" /\ Current => lasted
  /\ pc \in Searched => Tried

WalletWhere == pc = "wallet read" => Usable

\* What is in the files of the wallet, the identity and the draft.
Files == [{"wallet", "identity", "draft"} -> {"absent", "valid", "damaged"}]

-----------------------------------------------------------------------------
(* What the model is built from.                                           *)

\* A set of naturals with an element has a least one.
LEMMA LeastNatural ==
  ASSUME NEW S, S \subseteq Nat, S # {}
  PROVE  \E n \in S : \A k \in S : n <= k
<1> DEFINE R == OpToRel(<, Nat)
<1>1. \A i, j \in Nat : i < j => <<i, j>> \in R
  BY DEF OpToRel
<1>2. IsWellFoundedOn(R, Nat)
  BY NatLessThanWellFounded, Zenon
<1> HIDE DEF R
<1>3. PICK n \in S : \A k \in S : ~ (<<k, n>> \in R)
  BY <1>2, WFMin
<1>4. ASSUME NEW k \in S PROVE n <= k
  <2>1. k \in Nat /\ n \in Nat /\ <<k, n>> \notin R
    BY <1>3
  <2>2. ~(k < n)
    BY <1>1, <2>1
  <2>3. QED
    BY <2>1, <2>2
<1>5. QED
  BY <1>4

\* The bounded search tries its nonces in order and none behind the last:
\* what it returns, and that no nonce before a hit was left out.
LEMMA SearchCases ==
  ASSUME NEW first \in Nonce, NEW count \in Nonce, count >= 1,
         count - 1 <= MaxNonce - first
  PROVE  LET last == first + count - 1
             o == Search(first, count)
         IN  /\ last \in Nonce
             /\ \/ /\ o = [result |-> "exhausted", nonce |-> 0, block |-> last]
                   /\ \A n \in first..last : ~Solves(n)
                \/ \E least \in Nonce :
                     /\ o = [result |-> "found", nonce |-> least, block |-> least]
                     /\ \A n \in first..last : Solves(n) => least <= n
<1> DEFINE last == first + count - 1
           hits == {n \in first..last : Solves(n)}
           least == CHOOSE n \in hits : \A k \in hits : n <= k
<1>1. MaxNonce \in Nat /\ first \in Nat /\ count \in Nat
  BY CommandAssumption DEF Nonce
<1>2. last \in Nonce /\ Lesser(first + count - 1, MaxNonce) = last
  BY <1>1 DEF Nonce, Lesser
<1>3. hits \subseteq Nonce
  BY <1>1, <1>2 DEF Nonce
<1>4. CASE hits = {}
  <2>1. Search(first, count) = [result |-> "exhausted", nonce |-> 0, block |-> last]
    BY <1>2, <1>4 DEF Search
  <2>2. \A n \in first..last : ~Solves(n)
    BY <1>4
  <2>3. QED
    BY <1>2, <2>1, <2>2
<1>5. CASE hits # {}
  <2>1. Search(first, count) = [result |-> "found", nonce |-> least, block |-> least]
    BY <1>2, <1>5 DEF Search
  <2>2. least \in hits /\ \A k \in hits : least <= k
    <3>1. hits \subseteq Nat
      BY <1>3 DEF Nonce
    <3>2. \E n \in hits : \A k \in hits : n <= k
      BY <1>5, <3>1, LeastNatural
    <3>3. QED
      BY <3>2
  <2>3. least \in Nonce /\ \A n \in first..last : Solves(n) => least <= n
    BY <1>3, <2>2
  <2>4. QED
    BY <1>2, <2>1, <2>3
<1>6. QED
  BY <1>4, <1>5

LEMMA SearchTries ==
  ASSUME NEW first \in Nonce, NEW count \in Nonce, count >= 1,
         count - 1 <= MaxNonce - first
  PROVE  /\ first..(first + count - 1) \subseteq Nonce
         /\ \A n \in first..(first + count - 1) :
              Solves(n) => /\ Search(first, count).result = "found"
                           /\ Search(first, count).nonce <= n
<1>1. first \in Nat /\ first + count - 1 \in Nonce
  BY SearchCases DEF Nonce
<1>2. first..(first + count - 1) \subseteq Nonce
  BY <1>1, CommandAssumption DEF Nonce
<1>3. ASSUME NEW n \in first..(first + count - 1), Solves(n)
      PROVE  /\ Search(first, count).result = "found"
             /\ Search(first, count).nonce <= n
  BY <1>3, SearchCases
<1>4. QED
  BY <1>2, <1>3

LEMMA InRange ==
  ~BeyondRange /\ work.first \in Nonce /\ attempts \in Nonce =>
    attempts - 1 <= MaxNonce - work.first
BY CommandAssumption DEF BeyondRange, Nonce

LEMMA SearchTyped ==
  ASSUME NEW first \in Nonce, NEW count \in Nonce, count >= 1,
         count - 1 <= MaxNonce - first
  PROVE  Search(first, count) \in
           [result : {"none", "found", "exhausted"}, nonce : Nonce, block : Nonce]
<1>1. 0 \in Nonce
  BY CommandAssumption DEF Nonce
<1>2. QED
  BY <1>1, SearchCases

-----------------------------------------------------------------------------
(* Types.                                                                  *)

LEMMA InitTypes == Init => TypeOK
<1> SUFFICES ASSUME Init PROVE TypeOK
  OBVIOUS
<1>1. 0 \in Nonce /\ 0 \in 0..MaxRuns /\ 0 \in 0..MaxMoves
  BY CommandAssumption DEF Nonce
<1>2. NoWork \in [parent : Tip, target : Target, first : Nonce]
  BY <1>1 DEF NoWork, Init, Blocks
<1>3. NoResult \in [result : {"none", "found", "exhausted"}, nonce : Nonce, block : Nonce]
  BY <1>1 DEF NoResult
<1>4. next \in Blocks /\ mined = {} /\ admitted = {} /\ included = {} /\ held = {}
      /\ announced = {} /\ tracked = 0 /\ run = 0
      /\ sent = {} /\ verdict = "none" /\ heard = "none"
  BY DEF Init
<1>5. op \in Operations /\ pc \in Steps /\ linked \in BOOLEAN /\ lasted \in BOOLEAN
      /\ enabled \in BOOLEAN
  BY DEF Init, Operations, Reports, Steps
<1>6. /\ file \in [{"wallet", "identity", "draft"} -> {"absent", "valid", "damaged"}]
      /\ rc \in {0, 1} /\ moves \in 0..MaxMoves /\ attempts \in Nonce
      /\ work = NoWork /\ out = NoResult
  BY <1>1 DEF Init
<1>7. QED
  BY <1>1, <1>2, <1>3, <1>4, <1>5, <1>6 DEF TypeOK

\* The parts of the state, for the proof that a step keeps their types.
ProcessType ==
  /\ op \in Operations /\ pc \in Steps /\ linked \in BOOLEAN
  /\ held \subseteq Buffers \cup {"payload"} /\ rc \in {0, 1}
ChainType ==
  /\ run \in 0..MaxRuns /\ moves \in 0..MaxMoves
  /\ next \in Blocks
  /\ mined \subseteq 1..run /\ admitted \subseteq 1..run /\ included \subseteq 1..run
  /\ tracked \in 0..run /\ announced \subseteq 1..run
LineType ==
  /\ sent \subseteq [run : 1..run, op : Operations, block : Nonce,
                      work : [parent : Tip, target : Target, first : Nonce]]
  /\ verdict \in {"none", "taken", "refused"} /\ heard \in {"none", "taken", "refused"}
StoredType ==
  /\ file \in [{"wallet", "identity", "draft"} -> {"absent", "valid", "damaged"}]
  /\ enabled \in BOOLEAN
MiningType ==
  /\ attempts \in Nonce
  /\ work \in [parent : Tip, target : Target, first : Nonce]
  /\ out \in [result : {"none", "found", "exhausted"}, nonce : Nonce, block : Nonce]
  /\ lasted \in BOOLEAN

LEMMA TypeParts ==
  TypeOK <=> ProcessType /\ ChainType /\ LineType /\ StoredType /\ MiningType
BY Zenon DEF TypeOK, ProcessType, ChainType, LineType, StoredType, MiningType

\* Steps of an operation that neither send nor hear anything of a submission.
Within ==
  /\ UNCHANGED <<mined, admitted, included, line, run, op, watch>>
  /\ pc \notin Waiting \cup {"balance", "exited"} /\ pc' \notin Waiting \cup {"balance"}
  /\ pc' = "exited" => told' \notin {"admitted", "accepted", "rejected"}

\* Steps that send a submission, and steps beside the operation.
Sends ==
  /\ pc \in {"submit work", "submit transaction"} /\ pc' \in Waiting
  /\ sent' = sent \cup {Submission}
  /\ UNCHANGED <<mined, admitted, included, verdict, heard, run, op, watch>>
Aside ==
  /\ UNCHANGED <<mined, admitted, included, line, run, op, pc, told, announced>>
  /\ tracked' \in {tracked, 0}

LEMMA Kinds ==
  StoredType /\ MiningType /\ [Next]_vars =>
    \/ Within \/ Sends \/ Aside \/ Begin \/ ReadWorkAnswer \/ ReadTransactionAnswer
    \/ ReadBalance \/ Refresh \/ Judge \/ Include
<1> SUFFICES ASSUME StoredType, MiningType, [Next]_vars
             PROVE  \/ Within \/ Sends \/ Aside \/ Begin \/ ReadWorkAnswer
                    \/ ReadTransactionAnswer \/ ReadBalance \/ Refresh \/ Judge \/ Include
  OBVIOUS
<1>1. CASE Report
  BY <1>1 DEF Within, Waiting, Report, Leave, Started
<1>2. CASE Status
  BY <1>2 DEF Within, Waiting, Status, Leave, Started
<1>3. CASE Query
  BY <1>3 DEF Within, Waiting, Query, Leave, Started
<1>4. CASE Template
  BY <1>4 DEF Within, Waiting, Template, Go, Leave, Started
<1>5. CASE PrintTemplate
  BY <1>5 DEF Within, Waiting, PrintTemplate, Leave
<1>6. CASE ReadContext
  BY <1>6 DEF Within, Waiting, ReadContext, Go, Leave, Started
<1>7. CASE CheckBase
  BY <1>7 DEF Within, Waiting, CheckBase, Leave
<1>8. CASE Create
  BY <1>8 DEF Within, Waiting, Create, Leave, Started
<1>9. CASE FileStatus
  BY <1>9 DEF Within, Waiting, FileStatus, Leave, Started, Statuses, Subject, StoredType
<1>10. CASE ReadWallet
  BY <1>10 DEF Within, Waiting, ReadWallet, Go, Leave, Started
<1>11. CASE ShowWallet
  BY <1>11 DEF Within, Waiting, ShowWallet, Leave
<1>12. CASE EnableMining
  BY <1>12 DEF Within, Waiting, EnableMining, Leave, Started
<1>13. CASE Set
  BY <1>13 DEF Within, Waiting, Set, Leave, Started
<1>14. CASE ParseAttempts
  BY <1>14 DEF Within, Waiting, ParseAttempts, Go, Leave, Started
<1>15. CASE LoadMiner
  BY <1>15 DEF Within, Waiting, LoadMiner, Go, Leave
<1>16. CASE DeriveMiner
  BY <1>16 DEF Within, Waiting, DeriveMiner, Leave
<1>17. CASE FetchTemplate
  BY <1>17 DEF Within, Waiting, FetchTemplate, Go, Leave
<1>18. CASE MatchContext
  BY <1>18 DEF Within, Waiting, MatchContext, Go, Leave
<1>19. CASE CheckWork
  BY <1>19 DEF Within, Waiting, CheckWork, Go, Leave
<1>20. CASE Work
  BY <1>20 DEF Within, Waiting, Work, Go, Leave
<1>21. CASE Recheck
  BY <1>21 DEF Within, Waiting, Recheck, Go, Leave, MiningType
<1>22. CASE PrepareTransfer
  BY <1>22 DEF Within, Waiting, PrepareTransfer, Go, Leave, Started
<1>23. CASE SignTransfer
  BY <1>23 DEF Within, Waiting, SignTransfer, Go, Leave
<1>24. CASE PrepareContract
  BY <1>24 DEF Within, Waiting, PrepareContract, Go, Started
<1>25. CASE SignContract
  BY <1>25 DEF Within, Waiting, SignContract, Go, Leave
<1>26. CASE SubmitWork
  BY <1>26 DEF Within, Sends, Waiting, SubmitWork, Submit, Go, Leave
<1>27. CASE SubmitTransaction
  BY <1>27 DEF Within, Sends, Waiting, SubmitTransaction, Submit, Go, Leave, Lost, Unsubmitted
<1>28. CASE CloseWindow \/ NextBlockChanges \/ UNCHANGED vars
  BY <1>28 DEF Aside, CloseWindow, NextBlockChanges, vars
<1>29. QED
  BY <1>1, <1>2, <1>3, <1>4, <1>5, <1>6, <1>7, <1>8, <1>9, <1>10, <1>11, <1>12, <1>13,
     <1>14, <1>15, <1>16, <1>17, <1>18, <1>19, <1>20, <1>21, <1>22, <1>23, <1>24, <1>25,
     <1>26, <1>27, <1>28 DEF Next

LEMMA ProcessStep == ProcessType /\ [Next]_vars => ProcessType'
<1> SUFFICES ASSUME ProcessType, [Next]_vars PROVE ProcessType'
  OBVIOUS
<1> USE DEF ProcessType
  <1>1. CASE Begin
    BY <1>1 DEF Begin, Steps, Buffers
  <1>2. CASE Report
    BY <1>2 DEF Report, Leave, Started, Steps, Buffers
  <1>3. CASE Status
    BY <1>3 DEF Status, Leave, Started, Steps, Buffers
  <1>4. CASE Query
    BY <1>4 DEF Query, Leave, Started, Steps, Buffers
  <1>5. CASE Template
    BY <1>5 DEF Template, Go, Leave, Started, Steps, Buffers
  <1>6. CASE PrintTemplate
    BY <1>6 DEF PrintTemplate, Leave, Steps, Buffers
  <1>7. CASE ReadContext
    BY <1>7 DEF ReadContext, Go, Leave, Started, Steps, Buffers
  <1>8. CASE CheckBase
    BY <1>8 DEF CheckBase, Leave, Steps, Buffers
  <1>9. CASE Create
    BY <1>9 DEF Create, Leave, Started, Creations, Steps, Buffers
  <1>10. CASE FileStatus
    BY <1>10 DEF FileStatus, Leave, Started, Steps, Buffers
  <1>11. CASE ReadWallet
    BY <1>11 DEF ReadWallet, Go, Leave, Started, Steps, Buffers
  <1>12. CASE ShowWallet
    BY <1>12 DEF ShowWallet, Leave, Steps, Buffers
  <1>13. CASE EnableMining
    BY <1>13 DEF EnableMining, Leave, Started, Steps, Buffers
  <1>14. CASE Set
    BY <1>14 DEF Set, Leave, Started, Steps, Buffers
  <1>15. CASE ParseAttempts
    BY <1>15 DEF ParseAttempts, Go, Leave, Started, Steps, Buffers
  <1>16. CASE LoadMiner
    BY <1>16 DEF LoadMiner, Go, Leave, Steps, Buffers
  <1>17. CASE DeriveMiner
    BY <1>17 DEF DeriveMiner, Leave, Steps, Buffers
  <1>18. CASE FetchTemplate
    BY <1>18 DEF FetchTemplate, Go, Leave, Steps, Buffers
  <1>19. CASE MatchContext
    BY <1>19 DEF MatchContext, Go, Leave, Steps, Buffers
  <1>20. CASE CheckWork
    BY <1>20 DEF CheckWork, Go, Leave, Steps, Buffers
  <1>21. CASE Work
    BY <1>21 DEF Work, Go, Leave, Steps, Buffers
  <1>22. CASE Recheck
    BY <1>22 DEF Recheck, Go, Leave, Steps, Buffers
  <1>23. CASE SubmitWork
    BY <1>23 DEF SubmitWork, Submit, Go, Leave, Steps, Buffers
  <1>24. CASE ReadWorkAnswer
    BY <1>24 DEF ReadWorkAnswer, Hears, HearsNothing, Leave, Steps, Buffers
  <1>25. CASE PrepareTransfer
    BY <1>25 DEF PrepareTransfer, Go, Leave, Started, Steps, Buffers
  <1>26. CASE SignTransfer
    BY <1>26 DEF SignTransfer, Go, Leave, Steps, Buffers
  <1>27. CASE PrepareContract
    BY <1>27 DEF PrepareContract, Go, Started, Steps, Buffers
  <1>28. CASE SignContract
    BY <1>28 DEF SignContract, Go, Leave, Buffers, Steps, Buffers
  <1>29. CASE SubmitTransaction
    BY <1>29 DEF SubmitTransaction, Submit, Go, Leave, Lost, Unsubmitted, Buffers, Steps, Buffers
  <1>30. CASE ReadTransactionAnswer
    BY <1>30 DEF ReadTransactionAnswer, Hears, HearsNothing, Go, Leave, Follow, Rejected,
       Lost, Unsubmitted, Buffers, Steps, Buffers
  <1>31. CASE ReadBalance
    BY <1>31 DEF ReadBalance, Leave, Follow, Buffers, Steps, Buffers
  <1>32. CASE Refresh
    BY <1>32 DEF Refresh, Leave, Started, Steps, Buffers
  <1>33. CASE CloseWindow
    BY <1>33 DEF CloseWindow, Steps, Buffers
  <1>34. CASE Judge
    BY <1>34 DEF Judge, Takes, Lasts, Steps, Buffers
  <1>35. CASE NextBlockChanges
    BY <1>35 DEF NextBlockChanges, Lasts, Steps, Buffers
  <1>36. CASE Include
    BY <1>36 DEF Include, Steps, Buffers
  <1>37. CASE UNCHANGED vars
    BY <1>37 DEF vars, Steps, Buffers
  <1>38. QED
    BY <1>1, <1>2, <1>3, <1>4, <1>5, <1>6, <1>7, <1>8, <1>9, <1>10, <1>11, <1>12, <1>13,
       <1>14, <1>15, <1>16, <1>17, <1>18, <1>19, <1>20, <1>21, <1>22, <1>23, <1>24,
       <1>25, <1>26, <1>27, <1>28, <1>29, <1>30, <1>31, <1>32, <1>33, <1>34, <1>35,
       <1>36, <1>37 DEF Next

LEMMA ChainStep ==
  ChainType /\ LineType /\ (pc # "exited" => run >= 1) /\ [Next]_vars => ChainType'
<1> SUFFICES ASSUME ChainType, LineType, pc # "exited" => run >= 1, [Next]_vars
             PROVE  ChainType'
  OBVIOUS
<1>1. MaxRuns \in Nat /\ MaxMoves \in Nat
  BY CommandAssumption
<1> USE <1>1 DEF ChainType
  <1>2. CASE Begin
    <2>0. /\ run < MaxRuns /\ run' = run + 1
          /\ UNCHANGED <<next, mined, admitted, included, moves, watch>>
      BY <1>2 DEF Begin
    <2>1. /\ run \in Nat /\ run' = run + 1 /\ run' \in 0..MaxRuns
          /\ UNCHANGED <<next, mined, admitted, included, moves, watch>>
      BY <2>0
    <2>2. \A S : S \subseteq 1..run => S \subseteq 1..run'
      BY <2>1
    <2>3. tracked \in 0..run'
      BY <2>1
    <2>4. QED
      BY <2>1, <2>2, <2>3
  <1>3. CASE Report
    BY <1>3 DEF Report, Leave, Started
  <1>4. CASE Status
    BY <1>4 DEF Status, Leave, Started
  <1>5. CASE Query
    BY <1>5 DEF Query, Leave, Started
  <1>6. CASE Template
    BY <1>6 DEF Template, Go, Leave, Started
  <1>7. CASE PrintTemplate
    BY <1>7 DEF PrintTemplate, Leave
  <1>8. CASE ReadContext
    BY <1>8 DEF ReadContext, Go, Leave, Started
  <1>9. CASE CheckBase
    BY <1>9 DEF CheckBase, Leave
  <1>10. CASE Create
    BY <1>10 DEF Create, Leave, Started, Creations
  <1>11. CASE FileStatus
    BY <1>11 DEF FileStatus, Leave, Started
  <1>12. CASE ReadWallet
    BY <1>12 DEF ReadWallet, Go, Leave, Started
  <1>13. CASE ShowWallet
    BY <1>13 DEF ShowWallet, Leave
  <1>14. CASE EnableMining
    BY <1>14 DEF EnableMining, Leave, Started
  <1>15. CASE Set
    BY <1>15 DEF Set, Leave, Started
  <1>16. CASE ParseAttempts
    BY <1>16 DEF ParseAttempts, Go, Leave, Started
  <1>17. CASE LoadMiner
    BY <1>17 DEF LoadMiner, Go, Leave
  <1>18. CASE DeriveMiner
    BY <1>18 DEF DeriveMiner, Leave
  <1>19. CASE FetchTemplate
    BY <1>19 DEF FetchTemplate, Go, Leave
  <1>20. CASE MatchContext
    BY <1>20 DEF MatchContext, Go, Leave
  <1>21. CASE CheckWork
    BY <1>21 DEF CheckWork, Go, Leave
  <1>22. CASE Work
    BY <1>22 DEF Work, Go, Leave
  <1>23. CASE Recheck
    BY <1>23 DEF Recheck, Go, Leave
  <1>24. CASE SubmitWork
    BY <1>24 DEF SubmitWork, Submit, Go, Leave
  <1>25. CASE ReadWorkAnswer
    BY <1>25 DEF ReadWorkAnswer, Hears, HearsNothing, Leave
  <1>26. CASE PrepareTransfer
    BY <1>26 DEF PrepareTransfer, Go, Leave, Started
  <1>27. CASE SignTransfer
    BY <1>27 DEF SignTransfer, Go, Leave
  <1>28. CASE PrepareContract
    BY <1>28 DEF PrepareContract, Go, Started
  <1>29. CASE SignContract
    BY <1>29 DEF SignContract, Go, Leave, Buffers
  <1>30. CASE SubmitTransaction
    BY <1>30 DEF SubmitTransaction, Submit, Go, Leave, Lost
  <1>31. CASE ReadTransactionAnswer
    <2>1. /\ UNCHANGED <<run, next, mined, admitted, included, moves, announced>> /\ run >= 1
          /\ tracked' \in {tracked, run}
      BY <1>31 DEF ReadTransactionAnswer, Hears, HearsNothing, Go, Leave, Follow, Rejected,
         Lost
    <2>2. QED
      BY <2>1
  <1>32. CASE ReadBalance
    BY <1>32 DEF ReadBalance, Leave, Follow, Buffers
  <1>33. CASE Refresh
    <2>1. /\ UNCHANGED <<run, chain>> /\ tracked' \in {tracked, 0}
          /\ \/ announced' = announced
             \/ tracked \in included /\ announced' = announced \cup {tracked}
      BY <1>33 DEF Refresh, Leave
    <2>2. tracked' \in 0..run
      BY <2>1
    <2>3. announced' \subseteq 1..run
      BY <2>1
    <2>4. QED
      BY <2>1, <2>2, <2>3
  <1>34. CASE CloseWindow
    BY <1>34 DEF CloseWindow
  <1>35. CASE Judge
    <2>1. PICK j \in sent :
            /\ mined' \in {mined, mined \cup {j.run}}
            /\ admitted' \in {admitted, admitted \cup {j.run}}
            /\ \/ next' = next
               \/ \E t \in Tip : next' = [next EXCEPT !.parent = t]
      BY <1>35 DEF Judge, Takes
    <2>2. UNCHANGED <<run, included, moves, watch>>
      BY <1>35 DEF Judge
    <2>3. j.run \in 1..run
      BY DEF LineType
    <2>4. next' \in Blocks
      BY <2>1 DEF Blocks
    <2>5. QED
      BY <2>1, <2>2, <2>3, <2>4
  <1>36. CASE NextBlockChanges
    BY <1>36 DEF NextBlockChanges, Lasts, Blocks
  <1>37. CASE Include
    BY <1>37 DEF Include
  <1>38. CASE UNCHANGED vars
    BY <1>38 DEF vars
  <1>39. QED
    BY <1>2, <1>3, <1>4, <1>5, <1>6, <1>7, <1>8, <1>9, <1>10, <1>11, <1>12, <1>13,
       <1>14, <1>15, <1>16, <1>17, <1>18, <1>19, <1>20, <1>21, <1>22, <1>23, <1>24,
       <1>25, <1>26, <1>27, <1>28, <1>29, <1>30, <1>31, <1>32, <1>33, <1>34, <1>35,
       <1>36, <1>37, <1>38 DEF Next

LEMMA LineStep ==
  TypeOK /\ (pc # "exited" => run >= 1) /\ [Next]_vars => LineType'
<1> SUFFICES ASSUME LineType, ChainType, ProcessType, StoredType, MiningType,
                    pc # "exited" => run >= 1, [Next]_vars
             PROVE  LineType'
  BY TypeParts
<1>1. CASE UNCHANGED <<line, run>>
  BY <1>1 DEF LineType
<1>2. CASE Begin
  <2>1. run' = run + 1 /\ sent' = sent /\ verdict' = "none" /\ heard' = "none"
    BY <1>2 DEF Begin
  <2>2. 1..run \subseteq 1..run'
    BY <2>1 DEF ChainType
  <2>3. QED
    BY <2>1, <2>2 DEF LineType
<1>3. CASE Sends
  <2>1. /\ sent' = sent \cup {Submission} /\ UNCHANGED <<run, verdict, heard>>
        /\ pc # "exited"
    BY <1>3 DEF Sends
  <2>2. run \in 1..run
    BY <2>1 DEF ChainType
  <2>3. Submission \in [run : 1..run, op : Operations, block : Nonce,
                        work : [parent : Tip, target : Target, first : Nonce]]
    BY <2>2 DEF Submission, ProcessType, MiningType
  <2>4. QED
    BY <2>1, <2>3 DEF LineType
<1>4. CASE ReadWorkAnswer \/ ReadTransactionAnswer
  <2>1. UNCHANGED <<run, sent, verdict>> /\ heard' \in {heard, "taken", "refused"}
    BY <1>4 DEF ReadWorkAnswer, ReadTransactionAnswer, Hears, HearsNothing, Go, Leave,
       Rejected, Lost
  <2>2. QED
    BY <2>1 DEF LineType
<1>5. CASE Judge
  <2>1. /\ UNCHANGED <<run, heard>> /\ sent' \subseteq sent
        /\ verdict' \in {verdict, "taken", "refused"}
    BY <1>5 DEF Judge
  <2>2. QED
    BY <2>1 DEF LineType
<1>6. CASE Within \/ Aside \/ ReadBalance \/ Refresh \/ Include
  BY <1>1, <1>6 DEF Within, Aside, ReadBalance, Refresh, Include, Leave
<1>7. Within \/ Sends \/ Aside \/ Begin \/ ReadWorkAnswer
      \/ ReadTransactionAnswer \/ ReadBalance \/ Refresh \/ Judge \/ Include
  BY Kinds
<1>8. QED
  BY <1>2, <1>3, <1>4, <1>5, <1>6, <1>7

LEMMA StoredStep == StoredType /\ [Next]_vars => StoredType'
<1> SUFFICES ASSUME StoredType, [Next]_vars PROVE StoredType'
  OBVIOUS
<1> USE DEF StoredType
  <1>1. CASE Begin
    BY <1>1 DEF Begin
  <1>2. CASE Report
    BY <1>2 DEF Report, Leave, Started
  <1>3. CASE Status
    BY <1>3 DEF Status, Leave, Started
  <1>4. CASE Query
    BY <1>4 DEF Query, Leave, Started
  <1>5. CASE Template
    BY <1>5 DEF Template, Go, Leave, Started
  <1>6. CASE PrintTemplate
    BY <1>6 DEF PrintTemplate, Leave
  <1>7. CASE ReadContext
    BY <1>7 DEF ReadContext, Go, Leave, Started
  <1>8. CASE CheckBase
    BY <1>8 DEF CheckBase, Leave
  <1>9. CASE Create
    BY <1>9 DEF Create, Leave, Started, Creations
  <1>10. CASE FileStatus
    BY <1>10 DEF FileStatus, Leave, Started
  <1>11. CASE ReadWallet
    BY <1>11 DEF ReadWallet, Go, Leave, Started
  <1>12. CASE ShowWallet
    BY <1>12 DEF ShowWallet, Leave
  <1>13. CASE EnableMining
    BY <1>13 DEF EnableMining, Leave, Started
  <1>14. CASE Set
    BY <1>14 DEF Set, Leave, Started
  <1>15. CASE ParseAttempts
    BY <1>15 DEF ParseAttempts, Go, Leave, Started
  <1>16. CASE LoadMiner
    BY <1>16 DEF LoadMiner, Go, Leave
  <1>17. CASE DeriveMiner
    BY <1>17 DEF DeriveMiner, Leave
  <1>18. CASE FetchTemplate
    BY <1>18 DEF FetchTemplate, Go, Leave
  <1>19. CASE MatchContext
    BY <1>19 DEF MatchContext, Go, Leave
  <1>20. CASE CheckWork
    BY <1>20 DEF CheckWork, Go, Leave
  <1>21. CASE Work
    BY <1>21 DEF Work, Go, Leave
  <1>22. CASE Recheck
    BY <1>22 DEF Recheck, Go, Leave
  <1>23. CASE SubmitWork
    BY <1>23 DEF SubmitWork, Submit, Go, Leave
  <1>24. CASE ReadWorkAnswer
    BY <1>24 DEF ReadWorkAnswer, Hears, HearsNothing, Leave
  <1>25. CASE PrepareTransfer
    BY <1>25 DEF PrepareTransfer, Go, Leave, Started
  <1>26. CASE SignTransfer
    BY <1>26 DEF SignTransfer, Go, Leave
  <1>27. CASE PrepareContract
    BY <1>27 DEF PrepareContract, Go, Started
  <1>28. CASE SignContract
    BY <1>28 DEF SignContract, Go, Leave, Buffers
  <1>29. CASE SubmitTransaction
    BY <1>29 DEF SubmitTransaction, Submit, Go, Leave, Lost, Unsubmitted, Buffers
  <1>30. CASE ReadTransactionAnswer
    BY <1>30 DEF ReadTransactionAnswer, Hears, HearsNothing, Go, Leave, Follow, Rejected,
       Lost, Unsubmitted, Buffers
  <1>31. CASE ReadBalance
    BY <1>31 DEF ReadBalance, Leave, Follow, Buffers
  <1>32. CASE Refresh
    BY <1>32 DEF Refresh, Leave, Started
  <1>33. CASE CloseWindow
    BY <1>33 DEF CloseWindow
  <1>34. CASE Judge
    BY <1>34 DEF Judge, Takes, Lasts
  <1>35. CASE NextBlockChanges
    BY <1>35 DEF NextBlockChanges, Lasts
  <1>36. CASE Include
    BY <1>36 DEF Include
  <1>37. CASE UNCHANGED vars
    BY <1>37 DEF vars
  <1>38. QED
    BY <1>1, <1>2, <1>3, <1>4, <1>5, <1>6, <1>7, <1>8, <1>9, <1>10, <1>11, <1>12, <1>13,
       <1>14, <1>15, <1>16, <1>17, <1>18, <1>19, <1>20, <1>21, <1>22, <1>23, <1>24,
       <1>25, <1>26, <1>27, <1>28, <1>29, <1>30, <1>31, <1>32, <1>33, <1>34, <1>35,
       <1>36, <1>37 DEF Next

LEMMA MiningStep ==
  ChainType /\ MiningType /\ (pc = "search" => attempts >= 1) /\ [Next]_vars => MiningType'
<1> SUFFICES ASSUME ChainType, MiningType, pc = "search" => attempts >= 1, [Next]_vars
             PROVE  MiningType'
  OBVIOUS
<1>1. 0 \in Nonce /\ next \in Blocks
  BY CommandAssumption DEF Nonce, ChainType
<1> USE <1>1 DEF MiningType
  <1>2. CASE Begin
    BY <1>2 DEF Begin, NoWork, NoResult, Blocks
  <1>3. CASE Report
    BY <1>3 DEF Report, Leave, Started
  <1>4. CASE Status
    BY <1>4 DEF Status, Leave, Started
  <1>5. CASE Query
    BY <1>5 DEF Query, Leave, Started
  <1>6. CASE Template
    BY <1>6 DEF Template, Go, Leave, Started
  <1>7. CASE PrintTemplate
    BY <1>7 DEF PrintTemplate, Leave
  <1>8. CASE ReadContext
    BY <1>8 DEF ReadContext, Go, Leave, Started, Blocks
  <1>9. CASE CheckBase
    BY <1>9 DEF CheckBase, Leave
  <1>10. CASE Create
    BY <1>10 DEF Create, Leave, Started, Creations
  <1>11. CASE FileStatus
    BY <1>11 DEF FileStatus, Leave, Started
  <1>12. CASE ReadWallet
    BY <1>12 DEF ReadWallet, Go, Leave, Started
  <1>13. CASE ShowWallet
    BY <1>13 DEF ShowWallet, Leave
  <1>14. CASE EnableMining
    BY <1>14 DEF EnableMining, Leave, Started
  <1>15. CASE Set
    BY <1>15 DEF Set, Leave, Started
  <1>16. CASE ParseAttempts
    BY <1>16 DEF ParseAttempts, Go, Leave, Started
  <1>17. CASE LoadMiner
    BY <1>17 DEF LoadMiner, Go, Leave
  <1>18. CASE DeriveMiner
    BY <1>18 DEF DeriveMiner, Leave
  <1>19. CASE FetchTemplate
    BY <1>19 DEF FetchTemplate, Go, Leave, Blocks
  <1>20. CASE MatchContext
    BY <1>20 DEF MatchContext, Go, Leave
  <1>21. CASE CheckWork
    BY <1>21 DEF CheckWork, Go, Leave
  <1>22. CASE Work
    <2>1. CASE UNCHANGED <<out, lasted>>
      BY <1>22, <2>1 DEF Work
    <2>2. ASSUME ~BeyondRange,
                 LET o == Search(work.first, attempts) IN out' = o /\ lasted' = Current
          PROVE  MiningType'
      <3> DEFINE o == Search(work.first, attempts)
      <3>1. work.first \in Nonce /\ attempts \in Nonce /\ attempts >= 1
        BY <1>22 DEF Work
      <3>2. attempts - 1 <= MaxNonce - work.first
        BY <2>2, <3>1, InRange
      <3>3. o \in [result : {"none", "found", "exhausted"}, nonce : Nonce, block : Nonce]
        BY <3>1, <3>2, SearchTyped
      <3>4. QED
        BY <1>22, <2>2, <3>3 DEF Work, Current
    <2>3. QED
      BY <1>22, <2>1, <2>2 DEF Work
  <1>23. CASE Recheck
    BY <1>23 DEF Recheck, Go, Leave
  <1>24. CASE SubmitWork
    BY <1>24 DEF SubmitWork, Submit, Go, Leave
  <1>25. CASE ReadWorkAnswer
    BY <1>25 DEF ReadWorkAnswer, Hears, HearsNothing, Leave
  <1>26. CASE PrepareTransfer
    BY <1>26 DEF PrepareTransfer, Go, Leave, Started
  <1>27. CASE SignTransfer
    BY <1>27 DEF SignTransfer, Go, Leave
  <1>28. CASE PrepareContract
    BY <1>28 DEF PrepareContract, Go, Started
  <1>29. CASE SignContract
    BY <1>29 DEF SignContract, Go, Leave, Buffers
  <1>30. CASE SubmitTransaction
    BY <1>30 DEF SubmitTransaction, Submit, Go, Leave, Lost, Unsubmitted, Buffers
  <1>31. CASE ReadTransactionAnswer
    BY <1>31 DEF ReadTransactionAnswer, Hears, HearsNothing, Go, Leave, Follow, Rejected,
       Lost, Unsubmitted, Buffers
  <1>32. CASE ReadBalance
    BY <1>32 DEF ReadBalance, Leave, Follow, Buffers
  <1>33. CASE Refresh
    BY <1>33 DEF Refresh, Leave, Started
  <1>34. CASE CloseWindow
    BY <1>34 DEF CloseWindow
  <1>35. CASE Judge
    BY <1>35 DEF Judge, Takes, Lasts
  <1>36. CASE NextBlockChanges
    BY <1>36 DEF NextBlockChanges, Lasts, Current
  <1>37. CASE Include
    BY <1>37 DEF Include
  <1>38. CASE UNCHANGED vars
    BY <1>38 DEF vars
  <1>39. QED
    BY <1>2, <1>3, <1>4, <1>5, <1>6, <1>7, <1>8, <1>9, <1>10, <1>11, <1>12, <1>13,
       <1>14, <1>15, <1>16, <1>17, <1>18, <1>19, <1>20, <1>21, <1>22, <1>23, <1>24,
       <1>25, <1>26, <1>27, <1>28, <1>29, <1>30, <1>31, <1>32, <1>33, <1>34, <1>35,
       <1>36, <1>37, <1>38 DEF Next

-----------------------------------------------------------------------------
(* What an operation holds, and which operation is where.                  *)

LEMMA HeldStep == HeldWhere /\ [Next]_vars => HeldWhere'
<1> SUFFICES ASSUME HeldWhere, [Next]_vars PROVE HeldWhere'
  OBVIOUS
<1> USE DEF HeldWhere
  <1>1. CASE Begin
    BY <1>1 DEF Begin
  <1>2. CASE Report
    BY <1>2 DEF Report, Leave, Started
  <1>3. CASE Status
    BY <1>3 DEF Status, Leave, Started
  <1>4. CASE Query
    BY <1>4 DEF Query, Leave, Started
  <1>5. CASE Template
    BY <1>5 DEF Template, Go, Leave, Started
  <1>6. CASE PrintTemplate
    BY <1>6 DEF PrintTemplate, Leave
  <1>7. CASE ReadContext
    BY <1>7 DEF ReadContext, Go, Leave, Started
  <1>8. CASE CheckBase
    BY <1>8 DEF CheckBase, Leave
  <1>9. CASE Create
    BY <1>9 DEF Create, Leave, Started, Creations
  <1>10. CASE FileStatus
    BY <1>10 DEF FileStatus, Leave, Started
  <1>11. CASE ReadWallet
    BY <1>11 DEF ReadWallet, Go, Leave, Started
  <1>12. CASE ShowWallet
    BY <1>12 DEF ShowWallet, Leave
  <1>13. CASE EnableMining
    BY <1>13 DEF EnableMining, Leave, Started
  <1>14. CASE Set
    BY <1>14 DEF Set, Leave, Started
  <1>15. CASE ParseAttempts
    BY <1>15 DEF ParseAttempts, Go, Leave, Started
  <1>16. CASE LoadMiner
    BY <1>16 DEF LoadMiner, Go, Leave
  <1>17. CASE DeriveMiner
    BY <1>17 DEF DeriveMiner, Leave
  <1>18. CASE FetchTemplate
    BY <1>18 DEF FetchTemplate, Go, Leave
  <1>19. CASE MatchContext
    BY <1>19 DEF MatchContext, Go, Leave
  <1>20. CASE CheckWork
    BY <1>20 DEF CheckWork, Go, Leave
  <1>21. CASE Work
    BY <1>21 DEF Work, Go, Leave
  <1>22. CASE Recheck
    BY <1>22 DEF Recheck, Go, Leave
  <1>23. CASE SubmitWork
    BY <1>23 DEF SubmitWork, Submit, Go, Leave
  <1>24. CASE ReadWorkAnswer
    BY <1>24 DEF ReadWorkAnswer, Hears, HearsNothing, Leave
  <1>25. CASE PrepareTransfer
    BY <1>25 DEF PrepareTransfer, Go, Leave, Started
  <1>26. CASE SignTransfer
    BY <1>26 DEF SignTransfer, Go, Leave
  <1>27. CASE PrepareContract
    BY <1>27 DEF PrepareContract, Go, Started
  <1>28. CASE SignContract
    BY <1>28 DEF SignContract, Go, Leave, Buffers
  <1>29. CASE SubmitTransaction
    BY <1>29 DEF SubmitTransaction, Submit, Go, Leave, Lost, Unsubmitted, Buffers
  <1>30. CASE ReadTransactionAnswer
    BY <1>30 DEF ReadTransactionAnswer, Hears, HearsNothing, Go, Leave, Follow, Rejected,
       Lost, Unsubmitted, Buffers
  <1>31. CASE ReadBalance
    BY <1>31 DEF ReadBalance, Leave, Follow, Buffers
  <1>32. CASE Refresh
    BY <1>32 DEF Refresh, Leave, Started
  <1>33. CASE CloseWindow
    BY <1>33 DEF CloseWindow, Buffers
  <1>34. CASE Judge
    BY <1>34 DEF Judge, Takes, Lasts
  <1>35. CASE NextBlockChanges
    BY <1>35 DEF NextBlockChanges, Lasts
  <1>36. CASE Include
    BY <1>36 DEF Include
  <1>37. CASE UNCHANGED vars
    BY <1>37 DEF vars
  <1>38. QED
    BY <1>1, <1>2, <1>3, <1>4, <1>5, <1>6, <1>7, <1>8, <1>9, <1>10, <1>11, <1>12, <1>13,
       <1>14, <1>15, <1>16, <1>17, <1>18, <1>19, <1>20, <1>21, <1>22, <1>23, <1>24,
       <1>25, <1>26, <1>27, <1>28, <1>29, <1>30, <1>31, <1>32, <1>33, <1>34, <1>35,
       <1>36, <1>37 DEF Next

LEMMA OpStep == OpWhere /\ [Next]_vars => OpWhere'
<1> SUFFICES ASSUME OpWhere, [Next]_vars PROVE OpWhere'
  OBVIOUS
<1> USE DEF OpWhere, BeforeSearch, Searched
  <1>1. CASE Begin
    BY <1>1 DEF Begin
  <1>2. CASE Report
    BY <1>2 DEF Report, Leave, Started
  <1>3. CASE Status
    BY <1>3 DEF Status, Leave, Started
  <1>4. CASE Query
    BY <1>4 DEF Query, Leave, Started
  <1>5. CASE Template
    BY <1>5 DEF Template, Go, Leave, Started
  <1>6. CASE PrintTemplate
    BY <1>6 DEF PrintTemplate, Leave
  <1>7. CASE ReadContext
    BY <1>7 DEF ReadContext, Go, Leave, Started
  <1>8. CASE CheckBase
    BY <1>8 DEF CheckBase, Leave
  <1>9. CASE Create
    BY <1>9 DEF Create, Leave, Started, Creations
  <1>10. CASE FileStatus
    BY <1>10 DEF FileStatus, Leave, Started
  <1>11. CASE ReadWallet
    BY <1>11 DEF ReadWallet, Go, Leave, Started
  <1>12. CASE ShowWallet
    BY <1>12 DEF ShowWallet, Leave
  <1>13. CASE EnableMining
    BY <1>13 DEF EnableMining, Leave, Started
  <1>14. CASE Set
    BY <1>14 DEF Set, Leave, Started
  <1>15. CASE ParseAttempts
    BY <1>15 DEF ParseAttempts, Go, Leave, Started, Mining
  <1>16. CASE LoadMiner
    BY <1>16 DEF LoadMiner, Go, Leave
  <1>17. CASE DeriveMiner
    BY <1>17 DEF DeriveMiner, Leave
  <1>18. CASE FetchTemplate
    BY <1>18 DEF FetchTemplate, Go, Leave
  <1>19. CASE MatchContext
    BY <1>19 DEF MatchContext, Go, Leave
  <1>20. CASE CheckWork
    BY <1>20 DEF CheckWork, Go, Leave
  <1>21. CASE Work
    BY <1>21 DEF Work, Go, Leave
  <1>22. CASE Recheck
    BY <1>22 DEF Recheck, Go, Leave
  <1>23. CASE SubmitWork
    BY <1>23 DEF SubmitWork, Submit, Go, Leave
  <1>24. CASE ReadWorkAnswer
    BY <1>24 DEF ReadWorkAnswer, Hears, HearsNothing, Leave
  <1>25. CASE PrepareTransfer
    BY <1>25 DEF PrepareTransfer, Go, Leave, Started
  <1>26. CASE SignTransfer
    BY <1>26 DEF SignTransfer, Go, Leave
  <1>27. CASE PrepareContract
    BY <1>27 DEF PrepareContract, Go, Started, Transfers
  <1>28. CASE SignContract
    BY <1>28 DEF SignContract, Go, Leave, Buffers
  <1>29. CASE SubmitTransaction
    BY <1>29 DEF SubmitTransaction, Submit, Go, Leave, Lost, Unsubmitted, Buffers, Transfers
  <1>30. CASE ReadTransactionAnswer
    BY <1>30 DEF ReadTransactionAnswer, Hears, HearsNothing, Go, Leave, Follow, Rejected,
       Lost, Unsubmitted, Buffers, Transfers
  <1>31. CASE ReadBalance
    BY <1>31 DEF ReadBalance, Leave, Follow, Buffers
  <1>32. CASE Refresh
    BY <1>32 DEF Refresh, Leave, Started
  <1>33. CASE CloseWindow
    BY <1>33 DEF CloseWindow
  <1>34. CASE Judge
    BY <1>34 DEF Judge, Takes, Lasts
  <1>35. CASE NextBlockChanges
    BY <1>35 DEF NextBlockChanges, Lasts
  <1>36. CASE Include
    BY <1>36 DEF Include
  <1>37. CASE UNCHANGED vars
    BY <1>37 DEF vars
  <1>38. QED
    BY <1>1, <1>2, <1>3, <1>4, <1>5, <1>6, <1>7, <1>8, <1>9, <1>10, <1>11, <1>12, <1>13,
       <1>14, <1>15, <1>16, <1>17, <1>18, <1>19, <1>20, <1>21, <1>22, <1>23, <1>24,
       <1>25, <1>26, <1>27, <1>28, <1>29, <1>30, <1>31, <1>32, <1>33, <1>34, <1>35,
       <1>36, <1>37 DEF Next

\* A new operation has sent nothing, and nothing was taken in its name.
LEMMA Fresh ==
  ASSUME ChainType, LineType, Begin
  PROVE  /\ run' >= 1 /\ ~Taken(run)' /\ ~Pending(run)'
         /\ \A j \in sent : j.run # run'
<1>0. run \in Nat
  BY CommandAssumption DEF ChainType
<1>1. run' = run + 1 /\ UNCHANGED <<mined, admitted, sent>>
  BY DEF Begin
<1>2. run' >= 1 /\ run' \notin 1..run
  BY <1>0, <1>1
<1>3. \A j \in sent : j.run \in 1..run
  BY DEF LineType
<1>4. mined \subseteq 1..run /\ admitted \subseteq 1..run
  BY DEF ChainType
<1>5. \A j \in sent : j.run # run'
  BY <1>2, <1>3, <1>1
<1>6. QED
  BY <1>1, <1>2, <1>4, <1>5 DEF Taken, Pending

LEMMA SentStep ==
  TypeOK /\ OpWhere /\ SentWhere /\ [Next]_vars => SentWhere'
<1> SUFFICES ASSUME TypeOK, OpWhere, SentWhere, [Next]_vars PROVE SentWhere'
  OBVIOUS
<1>0. StoredType /\ MiningType /\ ChainType /\ LineType
  BY TypeParts
<1> USE DEF SentWhere, SentOnce, JudgedOnce, Taken, Pending, Waiting
<1>1. CASE Within
  BY <1>1 DEF Within
<1>2. CASE Sends
  <2>1. ~Pending(run) /\ verdict = "none" /\ ~Taken(run) /\ heard = "none"
    BY <1>2 DEF Sends
  <2>2. Submission.run = run /\ Submission.op = op
    BY DEF Submission
  <2>3. SentOnce'
    BY <1>2, <2>1, <2>2 DEF Sends
  <2>4. JudgedOnce' /\ pc' \in Waiting /\ pc # "exited" /\ UNCHANGED <<run, heard, verdict>>
        /\ included' \subseteq admitted'
    BY <1>2, <2>1 DEF Sends
  <2>5. pc' \notin {"balance", "exited"} /\ run' >= 1 /\ heard' = "none"
    BY <2>1, <2>4
  <2> HIDE DEF SentOnce, JudgedOnce
  <2>6. QED
    BY <2>3, <2>4, <2>5
<1>3. CASE Aside
  BY <1>3 DEF Aside
<1>4. CASE Begin
  <2>1. run' >= 1 /\ ~Taken(run)' /\ ~Pending(run)' /\ \A j \in sent : j.run # run'
    BY <1>0, <1>4, Fresh
  <2>2. /\ UNCHANGED <<mined, admitted, included, sent>> /\ verdict' = "none" /\ heard' = "none"
        /\ pc' \notin Waiting \cup {"balance"}
    BY <1>4 DEF Begin
  <2>3. QED
    BY <2>1, <2>2
<1>5. CASE ReadWorkAnswer
  BY <1>5 DEF ReadWorkAnswer, Hears, HearsNothing, Leave
<1>6. CASE ReadTransactionAnswer
  BY <1>6 DEF ReadTransactionAnswer, Hears, HearsNothing, Go, Leave, Rejected, Lost
<1>7. CASE ReadBalance
  BY <1>7 DEF ReadBalance, Leave
<1>8. CASE Refresh
  BY <1>8 DEF Refresh, Leave, Started
<1>9. CASE Judge
  <2>1. PICK j \in sent :
          /\ sent' = sent \ {j} /\ UNCHANGED <<run, op, pc, heard, included>>
          /\ \/ /\ verdict' = IF j.run = run THEN "taken" ELSE verdict
                /\ IF j.op \in Mining THEN mined' = mined \cup {j.run} /\ admitted' = admitted
                   ELSE admitted' = admitted \cup {j.run} /\ mined' = mined
             \/ /\ verdict' = IF j.run = run THEN "refused" ELSE verdict
                /\ UNCHANGED <<mined, admitted>>
    BY <1>9 DEF Judge, Takes
  <2>2. SentOnce' /\ included' \subseteq admitted'
    BY <2>1
  <2>3. CASE j.run = run
    <3>1. Pending(run) /\ verdict = "none" /\ ~Taken(run) /\ heard = "none" /\ j.op = op
      BY <2>3
    <3>2. ~Pending(run)'
      BY <2>1, <2>3
    <3>3. JudgedOnce'
      BY <2>1, <2>3, <3>1, <3>2
    <3>4. pc \in Waiting \cup {"exited"}
      BY <3>1
    <3>5. QED
      BY <2>1, <2>2, <3>1, <3>3, <3>4
  <2>4. CASE j.run # run
    <3>1. (Taken(run)' <=> Taken(run)) /\ (Pending(run)' <=> Pending(run)) /\ verdict' = verdict
          /\ (run' \in mined' <=> run \in mined) /\ (run' \in admitted' <=> run \in admitted)
      BY <2>1, <2>4
    <3>2. QED
      BY <2>1, <2>2, <3>1
  <2>5. QED
    BY <2>3, <2>4
<1>10. CASE Include
  BY <1>10 DEF Include
<1>11. QED
  BY <1>0, <1>1, <1>2, <1>3, <1>4, <1>5, <1>6, <1>7, <1>8, <1>9, <1>10, Kinds

LEMMA WalletStep == WalletWhere /\ [Next]_vars => WalletWhere'
<1> SUFFICES ASSUME WalletWhere, [Next]_vars PROVE WalletWhere'
  OBVIOUS
<1> USE DEF WalletWhere, Usable
  <1>1. CASE Begin
    BY <1>1 DEF Begin
  <1>2. CASE Report
    BY <1>2 DEF Report, Leave, Started
  <1>3. CASE Status
    BY <1>3 DEF Status, Leave, Started
  <1>4. CASE Query
    BY <1>4 DEF Query, Leave, Started
  <1>5. CASE Template
    BY <1>5 DEF Template, Go, Leave, Started
  <1>6. CASE PrintTemplate
    BY <1>6 DEF PrintTemplate, Leave
  <1>7. CASE ReadContext
    BY <1>7 DEF ReadContext, Go, Leave, Started
  <1>8. CASE CheckBase
    BY <1>8 DEF CheckBase, Leave
  <1>9. CASE Create
    BY <1>9 DEF Create, Leave, Started, Creations
  <1>10. CASE FileStatus
    BY <1>10 DEF FileStatus, Leave, Started
  <1>11. CASE ReadWallet
    BY <1>11 DEF ReadWallet, Go, Leave, Started
  <1>12. CASE ShowWallet
    BY <1>12 DEF ShowWallet, Leave
  <1>13. CASE EnableMining
    BY <1>13 DEF EnableMining, Leave, Started
  <1>14. CASE Set
    BY <1>14 DEF Set, Leave, Started
  <1>15. CASE ParseAttempts
    BY <1>15 DEF ParseAttempts, Go, Leave, Started
  <1>16. CASE LoadMiner
    BY <1>16 DEF LoadMiner, Go, Leave
  <1>17. CASE DeriveMiner
    BY <1>17 DEF DeriveMiner, Leave
  <1>18. CASE FetchTemplate
    BY <1>18 DEF FetchTemplate, Go, Leave
  <1>19. CASE MatchContext
    BY <1>19 DEF MatchContext, Go, Leave
  <1>20. CASE CheckWork
    BY <1>20 DEF CheckWork, Go, Leave
  <1>21. CASE Work
    BY <1>21 DEF Work, Go, Leave
  <1>22. CASE Recheck
    BY <1>22 DEF Recheck, Go, Leave
  <1>23. CASE SubmitWork
    BY <1>23 DEF SubmitWork, Submit, Go, Leave
  <1>24. CASE ReadWorkAnswer
    BY <1>24 DEF ReadWorkAnswer, Hears, HearsNothing, Leave
  <1>25. CASE PrepareTransfer
    BY <1>25 DEF PrepareTransfer, Go, Leave, Started
  <1>26. CASE SignTransfer
    BY <1>26 DEF SignTransfer, Go, Leave
  <1>27. CASE PrepareContract
    BY <1>27 DEF PrepareContract, Go, Started
  <1>28. CASE SignContract
    BY <1>28 DEF SignContract, Go, Leave, Buffers
  <1>29. CASE SubmitTransaction
    BY <1>29 DEF SubmitTransaction, Submit, Go, Leave, Lost, Unsubmitted, Buffers
  <1>30. CASE ReadTransactionAnswer
    BY <1>30 DEF ReadTransactionAnswer, Hears, HearsNothing, Go, Leave, Follow, Rejected,
       Lost, Unsubmitted, Buffers
  <1>31. CASE ReadBalance
    BY <1>31 DEF ReadBalance, Leave, Follow, Buffers
  <1>32. CASE Refresh
    BY <1>32 DEF Refresh, Leave, Started
  <1>33. CASE CloseWindow
    BY <1>33 DEF CloseWindow
  <1>34. CASE Judge
    BY <1>34 DEF Judge, Takes, Lasts
  <1>35. CASE NextBlockChanges
    BY <1>35 DEF NextBlockChanges, Lasts
  <1>36. CASE Include
    BY <1>36 DEF Include
  <1>37. CASE UNCHANGED vars
    BY <1>37 DEF vars
  <1>38. QED
    BY <1>1, <1>2, <1>3, <1>4, <1>5, <1>6, <1>7, <1>8, <1>9, <1>10, <1>11, <1>12, <1>13,
       <1>14, <1>15, <1>16, <1>17, <1>18, <1>19, <1>20, <1>21, <1>22, <1>23, <1>24,
       <1>25, <1>26, <1>27, <1>28, <1>29, <1>30, <1>31, <1>32, <1>33, <1>34, <1>35,
       <1>36, <1>37 DEF Next

LEMMA SearchedStep ==
  MiningType /\ SearchedWhere /\ [Next]_vars => SearchedWhere'
<1> SUFFICES ASSUME MiningType, SearchedWhere, [Next]_vars PROVE SearchedWhere'
  OBVIOUS
<1>0. \A n \in Nonce \ {0} : n >= 1
  BY CommandAssumption DEF Nonce
<1> USE <1>0 DEF SearchedWhere, BeforeSearch, Searched
  <1>1. CASE Begin
    BY <1>1 DEF Begin, Current, Tried, Solves
  <1>2. CASE Report
    BY <1>2 DEF Report, Leave, Started, Current, Tried, Solves
  <1>3. CASE Status
    BY <1>3 DEF Status, Leave, Started, Current, Tried, Solves
  <1>4. CASE Query
    BY <1>4 DEF Query, Leave, Started, Current, Tried, Solves
  <1>5. CASE Template
    BY <1>5 DEF Template, Go, Leave, Started, Current, Tried, Solves
  <1>6. CASE PrintTemplate
    BY <1>6 DEF PrintTemplate, Leave, Current, Tried, Solves
  <1>7. CASE ReadContext
    BY <1>7 DEF ReadContext, Go, Leave, Started, Current, Tried, Solves
  <1>8. CASE CheckBase
    BY <1>8 DEF CheckBase, Leave, Current, Tried, Solves
  <1>9. CASE Create
    BY <1>9 DEF Create, Leave, Started, Creations, Current, Tried, Solves
  <1>10. CASE FileStatus
    BY <1>10 DEF FileStatus, Leave, Started, Current, Tried, Solves
  <1>11. CASE ReadWallet
    BY <1>11 DEF ReadWallet, Go, Leave, Started, Current, Tried, Solves
  <1>12. CASE ShowWallet
    BY <1>12 DEF ShowWallet, Leave, Current, Tried, Solves
  <1>13. CASE EnableMining
    BY <1>13 DEF EnableMining, Leave, Started, Current, Tried, Solves
  <1>14. CASE Set
    BY <1>14 DEF Set, Leave, Started, Current, Tried, Solves
  <1>15. CASE ParseAttempts
    BY <1>15 DEF ParseAttempts, Go, Leave, Started, Current, Tried, Solves
  <1>16. CASE LoadMiner
    BY <1>16 DEF LoadMiner, Go, Leave, Current, Tried, Solves
  <1>17. CASE DeriveMiner
    BY <1>17 DEF DeriveMiner, Leave, Current, Tried, Solves
  <1>18. CASE FetchTemplate
    BY <1>18 DEF FetchTemplate, Go, Leave, Current, Tried, Solves
  <1>19. CASE MatchContext
    BY <1>19 DEF MatchContext, Go, Leave, Current, Tried, Solves
  <1>20. CASE CheckWork
    BY <1>20 DEF CheckWork, Go, Leave, Current, Tried, Solves
  <1>21. CASE Work
    <2>1. CASE pc' = "exited"
      BY <2>1
    <2>2. CASE pc' = "recheck"
      <3>1. /\ ~BeyondRange /\ out' = Search(work.first, attempts) /\ lasted' = Current
            /\ UNCHANGED <<next, work, attempts>>
        BY <1>21, <2>2 DEF Work, Go, Leave
      <3>2. work.first \in Nonce /\ attempts \in Nonce /\ attempts >= 1
        BY <1>21 DEF Work, MiningType
      <3>3. attempts - 1 <= MaxNonce - work.first
        BY <3>1, <3>2, InRange
      <3>4. Current' = Current
        BY <3>1 DEF Current
      <3>5. /\ work.first..(work.first + attempts - 1) \subseteq Nonce
            /\ \A n \in work.first..(work.first + attempts - 1) :
                 Solves(n) => out'.result = "found" /\ out'.nonce <= n
        BY <3>1, <3>2, <3>3, SearchTries
      <3>6. Tried'
        BY <3>1, <3>5 DEF Tried, Solves
      <3>7. QED
        BY <2>2, <3>1, <3>4, <3>6
    <2>3. QED
      BY <1>21, <2>1, <2>2 DEF Work, Go, Leave
  <1>22. CASE Recheck
    BY <1>22 DEF Recheck, Go, Leave, Current, Tried, Solves
  <1>23. CASE SubmitWork
    BY <1>23 DEF SubmitWork, Submit, Go, Leave, Current, Tried, Solves
  <1>24. CASE ReadWorkAnswer
    BY <1>24 DEF ReadWorkAnswer, Hears, HearsNothing, Leave, Current, Tried, Solves
  <1>25. CASE PrepareTransfer
    BY <1>25 DEF PrepareTransfer, Go, Leave, Started, Current, Tried, Solves
  <1>26. CASE SignTransfer
    BY <1>26 DEF SignTransfer, Go, Leave, Current, Tried, Solves
  <1>27. CASE PrepareContract
    BY <1>27 DEF PrepareContract, Go, Started, Current, Tried, Solves
  <1>28. CASE SignContract
    BY <1>28 DEF SignContract, Go, Leave, Buffers, Current, Tried, Solves
  <1>29. CASE SubmitTransaction
    BY <1>29 DEF SubmitTransaction, Submit, Go, Leave, Lost, Unsubmitted, Buffers, Current, Tried, Solves
  <1>30. CASE ReadTransactionAnswer
    BY <1>30 DEF ReadTransactionAnswer, Hears, HearsNothing, Go, Leave, Follow, Rejected,
       Lost, Unsubmitted, Buffers, Current, Tried, Solves
  <1>31. CASE ReadBalance
    BY <1>31 DEF ReadBalance, Leave, Follow, Buffers, Current, Tried, Solves
  <1>32. CASE Refresh
    BY <1>32 DEF Refresh, Leave, Started, Current, Tried, Solves
  <1>33. CASE CloseWindow
    BY <1>33 DEF CloseWindow, Current, Tried, Solves
  <1>34. CASE Judge
    BY <1>34 DEF Judge, Takes, Lasts, Current, Tried, Solves
  <1>35. CASE NextBlockChanges
    BY <1>35 DEF NextBlockChanges, Lasts, Current, Tried, Solves
  <1>36. CASE Include
    BY <1>36 DEF Include, Current, Tried, Solves
  <1>37. CASE UNCHANGED vars
    BY <1>37 DEF vars, Current, Tried, Solves
  <1>38. QED
    BY <1>1, <1>2, <1>3, <1>4, <1>5, <1>6, <1>7, <1>8, <1>9, <1>10, <1>11, <1>12, <1>13,
       <1>14, <1>15, <1>16, <1>17, <1>18, <1>19, <1>20, <1>21, <1>22, <1>23, <1>24,
       <1>25, <1>26, <1>27, <1>28, <1>29, <1>30, <1>31, <1>32, <1>33, <1>34, <1>35,
       <1>36, <1>37 DEF Next

-----------------------------------------------------------------------------
(* What the exit code and the text mean.                                   *)

LEMMA InitInvariant ==
  Init => /\ HeldWhere /\ OpWhere /\ SentWhere /\ SearchedWhere /\ WalletWhere
          /\ ExitTrue /\ ToldTruth
<1> SUFFICES ASSUME Init
             PROVE  /\ HeldWhere /\ OpWhere /\ SentWhere /\ SearchedWhere
                    /\ WalletWhere /\ ExitTrue /\ ToldTruth
  OBVIOUS
<1>1. /\ pc = "exited" /\ op = "help" /\ held = {} /\ included = {} /\ tracked = 0
      /\ announced = {} /\ told = "nothing" /\ run = 0 /\ mined = {} /\ admitted = {}
      /\ sent = {} /\ verdict = "none" /\ heard = "none"
  BY DEF Init
<1>2. QED
  BY <1>1 DEF HeldWhere, OpWhere, SentWhere, SearchedWhere, WalletWhere, ExitTrue,
     ToldTruth, Exits, Transfers, Creations, WalletReads, BeforeSearch, Searched,
     Waiting, SentOnce, JudgedOnce, Taken, Pending

\* The parts of ExitTrue by the kind of operation.
MiningExit ==
  /\ Exits("mining scan") => lasted /\ Tried
  /\ Exits("mining mine-once") =>
       Tried /\ IF told = "accepted" THEN run \in mined ELSE lasted
AdmittedExit == \A o \in Transfers \cup {"create contract"} : Exits(o) => run \in admitted
StoredExit ==
  /\ \A o \in Creations : Exits(o) => file[Subject(o)] = "valid"
  /\ \A o \in WalletReads : Exits(o) => Usable
  /\ Exits("mining enable") => enabled /\ Usable
  /\ Exits("mining disable") => ~enabled

\* Steps that end no operation, and operations nothing is promised of.
Idle == CloseWindow \/ Judge \/ NextBlockChanges \/ Include \/ UNCHANGED vars
Unbound == Reports \cup Queries \cup Statuses
             \cup {"status", "refresh", "mining template", "mining check"}
Unconcerned == pc' # "exited" \/ rc' = 1 \/ op' \in Unbound

LEMMA FailedIsNotDone == rc' = 1 => rc' # 0
OBVIOUS

\* The steps an operation may succeed with.
Succeeding ==
  \/ Recheck \/ ReadWorkAnswer \/ ReadTransactionAnswer \/ ReadBalance
  \/ Create \/ EnableMining \/ Set \/ ShowWallet
LEMMA Endings == OpWhere /\ [Next]_vars => Succeeding \/ Idle \/ Unconcerned
<1> SUFFICES ASSUME OpWhere, [Next]_vars PROVE Succeeding \/ Idle \/ Unconcerned
  OBVIOUS
  <1>1. CASE Begin
    BY <1>1 DEF Begin, Unconcerned
  <1>2. CASE Report
    BY <1>2 DEF Report, Leave, Started, Reports, Unbound, Unconcerned
  <1>3. CASE Status
    BY <1>3 DEF Status, Leave, Started, Unbound, Unconcerned
  <1>4. CASE Query
    BY <1>4 DEF Query, Leave, Started, Queries, Unbound, Unconcerned
  <1>5. CASE Template
    BY <1>5 DEF Template, Go, Leave, Started, Unbound, Unconcerned
  <1>6. CASE PrintTemplate
    BY <1>6 DEF PrintTemplate, Leave, OpWhere, Unbound, Unconcerned
  <1>7. CASE ReadContext
    BY <1>7 DEF ReadContext, Go, Leave, Started, Unbound, Unconcerned
  <1>8. CASE CheckBase
    BY <1>8 DEF CheckBase, Leave, OpWhere, Unbound, Unconcerned
  <1>9. CASE Create
    BY <1>9 DEF Succeeding
  <1>10. CASE FileStatus
    BY <1>10 DEF FileStatus, Leave, Started, Statuses, Unbound, Unconcerned
  <1>11. CASE ReadWallet
    BY <1>11 DEF ReadWallet, Go, Leave, Started, Unconcerned
  <1>12. CASE ShowWallet
    BY <1>12 DEF Succeeding
  <1>13. CASE EnableMining
    BY <1>13 DEF Succeeding
  <1>14. CASE Set
    BY <1>14 DEF Succeeding
  <1>15. CASE ParseAttempts
    BY <1>15 DEF ParseAttempts, Go, Leave, Started, Unconcerned
  <1>16. CASE LoadMiner
    BY <1>16 DEF LoadMiner, Go, Leave, Unconcerned
  <1>17. CASE DeriveMiner
    BY <1>17 DEF DeriveMiner, Leave, Unconcerned
  <1>18. CASE FetchTemplate
    BY <1>18 DEF FetchTemplate, Go, Leave, Unconcerned
  <1>19. CASE MatchContext
    BY <1>19 DEF MatchContext, Go, Leave, Unconcerned
  <1>20. CASE CheckWork
    BY <1>20 DEF CheckWork, Go, Leave, Unconcerned
  <1>21. CASE Work
    BY <1>21 DEF Work, Go, Leave, Unconcerned
  <1>22. CASE Recheck
    BY <1>22 DEF Succeeding
  <1>23. CASE SubmitWork
    BY <1>23 DEF SubmitWork, Submit, Go, Leave, Unconcerned
  <1>24. CASE ReadWorkAnswer
    BY <1>24 DEF Succeeding
  <1>25. CASE PrepareTransfer
    BY <1>25 DEF PrepareTransfer, Go, Leave, Started, Unconcerned
  <1>26. CASE SignTransfer
    BY <1>26 DEF SignTransfer, Go, Leave, Unconcerned
  <1>27. CASE PrepareContract
    BY <1>27 DEF PrepareContract, Go, Started, Unconcerned
  <1>28. CASE SignContract
    BY <1>28 DEF SignContract, Go, Leave, Buffers, Unconcerned
  <1>29. CASE SubmitTransaction
    BY <1>29 DEF SubmitTransaction, Submit, Go, Leave, Lost, Buffers, Unconcerned
  <1>30. CASE ReadTransactionAnswer
    BY <1>30 DEF Succeeding
  <1>31. CASE ReadBalance
    BY <1>31 DEF Succeeding
  <1>32. CASE Refresh
    BY <1>32 DEF Refresh, Leave, Started, Unbound, Unconcerned
  <1>33. CASE CloseWindow
    BY <1>33 DEF Idle
  <1>34. CASE Judge
    BY <1>34 DEF Idle
  <1>35. CASE NextBlockChanges
    BY <1>35 DEF Idle
  <1>36. CASE Include
    BY <1>36 DEF Idle
  <1>37. CASE UNCHANGED vars
    BY <1>37 DEF Idle
  <1>38. QED
    BY <1>1, <1>2, <1>3, <1>4, <1>5, <1>6, <1>7, <1>8, <1>9, <1>10, <1>11, <1>12, <1>13,
       <1>14, <1>15, <1>16, <1>17, <1>18, <1>19, <1>20, <1>21, <1>22, <1>23, <1>24,
       <1>25, <1>26, <1>27, <1>28, <1>29, <1>30, <1>31, <1>32, <1>33, <1>34, <1>35,
       <1>36, <1>37 DEF Next

LEMMA MiningExitStep ==
  OpWhere /\ SentWhere /\ SearchedWhere /\ MiningType /\ MiningExit /\ [Next]_vars => MiningExit'
<1> SUFFICES ASSUME OpWhere, SentWhere, SearchedWhere, MiningType, MiningExit, [Next]_vars
             PROVE  MiningExit'
  OBVIOUS
<1>1. CASE pc' = "exited" /\ rc' = 0 => op' \notin Mining
  BY <1>1 DEF MiningExit, Exits, Mining
<1>2. CASE /\ UNCHANGED <<pc, op, rc, told, run, attempts, work, out>>
           /\ mined \subseteq mined' /\ (lasted => lasted')
  <2>1. Tried' = Tried
    BY <1>2 DEF Tried, Solves
  <2>2. QED
    BY <1>2, <2>1 DEF MiningExit, Exits
<1>3. CASE Recheck
  <2>1. pc = "recheck" /\ UNCHANGED <<run, op, mined, attempts, work, out, lasted>>
    BY <1>3 DEF Recheck, Go, Leave
  <2>2. Tried'
    BY <2>1 DEF SearchedWhere, Searched, Tried, Solves
  <2>3. pc' # "exited" \/ rc' = 1 \/ (Current /\ told' = out.result)
    BY <1>3 DEF Recheck, Go, Leave
  <2>4. out.result # "accepted"
    BY DEF MiningType
  <2>5. Current => lasted'
    BY <2>1 DEF SearchedWhere
  <2>6. QED
    BY <2>2, <2>3, <2>4, <2>5, FailedIsNotDone DEF MiningExit, Exits
<1>4. CASE ReadWorkAnswer
  <2>1. pc = "work answer" /\ UNCHANGED <<run, op, mined, attempts, work, out>>
    BY <1>4 DEF ReadWorkAnswer, Leave
  <2>2. Tried'
    BY <2>1 DEF SearchedWhere, Searched, Tried, Solves
  <2>3. rc' = 1 \/ (told' = "accepted" /\ verdict = "taken")
    BY <1>4 DEF ReadWorkAnswer, Hears, Leave
  <2>4. op = "mining mine-once" /\ op \in Mining
    BY <2>1 DEF OpWhere, Mining
  <2>5. verdict = "taken" => run' \in mined'
    BY <2>1, <2>4 DEF SentWhere, JudgedOnce
  <2>6. QED
    BY <2>1, <2>2, <2>3, <2>4, <2>5, FailedIsNotDone DEF MiningExit, Exits
<1>5. CASE ReadTransactionAnswer \/ ReadBalance \/ ShowWallet
  <2>1. op' = op /\ pc \in {"transaction answer", "balance", "wallet read"}
    BY <1>5 DEF ReadTransactionAnswer, Rejected, Lost, ReadBalance, ShowWallet, Go, Leave
  <2>2. QED
    BY <1>1, <2>1 DEF OpWhere, Transfers, WalletReads, Mining
<1>6. CASE Create \/ EnableMining \/ Set
  <2>1. op' = op /\ op \in Creations \cup {"mining enable"} \cup Settings
    BY <1>6 DEF Create, EnableMining, Set, Leave, Started
  <2>2. QED
    BY <1>1, <2>1 DEF Creations, Settings, Mining
<1>7. CASE Idle
  <2>1. UNCHANGED <<pc, op, rc, told, run, attempts, work, out>>
    BY <1>7 DEF Idle, CloseWindow, Judge, NextBlockChanges, Include, vars
  <2>2. mined \subseteq mined'
    BY <1>7 DEF Idle, CloseWindow, Judge, Takes, NextBlockChanges, Include, vars
  <2>3. lasted => lasted'
    BY <1>7 DEF Idle, CloseWindow, Judge, NextBlockChanges, Lasts, Include, vars
  <2>4. QED
    BY <1>2, <2>1, <2>2, <2>3
<1>8. CASE Unconcerned
  <2>1. pc' = "exited" /\ rc' = 0 => op' \in Unbound
    BY <1>8, FailedIsNotDone DEF Unconcerned
  <2>2. QED
    BY <1>1, <2>1 DEF Unbound, Reports, Queries, Statuses, Mining
<1>9. QED
  BY <1>3, <1>4, <1>5, <1>6, <1>7, <1>8, Endings DEF Succeeding

LEMMA AdmittedExitStep ==
  OpWhere /\ SentWhere /\ AdmittedExit /\ [Next]_vars => AdmittedExit'
<1> SUFFICES ASSUME OpWhere, SentWhere, AdmittedExit, [Next]_vars PROVE AdmittedExit'
  OBVIOUS
<1> DEFINE Transacting == Transfers \cup {"create contract"}
<1>1. CASE pc' = "exited" /\ rc' = 0 => op' \notin Transacting
  BY <1>1 DEF AdmittedExit, Exits
<1>2. CASE UNCHANGED <<pc, op, rc, run>> /\ admitted \subseteq admitted'
  BY <1>2 DEF AdmittedExit, Exits
<1>3. CASE ReadTransactionAnswer \/ ReadBalance
  <2>1. op \in Transacting /\ UNCHANGED <<op, run, admitted>>
    BY <1>3 DEF ReadTransactionAnswer, ReadBalance, OpWhere, Go, Leave, Rejected, Lost
  <2>2. op \notin Mining
    BY <2>1 DEF Transfers, Mining
  <2>3. pc' # "exited" \/ rc' = 1 \/ verdict = "taken"
    BY <1>3 DEF ReadTransactionAnswer, ReadBalance, Hears, Go, Leave, Rejected, Lost, SentWhere
  <2>4. verdict = "taken" => run' \in admitted'
    BY <2>1, <2>2 DEF SentWhere, JudgedOnce
  <2>5. QED
    BY <2>3, <2>4, FailedIsNotDone DEF AdmittedExit, Exits
<1>4. CASE Recheck \/ ReadWorkAnswer \/ ShowWallet
  <2>1. op' = op /\ pc \in {"recheck", "work answer", "wallet read"}
    BY <1>4 DEF Recheck, ReadWorkAnswer, ShowWallet, Go, Leave
  <2>2. QED
    BY <1>1, <2>1 DEF OpWhere, Searched, Transfers, WalletReads, Mining
<1>5. CASE Create \/ EnableMining \/ Set
  <2>1. op' = op /\ op \in Creations \cup {"mining enable"} \cup Settings
    BY <1>5 DEF Create, EnableMining, Set, Leave, Started
  <2>2. QED
    BY <1>1, <2>1 DEF Creations, Settings, Transfers
<1>6. CASE Idle
  <2>1. UNCHANGED <<pc, op, rc, run>>
    BY <1>6 DEF Idle, CloseWindow, Judge, NextBlockChanges, Include, vars
  <2>2. admitted \subseteq admitted'
    BY <1>6 DEF Idle, CloseWindow, Judge, Takes, NextBlockChanges, Include, vars
  <2>3. QED
    BY <1>2, <2>1, <2>2
<1>7. CASE Unconcerned
  <2>1. pc' = "exited" /\ rc' = 0 => op' \in Unbound
    BY <1>7, FailedIsNotDone DEF Unconcerned
  <2>2. QED
    BY <1>1, <2>1 DEF Unbound, Reports, Queries, Statuses, Transfers
<1>8. QED
  BY <1>3, <1>4, <1>5, <1>6, <1>7, Endings DEF Succeeding

LEMMA StoredExitStep ==
  StoredType /\ OpWhere /\ WalletWhere /\ StoredExit /\ [Next]_vars => StoredExit'
<1> SUFFICES ASSUME StoredType, OpWhere, WalletWhere, StoredExit, [Next]_vars PROVE StoredExit'
  OBVIOUS
<1> DEFINE Bound == Creations \cup WalletReads \cup {"mining enable", "mining disable"}
<1>1. CASE pc' = "exited" /\ rc' = 0 => op' \notin Bound
  BY <1>1 DEF StoredExit, Exits
<1>2. CASE UNCHANGED <<pc, op, rc, file, enabled>>
  BY <1>2 DEF StoredExit, Exits, Usable
<1>3. CASE Create
  <2>1. op' = op /\ op \in Creations
    BY <1>3 DEF Create, Leave, Started
  <2>2. Subject(op) \in {"wallet", "identity", "draft"}
    BY DEF Subject
  <2>3. pc' = "exited" /\ rc' = 0 => file'[Subject(op)] = "valid"
    BY <1>3, <2>2 DEF Create, Leave, StoredType
  <2>4. QED
    BY <2>1, <2>3 DEF StoredExit, Exits, Creations, WalletReads
<1>4. CASE EnableMining
  <2>1. op' = "mining enable" /\ (rc' = 1 \/ (enabled' /\ Usable'))
    BY <1>4 DEF EnableMining, Leave, Started, Usable
  <2>2. QED
    BY <2>1, FailedIsNotDone DEF StoredExit, Exits, Creations, WalletReads
<1>5. CASE Set
  <2>1. op' \in Settings /\ (rc' = 1 \/ enabled' = (enabled /\ op # "mining disable"))
    BY <1>5 DEF Set, Leave, Started
  <2>2. op' = op
    BY <1>5 DEF Set, Leave
  <2>3. QED
    BY <2>1, <2>2, FailedIsNotDone DEF StoredExit, Exits, Creations, WalletReads, Settings
<1>6. CASE ShowWallet
  <2>1. op' \in WalletReads /\ Usable'
    BY <1>6 DEF ShowWallet, Leave, OpWhere, WalletWhere, Usable
  <2>2. QED
    BY <2>1 DEF StoredExit, Exits, Creations, WalletReads
<1>7. CASE Recheck \/ ReadWorkAnswer \/ ReadTransactionAnswer \/ ReadBalance
  <2>1. op' = op /\ pc \in {"recheck", "work answer", "transaction answer", "balance"}
    BY <1>7 DEF Recheck, ReadWorkAnswer, ReadTransactionAnswer, Rejected, Lost, ReadBalance,
       Go, Leave
  <2>2. QED
    BY <1>1, <2>1 DEF OpWhere, Searched, Transfers, WalletReads, Mining, Creations
<1>8. CASE Idle
  BY <1>2, <1>8 DEF Idle, CloseWindow, Judge, NextBlockChanges, Include, vars
<1>9. CASE Unconcerned
  <2>1. pc' = "exited" /\ rc' = 0 => op' \in Unbound
    BY <1>9, FailedIsNotDone DEF Unconcerned
  <2>2. QED
    BY <1>1, <2>1 DEF Unbound, Reports, Queries, Statuses, Creations, WalletReads
<1>10. QED
  BY <1>3, <1>4, <1>5, <1>6, <1>7, <1>8, <1>9, Endings DEF Succeeding

LEMMA ToldStep ==
  TypeOK /\ OpWhere /\ SentWhere /\ ToldTruth /\ [Next]_vars => ToldTruth'
<1> SUFFICES ASSUME TypeOK, OpWhere, SentWhere, ToldTruth, [Next]_vars PROVE ToldTruth'
  OBVIOUS
<1>0. StoredType /\ MiningType /\ ChainType /\ LineType
  BY TypeParts
<1> USE DEF ToldTruth, SentWhere, SentOnce, JudgedOnce, Taken, Pending, Waiting
<1>1. CASE Within
  BY <1>1 DEF Within
<1>2. CASE Sends
  BY <1>2 DEF Sends
<1>3. CASE Aside
  BY <1>3 DEF Aside
<1>4. CASE Begin
  <2>1. /\ verdict' = "none" /\ heard' = "none"
        /\ pc' = "exited" => told' = "initialization failed"
        /\ UNCHANGED <<sent, mined, admitted, included, watch>>
    BY <1>4 DEF Begin
  <2>2. ~Taken(run)' /\ ~Pending(run)'
    BY <1>0, <1>4, Fresh
  <2>3. QED
    BY <2>1, <2>2
<1>5. CASE ReadWorkAnswer
  <2>1. /\ pc = "work answer" /\ heard = "none" /\ op \in Mining /\ op' = op
        /\ UNCHANGED <<run, sent, verdict, mined, admitted, included, watch>>
    BY <1>5 DEF ReadWorkAnswer, Leave, OpWhere, Searched
  <2>2. \/ verdict = "taken" /\ heard' = "taken" /\ told' = "accepted"
        \/ verdict = "refused" /\ heard' = "refused" /\ told' = "not accepted"
        \/ heard' = "none" /\ told' = "not accepted"
    BY <1>5, <2>1 DEF ReadWorkAnswer, Hears, HearsNothing, Leave
  <2>3. QED
    BY <2>1, <2>2
<1>6. CASE ReadTransactionAnswer
  <2>1. /\ pc = "transaction answer" /\ heard = "none" /\ op' = op
        /\ op \in Transfers \cup {"create contract"}
        /\ UNCHANGED <<run, sent, verdict, mined, admitted, included, announced>>
    BY <1>6 DEF ReadTransactionAnswer, Go, Leave, Rejected, Lost, OpWhere
  <2>2. \/ /\ verdict = "taken" /\ heard' = "taken" /\ tracked' \in {tracked, run}
           /\ pc' = "balance" \/ told' = "admitted"
        \/ verdict = "refused" /\ heard' = "refused" /\ told' = "rejected" /\ tracked' = tracked
        \/ heard' = "none" /\ told' = Unsubmitted /\ tracked' = tracked
    BY <1>6, <2>1
      DEF ReadTransactionAnswer, Hears, HearsNothing, Follow, Go, Leave, Rejected, Lost
  <2>3. op \notin Mining
    BY <2>1 DEF Transfers, Mining
  <2>4. QED
    BY <2>1, <2>2, <2>3 DEF Unsubmitted
<1>7. CASE ReadBalance
  <2>1. /\ pc = "balance" /\ heard = "taken" /\ verdict = "taken" /\ op \in Transfers
        /\ op \notin Mining
    BY <1>7 DEF ReadBalance, OpWhere, Transfers, Mining
  <2>2. /\ UNCHANGED <<run, line, mined, admitted, included, announced>>
        /\ told' = "admitted" /\ tracked' \in {tracked, run}
    BY <1>7 DEF ReadBalance, Leave, Follow
  <2>3. QED
    BY <2>1, <2>2
<1>8. CASE Refresh
  BY <1>8 DEF Refresh, Leave, Started
<1>9. CASE Judge
  <2>1. PICK j \in sent :
          /\ sent' = sent \ {j} /\ UNCHANGED <<run, op, pc, told, heard, included, watch>>
          /\ mined' \in {mined, mined \cup {j.run}}
          /\ admitted' \in {admitted, admitted \cup {j.run}}
    BY <1>9 DEF Judge, Takes
  <2>2. (Taken(run)' \/ Pending(run)') => Taken(run) \/ Pending(run)
    BY <2>1
  <2>3. Taken(run) => Taken(run)'
    BY <2>1
  <2>4. admitted \subseteq admitted'
    BY <2>1
  <2>5. QED
    BY <2>1, <2>2, <2>3, <2>4
<1>10. CASE Include
  BY <1>10 DEF Include
<1>11. QED
  BY <1>0, <1>1, <1>2, <1>3, <1>4, <1>5, <1>6, <1>7, <1>8, <1>9, <1>10, Kinds

-----------------------------------------------------------------------------
(* Theorems.                                                               *)

ExitInv == MiningExit /\ AdmittedExit /\ StoredExit
Inv ==
  /\ TypeOK
  /\ HeldWhere /\ OpWhere /\ SentWhere /\ SearchedWhere /\ WalletWhere
  /\ ExitInv /\ ToldTruth

LEMMA ExitParts == ExitTrue <=> ExitInv
BY Zenon DEF ExitTrue, ExitInv, MiningExit, AdmittedExit, StoredExit

LEMMA Invariance == Spec => []Inv
<1>1. Init => Inv
  BY InitTypes, InitInvariant, ExitParts DEF Inv
<1>2. Inv /\ [Next]_vars => Inv'
  <2> SUFFICES ASSUME Inv, [Next]_vars PROVE Inv'
    OBVIOUS
  <2>1. ProcessType /\ ChainType /\ LineType /\ StoredType /\ MiningType
    BY TypeParts DEF Inv
  <2>2. ProcessType' /\ StoredType'
    BY <2>1, ProcessStep, StoredStep
  <2>3. (pc # "exited" => run >= 1) /\ (pc = "search" => attempts >= 1)
    BY DEF Inv, SentWhere, SearchedWhere, BeforeSearch
  <2>4. ChainType' /\ LineType' /\ MiningType'
    BY <2>1, <2>3, ChainStep, LineStep, MiningStep DEF Inv
  <2>5. TypeOK'
    BY <2>2, <2>4, TypeParts, PTL
  <2>6. HeldWhere' /\ OpWhere' /\ WalletWhere'
    BY HeldStep, OpStep, WalletStep DEF Inv
  <2>7. SentWhere' /\ SearchedWhere'
    BY <2>1, SentStep, SearchedStep DEF Inv
  <2>8. ExitInv'
    BY <2>1, MiningExitStep, AdmittedExitStep, StoredExitStep DEF Inv, ExitInv
  <2>9. ToldTruth'
    BY ToldStep DEF Inv
  <2>10. QED
    BY <2>5, <2>6, <2>7, <2>8, <2>9 DEF Inv
<1>3. QED
  BY <1>1, <1>2, PTL DEF Spec

\* Every variable keeps its type, whatever Chain answers: in particular the
\* nonces a search returns are of 64 bits.
THEOREM TypeCorrect == Spec => []TypeOK
<1>1. Inv => TypeOK
  BY DEF Inv
<1>2. QED
  BY <1>1, Invariance, PTL

\* On every way out of every operation its key is cleared and its buffers are
\* released, and no key is held while nonces are searched.
THEOREM HoldsNothing == Spec => []NothingHeld
<1>1. Inv => NothingHeld
  BY DEF Inv, TypeOK, HeldWhere, NothingHeld, Buffers
<1>2. QED
  BY <1>1, Invariance, PTL

\* What the user is told of a submission after Chain's answer was read is how
\* Chain judged it; without an answer no text says that Chain has taken it, and
\* of one that Chain has taken or may still take only the texts for a failure
\* are told, the two untrue ones of ToldTruth among them.
THEOREM TellsTruth == Spec => []ToldTruth
<1>1. Inv => ToldTruth
  BY DEF Inv
<1>2. QED
  BY <1>1, Invariance, PTL

\* Exit code 0 means that what was asked for is done, for any solutions, any
\* first nonce, any number of attempts and any change of Chain's next block.
THEOREM ExitsTrue == Spec => []ExitTrue
<1>1. Inv => ExitTrue
  BY ExitParts DEF Inv
<1>2. QED
  BY <1>1, Invariance, PTL

=============================================================================
