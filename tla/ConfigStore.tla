----------------------------- MODULE ConfigStore -----------------------------
(***************************************************************************)
(* The configuration store: config.json beside the program, shared by the  *)
(* runtime (which reloads it every second and saves from the window) and   *)
(* by every command line run (which starts, may set one mining option, and *)
(* stops).  Nothing but the file system keeps them apart, so each call on  *)
(* a file is a step of its own.                                            *)
(*                                                                         *)
(* A document is a record of the settings the code tells apart: the        *)
(* network half (peers, ports, Stratum), which no operation changes, and   *)
(* the three mining options, one setter each.                              *)
(***************************************************************************)
EXTENDS Naturals, FiniteSets

CONSTANTS
  Process,           \* the programs that use one config.json
  Core,              \* those that are runtimes, and so reload and save
  Network,           \* values of the network half
  Backend,           \* mining backends the setter accepts
  DefaultNetwork,    \* what stnc_config_set_defaults writes
  DefaultBackend,
  InitialFiles,      \* what config.json may be when the model starts
  MaxFaults          \* bound: crashes and refused file calls in a behaviour

CpuLimit == 1..2

Document ==
  [network : Network, enabled : BOOLEAN, backend : Backend, limit : CpuLimit]

Defaults ==
  [network |-> DefaultNetwork, enabled |-> FALSE,
   backend |-> DefaultBackend, limit |-> 2]

\* A file that is not there, and one whose writer has not closed it.
Absent == [missing |-> TRUE]
Torn == [missing |-> FALSE]
File == Document \union {Absent, Torn}

\* active_config of a process that is not initialized, zeroed by memset.
Cleared == Absent
Memory == Document \union {Cleared}

ASSUME ConfigAssumption ==
  /\ Core \subseteq Process
  /\ DefaultNetwork \in Network
  /\ DefaultBackend \in Backend
  /\ InitialFiles \subseteq Document \union {Absent}
  /\ MaxFaults \in Nat

VARIABLES
  path,       \* config.json
  tmp,        \* config.json.tmp, one name for every process
  doing,      \* what each process is doing with the two files
  mem,        \* active_config of each process
  previous,   \* what a setter or a reload under way restores when it fails
  faults,     \* crashes and refused calls so far
  alone,      \* history: the saves since whose beginning nobody else wrote
  found       \* history: config.json when this save began

configVars == <<path, tmp, doing, mem, previous, faults, alone, found>>
locals == <<previous, alone, found>>

Saving == {"writing", "removing", "renaming"}
Creating == {"absent", "creating"}
Reading == {"loading", "reloading"}
Step == {"down", "opening", "ready"} \union Saving \union Creating \union Reading

(***************************************************************************)
(* fopen of the C runtime shares reading and writing but not deletion, so  *)
(* an open handle of any process refuses remove and rename.                *)
(***************************************************************************)
PathHeld == \E q \in Process : doing[q] \in Reading \union {"creating"}
TmpHeld == \E q \in Process : doing[q] = "writing"

\* A call the system refuses: a full disk, a denied access, a scanner.
Fault == faults < MaxFaults /\ faults' = faults + 1
NoFault == UNCHANGED faults

\* Those who write config.json or are about to.
Writers == {q \in Process : doing[q] \in Saving \union Creating}

\* The locals of a save or a reload go out of scope.
Return(p) ==
  /\ previous' = [previous EXCEPT ![p] = Cleared]
  /\ alone' = alone \ {p}
  /\ found' = [found EXCEPT ![p] = Absent]

\* The process is no longer initialized: a failed start, or its end.
GoDown(p) ==
  /\ doing' = [doing EXCEPT ![p] = "down"]
  /\ mem' = [mem EXCEPT ![p] = Cleared]
  /\ Return(p)

ConfigInit ==
  /\ path \in InitialFiles
  /\ tmp = Absent
  /\ doing = [p \in Process |-> "down"]
  /\ mem = [p \in Process |-> Cleared]
  /\ previous = [p \in Process |-> Cleared]
  /\ faults = 0
  /\ alone = {}
  /\ found = [p \in Process |-> Absent]

(***************************************************************************)
(* stnc_config_init                                                        *)
(***************************************************************************)

\* fopen(path, "rb") only asks whether the file is there.
Probe(p) ==
  /\ doing[p] = "down"
  /\ \/ /\ path = Absent
        /\ doing' = [doing EXCEPT ![p] = "absent"]
        /\ mem' = [mem EXCEPT ![p] = Defaults]
        /\ alone' = {}
     \/ /\ path # Absent
        /\ doing' = [doing EXCEPT ![p] = "opening"]
        /\ UNCHANGED <<mem, alone>>
  /\ UNCHANGED <<path, tmp, previous, faults, found>>

\* stnc_config_write_defaults truncates whatever is there by now.
CreateDefaults(p) ==
  /\ doing[p] = "absent"
  /\ \/ /\ NoFault
        /\ path' = Torn
        /\ doing' = [doing EXCEPT ![p] = "creating"]
        /\ UNCHANGED <<mem, locals>>
     \/ Fault /\ GoDown(p) /\ UNCHANGED path
  /\ UNCHANGED tmp

\* The text reaches the file when it is closed; a failure leaves what is there.
DefaultsWritten(p) ==
  /\ doing[p] = "creating"
  /\ \/ /\ NoFault
        /\ path' = Defaults
        /\ doing' = [doing EXCEPT ![p] = "ready"]
        /\ UNCHANGED <<mem, locals>>
     \/ Fault /\ GoDown(p) /\ UNCHANGED path
  /\ UNCHANGED tmp

\* stnc_config_load opens the file again, and it may have gone.
OpenToLoad(p) ==
  /\ doing[p] = "opening"
  /\ \/ /\ path # Absent
        /\ doing' = [doing EXCEPT ![p] = "loading"]
        /\ UNCHANGED <<mem, locals>>
     \/ path = Absent /\ GoDown(p)
  /\ UNCHANGED <<path, tmp, faults>>

Load(p) ==
  /\ doing[p] = "loading"
  /\ \/ /\ path \in Document
        /\ mem' = [mem EXCEPT ![p] = path]
        /\ doing' = [doing EXCEPT ![p] = "ready"]
        /\ NoFault
        /\ UNCHANGED locals
     \/ /\ IF path \in Document THEN Fault ELSE NoFault
        /\ GoDown(p)
  /\ UNCHANGED <<path, tmp>>

(***************************************************************************)
(* stnc_config_reload, once a second in the runtime's loop                 *)
(***************************************************************************)
OpenToReload(p) ==
  /\ p \in Core
  /\ doing[p] = "ready"
  /\ path # Absent
  /\ doing' = [doing EXCEPT ![p] = "reloading"]
  /\ previous' = [previous EXCEPT ![p] = mem[p]]
  /\ UNCHANGED <<path, tmp, mem, faults, alone, found>>

\* Mutant: the previous settings are put back whatever the file held.
ReloadRestores(p) ==
  /\ doing[p] = "reloading"
  /\ mem' = [mem EXCEPT ![p] = previous[p]]
  /\ doing' = [doing EXCEPT ![p] = "ready"]
  /\ Return(p)
  /\ UNCHANGED <<path, tmp, faults>>

Reload(p) ==
  /\ doing[p] = "reloading"
  /\ mem' = [mem EXCEPT ![p] = IF path \in Document THEN path ELSE previous[p]]
  /\ doing' = [doing EXCEPT ![p] = "ready"]
  /\ Return(p)
  /\ UNCHANGED <<path, tmp, faults>>

(***************************************************************************)
(* The setters and stnc_config_write_active                                *)
(***************************************************************************)

\* Mutant: the save opens config.json itself for writing.
BeginSaveInPlace(p, document) ==
  /\ doing[p] = "ready"
  /\ mem' = [mem EXCEPT ![p] = document]
  /\ previous' = [previous EXCEPT ![p] = mem[p]]
  /\ path' = Torn
  /\ doing' = [doing EXCEPT ![p] = "writing"]
  /\ found' = [found EXCEPT ![p] = path]
  /\ alone' = IF Writers = {} THEN {p} ELSE {}
  /\ UNCHANGED <<tmp, faults>>

\* The option is set in memory, and the temporary file opened for writing.
BeginSave(p, document) ==
  /\ doing[p] = "ready"
  /\ \/ /\ NoFault
        /\ mem' = [mem EXCEPT ![p] = document]
        /\ previous' = [previous EXCEPT ![p] = mem[p]]
        /\ tmp' = Torn
        /\ doing' = [doing EXCEPT ![p] = "writing"]
        /\ found' = [found EXCEPT ![p] = path]
        /\ alone' = IF Writers = {} THEN {p} ELSE {}
     \/ /\ Fault
        /\ UNCHANGED <<mem, previous, tmp, doing, alone, found>>
  /\ UNCHANGED path

SetMiningEnabled(p) ==
  \E enabled \in BOOLEAN : BeginSave(p, [mem[p] EXCEPT !.enabled = enabled])
SetMiningBackend(p) ==
  \E backend \in Backend : BeginSave(p, [mem[p] EXCEPT !.backend = backend])
SetMiningCpuLimit(p) ==
  \E limit \in CpuLimit : BeginSave(p, [mem[p] EXCEPT !.limit = limit])

\* Mutant: the failed setter keeps the option it could not store.
AbandonKeeps(p) ==
  /\ doing' = [doing EXCEPT ![p] = "ready"]
  /\ Return(p)
  /\ tmp' = IF \E q \in Process \ {p} : doing[q] = "writing" THEN tmp ELSE Absent
  /\ UNCHANGED mem

\* Every failure of the save after the open: the temporary file is removed,
\* unless another process holds it, and the setter restores the option.
Abandon(p) ==
  /\ doing' = [doing EXCEPT ![p] = "ready"]
  /\ mem' = [mem EXCEPT ![p] = previous[p]]
  /\ Return(p)
  /\ tmp' = IF \E q \in Process \ {p} : doing[q] = "writing" THEN tmp ELSE Absent

\* Mutant: the document is written before the option is set in it.
CloseTmpBeforeSetting(p) ==
  /\ doing[p] = "writing"
  /\ tmp' = previous[p]
  /\ doing' = [doing EXCEPT ![p] = "removing"]
  /\ UNCHANGED <<path, mem, faults, locals>>

CloseTmp(p) ==
  /\ doing[p] = "writing"
  /\ \/ /\ NoFault
        /\ tmp' = mem[p]
        /\ doing' = [doing EXCEPT ![p] = "removing"]
        /\ UNCHANGED <<mem, locals>>
     \/ Fault /\ Abandon(p)
  /\ UNCHANGED path

\* A config.json that is already gone is no failure; one that is open is.
RemoveOld(p) ==
  /\ doing[p] = "removing"
  /\ \/ /\ ~PathHeld
        /\ NoFault
        /\ path' = Absent
        /\ doing' = [doing EXCEPT ![p] = "renaming"]
        /\ UNCHANGED <<tmp, mem, locals>>
     \/ /\ IF PathHeld THEN NoFault ELSE Fault
        /\ Abandon(p)
        /\ UNCHANGED path

\* rename moves whatever the temporary file holds, onto a free name only.
CanRename == path = Absent /\ tmp # Absent /\ ~TmpHeld

Rename(p) ==
  /\ doing[p] = "renaming"
  /\ \/ /\ CanRename
        /\ NoFault
        /\ path' = tmp
        /\ tmp' = Absent
        /\ doing' = [doing EXCEPT ![p] = "ready"]
        /\ Return(p)
        /\ UNCHANGED mem
     \/ /\ IF CanRename THEN Fault ELSE NoFault
        /\ Abandon(p)
        /\ UNCHANGED path

(***************************************************************************)
(* The end of a process: stnc_config_shutdown, or no warning at all        *)
(***************************************************************************)
Stop(p) ==
  /\ doing[p] = "ready"
  /\ GoDown(p)
  /\ UNCHANGED <<path, tmp, faults>>

Crash(p) ==
  /\ doing[p] # "down"
  /\ Fault
  /\ GoDown(p)
  /\ UNCHANGED <<path, tmp>>

ConfigNext ==
  \E p \in Process :
    \/ Probe(p)
    \/ CreateDefaults(p)
    \/ DefaultsWritten(p)
    \/ OpenToLoad(p)
    \/ Load(p)
    \/ OpenToReload(p)
    \/ Reload(p)
    \/ SetMiningEnabled(p)
    \/ SetMiningBackend(p)
    \/ SetMiningCpuLimit(p)
    \/ CloseTmp(p)
    \/ RemoveOld(p)
    \/ Rename(p)
    \/ Stop(p)
    \/ Crash(p)

ConfigSpec == ConfigInit /\ [][ConfigNext]_configVars

(***************************************************************************)
(* A call that has been entered returns, and the runtime's loop comes back *)
(* to its reload every second while the process runs.                      *)
(***************************************************************************)
Continue(p) ==
  \/ CreateDefaults(p) \/ DefaultsWritten(p) \/ OpenToLoad(p) \/ Load(p)
  \/ Reload(p) \/ CloseTmp(p) \/ RemoveOld(p) \/ Rename(p)

Fairness == \A p \in Process : WF_configVars(Continue(p)) /\ WF_configVars(OpenToReload(p))

FairSpec == ConfigSpec /\ Fairness

(***************************************************************************)
(* Properties                                                              *)
(***************************************************************************)
\* Types; and nobody ever holds or stores settings outside what the loader and
\* the setters of stnc_config.c accept.
ConfigTypeOK ==
  /\ path \in File
  /\ tmp \in File
  /\ doing \in [Process -> Step]
  /\ mem \in [Process -> Memory]
  /\ previous \in [Process -> Memory]
  /\ faults \in 0..MaxFaults
  /\ alone \subseteq Process
  /\ found \in [Process -> File]

\* However the saves of several processes interleave on the one temporary
\* file, config.json never holds half a document, unless a process is writing
\* the first one or a process has crashed or been refused a call.
NeverTorn ==
  path = Torn => faults > 0 \/ \E p \in Process : doing[p] = "creating"

\* p reports that its option was saved, or that it was not.
Saved(p) == doing[p] = "renaming" /\ doing'[p] = "ready" /\ path' # Absent
SaveFailed(p) ==
  doing[p] \in Saving /\ doing'[p] = "ready" /\ ~Saved(p) /\ UNCHANGED faults

\* A save that no other save and no first start overlapped, and that reports
\* success, has put the settings of its process into config.json, whatever
\* crashed saves left behind before it.
SavedMeansStored ==
  [][\A p \in Process : Saved(p) /\ p \in alone => path' = mem[p]]_configVars

\* Such a save that reports failure, without a refused call, has changed
\* nothing: config.json is as it found it and the option is restored.
FailureChangesNothing ==
  [][\A p \in Process : SaveFailed(p) /\ p \in alone =>
       path' = found[p] /\ mem'[p] = previous[p]]_configVars

\* A runtime that stays up comes to use what is stored, once the saves and
\* first starts of all the processes have ended and left a document.
Quiet == \A p \in Process : doing[p] \notin Saving \union Creating
StoredIsApplied ==
  \A p \in Core :
    <>[](Quiet /\ path \in Document /\ doing[p] \in {"ready", "reloading"})
      => <>[](mem[p] = path)

\* The network settings the operator stored are those every process runs with:
\* nothing but an absent config.json lets the built-in ones in.  (No operation
\* changes them; a crash inside a save loses them.)
NetworkKept ==
  Absent \notin InitialFiles =>
    \A p \in Process : doing[p] \in {"ready"} \union Saving =>
      \E stored \in InitialFiles : mem[p].network = stored.network
=============================================================================
