-------------------------- MODULE BackgroundMining --------------------------
(***************************************************************************)
(* Background mining (stnc_background_mining.c with stnc_stratum_client.c, *)
(* stnc_mining_service.c, the timed search of stnc_mining.c and            *)
(* stnc_compensation.c): what stnc_background_mining_tick does, call by    *)
(* call, on the session with a Stratum provider that pushes JOBs at any    *)
(* time, answers a SUBMIT in its own time and may go away.                 *)
(*                                                                         *)
(* The configuration changes between ticks, on the thread that ticks.  The *)
(* window changes the active profile, and with it the identity on disk, at *)
(* any time.  Time is counted in the waits of the runtime's loop.          *)
(***************************************************************************)
EXTENDS Naturals, Sequences

CONSTANTS
  Works, NoWork,            \* the work identifiers of the provider's JOBs
  Endpoints, NoEndpoint,    \* Stratum services, by host and port
  Identities, NoIdentity,   \* stn0_ addresses of the local profiles
  MaxNonce,                 \* UINT64_MAX: the largest nonce
  MaxElapsed,               \* bound: time from one tick to the next
  MaxWire,                  \* bound: frames on their way from the provider
  WorkTicks,     \* STNC_BACKGROUND_MINING_RETRY_MS / STNC_RUNTIME_WAIT_MS
  RecheckTicks,  \* STNC_BACKGROUND_COMPENSATION_RECHECK_MS / STNC_RUNTIME_WAIT_MS
  RetryTicks     \* STNC_BACKGROUND_COMPENSATION_RETRY_MS / STNC_RUNTIME_WAIT_MS

ASSUME NoValuesAssumption ==
  NoWork \notin Works /\ NoEndpoint \notin Endpoints /\ NoIdentity \notin Identities
ASSUME NumbersAssumption ==
  /\ MaxNonce \in Nat
  /\ {MaxElapsed, MaxWire, WorkTicks, RecheckTicks, RetryTicks} \subseteq Nat \ {0}
  /\ RetryTicks <= RecheckTicks

VARIABLES
  pc,          \* the call the tick makes next; "off" while not initialized
  config,      \* the mining part of active_config
  applied,     \* applied_enabled, applied_backend, applied_stratum_*
  identity,    \* the identity of the active profile, on disk
  miner,       \* the identity this tick has read, until it ends
  ready,       \* compensation_ready
  compWait,    \* time until compensation_check_ms
  session,     \* stratum: the provider it was opened with
  alive,       \* the session's TCP connection is intact
  wire,        \* frames of the provider that Core has not read
  owed,        \* the provider has a SUBMIT it has not answered
  job,         \* active_job, NoJob while have_job is 0
  block,       \* the work whose block is in the block buffer
  next,        \* next_nonce
  workWait,    \* time until next_work_ms
  running,     \* service_status.running
  found,       \* the nonce this tick has found, until it ends
  tried,       \* history: nonces of active_job that were hashed
  registered,  \* history: identities whose compensation destination Chain took
  settled      \* history: how long, up to RecheckTicks, the profile has been the same
               \* and no recheck of its registration has failed

environment == <<config, identity>>
compensation == <<ready, compWait, registered, settled>>
net == <<session, alive, wire, owed>>
work == <<job, block, next, tried, workWait, running>>
vars == <<pc, applied, miner, environment, compensation, net, work, found>>

-----------------------------------------------------------------------------
Places == {"idle", "ensure", "connect", "poll", "search", "submit", "result", "off"}
Backends == {"automatic", "cpu", "gpu"}     \* usb-asic is treated as gpu is
Nonces == 0..MaxNonce
Codes == {"ACCEPTED", "REJECTED", "STALE", "PROVIDER", "MALFORMED"}

Settings == [enabled : BOOLEAN, backend : Backends, endpoint : Endpoints]

Session(connected, endpoint) == [connected |-> connected, endpoint |-> endpoint]
NoSession == Session(FALSE, NoEndpoint)
SessionType == [connected : {TRUE}, endpoint : Endpoints] \cup {NoSession}

\* A good JOB passes stnc_stratum_parse_job_header and stnc_stratum_validate_job_block.
Job(id, nonce, good) == [type |-> "JOB", work |-> id, nonce |-> nonce, good |-> good]
Result(code) == [type |-> "RESULT", code |-> code]
Frames ==
  [type : {"JOB"}, work : Works, nonce : Nonces, good : BOOLEAN]
    \cup [type : {"RESULT"}, code : Codes]

Work(id, nonce, provider) == [work |-> id, nonce |-> nonce, from |-> provider]
NoJob == Work(NoWork, 0, NoEndpoint)
WorkType == [work : Works, nonce : Nonces, from : Endpoints] \cup {NoJob}

Less(wait, elapsed) == IF elapsed >= wait THEN 0 ELSE wait - elapsed

Init ==
  /\ pc = "idle"
  /\ config \in Settings /\ applied = config
  /\ identity \in Identities \cup {NoIdentity} /\ miner = NoIdentity
  /\ ready = FALSE /\ compWait = 0 /\ registered = {} /\ settled = 0
  /\ session = NoSession /\ alive = FALSE /\ wire = <<>> /\ owed = FALSE
  /\ job = NoJob /\ block = NoWork /\ next = 0 /\ tried = {}
  /\ workWait = 0 /\ running = FALSE
  /\ found = 0

TickEnds == pc' = "idle" /\ miner' = NoIdentity /\ found' = 0

TickGoesOn(place) == pc' = place /\ miner' = miner /\ found' = found

-----------------------------------------------------------------------------
ClearActiveWork ==
  /\ job' = NoJob /\ block' = NoWork /\ next' = 0 /\ tried' = {}
  /\ workWait' = 0
  /\ running' = FALSE

Disconnect == session' = NoSession /\ alive' = FALSE /\ wire' = <<>> /\ owed' = FALSE

\* Fault: the connection is closed and its work goes on.
DisconnectOnly == Disconnect /\ UNCHANGED work

ClearStratumWork == Disconnect /\ ClearActiveWork

\* Fault: each tick sets next_work_ms before it is compared.
WorkWaitRearmed(elapsed) == IF workWait > 0 THEN WorkTicks ELSE 0

WorkWait(elapsed) == Less(workWait, elapsed)

\* Fault: each tick that finds the registration ready puts the recheck off.
CompensationWaitRearmed(elapsed) == IF ready THEN RecheckTicks ELSE Less(compWait, elapsed)

CompensationWait(elapsed) == Less(compWait, elapsed)

CoreMines == config.enabled /\ config.backend \in {"automatic", "cpu"}

\* Fault: only the switch ends the session.
ClosesSessionIfDisabled == ~config.enabled

ClosesSession == ~CoreMines \/ config.endpoint # applied.endpoint

\* apply_runtime_config.
ApplyRuntimeConfig(elapsed) ==
  /\ applied' = config
  /\ \/ ClosesSession /\ ClearStratumWork
     \/ /\ ~ClosesSession
        /\ UNCHANGED net
        /\ IF config.backend # applied.backend
           THEN ClearActiveWork
           ELSE workWait' = WorkWait(elapsed) /\ UNCHANGED <<job, block, next, tried, running>>

\* The tick goes on to mine, if it may.
MinesOrEnds == IF CoreMines THEN TickGoesOn("connect") ELSE TickEnds

\* No identity: nothing to mine for and nothing to register.
TickWithoutIdentity ==
  /\ pc = "idle" /\ identity = NoIdentity
  /\ applied' = config
  /\ ready' = FALSE /\ compWait' = 0
  /\ ClearStratumWork
  /\ TickEnds
  /\ UNCHANGED <<environment, registered, settled>>

TickBegins ==
  /\ pc = "idle" /\ identity # NoIdentity
  /\ \E elapsed \in 1..MaxElapsed :
       /\ ApplyRuntimeConfig(elapsed)
       /\ compWait' = CompensationWait(elapsed)
       /\ settled' = IF settled + elapsed < RecheckTicks THEN settled + elapsed
                     ELSE RecheckTicks
  /\ CASE compWait' = 0              -> pc' = "ensure" /\ miner' = identity
       [] compWait' > 0 /\ CoreMines /\ ready -> pc' = "connect" /\ miner' = identity
       [] OTHER                      -> UNCHANGED <<pc, miner>>
  /\ UNCHANGED <<environment, ready, registered, found>>

\* stnc_compensation_ensure reads the active profile again.
Ensure ==
  /\ pc = "ensure"
  /\ \/ /\ identity # NoIdentity
        /\ registered' = registered \cup {identity}
        /\ ready' = TRUE /\ compWait' = RecheckTicks
        /\ UNCHANGED settled
     \/ /\ compWait' = RetryTicks
        /\ settled' = IF ready THEN 0 ELSE settled
        /\ UNCHANGED <<ready, registered>>
  /\ IF ready' THEN MinesOrEnds ELSE TickEnds
  /\ IF ready' /\ ~CoreMines THEN ClearStratumWork ELSE UNCHANGED <<net, work>>
  /\ UNCHANGED <<applied, environment>>

\* stnc_stratum_client_connect, with the ADDRESS frame.
Connect ==
  /\ pc = "connect"
  /\ \/ /\ session.connected
        /\ TickGoesOn("poll")
        /\ UNCHANGED <<net, running>>
     \/ /\ ~session.connected
        /\ session' = Session(TRUE, config.endpoint)
        /\ alive' = TRUE
        /\ TickGoesOn("poll")
        /\ UNCHANGED <<wire, owed, running>>
     \/ /\ ~session.connected
        /\ running' = FALSE
        /\ TickEnds
        /\ UNCHANGED net
  /\ UNCHANGED <<applied, environment, compensation, job, block, next, tried, workWait>>

-----------------------------------------------------------------------------
(* stnc_stratum_client_poll_job and what the tick does with its answer.    *)

\* The tick searches, once the job has waited long enough.
SearchesOrEnds ==
  IF job' # NoJob /\ workWait' = 0 THEN TickGoesOn("search") ELSE TickEnds

PollNothing ==
  /\ pc = "poll" /\ wire = <<>>
  /\ UNCHANGED <<applied, environment, compensation, net, work>>
  /\ SearchesOrEnds

\* Fault: a job replaces the one before and the search goes on from its nonce.
FirstNonceKept(frame) == IF job = NoJob THEN frame.nonce ELSE next

FirstNonce(frame) == frame.nonce

PollJob ==
  /\ pc = "poll" /\ wire # <<>>
  /\ LET frame == Head(wire)
     IN  /\ frame.type = "JOB" /\ frame.good
         /\ job' = Work(frame.work, frame.nonce, session.endpoint)
         /\ block' = frame.work
         /\ next' = FirstNonce(frame)
  /\ tried' = {}
  /\ workWait' = 0
  /\ wire' = Tail(wire)
  /\ SearchesOrEnds
  /\ UNCHANGED <<applied, environment, compensation, session, alive, owed, running>>

\* The frame is no JOB, a bad one, or incomplete when the connection ends.
PollFails ==
  /\ pc = "poll"
  /\ IF wire = <<>> THEN ~alive
     ELSE ~ (Head(wire).type = "JOB" /\ Head(wire).good)
  /\ ClearStratumWork
  /\ TickEnds
  /\ UNCHANGED <<applied, environment, compensation>>

-----------------------------------------------------------------------------
(* One pass of search_target_timed, whose progress is reported.            *)

StartPass == workWait' = WorkTicks /\ running' = TRUE

SearchFinds ==
  /\ pc = "search"
  /\ StartPass
  /\ found' \in next..MaxNonce
  /\ tried' = tried \cup next..found'
  /\ pc' = "submit"
  /\ UNCHANGED <<applied, miner, environment, compensation, net, job, block, next>>

\* Nothing found within the pass, which ends with the nonces at the latest.
SearchExhausts ==
  /\ pc = "search"
  /\ \E attempts \in 1..(MaxNonce - next + 1) :
       IF attempts > MaxNonce - next
       THEN ClearActiveWork
       ELSE /\ StartPass
            /\ next' = next + attempts
            /\ tried' = tried \cup next..(next + attempts - 1)
            /\ UNCHANGED <<job, block>>
  /\ TickEnds
  /\ UNCHANGED <<applied, environment, compensation, net>>

\* The hash could not be computed.
SearchFails ==
  /\ pc = "search"
  /\ ClearActiveWork
  /\ TickEnds
  /\ UNCHANGED <<applied, environment, compensation, net>>

\* The pass ended, with a share or without, and its progress could not be sent.
ProgressFails ==
  /\ pc = "search" /\ ~alive
  /\ ClearStratumWork
  /\ TickEnds
  /\ UNCHANGED <<applied, environment, compensation>>

-----------------------------------------------------------------------------
(* stnc_stratum_client_submit: a SUBMIT, and a read of its RESULT.         *)

Submit ==
  /\ pc = "submit"
  /\ owed' = alive       \* a broken connection may still take the frame
  /\ pc' = "result"
  /\ UNCHANGED <<applied, miner, environment, compensation, session, alive, wire,
                 work, found>>

SubmitFails ==
  /\ pc = "submit" /\ ~alive
  /\ ClearStratumWork
  /\ TickEnds
  /\ UNCHANGED <<applied, environment, compensation>>

\* A stale or refused work is given up, the session kept.
DiscardsWork == ClearActiveWork /\ wire' = Tail(wire) /\ UNCHANGED <<session, alive, owed>>

AfterShare ==
  IF found = MaxNonce THEN ClearActiveWork
  ELSE next' = found + 1 /\ UNCHANGED <<job, block, tried, workWait, running>>

ShareAnswered ==
  /\ pc = "result" /\ wire # <<>>
  /\ Head(wire).type = "RESULT"
  /\ \/ /\ Head(wire).code \in {"STALE", "MALFORMED"}
        /\ DiscardsWork
     \/ /\ Head(wire).code \in {"ACCEPTED", "REJECTED", "PROVIDER"}
        /\ wire' = Tail(wire)
        /\ UNCHANGED <<session, alive, owed>>
        /\ AfterShare
  /\ TickEnds
  /\ UNCHANGED <<applied, environment, compensation>>

GivesUpSession == ClearStratumWork

\* The frame read is a JOB, or none came in time.
ShareUnanswered ==
  /\ pc = "result"
  /\ wire # <<>> => Head(wire).type = "JOB"
  /\ GivesUpSession
  /\ TickEnds
  /\ UNCHANGED <<applied, environment, compensation>>

\* stnc_background_mining_shutdown.
Shutdown ==
  /\ pc = "idle"
  /\ ClearStratumWork
  /\ ready' = FALSE /\ compWait' = 0
  /\ pc' = "off"
  /\ UNCHANGED <<applied, miner, environment, registered, settled, found>>

-----------------------------------------------------------------------------
(* The surroundings: commands on the owner thread between two ticks, the   *)
(* window's thread, and the provider.                                      *)

ConfigChanges ==
  /\ pc = "idle"
  /\ config' \in Settings
  /\ UNCHANGED <<pc, applied, miner, identity, compensation, net, work, found>>

ProfileChanges ==
  /\ identity' \in (Identities \cup {NoIdentity}) \ {identity}
  /\ settled' = 0
  /\ UNCHANGED <<pc, applied, miner, config, ready, compWait, registered, net, work,
                 found>>

Arrives(frame) ==
  /\ alive /\ Len(wire) < MaxWire
  /\ wire' = Append(wire, frame)
  /\ UNCHANGED <<pc, applied, miner, environment, compensation, session, alive, work,
                 found>>

ProviderJob ==
  /\ \E id \in Works, nonce \in Nonces, good \in BOOLEAN : Arrives(Job(id, nonce, good))
  /\ UNCHANGED owed

ProviderAnswers ==
  /\ owed /\ owed' = FALSE
  /\ \E code \in Codes : Arrives(Result(code))

LinkBreaks ==
  /\ alive /\ alive' = FALSE /\ owed' = FALSE
  /\ wire' \in {wire, <<>>}
  /\ UNCHANGED <<pc, applied, miner, environment, compensation, session, work, found>>

-----------------------------------------------------------------------------
Tick ==
  \/ TickWithoutIdentity \/ TickBegins \/ Ensure \/ Connect
  \/ PollNothing \/ PollJob \/ PollFails
  \/ SearchFinds \/ SearchExhausts \/ SearchFails \/ ProgressFails
  \/ Submit \/ SubmitFails \/ ShareAnswered \/ ShareUnanswered

Provider == ProviderJob \/ ProviderAnswers \/ LinkBreaks

Next == Tick \/ Shutdown \/ ConfigChanges \/ ProfileChanges \/ Provider

Spec == Init /\ [][Next]_vars

\* CoreRuntime keeps ticking while Chain is connected, and every call ends.
FairSpec == Spec /\ WF_vars(Tick)
-----------------------------------------------------------------------------
(* Properties.                                                             *)

\* Every variable keeps its type.
TypeOK ==
  /\ pc \in Places
  /\ config \in Settings /\ applied \in Settings
  /\ {identity, miner} \subseteq Identities \cup {NoIdentity}
  /\ ready \in BOOLEAN /\ compWait \in Nat /\ registered \subseteq Identities
  /\ settled \in 0..RecheckTicks
  /\ session \in SessionType /\ alive \in BOOLEAN
  /\ wire \in Seq(Frames) /\ owed \in BOOLEAN
  /\ job \in WorkType /\ block \in Works \cup {NoWork} /\ next \in Nonces
  /\ tried \subseteq Nonces /\ workWait \in Nat /\ running \in BOOLEAN
  /\ found \in Nonces

\* Core holds work only of the session that is open: its block is in the buffer,
\* the provider that sent it will get its shares, and only held work is shown as
\* running, across reconnects, other endpoints and jobs replaced in place.
WorkOfSession ==
  /\ block = job.work
  /\ job # NoJob => session.connected /\ job.from = session.endpoint
  /\ running => job # NoJob

\* Each pass takes up where the one before left off: no nonce of a job is hashed
\* twice, none is skipped and none wraps around.
NoncesInOrder ==
  job # NoJob =>
    tried = job.nonce..(IF pc \in {"submit", "result"} THEN found ELSE next - 1)

\* An answer to a share is read for that share: none is under way at any other
\* time, when the tick would take it for a broken JOB.
ResultsAwaited ==
  owed \/ (\E i \in DOMAIN wire : wire[i].type = "RESULT") =>
    /\ pc = "result"
    /\ job # NoJob

\* Past the compensation check a tick serves the configuration of its beginning:
\* mining by Core is on, and the session open is one with the configured provider.
MinesAsConfigured ==
  pc \in {"connect", "poll", "search", "submit", "result"} =>
    /\ CoreMines
    /\ session.connected => session.endpoint = config.endpoint

\* A session is opened only for an identity whose registration Chain has taken.  That
\* compensation_ready outlives a switch of the profile, and that tick and registration
\* read the profile each on its own, lets a session for another identity through in two
\* cases only: the profile was switched inside this tick, or less than the recheck
\* interval ago, counted from the last recheck that failed if one did.
OpensRegistered ==
  [][~session.connected /\ session'.connected /\ miner \notin registered =>
       identity # miner \/ settled < RecheckTicks]_vars

\* The comment of apply_runtime_config: "Only a deliberate stop/non-CPU selection or
\* a changed Stratum endpoint tears down a healthy session."  So it is, but for a
\* missing identity, a shutdown, and what the provider failed to say in order.
InOrder ==
  \/ pc = "poll" /\ wire # <<>> /\ Head(wire).type = "JOB" /\ Head(wire).good
  \/ pc = "poll" /\ wire = <<>>
  \/ pc = "result" /\ wire # <<>> /\ Head(wire).type = "RESULT"
  \/ pc \notin {"poll", "result"}
SessionKept ==
  [][session.connected /\ ~session'.connected /\ alive /\ InOrder =>
       \/ pc' = "off"
       \/ identity = NoIdentity
       \/ ~CoreMines
       \/ config.endpoint # applied.endpoint]_vars

\* While some identity is on disk its registration is checked again and again.
RegistrationRechecked ==
  <>[](identity # NoIdentity /\ pc # "off") => []<>(pc = "ensure")

\* Held work is searched again, unless it is given up.
SearchRepeats == job # NoJob ~> (pc = "search" \/ job = NoJob)

=============================================================================
