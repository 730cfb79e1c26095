---------------------------- MODULE CoreRuntime ----------------------------
(***************************************************************************)
(* The runtime of STNC Core (stnc_core.c with main.c): initialization and  *)
(* its unwinding, the loop of 100 ms ticks with its five timers, the       *)
(* connection to the configured Chain, the session with a selected P2P     *)
(* peer, and the stop request that another thread makes in the console     *)
(* control handler.                                                        *)
(*                                                                         *)
(* Calls on the Chain connection follow RpcChannel: INFO presents accepted *)
(* state, a failed call leaves the link as it was, poisoned or down.  One  *)
(* call, or one sequence of calls nothing can come between, is one step.   *)
(* A tip is named by its network and the order in which Chain adopted it.  *)
(***************************************************************************)
EXTENDS Naturals

CONSTANTS
  Chains,          \* networks a Chain service can serve
  NoChain,         \* the all-zero network and genesis identifiers
  MaxTip,          \* bound: accepted states of each network
  Stoppers,        \* threads that run the console control handler
  RefreshTicks,    \* STNC_CHAIN_REFRESH_INTERVAL_MS / STNC_RUNTIME_WAIT_MS
  ReconnectTicks,  \* STNC_RECONNECT_INTERVAL_MS / STNC_RUNTIME_WAIT_MS
  RootRetryTicks,  \* STNC_ROOT_PEER_RETRY_INTERVAL_MS / STNC_RUNTIME_WAIT_MS
  PeerTicks,       \* STNC_P2P_REFRESH_INTERVAL_MS / STNC_RUNTIME_WAIT_MS
  ReloadTicks      \* STNC_CONFIG_RELOAD_INTERVAL_MS / STNC_RUNTIME_WAIT_MS

ASSUME ChainsAssumption == NoChain \notin Chains
ASSUME MaxTipAssumption == MaxTip \in Nat
ASSUME IntervalsAssumption ==
  {RefreshTicks, ReconnectTicks, RootRetryTicks, PeerTicks, ReloadTicks}
    \subseteq Nat \ {0}

VARIABLES
  state,       \* core_state
  pc,          \* where the owner thread is
  stopper,     \* where each control handler thread is
  up,          \* subsystems that are initialized
  timers,      \* the elapsed counters of stnc_core_tick, in ticks
  endpoint,    \* the Chain service of the configuration in memory
  link, at,    \* chain_connection, and the Chain service it goes to
  known,       \* chain_state
  p2p,         \* p2p_connection, its HELLO's network, the tip of its last STATE
  compared,    \* compared_peer_tip, NoTip while have_peer_comparison is 0
  caps,        \* root_peer_capabilities
  discovered,  \* peer_candidates holds candidates
  infoAge      \* history: ticks on this connection since its last INFO

channel == <<link, at, known>>
peers == <<p2p, compared, caps, discovered>>
vars == <<state, pc, stopper, up, timers, endpoint, channel, peers, infoAge>>

-----------------------------------------------------------------------------
States == {"UNINITIALIZED", "INITIALIZED", "RUNNING", "STOPPING", "STOPPED"}
Stages == {"platform", "log", "config", "network", "handler"}
Places == Stages \cup
  {"connect", "qualify", "root", "directory", "select", "refreshPeer", "probe",
   "mining", "wait", "jobs", "peer", "refresh", "check", "shutdown", "exited"}

Cleared == [available |-> FALSE, chain |-> NoChain, tip |-> 0]
KnownType == [available : {TRUE}, chain : Chains, tip : 0..MaxTip] \cup {Cleared}
Tips == [chain : Chains, tip : 0..MaxTip]
NoTip == [chain |-> NoChain, tip |-> 0]
NoPeer == [connected |-> FALSE, chain |-> NoChain, tip |-> 0]
PeerType == [connected : BOOLEAN, chain : Chains \cup {NoChain}, tip : 0..MaxTip]

KnownTip == [chain |-> known.chain, tip |-> known.tip]
ReportedTip == [chain |-> p2p.chain, tip |-> p2p.tip]

Timer(refresh, reconnect, root, peer, reload) ==
  [refresh |-> refresh, reconnect |-> reconnect, root |-> root, peer |-> peer,
   reload |-> reload]
ZeroTimers == Timer(0, 0, 0, 0, 0)
TimersType ==
  [refresh : 0..RefreshTicks, reconnect : 0..ReconnectTicks,
   root : 0..RootRetryTicks, peer : Nat, reload : 0..ReloadTicks]

Init ==
  /\ state = "UNINITIALIZED"
  /\ pc = "platform"
  /\ stopper = [s \in Stoppers |-> "out"]
  /\ up = {}
  /\ timers = ZeroTimers
  /\ endpoint \in Chains
  /\ link = "down" /\ at \in Chains /\ known = Cleared
  /\ p2p = NoPeer /\ compared = NoTip
  /\ caps = 0 /\ discovered = FALSE
  /\ infoAge = 0

-----------------------------------------------------------------------------
(* The calls on the Chain connection, as RpcChannel allows them.           *)

\* INFO answered: the state of the Chain service the link goes to.
Informed ==
  /\ link = "clean"
  /\ \E tip \in 0..MaxTip :
       /\ known.available /\ known.chain = at => tip >= known.tip
       /\ known' = [available |-> TRUE, chain |-> at, tip |-> tip]
  /\ infoAge' = 0
  /\ UNCHANGED <<link, at>>

\* Fault: a failed call takes what an earlier one left unread for its own answer.
AfterFailureDrains(l) == {"clean", "down"} \cup (IF l = "clean" THEN {"poisoned"} ELSE {})

\* What a failed call leaves of a link.
AfterFailure(l) == {l, "down"} \cup (IF l = "clean" THEN {"poisoned"} ELSE {})

\* INFO failed, or found the link closed.
InfoFailed ==
  /\ link' = "down"
  /\ known' = Cleared
  /\ UNCHANGED <<at, infoAge>>

-----------------------------------------------------------------------------
(* stnc_core_init.                                                         *)

\* The subsystem initialized after the given one.
NextStage(stage) ==
  CASE stage = "platform" -> "log"
    [] stage = "log"      -> "config"
    [] stage = "config"   -> "network"
    [] stage = "network"  -> "handler"
    [] stage = "handler"  -> "connect"

\* stnc_platform_shutdown also ends the network and removes the handler.
PlatformShutdown == {"platform", "network", "handler"}

\* Fault: a failure to install the handler forgets the log file.
UnwindForgetsLog(stage) ==
  CASE stage = "platform" -> {}
    [] stage = "log"      -> PlatformShutdown
    [] stage = "config"   -> {"log"} \cup PlatformShutdown
    [] stage = "network"  -> {"config", "log"} \cup PlatformShutdown
    [] stage = "handler"  -> {"network", "config"} \cup PlatformShutdown

\* What the error path of a stage shuts down.
Unwind(stage) ==
  CASE stage = "platform" -> {}
    [] stage = "log"      -> PlatformShutdown
    [] stage = "config"   -> {"log"} \cup PlatformShutdown
    [] stage = "network"  -> {"config", "log"} \cup PlatformShutdown
    [] stage = "handler"  -> {"network", "config", "log"} \cup PlatformShutdown

InitSubsystem ==
  /\ pc \in Stages
  /\ \/ /\ up' = up \cup {pc}
        /\ pc' = NextStage(pc)
        /\ state' = IF pc = "handler" THEN "INITIALIZED" ELSE state
     \/ /\ up' = up \ Unwind(pc)
        /\ pc' = "exited"
        /\ UNCHANGED state
  /\ UNCHANGED <<stopper, timers, endpoint, channel, peers, infoAge>>

\* The same functions are called by stnc_core_init and by stnc_core_tick.
InInit == state = "INITIALIZED"

\* stnc_core_connect_configured_peer; a refused connect leaves chain_state alone.
Connect ==
  /\ pc = "connect"
  /\ \/ /\ link' = "clean"
        /\ at' = endpoint
        /\ pc' = "qualify"
     \/ /\ link' = "down"
        /\ pc' = IF InInit THEN "mining" ELSE "check"
        /\ UNCHANGED at
  /\ UNCHANGED <<state, stopper, up, timers, endpoint, known, peers, infoAge>>

QualifyChain ==
  /\ pc = "qualify"
  /\ \/ Informed /\ pc' = IF InInit THEN "root" ELSE "check"
     \/ InfoFailed /\ pc' = IF InInit THEN "mining" ELSE "check"
  /\ UNCHANGED <<state, stopper, up, timers, endpoint, peers>>

\* stnc_core_qualify_root_peer: a peer with capability 2 also sends candidates,
\* some of which are admitted even when the candidate set is found full.
QualifyRoot ==
  /\ pc = "root"
  /\ pc' = IF InInit THEN "directory" ELSE "peer"
  /\ \/ caps' = 0 /\ UNCHANGED discovered
     \/ /\ known.available
        /\ \/ caps' = 1 /\ UNCHANGED discovered
           \/ caps' \in {0, 3} /\ discovered' = TRUE
           \/ caps' = 3 /\ UNCHANGED discovered   \* it knows no peer
  /\ UNCHANGED <<state, stopper, up, timers, endpoint, channel, p2p, compared, infoAge>>

DiscoverDirectory ==
  /\ pc = "directory"
  /\ discovered' \in {discovered, TRUE}
  /\ pc' = "select"
  /\ UNCHANGED <<state, stopper, up, timers, endpoint, channel, p2p, compared, caps, infoAge>>

MiningInit ==
  /\ pc = "mining"
  /\ up' = up \cup {"mining"}
  /\ pc' = "wait"
  /\ UNCHANGED <<state, stopper, timers, endpoint, channel, peers, infoAge>>

-----------------------------------------------------------------------------
(* The selected P2P peer.                                                  *)

AfterPeer == IF InInit THEN "mining" ELSE "refresh"

\* Fault: the comparison outlives the session it was made with.
ComparisonKept == compared

\* stnc_core_probe_selected_peer_headers forgets the comparison first.
ComparisonReset == NoTip

\* stnc_core_select_peer with stnc_core_qualify_candidate and
\* stnc_core_open_selected_peer: HELLO is checked against chain_state.
SelectPeer ==
  /\ pc = "select"
  /\ \/ /\ p2p' = NoPeer
        /\ pc' = AfterPeer
        /\ UNCHANGED compared
     \/ /\ discovered /\ known.available
        /\ \E tip \in 0..MaxTip :
             p2p' = [connected |-> TRUE, chain |-> known.chain, tip |-> tip]
        /\ compared' = ComparisonReset
        /\ pc' = "probe"
  /\ UNCHANGED <<state, stopper, up, timers, endpoint, channel, caps, discovered,
                 infoAge>>

\* stnc_core_refresh_selected_peer.
RefreshPeer ==
  /\ pc = "refreshPeer"
  /\ \/ /\ p2p' = NoPeer
        /\ compared' \in {compared, ComparisonReset}
        /\ pc' = "refresh"
     \/ /\ known.available
        /\ \E tip \in 0..MaxTip : p2p' = [p2p EXCEPT !.tip = tip]
        /\ compared' = ComparisonReset
        /\ pc' = "probe"
  /\ UNCHANGED <<state, stopper, up, timers, endpoint, channel, caps, discovered,
                 infoAge>>

\* The last STATE of the peer named another tip than Chain's: the probe goes on.
\* Block counts are not modelled, so a peer that differs may be ahead or diverged.
PeerDiffers == pc = "probe" /\ ReportedTip # KnownTip

\* Chain accepts evidence of the peer: chain_state follows its answer.
Accepted ==
  /\ link = "clean"
  /\ \E tip \in known.tip..MaxTip : known' = [available |-> TRUE, chain |-> known.chain, tip |-> tip]

\* A block of a peer that is ahead extends accepted state.
ProbeAdvances ==
  /\ PeerDiffers
  /\ Accepted
  /\ known'.tip = known.tip + 1
  /\ UNCHANGED <<state, pc, stopper, up, timers, endpoint, link, at, peers, infoAge>>

\* The peer is behind, or level at the same tip.
ProbeSettles ==
  /\ pc = "probe"
  /\ compared' = IF ReportedTip = KnownTip THEN KnownTip ELSE compared
  /\ pc' = AfterPeer
  /\ UNCHANGED <<state, stopper, up, timers, endpoint, channel, p2p, caps, discovered, infoAge>>

\* A diverged peer's history went to Chain, which adopted or declined it.
ProbeSubmits ==
  /\ PeerDiffers
  /\ link = "clean"
  /\ Accepted \/ UNCHANGED known
  /\ pc' = AfterPeer
  /\ UNCHANGED <<state, stopper, up, timers, endpoint, link, at, peers, infoAge>>

\* The peer's or Chain's part of the exchange failed, or Chain accepted a
\* block and then was not where the peer's next block goes.
ProbeFails ==
  /\ PeerDiffers
  /\ p2p' = NoPeer
  /\ \/ link' \in AfterFailure(link) /\ UNCHANGED known
     \/ Accepted /\ UNCHANGED link
  /\ pc' = AfterPeer
  /\ UNCHANGED <<state, stopper, up, timers, endpoint, at, compared, caps,
                 discovered, infoAge>>

-----------------------------------------------------------------------------
(* stnc_core_tick and the loop of stnc_core_run around it.                 *)

\* Fault: every tick takes the core to be running.
MayTickAlways == TRUE

MayTick == state \in {"INITIALIZED", "RUNNING"}

Due(elapsed, interval) == elapsed >= interval

\* The first tick zeroes the timers.
TimersAtTick == IF state = "INITIALIZED" THEN ZeroTimers ELSE timers

Reload ==
  IF Due(TimersAtTick.reload + 1, ReloadTicks)
  THEN endpoint' \in Chains     \* what the file names now, or no change
  ELSE UNCHANGED endpoint
ReloadElapsed ==
  IF Due(TimersAtTick.reload + 1, ReloadTicks) THEN 0 ELSE TimersAtTick.reload + 1

\* Fault: every tick without a connection starts to count again.
ReconnectElapsedReset(t) == 1

ReconnectElapsed(t) == t.reconnect + 1

TickConnected ==
  /\ pc = "wait" /\ MayTick /\ link # "down"
  /\ state' = "RUNNING"
  /\ Reload
  /\ LET t == TimersAtTick
     IN  timers' = Timer(t.refresh + 1, 0, t.root, t.peer, ReloadElapsed)
  /\ infoAge' = infoAge + 1
  /\ pc' = "jobs"
  /\ UNCHANGED <<stopper, up, channel, peers>>

TickDisconnected ==
  /\ pc = "wait" /\ MayTick /\ link = "down"
  /\ state' = "RUNNING"
  /\ Reload
  /\ LET t == TimersAtTick
         due == Due(ReconnectElapsed(t), ReconnectTicks)
     IN  /\ timers' = Timer(0, IF due THEN 0 ELSE ReconnectElapsed(t), t.root,
                            t.peer, ReloadElapsed)
         /\ pc' = IF due THEN "connect" ELSE "check"
  /\ UNCHANGED <<stopper, up, channel, peers, infoAge>>

RootElapsed == IF caps = 0 THEN timers.root + 1 ELSE 0

\* stnc_background_mining_tick may submit the compensation transaction; then
\* the root peer's retry is due or not.
Jobs ==
  /\ pc = "jobs"
  /\ link' \in AfterFailure(link)
  /\ LET due == caps = 0 /\ Due(RootElapsed, RootRetryTicks)
     IN  /\ timers' = [timers EXCEPT !.root = IF due THEN 0 ELSE RootElapsed]
         /\ pc' = IF due THEN "root" ELSE "peer"
  /\ UNCHANGED <<state, stopper, up, endpoint, at, known, peers, infoAge>>

\* Fault: a tick without a peer session does not count.
PeerElapsedConnected(t) == IF p2p.connected THEN t.peer + 1 ELSE t.peer

PeerElapsed(t) == t.peer + 1

PeerDue ==
  /\ pc = "peer"
  /\ LET interval == IF p2p.connected THEN PeerTicks ELSE ReconnectTicks
         due == Due(PeerElapsed(timers), interval)
     IN  /\ timers' = [timers EXCEPT !.peer = IF due THEN 0 ELSE PeerElapsed(timers)]
         /\ pc' = IF ~due THEN "refresh"
                  ELSE IF p2p.connected THEN "refreshPeer" ELSE "select"
  /\ UNCHANGED <<state, stopper, up, endpoint, channel, peers, infoAge>>

RefreshState ==
  /\ pc = "refresh"
  /\ IF Due(timers.refresh, RefreshTicks)
     THEN (Informed \/ InfoFailed) /\ timers' = [timers EXCEPT !.refresh = 0]
     ELSE UNCHANGED <<channel, timers, infoAge>>
  /\ pc' = "check"
  /\ UNCHANGED <<state, stopper, up, endpoint, peers>>

\* The condition of the loop.
Check ==
  /\ pc = "check"
  /\ pc' = IF state = "RUNNING" THEN "wait" ELSE "shutdown"
  /\ UNCHANGED <<state, stopper, up, timers, endpoint, channel, peers, infoAge>>

\* The tick finds that the core is not running and ends the loop.
TickRefused ==
  /\ pc = "wait" /\ ~MayTick
  /\ pc' = "shutdown"
  /\ UNCHANGED <<state, stopper, up, timers, endpoint, channel, peers, infoAge>>

-----------------------------------------------------------------------------
(* Stopping.                                                               *)

PeerAfterShutdown == NoPeer

ReleaseAll ==
  /\ up' = up \ ({"mining", "network", "config", "log"} \cup PlatformShutdown)
  /\ link' = "down"
  /\ known' = Cleared
  /\ p2p' = PeerAfterShutdown
  /\ caps' = 0
  /\ discovered' = FALSE

\* stnc_core_shutdown.
Shutdown ==
  /\ pc = "shutdown"
  /\ ReleaseAll
  /\ state' = "STOPPED"
  /\ pc' = "exited"
  /\ UNCHANGED <<stopper, timers, endpoint, at, compared, infoAge>>

\* The mining service could not be configured: stnc_core_init shuts down.
MiningInitFails ==
  /\ pc = "mining"
  /\ ReleaseAll
  /\ state' = "UNINITIALIZED"
  /\ pc' = "exited"
  /\ UNCHANGED <<stopper, timers, endpoint, at, compared, infoAge>>

\* The control handler runs on a thread of its own.
StopPressed(s) ==
  /\ stopper[s] = "out"
  /\ "handler" \in up
  /\ stopper' = [stopper EXCEPT ![s] = "entered"]
  /\ UNCHANGED <<state, pc, up, timers, endpoint, channel, peers, infoAge>>

\* Fault: the handler stops a core that has not started running.
SeesRunningAnyState == state # "UNINITIALIZED"

SeesRunning == state = "RUNNING"

\* stnc_core_request_stop reads core_state ...
StopRead(s) ==
  /\ stopper[s] = "entered"
  /\ stopper' = [stopper EXCEPT ![s] = IF SeesRunning THEN "stopping" ELSE "out"]
  /\ UNCHANGED <<state, pc, up, timers, endpoint, channel, peers, infoAge>>

\* ... and writes it.
StopWrite(s) ==
  /\ stopper[s] = "stopping"
  /\ state' = "STOPPING"
  /\ stopper' = [stopper EXCEPT ![s] = "out"]
  /\ UNCHANGED <<pc, up, timers, endpoint, channel, peers, infoAge>>

-----------------------------------------------------------------------------
Owner ==
  \/ InitSubsystem \/ Connect \/ QualifyChain \/ QualifyRoot \/ DiscoverDirectory
  \/ MiningInit \/ MiningInitFails
  \/ SelectPeer \/ RefreshPeer
  \/ ProbeAdvances \/ ProbeSettles \/ ProbeSubmits \/ ProbeFails
  \/ TickConnected \/ TickDisconnected \/ TickRefused
  \/ Jobs \/ PeerDue \/ RefreshState \/ Check
  \/ Shutdown

Handler(s) == StopRead(s) \/ StopWrite(s)

Next == Owner \/ \E s \in Stoppers : StopPressed(s) \/ Handler(s)

Spec == Init /\ [][Next]_vars

\* Every call of the owner thread ends (CallReturns of RpcSession), and threads
\* that can run do run.
Fairness == WF_vars(Owner) /\ \A s \in Stoppers : WF_vars(Handler(s))

FairSpec == Spec /\ Fairness

-----------------------------------------------------------------------------
(* Properties.                                                             *)

\* Every variable keeps its type.
TypeOK ==
  /\ state \in States
  /\ pc \in Places
  /\ stopper \in [Stoppers -> {"out", "entered", "stopping"}]
  /\ up \subseteq Stages \cup {"mining"}
  /\ timers \in TimersType
  /\ endpoint \in Chains
  /\ link \in {"down", "clean", "poisoned"} /\ at \in Chains
  /\ known \in KnownType
  /\ p2p \in PeerType /\ compared \in Tips \cup {NoTip}
  /\ caps \in {0, 1, 3} /\ discovered \in BOOLEAN
  /\ infoAge \in Nat

\* No connection is open while Winsock is not initialized: neither before
\* stnc_network_init nor after the shutdown that follows a stop or a failure.
ConnectionsNeedNetwork ==
  link # "down" \/ p2p.connected => "network" \in up

\* However Core ends, at a failed stage of its initialization or after a stop,
\* it has shut down exactly what was up and presents nothing any more.
ExitReleasesAll ==
  pc = "exited" =>
    up = {} /\ link = "down" /\ ~p2p.connected /\ ~known.available

\* peer_current of stnc_core_get_runtime_status.
PeerCurrent ==
  /\ compared # NoTip
  /\ link # "down" /\ p2p.connected /\ known.available
  /\ compared = KnownTip

\* "Synchronized" is shown only for the peer session that is open now, and only
\* while the last STATE of that session named the tip Core presents: across
\* reselected peers, reconnects, other networks and accepted evidence.
PeerCurrentReal == PeerCurrent => ReportedTip = KnownTip

\* While connected and waiting, Core's view of Chain is younger than the refresh
\* interval, whatever the tick was doing with peers before it got to the refresh.
StateFresh ==
  pc = "wait" /\ state = "RUNNING" /\ link # "down" => infoAge < RefreshTicks

\* A stop request that found the core running ends it: no tick overwrites it and
\* nothing the owner thread does goes on forever.
StopHonoured ==
  \A s \in Stoppers : (stopper[s] = "stopping") ~> (pc = "exited")

\* A running core without its Chain connection tries to connect again.
ReconnectTried ==
  (pc = "wait" /\ state = "RUNNING" /\ link = "down")
    ~> (pc = "connect" \/ state # "RUNNING")

\* As long as ticks find Chain connected, the selected peer is asked for its state
\* or selected again; the counter both branches share does not starve either.
PeersNeverStarve == []<>(pc = "jobs") => []<>(pc \in {"select", "refreshPeer"})

\* What Core knows of Chain, over initialization, ticks, peer evidence, reconnects
\* to another configured service and shutdown, is what the RPC channel allows.
Channel == INSTANCE RpcChannel WITH to <- at
ImplementsChannel == Channel!Spec

=============================================================================
