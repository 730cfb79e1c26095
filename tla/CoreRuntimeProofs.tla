------------------------- MODULE CoreRuntimeProofs -------------------------
(***************************************************************************)
(* What holds of CoreRuntime for every set of networks and stopping        *)
(* threads, every number of tips and every length of the timers.           *)
(*                                                                         *)
(* Where the owner thread is decides the rest: what is up, whether the     *)
(* core has begun to run, how far the refresh counter can be.  RuntimeInv  *)
(* collects these facts; it is inductive, and the properties follow.       *)
(***************************************************************************)
EXTENDS CoreRuntime, TLAPS

\* What stnc_core_init has initialized when it comes to a stage.
Before(stage) ==
  CASE stage = "platform" -> {}
    [] stage = "log"      -> {"platform"}
    [] stage = "config"   -> {"platform", "log"}
    [] stage = "network"  -> {"platform", "log", "config"}
    [] stage = "handler"  -> {"platform", "log", "config", "network"}

Released == link = "down" /\ ~p2p.connected /\ ~known.available

\* Connections are made after the stages and gone when Core has exited.
UpInv ==
  /\ pc \in Stages => up = Before(pc) /\ Released
  /\ pc = "exited" => up = {} /\ Released
  /\ pc \notin Stages \cup {"exited"} => "network" \in up

NotBegun == {"UNINITIALIZED", "INITIALIZED"}

\* When the core begins to run, and that only a running core is stopped.
StateInv ==
  /\ pc \in Stages => state = "UNINITIALIZED"
  /\ pc \notin Stages \cup {"exited"} => state # "UNINITIALIZED"
  /\ pc \in {"directory", "mining"} => state = "INITIALIZED"
  /\ pc \in {"jobs", "peer", "refreshPeer", "refresh", "check"} => state \notin NotBegun
  /\ \A s \in Stoppers : stopper[s] = "stopping" => state \notin NotBegun
  /\ state \in NotBegun => timers = ZeroTimers

\* The comparison was made with the last STATE of the session that is open.
PeerInv == compared # NoTip /\ p2p.connected => ReportedTip = compared

\* The refresh counter runs ahead of the age of what Core knows, and is back
\* under its interval when the tick is over.
FreshInv ==
  /\ link # "down" /\ pc # "qualify" => infoAge <= timers.refresh
  /\ pc \in {"wait", "check", "connect", "qualify"} => timers.refresh < RefreshTicks

\* A link in order was qualified: what Core knows is of the service at its end.
LinkInv ==
  /\ link = "clean" /\ pc # "qualify" => known.available /\ known.chain = at
  /\ pc = "connect" => link = "down"

RuntimeInv == TypeOK /\ UpInv /\ StateInv /\ PeerInv /\ FreshInv /\ LinkInv

USE IntervalsAssumption, MaxTipAssumption, ChainsAssumption

-----------------------------------------------------------------------------
\* A presented state has a tip of a real network; a cleared one has neither.
LEMMA KnownTips ==
  ASSUME NEW k \in KnownType
  PROVE  /\ k.available \in BOOLEAN /\ k.chain \in Chains \cup {NoChain} /\ k.tip \in 0..MaxTip
         /\ [chain |-> k.chain, tip |-> k.tip] \in Tips \cup {NoTip}
<1>1. CASE k = Cleared
  BY <1>1 DEF Cleared, Tips, NoTip
<1>2. CASE k \in [available : {TRUE}, chain : Chains, tip : 0..MaxTip]
  <2>1. k.available = TRUE /\ k.chain \in Chains /\ k.tip \in 0..MaxTip
    BY <1>2
  <2> QED  BY <2>1 DEF Tips
<1> QED  BY <1>1, <1>2 DEF KnownType

\* The runtime starts with nothing up and nothing known.
LEMMA InitRuntimeInv == Init => RuntimeInv
<1> SUFFICES ASSUME Init PROVE RuntimeInv  OBVIOUS
<1>1. timers \in TimersType
  BY DEF Init, TimersType, ZeroTimers, Timer
<1>2. known \in KnownType /\ p2p \in PeerType
  BY DEF Init, KnownType, PeerType, Cleared, NoPeer
<1>3. TypeOK
  BY <1>1, <1>2 DEF Init, TypeOK, States, Places, Stages
<1>4. UpInv /\ StateInv
  BY DEF Init, UpInv, StateInv, Released, Before, Stages, NotBegun, Cleared, NoPeer
<1>5. PeerInv /\ FreshInv /\ LinkInv
  BY DEF Init, PeerInv, FreshInv, LinkInv
<1> QED  BY <1>3, <1>4, <1>5 DEF RuntimeInv

\* The control handler's thread writes core_state only when the core has begun to
\* run, wherever the owner thread is.
LEMMA HandlerKeepsInv ==
  ASSUME RuntimeInv, NEW s \in Stoppers, StopPressed(s) \/ Handler(s)
  PROVE  RuntimeInv'
<1>1. CASE StopPressed(s)
  BY <1>1 DEF StopPressed, RuntimeInv, TypeOK, UpInv, Released, StateInv, PeerInv,
              FreshInv, LinkInv, channel, peers, ReportedTip
<1>2. CASE StopRead(s)
  BY <1>2 DEF StopRead, SeesRunning, RuntimeInv, TypeOK, UpInv, Released, StateInv,
              NotBegun, PeerInv, FreshInv, LinkInv, channel, peers, ReportedTip
<1>3. CASE StopWrite(s)
  BY <1>3 DEF StopWrite, RuntimeInv, TypeOK, States, UpInv, Released, StateInv,
              NotBegun, PeerInv, FreshInv, LinkInv, channel, peers, ReportedTip, Stages
<1> QED  BY <1>1, <1>2, <1>3 DEF Handler

\* The stages of initialization.
LEMMA InitSubsystemKeepsInv ==
  ASSUME RuntimeInv, InitSubsystem
  PROVE  RuntimeInv'
<1> USE DEF RuntimeInv
<1>1. TypeOK'
  BY DEF InitSubsystem, TypeOK, States, Places, Stages, NextStage, Unwind,
         PlatformShutdown, channel, peers, StateInv
<1>2. UpInv'
  <2>1. CASE pc = "platform"
    BY <2>1 DEF InitSubsystem, UpInv, Before, Stages, NextStage, Unwind,
                PlatformShutdown, Released, channel, peers
  <2>2. CASE pc = "log"
    BY <2>2 DEF InitSubsystem, UpInv, Before, Stages, NextStage, Unwind,
                PlatformShutdown, Released, channel, peers
  <2>3. CASE pc = "config"
    BY <2>3 DEF InitSubsystem, UpInv, Before, Stages, NextStage, Unwind,
                PlatformShutdown, Released, channel, peers
  <2>4. CASE pc = "network"
    BY <2>4 DEF InitSubsystem, UpInv, Before, Stages, NextStage, Unwind,
                PlatformShutdown, Released, channel, peers
  <2>5. CASE pc = "handler"
    BY <2>5 DEF InitSubsystem, UpInv, Before, Stages, NextStage, Unwind,
                PlatformShutdown, Released, channel, peers
  <2> QED  BY <2>1, <2>2, <2>3, <2>4, <2>5 DEF InitSubsystem, Stages
<1>3. timers.refresh < RefreshTicks
  BY DEF InitSubsystem, StateInv, NotBegun, ZeroTimers, Timer
<1>4. StateInv' /\ PeerInv' /\ LinkInv' /\ FreshInv'
  BY <1>3 DEF InitSubsystem, StateInv, NotBegun, PeerInv, LinkInv, FreshInv, UpInv,
         Released, Stages, NextStage, channel, peers, ReportedTip
<1> QED  BY <1>1, <1>2, <1>4

\* Connecting and learning accepted state.
LEMMA InformedKnows ==
  ASSUME TypeOK, Informed
  PROVE  /\ known' \in KnownType /\ known'.available /\ known'.chain = at
         /\ infoAge' = 0 /\ link = "clean" /\ UNCHANGED <<link, at>>
  BY DEF TypeOK, Informed, KnownType

LEMMA InfoFailedClears ==
  ASSUME TypeOK, InfoFailed
  PROVE  /\ known' \in KnownType /\ ~known'.available
         /\ link' = "down" /\ UNCHANGED <<at, infoAge>>
  BY DEF TypeOK, InfoFailed, KnownType, Cleared

LEMMA ConnectKeepsInv ==
  ASSUME RuntimeInv, Connect \/ QualifyChain
  PROVE  RuntimeInv'
<1> USE DEF RuntimeInv
<1>1. timers.refresh < RefreshTicks
  BY DEF Connect, QualifyChain, FreshInv
<1>2. CASE Connect
  BY <1>1, <1>2 DEF Connect, InInit, TypeOK, Places, Stages, UpInv, Released,
     StateInv, NotBegun, PeerInv, FreshInv, LinkInv, peers, ReportedTip
<1>3. CASE QualifyChain
  <2>1. CASE Informed
    BY <1>1, <1>3, <2>1, InformedKnows DEF QualifyChain, InInit, TypeOK, TimersType,
       Places, Stages, UpInv, Released, StateInv, NotBegun, PeerInv, FreshInv,
       LinkInv, peers, ReportedTip
  <2>2. CASE InfoFailed
    BY <1>1, <1>3, <2>2, InfoFailedClears DEF QualifyChain, InInit, TypeOK,
       Places, Stages, UpInv, Released, StateInv, NotBegun, PeerInv, FreshInv,
       LinkInv, peers, ReportedTip
  <2> QED  BY <1>3, <2>1, <2>2 DEF QualifyChain, Informed, InfoFailed
<1> QED  BY <1>2, <1>3

\* Initialization goes on without a root peer or directory.
LEMMA DiscoveryKeepsInv ==
  ASSUME RuntimeInv, QualifyRoot \/ DiscoverDirectory \/ MiningInit
  PROVE  RuntimeInv'
<1> USE DEF RuntimeInv
<1>1. CASE QualifyRoot
  BY <1>1 DEF QualifyRoot, InInit, TypeOK, Places, Stages, UpInv, Released,
     StateInv, NotBegun, PeerInv, FreshInv, LinkInv, channel, ReportedTip
<1>2. CASE DiscoverDirectory
  BY <1>2 DEF DiscoverDirectory, TypeOK, Places, Stages, UpInv, Released,
     StateInv, NotBegun, PeerInv, FreshInv, LinkInv, channel, ReportedTip
<1>3. CASE MiningInit
  <2>1. timers.refresh < RefreshTicks
    BY <1>3 DEF MiningInit, StateInv, NotBegun, ZeroTimers, Timer
  <2> QED
    BY <1>3, <2>1 DEF MiningInit, TypeOK, Places, Stages, UpInv, Released,
       StateInv, NotBegun, PeerInv, FreshInv, LinkInv, channel, peers, ReportedTip
<1> QED  BY <1>1, <1>2, <1>3

\* A peer is selected, asked again, or let go.
LEMMA PeerKeepsInv ==
  ASSUME RuntimeInv, SelectPeer \/ RefreshPeer
  PROVE  RuntimeInv'
<1> USE DEF RuntimeInv
<1>1. /\ p2p' \in PeerType /\ compared' \in Tips \cup {NoTip}
      /\ (p2p' = NoPeer \/ compared' = NoTip)
  <2>1. p2p \in PeerType /\ known \in KnownType /\ NoPeer \in PeerType
        /\ compared \in Tips \cup {NoTip}
    BY DEF TypeOK, PeerType, NoPeer
  <2>2. CASE SelectPeer
    <3>1. CASE p2p' = NoPeer /\ UNCHANGED compared
      BY <2>1, <3>1
    <3>2. ASSUME NEW tip \in 0..MaxTip, compared' = ComparisonReset,
                 p2p' = [connected |-> TRUE, chain |-> known.chain, tip |-> tip]
          PROVE  p2p' \in PeerType /\ compared' = NoTip
      BY <2>1, <3>2, KnownTips DEF PeerType, ComparisonReset
    <3> QED  BY <2>2, <3>1, <3>2 DEF SelectPeer
  <2>3. CASE RefreshPeer
    <3>1. CASE /\ p2p' = NoPeer /\ compared' \in {compared, ComparisonReset}
      BY <2>1, <3>1 DEF ComparisonReset
    <3>2. ASSUME NEW tip \in 0..MaxTip, compared' = ComparisonReset,
                 p2p' = [p2p EXCEPT !.tip = tip]
          PROVE  p2p' \in PeerType /\ compared' = NoTip
      BY <2>1, <3>2 DEF PeerType, ComparisonReset
    <3> QED  BY <2>3, <3>1, <3>2 DEF RefreshPeer
  <2> QED  BY <2>2, <2>3
<1>2. TypeOK'
  BY <1>1 DEF SelectPeer, RefreshPeer, TypeOK, Places, Stages, AfterPeer, InInit,
              channel
<1>3. PeerInv'
  BY <1>1 DEF PeerInv, NoPeer
<1>4. UpInv' /\ StateInv' /\ FreshInv' /\ LinkInv'
  BY DEF SelectPeer, RefreshPeer, UpInv, Released, StateInv, NotBegun, FreshInv,
         LinkInv, AfterPeer, InInit, Stages, channel
<1> QED  BY <1>1, <1>2, <1>3, <1>4

\* Evidence that Chain accepts moves known forward on the network it was of.
LEMMA AcceptedKnows ==
  ASSUME TypeOK, Accepted, link = "clean" => known.available /\ known.chain = at
  PROVE  /\ known' \in KnownType /\ known'.available /\ known'.chain = at
         /\ known'.tip >= known.tip /\ link = "clean"
<1>1. PICK tip \in known.tip..MaxTip :
        known' = [available |-> TRUE, chain |-> known.chain, tip |-> tip]
  BY DEF Accepted
<1>2. tip \in 0..MaxTip /\ tip >= known.tip
  <2>1. known.tip \in 0..MaxTip
    BY KnownTips DEF TypeOK
  <2> QED  BY <1>1, <2>1
<1>3. (known.available /\ known.chain \in Chains) \/ known = Cleared
  BY DEF TypeOK, KnownType
<1> QED  BY <1>1, <1>2, <1>3 DEF Cleared, Accepted, TypeOK, KnownType

\* The probe of the selected peer's headers.
LEMMA ProbeKeepsInv ==
  ASSUME RuntimeInv,
         ProbeAdvances \/ ProbeSettles \/ ProbeSubmits \/ ProbeFails
  PROVE  RuntimeInv'
<1> USE DEF RuntimeInv
<1>1. pc = "probe" /\ (link = "clean" => known.available /\ known.chain = at)
  BY DEF ProbeAdvances, ProbeSettles, ProbeSubmits, ProbeFails, PeerDiffers, LinkInv
<1>2. known' \in KnownType /\ (link' = "clean" => known'.available /\ known'.chain = at)
  <2>1. CASE Accepted
    BY <1>1, <2>1, AcceptedKnows
  <2>2. CASE UNCHANGED known /\ (link' = "clean" => link = "clean")
    BY <1>1, <2>2 DEF TypeOK
  <2> QED
    BY <2>1, <2>2 DEF ProbeAdvances, ProbeSettles, ProbeSubmits, ProbeFails, PeerDiffers,
                      channel, AfterFailure
<1>3. /\ link' \in {"down", "clean", "poisoned"} /\ at' = at
      /\ (link' # "down" => link # "down")
      /\ UNCHANGED <<state, stopper, up, timers, endpoint, infoAge, caps, discovered>>
      /\ pc' \in {"probe", AfterPeer}
  BY <1>1 DEF ProbeAdvances, ProbeSettles, ProbeSubmits, ProbeFails, PeerDiffers, channel, peers,
              AfterFailure, TypeOK
<1>4. p2p' \in PeerType /\ compared' \in Tips \cup {NoTip}
  <2>1. NoPeer \in PeerType /\ TypeOK
    BY DEF NoPeer, PeerType
  <2>2. CASE ProbeSettles
    <3>1. CASE ReportedTip = KnownTip
      <4>1. KnownTip = NoTip \/ KnownTip \in Tips
        BY <2>1, KnownTips DEF TypeOK, KnownTip
      <4> QED  BY <2>1, <2>2, <3>1, <4>1 DEF ProbeSettles, TypeOK
    <3> QED  BY <2>1, <2>2, <3>1 DEF ProbeSettles, TypeOK
  <2>3. CASE ProbeFails
    BY <2>1, <2>3 DEF ProbeFails, TypeOK
  <2>4. CASE ProbeAdvances \/ ProbeSubmits
    BY <2>1, <2>4 DEF ProbeAdvances, ProbeSubmits, peers, TypeOK
  <2> QED  BY <2>2, <2>3, <2>4
<1>5. TypeOK'
  BY <1>2, <1>3, <1>4 DEF TypeOK, Places, Stages, AfterPeer, InInit
<1>6. PeerInv'
  BY DEF ProbeAdvances, ProbeSettles, ProbeSubmits, ProbeFails, PeerDiffers, PeerInv, peers,
         NoPeer, ReportedTip
<1>7. UpInv' /\ StateInv' /\ FreshInv' /\ LinkInv'
  BY <1>1, <1>2, <1>3 DEF UpInv, Released, StateInv, NotBegun, FreshInv, LinkInv,
     AfterPeer, InInit, Stages
<1> QED  BY <1>5, <1>6, <1>7

-----------------------------------------------------------------------------
\* A tick begins.
LEMMA TickKeepsInv ==
  ASSUME RuntimeInv, TickConnected \/ TickDisconnected \/ TickRefused
  PROVE  RuntimeInv'
<1> USE DEF RuntimeInv
<1>1. CASE TickRefused
  BY <1>1 DEF TickRefused, MayTick, TypeOK, Places, Stages, UpInv, Released,
     StateInv, NotBegun, PeerInv, FreshInv, LinkInv, channel, peers, ReportedTip
<1>2. ASSUME TickConnected \/ TickDisconnected
      PROVE  RuntimeInv'
  <2>1. TimersAtTick = timers
    BY <1>2 DEF TickConnected, TickDisconnected, TimersAtTick, StateInv, NotBegun
  <2>2. /\ endpoint' \in Chains /\ state' = "RUNNING" /\ pc = "wait"
        /\ pc' \in {"jobs", "connect", "check"}
        /\ UNCHANGED <<stopper, up, channel, peers>>
    BY <1>2 DEF TickConnected, TickDisconnected, Reload, TypeOK
  <2>3. timers.refresh < RefreshTicks
    BY <2>2 DEF FreshInv
  <2>4. ReloadElapsed \in 0..ReloadTicks
    BY <2>1 DEF ReloadElapsed, Due, TypeOK, TimersType
  <2>5. CASE TickConnected
    <3>1. /\ timers' = Timer(timers.refresh + 1, 0, timers.root, timers.peer, ReloadElapsed)
          /\ infoAge' = infoAge + 1 /\ pc' = "jobs" /\ link # "down"
      BY <2>1, <2>5 DEF TickConnected
    <3>2. timers' \in TimersType /\ timers'.refresh = timers.refresh + 1
      BY <3>1, <2>3, <2>4 DEF Timer, TimersType, TypeOK
    <3>3. infoAge' \in Nat /\ infoAge' <= timers'.refresh
      BY <3>1, <3>2, <2>2 DEF FreshInv, TypeOK, TimersType
    <3>4. TypeOK'
      BY <2>2, <3>1, <3>2, <3>3 DEF TypeOK, States, Places, Stages, channel, peers
    <3> QED
      BY <2>2, <3>1, <3>2, <3>3, <3>4 DEF UpInv, Released, StateInv, NotBegun, PeerInv,
         FreshInv, LinkInv, Stages, channel, peers, ReportedTip
  <2>6. CASE TickDisconnected
    <3>1. PICK reconnect \in 0..ReconnectTicks :
            timers' = Timer(0, reconnect, timers.root, timers.peer, ReloadElapsed)
      <4>1. timers.reconnect + 1 \in Nat
        BY DEF TypeOK, TimersType
      <4>2. (IF Due(timers.reconnect + 1, ReconnectTicks) THEN 0
             ELSE timers.reconnect + 1) \in 0..ReconnectTicks
        BY <4>1 DEF Due
      <4> QED
        BY <2>1, <2>6, <4>2 DEF TickDisconnected, ReconnectElapsed
    <3>2. timers' \in TimersType /\ timers'.refresh = 0
      BY <3>1, <2>4 DEF Timer, TimersType, TypeOK
    <3>3. infoAge' = infoAge /\ link = "down" /\ pc' \in {"connect", "check"}
      BY <2>6 DEF TickDisconnected
    <3>4. TypeOK'
      BY <2>2, <3>2, <3>3 DEF TypeOK, States, Places, Stages, channel, peers
    <3> QED
      BY <2>2, <3>2, <3>3, <3>4 DEF UpInv, Released, StateInv, NotBegun, PeerInv,
         FreshInv, LinkInv, Stages, channel, peers, ReportedTip
  <2> QED  BY <1>2, <2>5, <2>6
<1> QED  BY <1>1, <1>2

\* The rest of a tick, up to the refresh.
LEMMA WorkKeepsInv ==
  ASSUME RuntimeInv, Jobs \/ PeerDue
  PROVE  RuntimeInv'
<1> USE DEF RuntimeInv
<1>1. timers' \in TimersType /\ timers'.refresh = timers.refresh
  <2>1. CASE Jobs
    <3>1. PICK root \in 0..RootRetryTicks : timers' = [timers EXCEPT !.root = root]
      BY <2>1 DEF Jobs, Due, RootElapsed, TypeOK, TimersType
    <3> QED  BY <3>1 DEF TypeOK, TimersType
  <2>2. CASE PeerDue
    <3>1. PICK peer \in Nat : timers' = [timers EXCEPT !.peer = peer]
      BY <2>2 DEF PeerDue, Due, PeerElapsed, TypeOK, TimersType
    <3> QED  BY <3>1 DEF TypeOK, TimersType
  <2> QED  BY <2>1, <2>2
<1>2. /\ pc \in {"jobs", "peer"} /\ pc' \in {"root", "peer", "refresh", "refreshPeer", "select"}
      /\ link' \in {"down", "clean", "poisoned"}
      /\ (link' # "down" => link # "down") /\ (link' = "clean" => link = "clean")
      /\ UNCHANGED <<state, stopper, up, endpoint, at, known, peers, infoAge>>
  BY DEF Jobs, PeerDue, AfterFailure, TypeOK, channel
<1>3. TypeOK'
  BY <1>1, <1>2 DEF TypeOK, Places, Stages, peers
<1>4. UpInv' /\ StateInv'
  BY <1>2 DEF UpInv, Released, StateInv, NotBegun, Stages, peers
<1>5. PeerInv' /\ FreshInv' /\ LinkInv'
  BY <1>1, <1>2 DEF PeerInv, FreshInv, LinkInv, peers, ReportedTip
<1> QED  BY <1>3, <1>4, <1>5

\* The refresh, and the loop's condition.
LEMMA RefreshKeepsInv ==
  ASSUME RuntimeInv, RefreshState \/ Check
  PROVE  RuntimeInv'
<1> USE DEF RuntimeInv
<1>1. CASE Check
  BY <1>1 DEF Check, TypeOK, Places, Stages, UpInv, Released, StateInv, NotBegun,
     PeerInv, FreshInv, LinkInv, channel, peers, ReportedTip
<1>2. CASE RefreshState /\ Due(timers.refresh, RefreshTicks)
  <2>1. timers' \in TimersType /\ timers'.refresh = 0
    BY <1>2 DEF RefreshState, TypeOK, TimersType
  <2>2. /\ pc = "refresh" /\ pc' = "check" /\ UNCHANGED <<state, stopper, up, endpoint, peers>>
        /\ Informed \/ InfoFailed
    BY <1>2 DEF RefreshState
  <2>3. CASE Informed
    BY <2>1, <2>2, <2>3, InformedKnows DEF TypeOK, Places, Stages, UpInv, Released,
       StateInv, NotBegun, PeerInv, FreshInv, LinkInv, peers, ReportedTip
  <2>4. CASE InfoFailed
    BY <2>1, <2>2, <2>4, InfoFailedClears DEF TypeOK, Places, Stages, UpInv, Released,
       StateInv, NotBegun, PeerInv, FreshInv, LinkInv, peers, ReportedTip
  <2> QED  BY <2>2, <2>3, <2>4
<1>3. CASE RefreshState /\ ~Due(timers.refresh, RefreshTicks)
  <2>1. timers.refresh < RefreshTicks
    BY <1>3 DEF Due, TypeOK, TimersType
  <2> QED
    BY <1>3, <2>1 DEF RefreshState, TypeOK, Places, Stages, UpInv, Released, StateInv,
       NotBegun, PeerInv, FreshInv, LinkInv, channel, peers, ReportedTip
<1> QED  BY <1>1, <1>2, <1>3

-----------------------------------------------------------------------------
\* Releasing everything leaves nothing up.
LEMMA ShutdownKeepsInv ==
  ASSUME RuntimeInv, Shutdown \/ MiningInitFails
  PROVE  RuntimeInv'
<1> USE DEF RuntimeInv
<1>1. /\ up' = {} /\ link' = "down" /\ known' = Cleared /\ p2p' = NoPeer
      /\ caps' = 0 /\ discovered' = FALSE
      /\ pc' = "exited" /\ UNCHANGED <<stopper, timers, endpoint, at, compared, infoAge>>
  BY DEF Shutdown, MiningInitFails, ReleaseAll, TypeOK, Stages, PlatformShutdown,
         PeerAfterShutdown
<1>2. state' = "STOPPED" \/ (state' = "UNINITIALIZED" /\ state = "INITIALIZED")
  BY DEF Shutdown, MiningInitFails, StateInv
<1>3. known' \in KnownType /\ p2p' \in PeerType
  BY <1>1 DEF Cleared, KnownType, NoPeer, PeerType
<1>4. TypeOK'
  BY <1>1, <1>2, <1>3 DEF TypeOK, States, Places, Stages
<1>5. UpInv' /\ PeerInv' /\ FreshInv' /\ LinkInv'
  BY <1>1 DEF UpInv, Released, PeerInv, FreshInv, LinkInv, Cleared, NoPeer, Stages
<1>6. StateInv'
  BY <1>1, <1>2 DEF StateInv, NotBegun, Stages
<1> QED  BY <1>4, <1>5, <1>6

\* RuntimeInv is inductive.
LEMMA NextKeepsInv == RuntimeInv /\ [Next]_vars => RuntimeInv'
<1> SUFFICES ASSUME RuntimeInv, [Next]_vars PROVE RuntimeInv'  OBVIOUS
<1>1. CASE Owner
  BY <1>1, InitSubsystemKeepsInv, ConnectKeepsInv, DiscoveryKeepsInv, PeerKeepsInv,
     ProbeKeepsInv, TickKeepsInv, WorkKeepsInv, RefreshKeepsInv, ShutdownKeepsInv
     DEF Owner
<1>2. ASSUME NEW s \in Stoppers, StopPressed(s) \/ Handler(s)  PROVE RuntimeInv'
  BY <1>2, HandlerKeepsInv
<1>3. CASE UNCHANGED vars
  BY <1>3 DEF vars, channel, peers, RuntimeInv, TypeOK, UpInv, Released, StateInv,
     PeerInv, FreshInv, LinkInv, ReportedTip
<1> QED  BY <1>1, <1>2, <1>3 DEF Next

\* The runtime keeps RuntimeInv.
THEOREM RuntimeInvariant == Spec => []RuntimeInv
  BY InitRuntimeInv, NextKeepsInv, PTL DEF Spec

\* Every variable of the runtime keeps its type.
THEOREM TypeCorrect == Spec => []TypeOK
<1>1. RuntimeInv => TypeOK  BY DEF RuntimeInv
<1> QED  BY <1>1, RuntimeInvariant, PTL

\* stnc_core_init and stnc_core_shutdown open no connection outside Winsock's time.
THEOREM ConnectionsInNetwork == Spec => []ConnectionsNeedNetwork
<1>1. RuntimeInv => ConnectionsNeedNetwork
  BY DEF RuntimeInv, UpInv, Released, ConnectionsNeedNetwork
<1> QED  BY <1>1, RuntimeInvariant, PTL

\* However it ends, Core has released what it had initialized.
THEOREM ExitsReleased == Spec => []ExitReleasesAll
<1>1. RuntimeInv => ExitReleasesAll
  BY DEF RuntimeInv, UpInv, Released, ExitReleasesAll
<1> QED  BY <1>1, RuntimeInvariant, PTL

\* peer_current is said of the open session and its last STATE only.
THEOREM PeerCurrentIsReal == Spec => []PeerCurrentReal
<1>1. RuntimeInv => PeerCurrentReal
  BY DEF RuntimeInv, PeerInv, PeerCurrentReal, PeerCurrent
<1> QED  BY <1>1, RuntimeInvariant, PTL

\* Between ticks a connected core's view of Chain is younger than the interval.
THEOREM StateStaysFresh == Spec => []StateFresh
<1>1. RuntimeInv => StateFresh
  BY DEF RuntimeInv, FreshInv, StateFresh, TypeOK, TimersType
<1> QED  BY <1>1, RuntimeInvariant, PTL

-----------------------------------------------------------------------------
\* A step of the runtime is a step of the channel or leaves it alone.
LEMMA StepOnChannel ==
  ASSUME RuntimeInv, RuntimeInv', [Next]_vars
  PROVE  [Channel!Next]_(Channel!vars)
<1> USE DEF RuntimeInv
<1> SUFFICES ASSUME ~(UNCHANGED channel) PROVE Channel!Next
  BY DEF channel, Channel!vars
<1>1. CASE Connect
  BY <1>1 DEF Connect, LinkInv, TypeOK, Channel!Next, Channel!Open, Channel!Drop, channel
<1>2. ASSUME Informed PROVE Channel!Next
  <2>1. PICK tip \in 0..MaxTip :
          /\ known.available /\ known.chain = at => tip >= known.tip
          /\ known' = [available |-> TRUE, chain |-> at, tip |-> tip]
    BY <1>2 DEF Informed
  <2> QED
    BY <1>2, <2>1 DEF Informed, Channel!Next, Channel!Learn, Channel!Newer
<1>3. ASSUME InfoFailed PROVE Channel!Next
  BY <1>3 DEF InfoFailed, Channel!Next, Channel!Drop, Channel!Cleared, Cleared
<1>4. ASSUME Accepted, pc = "probe", UNCHANGED <<link, at>> PROVE Channel!Next
  <2>1. link = "clean" /\ known.chain = at
    BY <1>4 DEF Accepted, LinkInv
  <2>2. PICK tip \in known.tip..MaxTip :
          known' = [available |-> TRUE, chain |-> known.chain, tip |-> tip]
    BY <1>4 DEF Accepted
  <2>3. tip \in Nat /\ tip >= known.tip
    <3>1. known.tip \in 0..MaxTip
      BY KnownTips DEF TypeOK
    <3> QED  BY <2>2, <3>1
  <2> QED
    BY <1>4, <2>1, <2>2, <2>3 DEF Channel!Next, Channel!Learn, Channel!Newer
<1>5. ASSUME link' \in AfterFailure(link), UNCHANGED <<at, known>> PROVE Channel!Next
  BY <1>5 DEF AfterFailure, channel, TypeOK, Channel!Next, Channel!Abandon, Channel!Drop
<1>6. ASSUME ReleaseAll, UNCHANGED at PROVE Channel!Next
  BY <1>6 DEF ReleaseAll, Channel!Next, Channel!Drop, Channel!Cleared, Cleared
<1>7. CASE QualifyChain \/ RefreshState
  BY <1>7, <1>2, <1>3 DEF QualifyChain, RefreshState
<1>8. CASE ProbeAdvances \/ ProbeSettles \/ ProbeSubmits \/ ProbeFails
  BY <1>8, <1>4, <1>5 DEF ProbeAdvances, ProbeSettles, ProbeSubmits, ProbeFails, PeerDiffers, channel
<1>9. CASE Jobs
  BY <1>9, <1>5 DEF Jobs
<1>10. CASE Shutdown \/ MiningInitFails
  BY <1>10, <1>6 DEF Shutdown, MiningInitFails
<1>11. CASE InitSubsystem \/ QualifyRoot \/ DiscoverDirectory \/ MiningInit
  BY <1>11 DEF InitSubsystem, QualifyRoot, DiscoverDirectory, MiningInit
<1>12. CASE SelectPeer \/ RefreshPeer
  BY <1>12 DEF SelectPeer, RefreshPeer
<1>13. CASE TickConnected \/ TickDisconnected \/ TickRefused \/ PeerDue \/ Check
  BY <1>13 DEF TickConnected, TickDisconnected, TickRefused, PeerDue, Check
<1>14. ASSUME NEW s \in Stoppers, StopPressed(s) \/ Handler(s) PROVE UNCHANGED channel
  BY <1>14 DEF StopPressed, Handler, StopRead, StopWrite
<1>15. CASE UNCHANGED vars
  BY <1>15 DEF vars
<1> QED
  BY <1>1, <1>7, <1>8, <1>9, <1>10, <1>11, <1>12, <1>13, <1>14, <1>15 DEF Next, Owner

\* The runtime, from initialization to exit, implements the RPC channel.
THEOREM RuntimeImplementsChannel == Spec => ImplementsChannel
<1>1. Init => Channel!Init
  BY DEF Init, Channel!Init, Channel!Cleared, Cleared
<1>2. RuntimeInv /\ RuntimeInv' /\ [Next]_vars => [Channel!Next]_(Channel!vars)
  BY StepOnChannel
<1> QED  BY <1>1, <1>2, RuntimeInvariant, PTL DEF Spec, ImplementsChannel, Channel!Spec
=============================================================================
