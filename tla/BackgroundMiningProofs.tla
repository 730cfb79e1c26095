----------------------- MODULE BackgroundMiningProofs -----------------------
(***************************************************************************)
(* What holds of BackgroundMining for every set of works, providers and    *)
(* identities, every nonce width and every length of the waits.            *)
(*                                                                         *)
(* MiningInv says what the tick may rely on at each of its calls: that the *)
(* session open is with the provider applied last (TickInv), that held     *)
(* work came over it and which of its nonces are done (WorkInv), and that  *)
(* at most one answer is under way (NetInv).  It is inductive.             *)
(***************************************************************************)
EXTENDS BackgroundMining, SequenceTheorems, TLAPS

\* The calls that need a session, and those that need work.
OnSession == {"poll", "search", "submit", "result"}
OnWork == {"search", "submit", "result"}
Mining == {"connect"} \cup OnSession

\* The configuration and identity in use, and what the registration stands on.
TickInv ==
  /\ pc \notin {"idle", "off"} => config = applied /\ miner # NoIdentity
  /\ session.connected => session.endpoint = applied.endpoint /\ ready
  /\ pc \in Mining => CoreMines /\ ready

\* Held work and the nonces of it that are done.
WorkInv ==
  /\ WorkOfSession
  /\ NoncesInOrder
  /\ job # NoJob => job.nonce <= next
  /\ pc \in {"submit", "result"} => found \in next..MaxNonce
  /\ pc \in OnWork => job # NoJob
  /\ pc \in OnSession => session.connected

\* An answer among the frames.
AnswerAt(w, i) == i \in DOMAIN w /\ w[i].type = "RESULT"

\* At most one answer is on the wire or owed, and only while the tick waits for it.
NetInv ==
  /\ ~session.connected => wire = <<>> /\ ~owed /\ ~alive
  /\ owed => pc = "result" /\ \A i \in DOMAIN wire : ~AnswerAt(wire, i)
  /\ \A i \in DOMAIN wire : AnswerAt(wire, i) => pc = "result"
  /\ \A i, j \in DOMAIN wire : AnswerAt(wire, i) /\ AnswerAt(wire, j) => i = j

MiningInv == TypeOK /\ TickInv /\ WorkInv /\ NetInv

USE NoValuesAssumption, NumbersAssumption

-----------------------------------------------------------------------------
\* No work and no session are told apart from any other.
LEMMA NullRecords ==
  /\ ~NoSession.connected /\ NoSession \in SessionType
  /\ NoJob \in WorkType /\ NoJob.work = NoWork
  /\ \A j \in WorkType : j # NoJob => j \in [work : Works, nonce : Nonces, from : Endpoints]
  /\ \A s \in SessionType : s.connected =>
       s \in [connected : {TRUE}, endpoint : Endpoints]
  /\ \A s \in SessionType : s.connected \in BOOLEAN
<1>1. ~NoSession.connected /\ NoSession \in SessionType
  BY DEF NoSession, Session, SessionType
<1>2. NoJob \in WorkType /\ NoJob.work = NoWork
  BY DEF NoJob, Work, WorkType
<1>3. \A j \in WorkType : j # NoJob => j \in [work : Works, nonce : Nonces, from : Endpoints]
  BY DEF WorkType
<1>4. \A s \in SessionType : s.connected =>
        s \in [connected : {TRUE}, endpoint : Endpoints]
  BY <1>1 DEF SessionType
<1>5. \A s \in SessionType : s.connected \in BOOLEAN
  <2>1. \A s \in [connected : {TRUE}, endpoint : Endpoints] : s.connected = TRUE
    OBVIOUS
  <2>2. NoSession.connected = FALSE
    BY DEF NoSession, Session
  <2> QED  BY <2>1, <2>2 DEF SessionType
<1> QED  BY <1>1, <1>2, <1>3, <1>4, <1>5

\* Time passes by natural numbers.
LEMMA LessIsNat == \A wait \in Nat, elapsed \in Nat : Less(wait, elapsed) \in Nat
BY DEF Less

LEMMA WaitsAreNat ==
  WorkTicks \in Nat /\ RecheckTicks \in Nat /\ RetryTicks \in Nat /\ 1..MaxElapsed \subseteq Nat
OBVIOUS

\* The service starts without session and work.
LEMMA InitMiningInv == Init => MiningInv
<1> SUFFICES ASSUME Init PROVE MiningInv  OBVIOUS
<1> USE NullRecords DEF Init
<1>1. TypeOK
  <2>1. wire \in Seq(Frames)
    OBVIOUS
  <2>2. next \in Nonces /\ found \in Nonces /\ settled \in 0..RecheckTicks
    BY WaitsAreNat DEF Nonces
  <2> QED  BY <2>1, <2>2 DEF TypeOK, Places
<1>2. TickInv
  BY DEF TickInv, Mining, OnSession
<1>3. WorkInv
  BY DEF WorkInv, WorkOfSession, NoncesInOrder, OnWork, OnSession
<1>4. NetInv
  BY DEF NetInv, AnswerAt
<1> QED  BY <1>1, <1>2, <1>3, <1>4 DEF MiningInv

-----------------------------------------------------------------------------
\* Giving up the session leaves nothing that could be wrong.
LEMMA ClearedKeepsInv ==
  ASSUME MiningInv, ClearStratumWork, pc' \in {"idle", "off"}, UNCHANGED environment,
         applied' \in Settings, miner' \in Identities \cup {NoIdentity}, found' \in Nonces,
         ready' \in BOOLEAN, compWait' \in Nat, registered' \subseteq Identities,
         settled' \in 0..RecheckTicks
  PROVE  MiningInv'
<1> USE NullRecords DEF ClearStratumWork, Disconnect, ClearActiveWork
<1>1. TypeOK'
  <2>1. wire' \in Seq(Frames)
    OBVIOUS
  <2>2. next' \in Nonces
    BY DEF Nonces
  <2> QED  BY <2>1, <2>2 DEF TypeOK, Places, MiningInv, environment
<1>2. TickInv'
  BY DEF TickInv, Mining, OnSession
<1>3. WorkInv'
  BY DEF WorkInv, WorkOfSession, NoncesInOrder, OnWork, OnSession
<1>4. NetInv'
  BY DEF NetInv, AnswerAt
<1> QED  BY <1>1, <1>2, <1>3, <1>4 DEF MiningInv

\* Giving up the work at the end of a pass keeps the session.
LEMMA WorkClearedKeepsInv ==
  ASSUME MiningInv, pc = "search", ClearActiveWork, TickEnds,
         UNCHANGED <<applied, environment, compensation, net>>
  PROVE  MiningInv'
<1> USE NullRecords DEF ClearActiveWork, TickEnds, environment, compensation, net, MiningInv
<1>1. TypeOK'
  <2>1. next' \in Nonces /\ found' \in Nonces
    BY DEF Nonces
  <2> QED  BY <2>1 DEF TypeOK, Places
<1>2. TickInv'
  BY DEF TickInv, Mining, OnSession
<1>3. WorkInv'
  BY DEF WorkInv, WorkOfSession, NoncesInOrder, OnWork, OnSession
<1>4. NetInv'
  BY DEF NetInv, AnswerAt
<1> QED  BY <1>1, <1>2, <1>3, <1>4
-----------------------------------------------------------------------------
\* Applying the configuration, and the registration that is due.
LEMMA TickBeginsKeepsInv ==
  ASSUME MiningInv, TickBegins
  PROVE  MiningInv'
<1> USE DEF MiningInv
<1>1. PICK elapsed \in 1..MaxElapsed :
        /\ ApplyRuntimeConfig(elapsed) /\ compWait' = CompensationWait(elapsed)
        /\ settled' = IF settled + elapsed < RecheckTicks THEN settled + elapsed
                      ELSE RecheckTicks
  BY DEF TickBegins
<1>2. /\ pc = "idle" /\ identity # NoIdentity
      /\ UNCHANGED <<environment, ready, registered, found>>
      /\ \/ pc' = "idle" /\ miner' = miner
         \/ pc' = "ensure" /\ miner' = identity
         \/ pc' = "connect" /\ miner' = identity /\ CoreMines /\ ready
  BY DEF TickBegins
<1>3. /\ compWait' \in Nat /\ WorkWait(elapsed) \in Nat /\ applied' = config
      /\ settled' \in 0..RecheckTicks
  <2>1. compWait' \in Nat /\ WorkWait(elapsed) \in Nat /\ applied' = config
    BY <1>1, LessIsNat, WaitsAreNat DEF TypeOK, CompensationWait, WorkWait, ApplyRuntimeConfig
  <2>2. settled' \in 0..RecheckTicks
    BY <1>1, WaitsAreNat DEF TypeOK
  <2> QED  BY <2>1, <2>2
<1>4. CASE ClosesSession /\ ClearStratumWork
  <2> USE <1>2, <1>3, <1>4, NullRecords DEF ClearStratumWork, Disconnect, ClearActiveWork, environment
  <2>1. TypeOK'
    <3>1. wire' \in Seq(Frames) /\ next' \in Nonces
      BY DEF Nonces
    <3> QED  BY <3>1 DEF TypeOK, Places
  <2>2. TickInv'
    BY DEF TickInv, Mining, OnSession, CoreMines, TypeOK
  <2>3. WorkInv'
    BY DEF WorkInv, WorkOfSession, NoncesInOrder, OnWork, OnSession
  <2>4. NetInv'
    BY DEF NetInv, AnswerAt
  <2> QED  BY <2>1, <2>2, <2>3, <2>4
<1>5. CASE ~ClosesSession
  <2>1. /\ CoreMines /\ config.endpoint = applied.endpoint
        /\ UNCHANGED net
        /\ \/ ClearActiveWork
           \/ workWait' = WorkWait(elapsed) /\ UNCHANGED <<job, block, next, tried, running>>
    BY <1>1, <1>5 DEF ApplyRuntimeConfig, ClosesSession
  <2> USE <1>2, <1>3, <2>1, NullRecords DEF ClearActiveWork, environment, net
  <2>2. TypeOK'
    <3>1. /\ job' \in WorkType /\ block' \in Works \cup {NoWork} /\ next' \in Nonces
          /\ tried' \subseteq Nonces /\ workWait' \in Nat /\ running' \in BOOLEAN
      <4>1. CASE ClearActiveWork
        <5>1. next' \in Nonces
          BY <4>1 DEF Nonces
        <5> QED  BY <4>1, <5>1
      <4>2. CASE workWait' = WorkWait(elapsed) /\ UNCHANGED <<job, block, next, tried, running>>
        BY <4>2 DEF TypeOK
      <4> QED  BY <4>1, <4>2
    <3>2. miner' \in Identities \cup {NoIdentity} /\ pc' \in Places
      BY DEF TypeOK, Places
    <3> QED  BY <3>1, <3>2 DEF TypeOK
  <2>3. TickInv'
    BY DEF TickInv, Mining, OnSession, CoreMines, TypeOK
  <2>4. WorkInv'
    BY DEF WorkInv, WorkOfSession, NoncesInOrder, OnWork, OnSession
  <2>5. NetInv'
    BY DEF NetInv, AnswerAt
  <2> QED  BY <2>2, <2>3, <2>4, <2>5
<1> QED  BY <1>1, <1>4, <1>5 DEF ApplyRuntimeConfig

\* The registration, which a session that stays open depends on.
LEMMA EnsureKeepsInv ==
  ASSUME MiningInv, Ensure
  PROVE  MiningInv'
<1>1. /\ pc = "ensure" /\ UNCHANGED <<applied, environment>>
      /\ registered' \subseteq Identities /\ ready' \in BOOLEAN /\ compWait' \in Nat
      /\ settled' \in 0..RecheckTicks /\ (ready => ready')
  <2>1. pc = "ensure" /\ UNCHANGED <<applied, environment>>
    BY DEF Ensure
  <2>2. CASE /\ identity # NoIdentity /\ registered' = registered \cup {identity}
             /\ ready' = TRUE /\ compWait' = RecheckTicks /\ UNCHANGED settled
    BY <2>1, <2>2, WaitsAreNat DEF MiningInv, TypeOK, TickInv
  <2>3. CASE /\ compWait' = RetryTicks /\ settled' = (IF ready THEN 0 ELSE settled)
             /\ UNCHANGED <<ready, registered>>
    BY <2>1, <2>3, WaitsAreNat DEF MiningInv, TypeOK, TickInv
  <2> QED  BY <2>1, <2>2, <2>3 DEF Ensure
<1>2. CASE ready' /\ ~CoreMines
  <2>1. ClearStratumWork /\ pc' = "idle" /\ miner' = NoIdentity /\ found' = 0
    BY <1>2 DEF Ensure, MinesOrEnds, TickEnds
  <2> QED  BY <1>1, <2>1, ClearedKeepsInv DEF MiningInv, TypeOK, Nonces
<1>3. CASE ~ (ready' /\ ~CoreMines)
  <2>1. /\ UNCHANGED <<net, work>>
        /\ \/ pc' = "idle" /\ miner' = NoIdentity /\ found' = 0
           \/ pc' = "connect" /\ miner' = miner /\ found' = found /\ ready' /\ CoreMines
    BY <1>3 DEF Ensure, MinesOrEnds, TickEnds, TickGoesOn
  <2> USE <1>1, <2>1, NullRecords DEF MiningInv, net, work, environment
  <2>2. TypeOK'
    BY DEF TypeOK, Places, Nonces
  <2>3. TickInv'
    BY DEF TickInv, Mining, OnSession, CoreMines
  <2>4. WorkInv'
    BY DEF WorkInv, WorkOfSession, NoncesInOrder, OnWork, OnSession
  <2>5. NetInv'
    BY DEF NetInv, AnswerAt
  <2> QED  BY <2>2, <2>3, <2>4, <2>5
<1> QED  BY <1>2, <1>3

\* A new session is with the provider applied last, for an identity.
LEMMA ConnectKeepsInv ==
  ASSUME MiningInv, Connect
  PROVE  MiningInv'
<1> USE DEF MiningInv
<1>1. /\ pc = "connect" /\ config = applied /\ CoreMines /\ ready
      /\ miner \in Identities /\ config.endpoint \in Endpoints
      /\ UNCHANGED <<applied, environment, compensation, job, block, next, tried, workWait>>
  BY DEF Connect, TickInv, TypeOK, Settings, Mining, OnSession
<1>2. CASE session.connected
  <2>1. pc' = "poll" /\ UNCHANGED <<miner, found, net, running>>
    BY <1>2 DEF Connect, TickGoesOn
  <2> USE <1>1, <1>2, <2>1 DEF net, environment, compensation
  <2>2. TypeOK'
    BY DEF TypeOK, Places
  <2>3. TickInv'
    BY DEF TickInv, Mining, OnSession, CoreMines
  <2>4. WorkInv'
    BY DEF WorkInv, WorkOfSession, NoncesInOrder, OnWork, OnSession
  <2>5. NetInv'
    BY DEF NetInv, AnswerAt
  <2> QED  BY <2>2, <2>3, <2>4, <2>5
<1>3. CASE ~session.connected /\ TickEnds /\ running' = FALSE /\ UNCHANGED net
  <2> USE <1>1, <1>3 DEF TickEnds, net, environment, compensation
  <2>1. found' \in Nonces
    BY DEF Nonces
  <2>2. TypeOK'
    BY <2>1 DEF TypeOK, Places
  <2>3. TickInv'
    BY DEF TickInv, Mining, OnSession
  <2>4. WorkInv'
    BY DEF WorkInv, WorkOfSession, NoncesInOrder, OnWork, OnSession
  <2>5. NetInv'
    BY DEF NetInv, AnswerAt
  <2> QED  BY <2>2, <2>3, <2>4, <2>5
<1>4. CASE /\ ~session.connected
           /\ session' = Session(TRUE, config.endpoint)
           /\ alive' = TRUE
           /\ TickGoesOn("poll")
           /\ UNCHANGED <<wire, owed, running>>
  <2>1. session'.connected /\ session'.endpoint = applied.endpoint /\ session' \in SessionType
    BY <1>1, <1>4 DEF Session, SessionType
  <2>2. job = NoJob
    BY <1>4 DEF WorkInv, WorkOfSession
  <2> USE <1>1, <1>4, <2>1, <2>2 DEF TickGoesOn, environment, compensation
  <2>3. TypeOK'
    BY DEF TypeOK, Places
  <2>4. TickInv'
    BY DEF TickInv, Mining, OnSession, CoreMines
  <2>5. WorkInv'
    BY DEF WorkInv, WorkOfSession, NoncesInOrder, OnWork, OnSession
  <2>6. NetInv'
    BY DEF NetInv, AnswerAt
  <2> QED  BY <2>3, <2>4, <2>5, <2>6
<1> QED  BY <1>2, <1>3, <1>4 DEF Connect
-----------------------------------------------------------------------------
\* The frame read first, and those that stay.
LEMMA TakeFrame ==
  ASSUME NEW w \in Seq(Frames), w # <<>>
  PROVE  /\ 1 \in DOMAIN w /\ Head(w) = w[1] /\ Head(w) \in Frames
         /\ Tail(w) \in Seq(Frames)
         /\ \A i \in DOMAIN Tail(w) : i + 1 \in DOMAIN w /\ Tail(w)[i] = w[i + 1] /\ i \in Nat \ {0}
<1>1. /\ Head(w) \in Frames /\ Tail(w) \in Seq(Frames) /\ Len(Tail(w)) = Len(w) - 1
      /\ \A i \in 1..Len(Tail(w)) : Tail(w)[i] = w[i + 1]
  BY HeadTailProperties, Zenon
<1>2. Len(w) \in Nat /\ Len(w) # 0 /\ DOMAIN w = 1..Len(w) /\ DOMAIN Tail(w) = 1..Len(Tail(w))
  BY <1>1
<1>3. Head(w) = w[1]
  OBVIOUS
<1> QED  BY <1>1, <1>2, <1>3

\* Taking the only answer leaves none.
LEMMA TakeAnswer ==
  ASSUME TypeOK, NetInv, wire # <<>>, Head(wire).type = "RESULT"
  PROVE  ~owed /\ \A i \in DOMAIN Tail(wire) : ~AnswerAt(Tail(wire), i)
<1>1. wire \in Seq(Frames)
  BY DEF TypeOK
<1>2. AnswerAt(wire, 1) /\ 1 \in DOMAIN wire
  BY <1>1, TakeFrame DEF AnswerAt
<1>3. ~owed
  BY <1>2 DEF NetInv
<1>4. ASSUME NEW i \in DOMAIN Tail(wire), AnswerAt(Tail(wire), i) PROVE FALSE
  <2>1. i + 1 \in DOMAIN wire /\ i \in Nat \ {0} /\ AnswerAt(wire, i + 1)
    BY <1>1, <1>4, TakeFrame DEF AnswerAt
  <2>2. i + 1 = 1
    BY <1>2, <2>1 DEF NetInv
  <2> QED  BY <2>1, <2>2
<1> QED  BY <1>3, <1>4

\* The poll finds nothing: the tick searches or ends.
LEMMA PollNothingKeepsInv ==
  ASSUME MiningInv, PollNothing
  PROVE  MiningInv'
<1>1. /\ pc = "poll" /\ UNCHANGED <<applied, environment, compensation, net, work>>
      /\ \/ pc' = "search" /\ miner' = miner /\ found' = found /\ job # NoJob
         \/ pc' = "idle" /\ miner' = NoIdentity /\ found' = 0
  BY DEF PollNothing, SearchesOrEnds, TickGoesOn, TickEnds, work
<1> USE <1>1 DEF MiningInv, environment, compensation, net, work
<1>2. TypeOK'
  <2>1. found' \in Nonces
    BY DEF TypeOK, Nonces
  <2> QED  BY <2>1 DEF TypeOK, Places
<1>3. TickInv'
  BY DEF TickInv, Mining, OnSession, CoreMines
<1>4. WorkInv'
  BY DEF WorkInv, WorkOfSession, NoncesInOrder, OnWork, OnSession
<1>5. NetInv'
  BY DEF NetInv, AnswerAt
<1> QED  BY <1>2, <1>3, <1>4, <1>5

\* The poll finds a JOB, which replaces the work held.
LEMMA PollJobKeepsInv ==
  ASSUME MiningInv, PollJob
  PROVE  MiningInv'
<1> USE DEF MiningInv
<1> DEFINE frame == Head(wire)
<1>1. /\ pc = "poll" /\ wire # <<>> /\ wire' = Tail(wire)
      /\ frame.type = "JOB" /\ frame.good
      /\ job' = Work(frame.work, frame.nonce, session.endpoint)
      /\ block' = frame.work /\ next' = frame.nonce /\ tried' = {} /\ workWait' = 0
      /\ UNCHANGED <<applied, environment, compensation, session, alive, owed, running>>
      /\ \/ pc' = "search" /\ miner' = miner /\ found' = found
         \/ pc' = "idle" /\ miner' = NoIdentity /\ found' = 0
  BY DEF PollJob, FirstNonce, SearchesOrEnds, TickGoesOn, TickEnds
<1>2. /\ frame.work \in Works /\ frame.nonce \in Nonces
      /\ wire' \in Seq(Frames)
  <2>1. wire \in Seq(Frames)
    BY DEF TypeOK
  <2>2. frame \in Frames /\ Tail(wire) \in Seq(Frames)
    BY <1>1, <2>1, TakeFrame
  <2> QED  BY <1>1, <2>2 DEF Frames
<1>3. session.connected /\ session.endpoint \in Endpoints
  BY <1>1, NullRecords DEF WorkInv, OnSession, TypeOK
<1>4. job' \in WorkType /\ job' # NoJob /\ job'.work = frame.work /\ job'.nonce = frame.nonce
      /\ job'.from = session.endpoint
  <2>1. job' = [work |-> frame.work, nonce |-> frame.nonce, from |-> session.endpoint]
    BY <1>1 DEF Work
  <2> QED  BY <1>2, <1>3, <2>1, NullRecords DEF WorkType
<1> HIDE DEF frame
<1>5. TypeOK'
  <2>1. found' \in Nonces
    BY <1>1 DEF TypeOK, Nonces
  <2> QED  BY <1>1, <1>2, <1>4, <2>1 DEF TypeOK, Places, environment, compensation
<1>6. TickInv'
  BY <1>1 DEF TickInv, Mining, OnSession, CoreMines, environment, compensation
<1>7. WorkInv'
  BY <1>1, <1>2, <1>3, <1>4 DEF WorkInv, WorkOfSession, NoncesInOrder, OnWork, OnSession, Nonces
<1>8. NetInv'
  <2>1. wire \in Seq(Frames) /\ ~owed /\ \A i \in DOMAIN wire : ~AnswerAt(wire, i)
    BY <1>1 DEF NetInv, TypeOK
  <2>2. \A i \in DOMAIN wire' : ~AnswerAt(wire', i)
    BY <1>1, <2>1, TakeFrame DEF AnswerAt
  <2> QED  BY <1>1, <1>3, <2>1, <2>2 DEF NetInv
<1> QED  BY <1>5, <1>6, <1>7, <1>8

-----------------------------------------------------------------------------
\* A pass that finds a share has hashed every nonce up to it.
LEMMA SearchFindsKeepsInv ==
  ASSUME MiningInv, SearchFinds
  PROVE  MiningInv'
<1> USE DEF MiningInv
<1>1. /\ pc = "search" /\ pc' = "submit" /\ found' \in next..MaxNonce
      /\ tried' = tried \cup next..found' /\ workWait' = WorkTicks /\ running' = TRUE
      /\ UNCHANGED <<applied, miner, environment, compensation, net, job, block, next>>
  BY DEF SearchFinds, StartPass
<1>2. /\ next \in Nat /\ found' \in Nat /\ found' \in Nonces /\ tried' \subseteq Nonces
      /\ job # NoJob /\ job.nonce \in Nat /\ job.nonce <= next
      /\ tried = job.nonce..(next - 1)
  <2>1. job # NoJob /\ job.nonce \in Nonces
    BY <1>1, NullRecords DEF WorkInv, OnWork, TypeOK
  <2> QED  BY <1>1, <2>1 DEF TypeOK, Nonces, WorkInv, NoncesInOrder
<1>3. tried' = job.nonce..found'
  BY <1>1, <1>2
<1> USE <1>1, <1>2, <1>3 DEF environment, compensation, net
<1>4. TypeOK'
  BY WaitsAreNat DEF TypeOK, Places
<1>5. TickInv'
  BY DEF TickInv, Mining, OnSession, CoreMines
<1>6. WorkInv'
  BY DEF WorkInv, WorkOfSession, NoncesInOrder, OnWork, OnSession
<1>7. NetInv'
  BY DEF NetInv, AnswerAt
<1> QED  BY <1>4, <1>5, <1>6, <1>7

\* A pass without a share is followed by the nonces after it, or by none.
LEMMA SearchExhaustsKeepsInv ==
  ASSUME MiningInv, SearchExhausts
  PROVE  MiningInv'
<1> USE DEF MiningInv
<1>1. CASE ClearActiveWork
  BY <1>1, WorkClearedKeepsInv DEF SearchExhausts
<1>2. CASE ~ClearActiveWork
  <2>1. PICK attempts \in 1..(MaxNonce - next + 1) :
          /\ attempts <= MaxNonce - next
          /\ workWait' = WorkTicks /\ running' = TRUE
          /\ next' = next + attempts
          /\ tried' = tried \cup next..(next + attempts - 1)
          /\ UNCHANGED <<job, block>>
    <3>1. next \in Nat
      BY DEF TypeOK, Nonces
    <3> QED  BY <1>2, <3>1 DEF SearchExhausts, StartPass
  <2>2. /\ pc = "search" /\ pc' = "idle" /\ miner' = NoIdentity /\ found' = 0
        /\ UNCHANGED <<applied, environment, compensation, net>>
    BY DEF SearchExhausts, TickEnds
  <2>3. /\ next \in Nat /\ next' \in Nonces /\ tried' \subseteq Nonces /\ found' \in Nonces
        /\ job # NoJob /\ job.nonce \in Nat /\ job.nonce <= next
        /\ tried = job.nonce..(next - 1)
    <3>1. job # NoJob /\ job.nonce \in Nonces
      BY <2>2, NullRecords DEF WorkInv, OnWork, TypeOK
    <3> QED  BY <2>1, <2>2, <3>1 DEF TypeOK, Nonces, WorkInv, NoncesInOrder
  <2>4. tried' = job.nonce..(next' - 1) /\ job.nonce <= next'
    BY <2>1, <2>3
  <2> USE <2>1, <2>2, <2>3, <2>4 DEF environment, compensation, net
  <2>5. TypeOK'
    BY WaitsAreNat DEF TypeOK, Places
  <2>6. TickInv'
    BY DEF TickInv, Mining, OnSession, CoreMines
  <2>7. WorkInv'
    BY DEF WorkInv, WorkOfSession, NoncesInOrder, OnWork, OnSession
  <2>8. NetInv'
    BY DEF NetInv, AnswerAt
  <2> QED  BY <2>5, <2>6, <2>7, <2>8
<1> QED  BY <1>1, <1>2
-----------------------------------------------------------------------------
\* The share is under way, and with it at most one answer.
LEMMA SubmitKeepsInv ==
  ASSUME MiningInv, Submit
  PROVE  MiningInv'
<1> USE DEF MiningInv, Submit, environment, compensation, work
<1>1. TypeOK'
  BY DEF TypeOK, Places
<1>2. TickInv'
  BY DEF TickInv, Mining, OnSession, CoreMines
<1>3. WorkInv'
  BY DEF WorkInv, WorkOfSession, NoncesInOrder, OnWork, OnSession
<1>4. NetInv'
  BY DEF NetInv, AnswerAt
<1> QED  BY <1>1, <1>2, <1>3, <1>4

\* The answer is the only one, and the nonces go on after the share's.
LEMMA ShareAnsweredKeepsInv ==
  ASSUME MiningInv, ShareAnswered
  PROVE  MiningInv'
<1> USE DEF MiningInv
<1>1. /\ pc = "result" /\ wire # <<>> /\ wire' = Tail(wire) /\ Head(wire).type = "RESULT"
      /\ pc' = "idle" /\ miner' = NoIdentity /\ found' = 0
      /\ UNCHANGED <<applied, environment, compensation, session, alive, owed>>
      /\ \/ ClearActiveWork
         \/ /\ found # MaxNonce /\ next' = found + 1
            /\ UNCHANGED <<job, block, tried, workWait, running>>
  BY DEF ShareAnswered, DiscardsWork, AfterShare, TickEnds
<1>2. wire' \in Seq(Frames) /\ ~owed' /\ \A i \in DOMAIN wire' : ~AnswerAt(wire', i)
  BY <1>1, TakeFrame, TakeAnswer DEF TypeOK
<1>3. job # NoJob /\ job.nonce \in Nat /\ found \in next..MaxNonce /\ next \in Nat
      /\ job.nonce <= next /\ tried = job.nonce..found /\ session.connected
  BY <1>1, NullRecords DEF WorkInv, NoncesInOrder, OnWork, OnSession, TypeOK, Nonces
<1>4. CASE ClearActiveWork
  <2> USE <1>1, <1>2, <1>3, <1>4, NullRecords DEF ClearActiveWork, environment, compensation
  <2>1. TypeOK'
    <3>1. next' \in Nonces /\ found' \in Nonces
      BY DEF Nonces
    <3> QED  BY <3>1 DEF TypeOK, Places
  <2>2. TickInv'
    BY DEF TickInv, Mining, OnSession
  <2>3. WorkInv'
    BY DEF WorkInv, WorkOfSession, NoncesInOrder, OnWork, OnSession
  <2>4. NetInv'
    BY DEF NetInv
  <2> QED  BY <2>1, <2>2, <2>3, <2>4
<1>5. CASE found # MaxNonce /\ next' = found + 1 /\ UNCHANGED <<job, block, tried, workWait, running>>
  <2> USE <1>1, <1>2, <1>3, <1>5 DEF environment, compensation
  <2>1. TypeOK'
    <3>1. next' \in Nonces /\ found' \in Nonces
      BY DEF Nonces
    <3> QED  BY <3>1 DEF TypeOK, Places
  <2>2. TickInv'
    BY DEF TickInv, Mining, OnSession
  <2>3. WorkInv'
    BY DEF WorkInv, WorkOfSession, NoncesInOrder, OnWork, OnSession
  <2>4. NetInv'
    BY DEF NetInv
  <2> QED  BY <2>1, <2>2, <2>3, <2>4
<1> QED  BY <1>1, <1>4, <1>5

-----------------------------------------------------------------------------
\* The provider's frames and the end of its connection.
LEMMA ProviderKeepsInv ==
  ASSUME MiningInv, Provider
  PROVE  MiningInv'
<1> USE DEF MiningInv
<1>1. ASSUME NEW frame \in Frames, Arrives(frame), owed' \in {owed, FALSE},
             frame.type = "RESULT" => owed /\ owed' = FALSE
      PROVE  MiningInv'
  <2>1. /\ alive /\ wire' = Append(wire, frame) /\ wire \in Seq(Frames)
        /\ UNCHANGED <<pc, applied, miner, environment, compensation, session, alive, work, found>>
    BY <1>1 DEF Arrives, TypeOK
  <2>2. /\ wire' \in Seq(Frames) /\ DOMAIN wire' = DOMAIN wire \cup {Len(wire) + 1}
        /\ \A i \in DOMAIN wire : wire'[i] = wire[i]
        /\ wire'[Len(wire) + 1] = frame
    BY <2>1, AppendProperties
  <2> USE <1>1, <2>1 DEF environment, compensation, work
  <2>3. TypeOK'
    BY <2>2 DEF TypeOK
  <2>4. TickInv' /\ WorkInv'
    BY DEF TickInv, Mining, OnSession, CoreMines, WorkInv, WorkOfSession, NoncesInOrder, OnWork
  <2>5. NetInv'
    <3>1. CASE frame.type = "RESULT"
      <4>1. owed /\ ~owed' /\ pc' = "result" /\ \A i \in DOMAIN wire : ~AnswerAt(wire, i)
        BY <3>1 DEF NetInv
      <4>2. \A i \in DOMAIN wire' : AnswerAt(wire', i) => i = Len(wire) + 1
        BY <2>2, <4>1 DEF AnswerAt
      <4> QED  BY <4>1, <4>2 DEF NetInv
    <3>2. CASE frame.type # "RESULT"
      <4>1. \A i \in DOMAIN wire' : AnswerAt(wire', i) => i \in DOMAIN wire /\ AnswerAt(wire, i)
        BY <2>2, <3>2 DEF AnswerAt
      <4>2. owed' => owed
        OBVIOUS
      <4>3. owed' => pc' = "result" /\ \A i \in DOMAIN wire' : ~AnswerAt(wire', i)
        BY <4>1, <4>2 DEF NetInv
      <4>4. \A i \in DOMAIN wire' : AnswerAt(wire', i) => pc' = "result"
        BY <4>1 DEF NetInv
      <4>5. \A i, j \in DOMAIN wire' : AnswerAt(wire', i) /\ AnswerAt(wire', j) => i = j
        BY <4>1 DEF NetInv
      <4>6. session'.connected
        BY DEF NetInv
      <4> QED  BY <4>3, <4>4, <4>5, <4>6 DEF NetInv
    <3> QED  BY <3>1, <3>2
  <2> QED  BY <2>3, <2>4, <2>5
<1>2. CASE ProviderJob
  <2>1. PICK id \in Works, nonce \in Nonces, good \in BOOLEAN :
          Arrives(Job(id, nonce, good)) /\ owed' = owed
    BY <1>2 DEF ProviderJob
  <2>2. Job(id, nonce, good) \in Frames /\ Job(id, nonce, good).type # "RESULT"
    BY DEF Job, Frames
  <2> QED  BY <1>1, <2>1, <2>2
<1>3. CASE ProviderAnswers
  <2>1. PICK code \in Codes : Arrives(Result(code)) /\ owed /\ owed' = FALSE
    BY <1>3 DEF ProviderAnswers
  <2>2. Result(code) \in Frames
    BY DEF Result, Frames
  <2> QED  BY <1>1, <2>1, <2>2
<1>4. CASE LinkBreaks
  <2> USE <1>4 DEF LinkBreaks, environment, compensation, work
  <2>1. TypeOK'
    <3>1. wire \in Seq(Frames) /\ <<>> \in Seq(Frames) /\ wire' \in {wire, <<>>}
      BY DEF TypeOK
    <3>2. wire' \in Seq(Frames)
      BY <3>1
    <3> QED  BY <3>2 DEF TypeOK
  <2>2. TickInv' /\ WorkInv'
    BY DEF TickInv, Mining, OnSession, CoreMines, WorkInv, WorkOfSession, NoncesInOrder, OnWork
  <2>3. NetInv'
    BY DEF NetInv, AnswerAt
  <2> QED  BY <2>1, <2>2, <2>3
<1> QED  BY <1>2, <1>3, <1>4 DEF Provider

\* Commands between two ticks, and the window's profile menu at any time.
LEMMA EnvironmentKeepsInv ==
  ASSUME MiningInv, ConfigChanges \/ ProfileChanges
  PROVE  MiningInv'
<1> USE DEF MiningInv, ConfigChanges, ProfileChanges, compensation, net, work
<1>1. TypeOK'
  BY DEF TypeOK
<1>2. TickInv'
  BY DEF TickInv, Mining, OnSession, CoreMines
<1>3. WorkInv'
  BY DEF WorkInv, WorkOfSession, NoncesInOrder, OnWork, OnSession
<1>4. NetInv'
  BY DEF NetInv, AnswerAt
<1> QED  BY <1>1, <1>2, <1>3, <1>4
-----------------------------------------------------------------------------
\* Every step keeps the invariant.
LEMMA NextKeepsInv ==
  ASSUME MiningInv, [Next]_vars
  PROVE  MiningInv'
<1>1. CASE TickWithoutIdentity
  <2>1. ClearStratumWork /\ pc' = "idle"
    BY <1>1 DEF TickWithoutIdentity, TickEnds
  <2>2. /\ miner' = NoIdentity /\ found' \in Nonces /\ UNCHANGED environment
        /\ ready' = FALSE /\ compWait' \in Nat
    BY <1>1 DEF TickWithoutIdentity, TickEnds, Nonces
  <2>3. /\ applied' \in Settings /\ registered' \subseteq Identities
        /\ settled' \in 0..RecheckTicks
    BY <1>1 DEF TickWithoutIdentity, MiningInv, TypeOK
  <2> QED  BY <2>1, <2>2, <2>3, ClearedKeepsInv
<1>2. CASE PollFails \/ ProgressFails \/ SubmitFails \/ ShareUnanswered
  <2>1. ClearStratumWork /\ TickEnds /\ UNCHANGED <<applied, environment, compensation>>
    BY <1>2 DEF PollFails, ProgressFails, SubmitFails, ShareUnanswered, GivesUpSession
  <2>2. pc' = "idle" /\ miner' = NoIdentity /\ found' \in Nonces /\ UNCHANGED environment
    BY <2>1 DEF TickEnds, Nonces
  <2>3. /\ applied' \in Settings /\ ready' \in BOOLEAN /\ compWait' \in Nat
        /\ registered' \subseteq Identities /\ settled' \in 0..RecheckTicks
    BY <2>1 DEF MiningInv, TypeOK, TickInv, compensation
  <2> QED  BY <2>1, <2>2, <2>3, ClearedKeepsInv
<1>3. CASE SearchFails
  BY <1>3, WorkClearedKeepsInv DEF SearchFails
<1>4. CASE Shutdown
  BY <1>4, ClearedKeepsInv DEF Shutdown, MiningInv, TypeOK
<1>5. CASE \/ TickBegins \/ Ensure \/ Connect \/ PollNothing \/ PollJob
           \/ SearchFinds \/ SearchExhausts \/ Submit \/ ShareAnswered
  BY <1>5, TickBeginsKeepsInv, EnsureKeepsInv, ConnectKeepsInv, PollNothingKeepsInv,
     PollJobKeepsInv, SearchFindsKeepsInv, SearchExhaustsKeepsInv, SubmitKeepsInv,
     ShareAnsweredKeepsInv
<1>6. CASE Provider \/ ConfigChanges \/ ProfileChanges
  BY <1>6, ProviderKeepsInv, EnvironmentKeepsInv
<1>7. CASE UNCHANGED vars
  BY <1>7 DEF vars, environment, compensation, net, work, MiningInv, TypeOK, TickInv, Mining,
       OnSession, OnWork, CoreMines, WorkInv, WorkOfSession, NoncesInOrder, NetInv, AnswerAt
<1> QED  BY <1>1, <1>2, <1>3, <1>4, <1>5, <1>6, <1>7 DEF Next, Tick

\* MiningInv holds in every reachable state of stnc_background_mining.c.
THEOREM MiningInvariant == Spec => []MiningInv
<1>1. Init => MiningInv
  BY InitMiningInv
<1>2. MiningInv /\ [Next]_vars => MiningInv'
  BY NextKeepsInv
<1> QED  BY <1>1, <1>2, PTL DEF Spec

\* Every variable of background mining keeps its type; in particular next_nonce and
\* the nonce found stay within the width of a nonce.
THEOREM TypeCorrect == Spec => []TypeOK
<1>1. MiningInv => TypeOK
  BY DEF MiningInv
<1> QED  BY <1>1, MiningInvariant, PTL

\* Held work is of the open session and its provider, and its block is in the buffer,
\* however configuration, profile, provider and failures interleave with the tick.
THEOREM WorkIsOfSession == Spec => []WorkOfSession
<1>1. MiningInv => WorkOfSession
  BY DEF MiningInv, WorkInv
<1> QED  BY <1>1, MiningInvariant, PTL

\* The passes over a job hash its nonces in order, each once, for every nonce width.
THEOREM NoncesAreInOrder == Spec => []NoncesInOrder
<1>1. MiningInv => NoncesInOrder
  BY DEF MiningInv, WorkInv
<1> QED  BY <1>1, MiningInvariant, PTL

\* The poll never meets the answer to a share.
THEOREM ResultsAreAwaited == Spec => []ResultsAwaited
<1>1. MiningInv => ResultsAwaited
  BY DEF MiningInv, NetInv, AnswerAt, WorkInv, OnWork, ResultsAwaited
<1> QED  BY <1>1, MiningInvariant, PTL

\* Past the compensation check the tick mines as configured.
THEOREM TickMinesAsConfigured == Spec => []MinesAsConfigured
<1>1. MiningInv => MinesAsConfigured
  BY DEF MiningInv, TickInv, Mining, OnSession, MinesAsConfigured
<1> QED  BY <1>1, MiningInvariant, PTL

\* Whose registration the tick relies on: the identity on disk is registered or not yet
\* long enough there, for the recheck comes before settled is full.
RegistrationInv ==
  /\ compWait <= RecheckTicks
  /\ pc \in Mining => compWait > 0
  /\ ready /\ pc # "ensure" =>
       \/ identity \in registered \cup {NoIdentity}
       \/ settled + compWait <= RecheckTicks

\* The registration the tick relies on, while the identity on disk may change.
LEMMA NextKeepsRegistration ==
  ASSUME MiningInv, RegistrationInv, [Next]_vars
  PROVE  RegistrationInv'
<1> USE DEF RegistrationInv, Mining, OnSession
<1>1. /\ compWait \in Nat /\ settled \in 0..RecheckTicks
      /\ identity \in Identities \cup {NoIdentity} /\ registered \subseteq Identities
  BY DEF MiningInv, TypeOK
<1>2. CASE TickWithoutIdentity \/ Shutdown
  BY <1>1, <1>2, WaitsAreNat DEF TickWithoutIdentity, Shutdown, TickEnds
<1>3. CASE TickBegins
  <2>1. PICK elapsed \in 1..MaxElapsed :
          /\ compWait' = Less(compWait, elapsed)
          /\ settled' = IF settled + elapsed < RecheckTicks THEN settled + elapsed
                        ELSE RecheckTicks
    BY <1>3 DEF TickBegins, CompensationWait
  <2>2. /\ UNCHANGED <<identity, ready, registered>>
        /\ pc = "idle" /\ pc' \in {"idle", "ensure", "connect"}
        /\ compWait' = 0 => pc' = "ensure"
    BY <1>3, <2>1, <1>1, LessIsNat, WaitsAreNat DEF TickBegins, environment
  <2>3. compWait' # 0 => settled' + compWait' <= settled + compWait
    BY <1>1, <2>1, WaitsAreNat DEF Less
  <2>4. compWait' \in Nat /\ settled' \in Nat /\ compWait' <= compWait
    BY <1>1, <2>1, WaitsAreNat DEF Less
  <2>5. compWait' <= RecheckTicks /\ (pc' \in Mining => compWait' > 0)
    BY <1>1, <2>2, <2>4, WaitsAreNat
  <2>6. ASSUME ready', pc' # "ensure"
        PROVE  \/ identity' \in registered' \cup {NoIdentity}
               \/ settled' + compWait' <= RecheckTicks
    <3>1. compWait' # 0 /\ ready /\ pc # "ensure"
      BY <2>2, <2>6
    <3>2. CASE identity \in registered \cup {NoIdentity}
      BY <2>2, <3>2
    <3>3. CASE settled + compWait <= RecheckTicks
      <4>1. settled' + compWait' <= settled + compWait
        BY <2>3, <3>1
      <4>2. {settled, compWait, settled', compWait', RecheckTicks} \subseteq Nat
        BY <1>1, <2>4, WaitsAreNat
      <4>3. settled' + compWait' <= RecheckTicks
        BY <3>3, <4>1, <4>2
      <4> QED  BY <4>3
    <3> QED  BY <3>1, <3>2, <3>3
  <2> QED  BY <2>5, <2>6
<1>4. CASE Ensure
  <2>1. /\ UNCHANGED identity /\ pc = "ensure"
        /\ pc' \in {"idle", "connect"}
        /\ \/ identity \in registered' /\ compWait' = RecheckTicks
           \/ /\ compWait' = RetryTicks
              /\ ready' = ready /\ (ready => settled' = 0)
    BY <1>4 DEF Ensure, environment, MinesOrEnds, TickGoesOn, TickEnds
  <2> QED  BY <1>1, <2>1, WaitsAreNat
<1>5. CASE Connect
  <2>1. pc = "connect" /\ UNCHANGED <<compensation, identity>>
    BY <1>5 DEF Connect, environment
  <2> QED  BY <1>1, <2>1 DEF compensation
<1>6. CASE \/ PollNothing \/ PollJob \/ PollFails \/ SearchFinds \/ SearchExhausts
           \/ SearchFails \/ ProgressFails \/ Submit \/ SubmitFails
           \/ ShareAnswered \/ ShareUnanswered
  <2>1. UNCHANGED <<compensation, environment>> /\ pc \in {"poll", "search", "submit", "result"}
    BY <1>6 DEF PollNothing, PollJob, PollFails, SearchFinds, SearchExhausts, SearchFails,
         ProgressFails, Submit, SubmitFails, ShareAnswered, ShareUnanswered
  <2> QED  BY <1>1, <2>1 DEF compensation, environment
<1>7. CASE ConfigChanges \/ Provider
  <2>1. UNCHANGED <<pc, compensation, identity>>
    BY <1>7 DEF ConfigChanges, Provider, ProviderJob, ProviderAnswers, Arrives, LinkBreaks,
         environment
  <2> QED  BY <1>1, <2>1 DEF compensation
<1>8. CASE ProfileChanges
  <2>1. UNCHANGED <<pc, ready, compWait, registered>> /\ settled' = 0
    BY <1>8 DEF ProfileChanges
  <2> QED  BY <1>1, <2>1, WaitsAreNat
<1>9. CASE UNCHANGED vars
  BY <1>1, <1>9 DEF vars, environment, compensation
<1> QED  BY <1>2, <1>3, <1>4, <1>5, <1>6, <1>7, <1>8, <1>9 DEF Next, Tick

\* RegistrationInv holds in every reachable state.
THEOREM RegistrationInvariant == Spec => []RegistrationInv
<1>1. Init => RegistrationInv
  BY WaitsAreNat DEF Init, RegistrationInv, Mining, OnSession
<1>2. MiningInv /\ RegistrationInv /\ [Next]_vars => RegistrationInv'
  BY NextKeepsRegistration
<1> QED  BY <1>1, <1>2, MiningInvariant, PTL DEF Spec

\* A session is opened for a registered identity, but for a profile that was switched
\* inside the tick or less than the recheck interval ago, whatever the intervals are.
THEOREM OpensOnlyRegistered == Spec => OpensRegistered
<1> DEFINE Opens ==
      ~session.connected /\ session'.connected /\ miner \notin registered =>
        identity # miner \/ settled < RecheckTicks
<1>1. ASSUME MiningInv, RegistrationInv, [Next]_vars,
             ~session.connected, session'.connected, miner \notin registered
      PROVE  identity # miner \/ settled < RecheckTicks
  <2>1. ~UNCHANGED session /\ ~NoSession.connected
    BY <1>1, NullRecords
  <2>2. Connect
    <3>1. ~TickWithoutIdentity /\ ~Shutdown /\ ~PollFails /\ ~ProgressFails /\ ~SubmitFails
            /\ ~ShareUnanswered
      BY <1>1, <2>1 DEF TickWithoutIdentity, Shutdown, PollFails, ProgressFails, SubmitFails,
           ShareUnanswered, GivesUpSession, ClearStratumWork, Disconnect
    <3>2. ~TickBegins /\ ~Ensure
      BY <1>1, <2>1 DEF TickBegins, ApplyRuntimeConfig, Ensure, ClearStratumWork, Disconnect,
           net
    <3>3. /\ ~PollNothing /\ ~PollJob /\ ~SearchFinds /\ ~SearchExhausts /\ ~SearchFails
          /\ ~Submit /\ ~ShareAnswered /\ ~ConfigChanges /\ ~ProfileChanges /\ ~Provider
      BY <2>1 DEF PollNothing, PollJob, SearchFinds, SearchExhausts, SearchFails, Submit,
           ShareAnswered, DiscardsWork, ConfigChanges, ProfileChanges, Provider, ProviderJob,
           ProviderAnswers, Arrives, LinkBreaks, net
    <3>4. ~UNCHANGED vars
      BY <2>1 DEF vars, net
    <3> QED  BY <1>1, <3>1, <3>2, <3>3, <3>4 DEF Next, Tick
  <2>3. pc = "connect" /\ ready /\ miner # NoIdentity
    BY <1>1, <2>2 DEF Connect, MiningInv, TickInv, Mining
  <2>4. identity \in registered \cup {NoIdentity} \/ settled + compWait <= RecheckTicks
    BY <1>1, <2>3 DEF RegistrationInv
  <2>5. compWait \in Nat \ {0} /\ settled \in Nat
    BY <1>1, <2>3, WaitsAreNat DEF RegistrationInv, Mining, MiningInv, TypeOK
  <2> QED  BY <1>1, <2>3, <2>4, <2>5, WaitsAreNat
<1>2. MiningInv /\ RegistrationInv /\ [Next]_vars => [Opens]_vars
  BY <1>1
<1> QED  BY <1>2, MiningInvariant, RegistrationInvariant, PTL DEF Spec, OpensRegistered

\* A healthy session is torn down only deliberately, or when the provider spoke out
\* of order.
THEOREM SessionIsKept == Spec => SessionKept
<1> DEFINE Kept ==
      session.connected /\ ~session'.connected /\ alive /\ InOrder =>
        pc' = "off" \/ identity = NoIdentity \/ ~CoreMines
          \/ config.endpoint # applied.endpoint
<1>1. ASSUME [Next]_vars, session.connected, ~session'.connected, alive, InOrder
      PROVE  pc' = "off" \/ identity = NoIdentity \/ ~CoreMines
               \/ config.endpoint # applied.endpoint
  <2>1. ~UNCHANGED session
    BY <1>1
  <2>2. CASE TickWithoutIdentity \/ Shutdown
    BY <2>2 DEF TickWithoutIdentity, Shutdown
  <2>3. CASE TickBegins
    BY <2>1, <2>3 DEF TickBegins, ApplyRuntimeConfig, ClosesSession, net
  <2>4. CASE Ensure
    BY <2>1, <2>4 DEF Ensure, net
  <2>5. CASE Connect
    BY <1>1, <2>1, <2>5 DEF Connect, net
  <2>6. CASE PollFails \/ ProgressFails \/ SubmitFails \/ ShareUnanswered
    BY <1>1, <2>6 DEF PollFails, ProgressFails, SubmitFails, ShareUnanswered, InOrder
  <2>7. CASE ShareAnswered
    BY <2>1, <2>7 DEF ShareAnswered, DiscardsWork
  <2>8. CASE \/ PollNothing \/ PollJob \/ SearchFinds \/ SearchExhausts \/ SearchFails \/ Submit
             \/ ConfigChanges \/ ProfileChanges
    BY <2>1, <2>8 DEF PollNothing, PollJob, SearchFinds, SearchExhausts, SearchFails, Submit,
         ConfigChanges, ProfileChanges, net
  <2>9. CASE Provider
    BY <2>1, <2>9 DEF Provider, ProviderJob, ProviderAnswers, Arrives, LinkBreaks
  <2> QED
    BY <1>1, <2>1, <2>2, <2>3, <2>4, <2>5, <2>6, <2>7, <2>8, <2>9 DEF Next, Tick, vars, net
<1>2. [Next]_vars => [Kept]_vars
  BY <1>1
<1> QED  BY <1>2, PTL DEF Spec, SessionKept
=============================================================================
