------------------------------- MODULE PeerSet -------------------------------
(***************************************************************************)
(* The Chain P2P peers: how the root peer and the public directory fill    *)
(* the bounded, ordered set of candidates, and how a peer is selected from *)
(* it.  One owner thread; every answer comes from outside.  The network    *)
(* calls of a step are one outcome here, the loops over peers are steps.   *)
(***************************************************************************)
EXTENDS Integers, Sequences, FiniteSets

CONSTANTS
  Peer,          \* hosts and ports, numbered in the order of stnc_peers_compare
  Malformed,     \* an entry that no check of the code lets in
  Max,           \* STNC_PEERS_MAX
  MaxBatch,      \* bound: entries of one answer, never more than Max
  Latency,       \* milliseconds a HELLO takes
  Healthy        \* peers that always qualify, and always open when selected

NoPeer == -1
Entry == Peer \union {Malformed}

ASSUME PeerAssumption ==
  /\ Peer \subseteq Nat
  /\ Malformed \notin Peer
  /\ Max \in Nat \ {0}
  /\ MaxBatch \in 0..Max
  /\ Latency \subseteq Nat
  /\ Healthy \subseteq Peer

VARIABLES
  stage,        \* what the runtime calls next: root, directory, select, running
  pc,           \* idle, or the loop it is in
  source,       \* whose answer is being admitted
  batch,        \* the entries of that answer
  staged,       \* the copy of the candidates they are added to
  candidates,   \* peer_candidates
  root,         \* root_peer_capabilities # 0
  at,           \* index of the loop
  qualified,    \* qualified_peers
  best,         \* index of the best of them so far
  session       \* the peer of p2p_connection

vars == <<stage, pc, source, batch, staged, candidates, root, at, qualified,
          best, session>>
admission == <<source, batch, staged>>
selection == <<qualified, best>>

Members(s) == {s[i] : i \in 1..Len(s)}

\* The code compares neighbours; the order is transitive.
Ordered(s) == \A i, j \in 1..Len(s) : i < j => s[i] < s[j]

Init ==
  /\ stage \in {"root", "running"}
  /\ pc = "idle"
  /\ source = "root"
  /\ batch = <<>>
  /\ staged = <<>>
  /\ candidates = <<>>
  /\ root = FALSE
  /\ at = 1
  /\ qualified = <<>>
  /\ best = 0
  /\ session = NoPeer

\* Initialization asks root, directory and candidates in turn, whatever the
\* outcome; a core that found no Chain then has only the retries of its loop.
Advance ==
  stage' = CASE stage = "root" -> "directory"
             [] stage = "directory" -> "select"
             [] OTHER -> "running"

(***************************************************************************)
(* stnc_core_qualify_root_peer and stnc_core_discover_directory_peers      *)
(***************************************************************************)
AsksRoot == pc = "idle" /\ (stage = "root" \/ (stage = "running" /\ ~root))
AsksDirectory == pc = "idle" /\ stage = "directory"

\* No connection, no HELLO of this network, or no list after it.
RootUnavailable ==
  /\ AsksRoot
  /\ Advance
  /\ UNCHANGED <<pc, admission, candidates, root, at, selection, session>>

RootWithoutDiscovery ==
  /\ AsksRoot
  /\ root' = TRUE
  /\ Advance
  /\ UNCHANGED <<pc, admission, candidates, at, selection, session>>

DirectoryUnavailable ==
  /\ AsksDirectory
  /\ Advance
  /\ UNCHANGED <<pc, admission, candidates, root, at, selection, session>>

\* Both add the entries of an answer to a copy of the candidates.
Admit(who, entries) ==
  /\ pc' = "admitting"
  /\ source' = who
  /\ batch' = entries
  /\ staged' = candidates
  /\ at' = 1
  /\ UNCHANGED <<stage, candidates, selection, session>>

RootAnswers(entries) == AsksRoot /\ Admit("root", entries) /\ root' = TRUE
DirectoryAnswers(entries) ==
  AsksDirectory /\ Admit("directory", entries) /\ UNCHANGED root

(***************************************************************************)
(* stnc_peers_add: an entry that is there already is no failure, not even  *)
(* when the set is full.                                                   *)
(***************************************************************************)
CanAdd(s, peer) ==
  /\ peer \in Peer
  /\ Ordered(s)
  /\ peer \in Members(s) \/ Len(s) < Max

\* The place of the first entry that does not come before the new one.
Position(s, peer) ==
  CHOOSE i \in 1..Len(s) + 1 :
    /\ \A j \in 1..i - 1 : s[j] < peer
    /\ i <= Len(s) => peer <= s[i]

Add(s, peer) ==
  IF peer \in Members(s) THEN s
  ELSE LET place == Position(s, peer)
       IN  [i \in 1..Len(s) + 1 |->
              IF i < place THEN s[i] ELSE IF i = place THEN peer ELSE s[i - 1]]

\* Mutant: entries are added to the candidates themselves.
AdmitEntryInPlace ==
  /\ pc = "admitting"
  /\ at <= Len(batch)
  /\ CanAdd(staged, batch[at])
  /\ staged' = Add(staged, batch[at])
  /\ candidates' = staged'
  /\ at' = at + 1
  /\ UNCHANGED <<stage, pc, source, batch, root, selection, session>>

AdmitEntry ==
  /\ pc = "admitting"
  /\ at <= Len(batch)
  /\ CanAdd(staged, batch[at])
  /\ staged' = Add(staged, batch[at])
  /\ at' = at + 1
  /\ UNCHANGED <<stage, pc, source, batch, candidates, root, selection, session>>

\* The answer is over: the copy, and the locals, are gone.
EndAdmission ==
  /\ pc' = "idle"
  /\ source' = "root"
  /\ batch' = <<>>
  /\ staged' = <<>>
  /\ at' = 1
  /\ Advance
  /\ UNCHANGED <<selection, session>>

\* One refused entry, or a wrong count in the directory's answer, refuses all
\* of it, and with the root peer's answer the root peer itself.
Refuse ==
  /\ pc = "admitting"
  /\ \/ at <= Len(batch) /\ ~CanAdd(staged, batch[at])
     \/ at > Len(batch) /\ source = "directory"
  /\ root' = (root /\ source # "root")
  /\ EndAdmission
  /\ UNCHANGED candidates

Commit ==
  /\ pc = "admitting"
  /\ at > Len(batch)
  /\ candidates' = staged
  /\ EndAdmission
  /\ UNCHANGED root

(***************************************************************************)
(* stnc_core_select_peer                                                   *)
(***************************************************************************)
\* Mutant: only initialization selects.
SelectBeginsOnce ==
  /\ pc = "idle"
  /\ stage = "select"
  /\ pc' = "qualifying"
  /\ at' = 1
  /\ qualified' = <<>>
  /\ best' = 0
  /\ Advance
  /\ UNCHANGED <<admission, candidates, root, session>>

SelectBegins ==
  /\ pc = "idle"
  /\ stage = "select" \/ (stage = "running" /\ session = NoPeer)
  /\ pc' = "qualifying"
  /\ at' = 1
  /\ qualified' = <<>>
  /\ best' = 0
  /\ Advance
  /\ UNCHANGED <<admission, candidates, root, session>>

Reject ==
  /\ pc = "qualifying"
  /\ at <= Len(candidates)
  /\ candidates[at] \notin Healthy
  /\ at' = at + 1
  /\ UNCHANGED <<stage, pc, admission, candidates, root, selection, session>>

\* stnc_peer_select_add replaces what it knows of a peer, or appends.
SelectAdd(s, q) ==
  IF \E i \in 1..Len(s) : s[i].peer = q.peer
  THEN [i \in 1..Len(s) |-> IF s[i].peer = q.peer THEN q ELSE s[i]]
  ELSE Append(s, q)

Qualify(latency) ==
  /\ pc = "qualifying"
  /\ at <= Len(candidates)
  /\ qualified' =
       SelectAdd(qualified, [peer |-> candidates[at], latency |-> latency])
  /\ at' = at + 1
  /\ UNCHANGED <<stage, pc, admission, candidates, root, best, session>>

\* stnc_peer_select_best starts with the first; with none there is no choice.
ScanBegins ==
  /\ pc = "qualifying"
  /\ at > Len(candidates)
  /\ \/ /\ Len(qualified) > 0
        /\ pc' = "scanning"
        /\ best' = 1
        /\ at' = 2
     \/ /\ Len(qualified) = 0
        /\ pc' = "idle"
        /\ at' = 1
        /\ UNCHANGED best
  /\ UNCHANGED <<stage, admission, candidates, root, qualified, session>>

\* stnc_peer_select_better
Better(left, right) ==
  \/ left.latency < right.latency
  \/ left.latency = right.latency /\ left.peer < right.peer

Scan ==
  /\ pc = "scanning"
  /\ at <= Len(qualified)
  /\ best' = IF Better(qualified[at], qualified[best]) THEN at ELSE best
  /\ at' = at + 1
  /\ UNCHANGED <<stage, pc, admission, candidates, root, qualified, session>>

\* stnc_core_open_selected_peer connects, says HELLO again, asks for the
\* STATE and probes the evidence; a failure leaves no session.
Opened ==
  /\ pc = "scanning"
  /\ at > Len(qualified)
  /\ pc' = "idle"
  /\ at' = 1
  /\ UNCHANGED <<stage, admission, candidates, root, selection>>

Open == Opened /\ session' = qualified[best].peer
OpenFails ==
  Opened /\ qualified[best].peer \notin Healthy /\ session' = NoPeer

\* The refresh of the selected peer fails.
SessionLost ==
  /\ pc = "idle"
  /\ stage = "running"
  /\ session # NoPeer
  /\ session' = NoPeer
  /\ UNCHANGED <<stage, pc, admission, candidates, root, at, selection>>

Batches == UNION {[1..n -> Entry] : n \in 0..MaxBatch}

Loops ==
  \/ AdmitEntry \/ Refuse \/ Commit
  \/ Reject \/ (\E latency \in Latency : Qualify(latency))
  \/ ScanBegins \/ Scan \/ Open \/ OpenFails

Asks ==
  \/ RootUnavailable
  \/ RootWithoutDiscovery
  \/ DirectoryUnavailable
  \/ \E entries \in Batches : RootAnswers(entries) \/ DirectoryAnswers(entries)

Initialize == stage # "running" /\ Asks

Next ==
  \/ Asks
  \/ SelectBegins
  \/ SessionLost
  \/ Loops

Spec == Init /\ [][Next]_vars

(***************************************************************************)
(* Fairness: initialization and a loop the owner has entered go on, every  *)
(* network call being bounded by a timeout.  The retries of the root peer  *)
(* and of the selection are counted apart, so neither keeps the other away *)
(* for ever as long as Chain stays connected.                              *)
(***************************************************************************)
FairSpec == Spec /\ WF_vars(Initialize) /\ WF_vars(Loops) /\ SF_vars(SelectBegins)

(***************************************************************************)
(* Properties                                                              *)
(***************************************************************************)
Qualified == [peer : Peer, latency : Latency]
PeersOf(s) == {q.peer : q \in Members(s)}

\* Types; and both peer arrays stay within STNC_PEERS_MAX, the candidates
\* in the order without which stnc_peers_add refuses every later peer.
TypeOK ==
  /\ stage \in {"root", "directory", "select", "running"}
  /\ pc \in {"idle", "admitting", "qualifying", "scanning"}
  /\ source \in {"root", "directory"}
  /\ batch \in Seq(Entry) /\ Len(batch) <= Max
  /\ staged \in Seq(Peer) /\ Len(staged) <= Max /\ Ordered(staged)
  /\ candidates \in Seq(Peer) /\ Len(candidates) <= Max /\ Ordered(candidates)
  /\ root \in BOOLEAN
  /\ at \in Nat \ {0}
  /\ qualified \in Seq(Qualified) /\ Len(qualified) <= Max
  /\ best \in 0..Len(qualified)
  /\ session \in Peer \union {NoPeer}

Wanted == Members(candidates) \union Members(batch)
AnswerEnds == pc = "admitting" /\ pc' = "idle"
Fits == Wanted \subseteq Peer /\ Cardinality(Wanted) <= Max

\* An answer of the root peer or of the directory is admitted whole or not at
\* all (stnc_peers_add_stnp, stnc_directory_decode).  The root peer keeps its
\* standing exactly if its peers are known or fit, in whatever order and
\* however often it names them; nothing else takes its standing away.
AnswerIsWhole ==
  [][/\ candidates' # candidates =>
          AnswerEnds /\ Fits /\ Members(candidates') = Wanted
     /\ AnswerEnds /\ source = "root" =>
          /\ root' <=> Fits
          /\ root' => Members(candidates') = Wanted
     /\ root /\ ~root' => AnswerEnds /\ source = "root"]_vars

\* The session goes to the best of all candidates that qualified in this
\* pass, by latency and then by name, and no healthy candidate was left out
\* of the choice (stnc_core_select_peer, stnc_peer_select_best).
SelectedIsBest ==
  [][session' # session /\ session' # NoPeer =>
       /\ \E q \in Members(qualified) :
            /\ q.peer = session'
            /\ \A other \in Members(qualified) :
                 \/ q.latency < other.latency
                 \/ q.latency = other.latency /\ q.peer <= other.peer
       /\ PeersOf(qualified) \subseteq Members(candidates)
       /\ Members(candidates) \cap Healthy \subseteq PeersOf(qualified)]_vars

\* While every candidate is healthy, Core has a session again and again,
\* however often it loses one (stnc_core_tick).
HealthySetServes ==
  <>[](candidates # <<>> /\ Members(candidates) \subseteq Healthy)
    => []<>(session # NoPeer)

=============================================================================
