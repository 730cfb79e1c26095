----------------------------- MODULE PeerSetProofs -----------------------------
(***************************************************************************)
(* Theorems of PeerSet, for any peers, any size of the two arrays, any     *)
(* answers and any latencies.                                              *)
(***************************************************************************)
EXTENDS PeerSet, FiniteSetTheorems, SequenceTheorems, WellFoundedInduction, TLAPS

USE DEF admission, selection

(***************************************************************************)
(* The inductive invariant: what the staged copy holds, and what the two   *)
(* loops over peers have seen so far.                                      *)
(***************************************************************************)
StagedOK ==
  pc = "admitting" =>
    /\ at <= Len(batch) + 1
    /\ \A i \in 1..at - 1 : batch[i] \in Members(staged)
    /\ Members(candidates) \subseteq Members(staged)
    /\ Members(staged) \subseteq Wanted
    /\ source = "root" => root

SeenUpTo(n) ==
  /\ \A i \in 1..Len(qualified) :
       \E j \in 1..n : j <= Len(candidates) /\ qualified[i].peer = candidates[j]
  /\ \A j \in 1..n :
       j <= Len(candidates) /\ candidates[j] \in Healthy =>
         \E i \in 1..Len(qualified) : qualified[i].peer = candidates[j]

QualifyingOK ==
  pc = "qualifying" =>
    /\ at <= Len(candidates) + 1
    /\ Len(qualified) < at
    /\ SeenUpTo(at - 1)

ScanningOK ==
  pc = "scanning" =>
    /\ at <= Len(qualified) + 1
    /\ best \in 1..at - 1
    /\ SeenUpTo(Len(candidates))
    /\ \A i \in 1..at - 1 : ~Better(qualified[i], qualified[best])

IInv == TypeOK /\ StagedOK /\ QualifyingOK /\ ScanningOK

(***************************************************************************)
(* Lemmas                                                                  *)
(***************************************************************************)
\* Every nonempty set of naturals has a least element.
LEMMA LeastNatural ==
  ASSUME NEW T \in SUBSET Nat, T # {}
  PROVE  \E x \in T : \A y \in T : x <= y
PROOF
  <1> DEFINE R == OpToRel(<, Nat)
  <1>1. IsWellFoundedOn(R, Nat)
    BY NatLessThanWellFounded, Zenon
  <1>2. PICK x \in T : \A y \in T : ~ (<<y, x>> \in R)
    <2> HIDE DEF R
    <2> QED BY <1>1, WFMin
  <1>3. ASSUME NEW a \in Nat, NEW b \in Nat, a < b
        PROVE  <<a, b>> \in R
    BY <1>3 DEF OpToRel
  <1>4. ASSUME NEW y \in T
        PROVE  x <= y
    <2>1. <<y, x>> \notin R
      BY <1>2
    <2> HIDE DEF R
    <2> QED BY <1>3, <2>1
  <1> QED BY <1>4

\* The members of an ordered sequence are as many as its places.
LEMMA OrderedCardinality ==
  ASSUME NEW s \in Seq(Peer), Ordered(s)
  PROVE  IsFiniteSet(Members(s)) /\ Cardinality(Members(s)) = Len(s)
PROOF
  <1> USE PeerAssumption
  <1>0. Len(s) \in Nat /\ \A i \in 1..Len(s) : s[i] \in Nat
    BY ElementOfSeq, LenProperties
  <1>1. ASSUME NEW i \in 1..Len(s), NEW j \in 1..Len(s), s[i] = s[j]
        PROVE  i = j
    <2>1. ~ (i < j) /\ ~ (j < i)
      <3>1. i < j => s[i] < s[j]
        BY DEF Ordered
      <3>2. j < i => s[j] < s[i]
        BY DEF Ordered
      <3> QED BY <1>0, <1>1, <3>1, <3>2
    <2> QED BY <2>1, <1>0
  <1>2. s \in [1..Len(s) -> Members(s)]
    BY DEF Members
  <1>3. s \in Bijection(1..Len(s), Members(s))
    BY <1>1, <1>2 DEF Bijection, Injection, Surjection, IsInjective, Members
  <1>4. ExistsBijection(1..Len(s), Members(s))
    BY <1>3 DEF ExistsBijection
  <1>5. IsFiniteSet(1..Len(s)) /\ Cardinality(1..Len(s)) = Len(s)
    BY <1>0, FS_Interval
  <1> QED BY <1>4, <1>5, FS_Bijection

\* The search of stnc_peers_add finds its place.
LEMMA PositionFound ==
  ASSUME NEW s \in Seq(Peer), Ordered(s), NEW peer \in Peer
  PROVE  /\ Position(s, peer) \in 1..Len(s) + 1
         /\ \A j \in 1..Len(s) : j < Position(s, peer) => s[j] < peer
         /\ \A j \in 1..Len(s) : j >= Position(s, peer) => peer <= s[j]
PROOF
  <1> USE PeerAssumption
  <1>0. Len(s) \in Nat /\ \A i \in 1..Len(s) : s[i] \in Nat
    BY ElementOfSeq, LenProperties
  <1> DEFINE Later == {i \in 1..Len(s) : peer <= s[i]} \union {Len(s) + 1}
  <1>1. PICK k \in Later : \A y \in Later : k <= y
    <2>1. Later \in SUBSET Nat /\ Later # {}
      OBVIOUS
    <2> HIDE DEF Later
    <2> QED BY <2>1, LeastNatural
  <1>2. k \in 1..Len(s) + 1
    BY <1>1
  <1>3. ASSUME NEW j \in 1..k - 1
        PROVE  s[j] < peer
    <2>1. j \in 1..Len(s) /\ j < k
      BY <1>0, <1>2
    <2>2. j \notin Later
      <3> HIDE DEF Later
      <3> QED BY <1>1, <1>2, <2>1
    <2> QED BY <1>0, <2>1, <2>2
  <1>4. k <= Len(s) => peer <= s[k]
    BY <1>1
  <1>5. /\ Position(s, peer) \in 1..Len(s) + 1
        /\ \A j \in 1..Position(s, peer) - 1 : s[j] < peer
        /\ Position(s, peer) <= Len(s) => peer <= s[Position(s, peer)]
    BY <1>2, <1>3, <1>4 DEF Position
  <1>6. ASSUME NEW j \in 1..Len(s), j >= Position(s, peer)
        PROVE  peer <= s[j]
    <2> DEFINE p == Position(s, peer)
    <2>1. p \in 1..Len(s) /\ peer <= s[p]
      BY <1>0, <1>5, <1>6
    <2> HIDE DEF p
    <2>2. p < j => s[p] < s[j]
      BY <2>1 DEF Ordered
    <2>3. p <= j
      BY <1>6 DEF p
    <2> QED BY <1>0, <2>1, <2>2, <2>3
  <1> QED BY <1>5, <1>6

\* stnc_peers_add keeps the order and adds exactly one peer, or nothing.
LEMMA AddKeepsOrder ==
  ASSUME NEW s \in Seq(Peer), Ordered(s), NEW peer \in Peer
  PROVE  /\ Add(s, peer) \in Seq(Peer)
         /\ Ordered(Add(s, peer))
         /\ Members(Add(s, peer)) = Members(s) \union {peer}
         /\ Len(Add(s, peer)) = IF peer \in Members(s) THEN Len(s) ELSE Len(s) + 1
PROOF
  <1> USE PeerAssumption
  <1>0. Len(s) \in Nat /\ \A i \in 1..Len(s) : s[i] \in Nat
    BY ElementOfSeq, LenProperties
  <1>1. CASE peer \in Members(s)
    BY <1>1 DEF Add
  <1>2. CASE peer \notin Members(s)
    <2> DEFINE place == Position(s, peer)
               t == [i \in 1..Len(s) + 1 |->
                       IF i < place THEN s[i]
                       ELSE IF i = place THEN peer ELSE s[i - 1]]
    <2>1. /\ place \in 1..Len(s) + 1
          /\ \A j \in 1..Len(s) : j < place => s[j] < peer
          /\ \A j \in 1..Len(s) : j >= place => peer <= s[j]
      BY PositionFound
    <2>2. Add(s, peer) = t
      BY <1>2 DEF Add
    <2> HIDE DEF place
    <2>3. t \in [1..Len(s) + 1 -> Peer]
      BY <2>1
    <2>4. t \in Seq(Peer) /\ Len(t) = Len(s) + 1
      <3>1. t \in Seq(Peer)
        BY <2>3, SeqDef
      <3>2. DOMAIN t = 1..Len(t)
        BY <3>1
      <3>3. DOMAIN t = 1..Len(s) + 1
        OBVIOUS
      <3>4. Len(t) \in Nat
        BY <3>1
      <3> HIDE DEF t
      <3>5. 1..Len(t) = 1..Len(s) + 1
        BY <3>2, <3>3, Zenon
      <3> QED BY <3>1, <3>4, <3>5, <1>0
    <2>5. ASSUME NEW j \in 1..Len(s), j >= place
          PROVE  peer < s[j]
      <3>1. s[j] # peer
        BY <1>2 DEF Members
      <3>2. s[j] \in Nat /\ peer \in Nat
        BY <1>0
      <3>3. peer <= s[j]
        BY <2>1, <2>5
      <3> QED BY <3>1, <3>2, <3>3
    <2>6. Ordered(t)
      <3> SUFFICES ASSUME NEW i \in 1..Len(s) + 1, NEW j \in 1..Len(s) + 1, i < j
                   PROVE  t[i] < t[j]
        BY <2>4 DEF Ordered
      <3>1. CASE j < place
        BY <3>1, <2>1 DEF Ordered
      <3>2. CASE j = place
        BY <3>2, <2>1
      <3>3. CASE j > place /\ i < place
        BY <3>3, <2>1, <2>5 DEF Ordered
      <3>4. CASE j > place /\ i = place
        BY <3>4, <2>1, <2>5
      <3>5. CASE j > place /\ i > place
        BY <3>5, <2>1 DEF Ordered
      <3> QED BY <3>1, <3>2, <3>3, <3>4, <3>5, <2>1
    <2>7. Members(t) = Members(s) \union {peer}
      <3>1. \A i \in 1..Len(s) + 1 : t[i] \in Members(s) \union {peer}
        BY <2>1 DEF Members
      <3>2. \A i \in 1..Len(s) : s[i] \in Members(t)
        <4> SUFFICES ASSUME NEW i \in 1..Len(s)
                     PROVE  s[i] \in Members(t)
          OBVIOUS
        <4>1. CASE i < place
          <5>1. t[i] = s[i] /\ i \in 1..Len(t)
            BY <4>1, <2>4
          <5> QED BY <5>1 DEF Members
        <4>2. CASE i >= place
          <5>1. t[i + 1] = s[i] /\ i + 1 \in 1..Len(t)
            BY <4>2, <2>1, <2>4
          <5> HIDE DEF t
          <5> QED BY <5>1 DEF Members
        <4> QED BY <4>1, <4>2, <2>1
      <3>3. peer \in Members(t)
        <4>1. t[place] = peer /\ place \in 1..Len(t)
          BY <2>1, <2>4
        <4> HIDE DEF t
        <4> QED BY <4>1 DEF Members
      <3> HIDE DEF t
      <3> QED BY <3>1, <3>2, <3>3, <2>4 DEF Members
    <2> HIDE DEF t
    <2> QED BY <2>2, <2>4, <2>6, <2>7, <1>2
  <1> QED BY <1>1, <1>2

\* What stnc_peer_select_add does to the peers it knows.
LEMMA SelectAddAdds ==
  ASSUME NEW s \in Seq(Qualified), NEW q \in Qualified
  PROVE  /\ SelectAdd(s, q) \in Seq(Qualified)
         /\ Len(SelectAdd(s, q)) \in {Len(s), Len(s) + 1}
         /\ \A i \in 1..Len(SelectAdd(s, q)) :
              \/ SelectAdd(s, q)[i].peer = q.peer
              \/ \E k \in 1..Len(s) : SelectAdd(s, q)[i].peer = s[k].peer
         /\ \E i \in 1..Len(SelectAdd(s, q)) : SelectAdd(s, q)[i].peer = q.peer
         /\ \A k \in 1..Len(s) :
              \E i \in 1..Len(SelectAdd(s, q)) : SelectAdd(s, q)[i].peer = s[k].peer
PROOF
  <1>1. CASE \E i \in 1..Len(s) : s[i].peer = q.peer
    <2> DEFINE t == [i \in 1..Len(s) |-> IF s[i].peer = q.peer THEN q ELSE s[i]]
    <2>1. SelectAdd(s, q) = t
      BY <1>1 DEF SelectAdd
    <2>2. t \in [1..Len(s) -> Qualified]
      OBVIOUS
    <2>3. t \in Seq(Qualified) /\ Len(t) = Len(s)
      BY <2>2, SeqDef
    <2>4. \A i \in 1..Len(s) : t[i].peer = s[i].peer
      OBVIOUS
    <2> HIDE DEF t
    <2> QED BY <2>1, <2>3, <2>4, <1>1
  <1>2. CASE ~ \E i \in 1..Len(s) : s[i].peer = q.peer
    <2> DEFINE t == Append(s, q)
    <2>1. SelectAdd(s, q) = t
      BY <1>2 DEF SelectAdd
    <2>2. t \in Seq(Qualified) /\ Len(t) = Len(s) + 1
      OBVIOUS
    <2>3. t[Len(s) + 1] = q /\ \A i \in 1..Len(s) : t[i] = s[i]
      OBVIOUS
    <2> HIDE DEF t
    <2> QED BY <2>1, <2>2, <2>3
  <1> QED BY <1>1, <1>2

LEMMA BatchType ==
  ASSUME NEW entries \in Batches
  PROVE  entries \in Seq(Entry) /\ Len(entries) <= Max
PROOF
  <1>1. PICK n \in 0..MaxBatch : entries \in [1..n -> Entry]
    BY DEF Batches
  <1>2. n \in Nat /\ n <= Max
    BY PeerAssumption
  <1>3. entries \in Seq(Entry)
    BY <1>1, <1>2, SeqDef
  <1>4. Len(entries) \in Nat /\ 1..Len(entries) = 1..n
    BY <1>1, <1>3, LenProperties
  <1>5. Len(entries) = n
    BY <1>2, <1>4
  <1> QED BY <1>2, <1>3, <1>5

LEMMA EmptyOK ==
  ASSUME NEW S
  PROVE  <<>> \in Seq(S) /\ Len(<<>>) = 0 /\ Ordered(<<>>)
  BY EmptySeq DEF Ordered

LEMMA InitOK == Init => IInv
PROOF
  <1> SUFFICES ASSUME Init PROVE IInv
    OBVIOUS
  <1> USE PeerAssumption
  <1>0. /\ <<>> \in Seq(Peer) /\ <<>> \in Seq(Entry) /\ <<>> \in Seq(Qualified)
        /\ Len(<<>>) = 0 /\ Ordered(<<>>)
    BY EmptyOK
  <1>1. TypeOK
    <2>1. /\ stage \in {"root", "directory", "select", "running"} /\ pc = "idle"
          /\ source = "root" /\ batch = <<>> /\ staged = <<>> /\ candidates = <<>>
          /\ root = FALSE /\ at = 1 /\ qualified = <<>> /\ best = 0
          /\ session = NoPeer
      BY DEF Init
    <2>2. /\ batch \in Seq(Entry) /\ Len(batch) = 0
          /\ staged \in Seq(Peer) /\ Len(staged) = 0 /\ Ordered(staged)
          /\ candidates \in Seq(Peer) /\ Len(candidates) = 0 /\ Ordered(candidates)
          /\ qualified \in Seq(Qualified) /\ Len(qualified) = 0
      BY <1>0, <2>1
    <2>3. 0 <= Max
      OBVIOUS
    <2>4. /\ best \in 0..Len(qualified) /\ root \in BOOLEAN
          /\ session \in Peer \union {NoPeer} /\ at \in Nat \ {0}
      <3>1. best = 0 /\ Len(qualified) = 0 /\ at = 1 /\ root = FALSE
            /\ session = NoPeer
        BY <2>1, <2>2
      <3>2. best \in 0..Len(qualified)
        BY <3>1
      <3>3. at \in Nat \ {0}
        BY <3>1
      <3>4. root \in BOOLEAN /\ session \in Peer \union {NoPeer}
        BY <3>1, Zenon
      <3> QED BY <3>2, <3>3, <3>4
    <2>5. /\ pc \in {"idle", "admitting", "qualifying", "scanning"}
          /\ source \in {"root", "directory"}
      BY <2>1
    <2>6. /\ Len(batch) <= Max /\ Len(staged) <= Max
          /\ Len(candidates) <= Max /\ Len(qualified) <= Max
      BY <2>2, <2>3
    <2> QED BY <2>1, <2>2, <2>4, <2>5, <2>6, Zenon DEF TypeOK
  <1>2. StagedOK /\ QualifyingOK /\ ScanningOK
    BY DEF Init, StagedOK, QualifyingOK, ScanningOK
  <1> QED BY <1>1, <1>2 DEF IInv

LEMMA AdvanceType ==
  ASSUME TypeOK, Advance
  PROVE  stage' \in {"root", "directory", "select", "running"}
  BY DEF TypeOK, Advance

\* The steps between two loops leave what the loops rely on alone.
LEMMA IdleStepOK ==
  ASSUME IInv,
         \/ RootUnavailable \/ RootWithoutDiscovery \/ DirectoryUnavailable
         \/ SessionLost
  PROVE  IInv'
PROOF
  <1> USE PeerAssumption
  <1>1. pc' = "idle" /\ UNCHANGED <<admission, candidates, at, selection>>
    BY DEF RootUnavailable, RootWithoutDiscovery, DirectoryUnavailable,
           SessionLost, AsksRoot, AsksDirectory
  <1>2. /\ stage' \in {"root", "directory", "select", "running"}
        /\ root' \in BOOLEAN
        /\ session' \in Peer \union {NoPeer}
    BY AdvanceType DEF IInv, TypeOK, RootUnavailable, RootWithoutDiscovery,
           DirectoryUnavailable, SessionLost
  <1>3. TypeOK'
    BY <1>1, <1>2 DEF IInv, TypeOK, Ordered
  <1>4. StagedOK' /\ QualifyingOK' /\ ScanningOK'
    BY <1>1 DEF StagedOK, QualifyingOK, ScanningOK
  <1> QED BY <1>3, <1>4 DEF IInv

LEMMA AdmitOK ==
  ASSUME IInv, NEW entries \in Batches,
         RootAnswers(entries) \/ DirectoryAnswers(entries)
  PROVE  IInv'
PROOF
  <1> USE PeerAssumption
  <1>1. /\ pc' = "admitting" /\ batch' = entries /\ staged' = candidates
        /\ at' = 1 /\ source' \in {"root", "directory"}
        /\ UNCHANGED <<stage, candidates, selection, session>>
        /\ source' = "root" => root'
        /\ root' \in BOOLEAN
    BY DEF RootAnswers, DirectoryAnswers, Admit, IInv, TypeOK
  <1>2. TypeOK'
    BY <1>1, BatchType DEF IInv, TypeOK, Ordered
  <1>3. StagedOK'
    BY <1>1, BatchType DEF StagedOK, Wanted, Members
  <1>4. QualifyingOK' /\ ScanningOK'
    BY <1>1 DEF QualifyingOK, ScanningOK
  <1> QED BY <1>2, <1>3, <1>4 DEF IInv

LEMMA AdmitEntryOK ==
  ASSUME IInv, AdmitEntry
  PROVE  IInv'
PROOF
  <1> USE PeerAssumption
  <1> DEFINE new == Add(staged, batch[at])
  <1>1. /\ pc = "admitting" /\ pc' = "admitting" /\ at \in 1..Len(batch)
        /\ at' = at + 1 /\ staged' = new
        /\ UNCHANGED <<stage, source, batch, candidates, root, selection, session>>
    BY DEF AdmitEntry, IInv, TypeOK
  <1>2. /\ batch[at] \in Peer
        /\ batch[at] \in Members(staged) \/ Len(staged) < Max
    BY DEF AdmitEntry, CanAdd
  <1>3. /\ new \in Seq(Peer) /\ Ordered(new)
        /\ Members(new) = Members(staged) \union {batch[at]}
        /\ Len(new) = IF batch[at] \in Members(staged)
                        THEN Len(staged) ELSE Len(staged) + 1
    BY <1>2, AddKeepsOrder DEF IInv, TypeOK
  <1> HIDE DEF new
  <1>4. Len(new) <= Max
    BY <1>2, <1>3 DEF IInv, TypeOK
  <1>5. TypeOK'
    BY <1>1, <1>3, <1>4 DEF IInv, TypeOK, Ordered
  <1>6. StagedOK'
    <2>1. batch[at] \in Wanted
      BY <1>1 DEF Wanted, Members
    <2>2. Members(staged)' = Members(staged) \union {batch[at]}
      BY <1>1, <1>3 DEF Members
    <2>3. Wanted' = Wanted /\ Members(candidates)' = Members(candidates)
      BY <1>1 DEF Wanted, Members
    <2>4. \A i \in 1..at' - 1 : batch[i] \in Members(staged)'
      BY <1>1, <2>2 DEF IInv, TypeOK, StagedOK
    <2>5. at' <= Len(batch') + 1 /\ (source' = "root" => root')
      BY <1>1 DEF IInv, StagedOK, TypeOK
    <2> QED BY <1>1, <2>1, <2>2, <2>3, <2>4, <2>5 DEF IInv, StagedOK
  <1>7. QualifyingOK' /\ ScanningOK'
    BY <1>1 DEF QualifyingOK, ScanningOK
  <1> QED BY <1>5, <1>6, <1>7 DEF IInv

LEMMA EndAdmissionOK ==
  ASSUME IInv, Refuse \/ Commit
  PROVE  IInv'
PROOF
  <1> USE PeerAssumption
  <1>1. /\ pc' = "idle" /\ source' = "root" /\ batch' = <<>> /\ staged' = <<>>
        /\ at' = 1 /\ Advance /\ UNCHANGED <<selection, session>>
        /\ candidates' \in {candidates, staged}
        /\ root' \in BOOLEAN
    BY DEF Refuse, Commit, EndAdmission, IInv, TypeOK
  <1>2. stage' \in {"root", "directory", "select", "running"}
    BY <1>1, AdvanceType DEF IInv
  <1>3. /\ candidates' \in Seq(Peer) /\ Len(candidates') <= Max
        /\ Ordered(candidates')
    BY <1>1 DEF IInv, TypeOK
  <1>4. TypeOK'
    BY <1>1, <1>2, <1>3, EmptyOK DEF IInv, TypeOK, Ordered
  <1>5. StagedOK' /\ QualifyingOK' /\ ScanningOK'
    BY <1>1 DEF StagedOK, QualifyingOK, ScanningOK
  <1> QED BY <1>4, <1>5 DEF IInv

LEMMA SelectBeginsOK ==
  ASSUME IInv, SelectBegins
  PROVE  IInv'
PROOF
  <1> USE PeerAssumption
  <1>1. /\ pc' = "qualifying" /\ at' = 1 /\ qualified' = <<>> /\ best' = 0
        /\ Advance /\ UNCHANGED <<admission, candidates, root, session>>
    BY DEF SelectBegins
  <1>2. stage' \in {"root", "directory", "select", "running"}
    BY <1>1, AdvanceType DEF IInv
  <1>3. TypeOK'
    BY <1>1, <1>2, EmptyOK DEF IInv, TypeOK, Ordered
  <1>4. QualifyingOK'
    <2>1. Len(qualified') = 0 /\ Len(candidates') \in Nat
      BY <1>1, EmptyOK DEF IInv, TypeOK
    <2> QED BY <1>1, <2>1 DEF QualifyingOK, SeenUpTo
  <1>5. StagedOK' /\ ScanningOK'
    BY <1>1 DEF StagedOK, ScanningOK
  <1> QED BY <1>3, <1>4, <1>5 DEF IInv

LEMMA RejectOK ==
  ASSUME IInv, Reject
  PROVE  IInv'
PROOF
  <1> USE PeerAssumption
  <1>1. /\ pc = "qualifying" /\ at <= Len(candidates)
        /\ candidates[at] \notin Healthy /\ at' = at + 1
        /\ UNCHANGED <<stage, pc, admission, candidates, root, selection, session>>
    BY DEF Reject
  <1>2. TypeOK'
    BY <1>1 DEF IInv, TypeOK, Ordered
  <1>3. QualifyingOK'
    <2>1. at' \in Nat /\ at' <= Len(candidates') + 1 /\ Len(qualified') < at'
      BY <1>1 DEF IInv, TypeOK, QualifyingOK
    <2>2. SeenUpTo(at - 1)
      BY <1>1 DEF IInv, QualifyingOK
    <2>3. SeenUpTo(at)
      BY <1>1, <2>2 DEF IInv, TypeOK, SeenUpTo
    <2>4. at' - 1 = at /\ qualified' = qualified /\ candidates' = candidates
      BY <1>1 DEF IInv, TypeOK
    <2>5. SeenUpTo(at - 1)'
      BY <2>3, <2>4 DEF SeenUpTo
    <2> QED BY <2>1, <2>5 DEF QualifyingOK
  <1>4. StagedOK' /\ ScanningOK'
    BY <1>1 DEF StagedOK, ScanningOK
  <1> QED BY <1>2, <1>3, <1>4 DEF IInv

LEMMA QualifyOK ==
  ASSUME IInv, NEW latency \in Latency, Qualify(latency)
  PROVE  IInv'
PROOF
  <1> USE PeerAssumption
  <1> DEFINE q == [peer |-> candidates[at], latency |-> latency]
             new == SelectAdd(qualified, q)
  <1>1. /\ pc = "qualifying" /\ at \in 1..Len(candidates) /\ at' = at + 1
        /\ qualified' = new
        /\ UNCHANGED <<stage, pc, admission, candidates, root, best, session>>
    BY DEF Qualify, IInv, TypeOK
  <1>2. q \in Qualified /\ q.peer = candidates[at]
    BY <1>1 DEF IInv, TypeOK, Qualified
  <1>3. /\ new \in Seq(Qualified)
        /\ Len(new) \in {Len(qualified), Len(qualified) + 1}
        /\ \A i \in 1..Len(new) :
              \/ new[i].peer = q.peer
              \/ \E k \in 1..Len(qualified) : new[i].peer = qualified[k].peer
        /\ \E i \in 1..Len(new) : new[i].peer = q.peer
        /\ \A k \in 1..Len(qualified) :
              \E i \in 1..Len(new) : new[i].peer = qualified[k].peer
    BY <1>2, SelectAddAdds DEF IInv, TypeOK
  <1> HIDE DEF new, q
  <1>4. Len(new) < at + 1 /\ Len(new) <= Max /\ Len(qualified) <= Len(new)
    <2>1. /\ Len(qualified) < at /\ Len(qualified) \in Nat /\ Len(new) \in Nat
          /\ Len(candidates) \in Nat /\ Len(candidates) <= Max /\ at \in Nat
      <3>1. Len(qualified) < at
        BY <1>1 DEF IInv, QualifyingOK
      <3>2. /\ Len(qualified) \in Nat /\ Len(candidates) \in Nat
            /\ Len(candidates) <= Max /\ at \in Nat
        BY DEF IInv, TypeOK
      <3>3. Len(new) \in Nat
        BY <1>3, LenProperties
      <3> QED BY <3>1, <3>2, <3>3
    <2>2. Len(new) = Len(qualified) \/ Len(new) = Len(qualified) + 1
      BY <1>3
    <2>3. at <= Len(candidates) /\ Max \in Nat
      BY <1>1, PeerAssumption
    <2> QED BY <2>1, <2>2, <2>3
  <1>5. TypeOK'
    BY <1>1, <1>3, <1>4 DEF IInv, TypeOK, Ordered
  <1>6. QualifyingOK'
    <2>1. at' <= Len(candidates') + 1 /\ Len(qualified') < at'
      BY <1>1, <1>4 DEF IInv, TypeOK
    <2>2. SeenUpTo(at - 1)
      BY <1>1 DEF IInv, QualifyingOK
    <2>3. \A i \in 1..Len(new) :
            \E j \in 1..at : j <= Len(candidates) /\ new[i].peer = candidates[j]
      <3> SUFFICES ASSUME NEW i \in 1..Len(new)
                   PROVE  \E j \in 1..at :
                            j <= Len(candidates) /\ new[i].peer = candidates[j]
        OBVIOUS
      <3>1. CASE new[i].peer = q.peer
        BY <3>1, <1>1, <1>2
      <3>2. CASE \E k \in 1..Len(qualified) : new[i].peer = qualified[k].peer
        <4>1. PICK k \in 1..Len(qualified) : new[i].peer = qualified[k].peer
          BY <3>2
        <4>2. PICK j \in 1..at - 1 :
                j <= Len(candidates) /\ qualified[k].peer = candidates[j]
          BY <2>2 DEF SeenUpTo
        <4>3. j \in 1..at
          BY <1>1, <4>2
        <4> QED BY <4>1, <4>2, <4>3
      <3> QED BY <3>1, <3>2, <1>3
    <2>4. ASSUME NEW j \in 1..at, candidates[j] \in Healthy
          PROVE  \E i \in 1..Len(new) : new[i].peer = candidates[j]
      <3>1. CASE j = at
        BY <3>1, <1>2, <1>3
      <3>2. CASE j < at
        <4>1. j \in 1..at - 1 /\ j <= Len(candidates)
          BY <3>2, <1>1
        <4>2. PICK k \in 1..Len(qualified) : qualified[k].peer = candidates[j]
          BY <4>1, <2>4, <2>2 DEF SeenUpTo
        <4>3. \E i \in 1..Len(new) : new[i].peer = qualified[k].peer
          BY <1>3
        <4> QED BY <4>2, <4>3
      <3> QED BY <3>1, <3>2, <1>1
    <2>5. at' - 1 = at /\ qualified' = new /\ candidates' = candidates
      BY <1>1
    <2>6. SeenUpTo(at - 1)'
      BY <2>3, <2>4, <2>5 DEF SeenUpTo
    <2> QED BY <2>1, <2>6 DEF QualifyingOK
  <1>7. StagedOK' /\ ScanningOK'
    BY <1>1 DEF StagedOK, ScanningOK
  <1> QED BY <1>5, <1>6, <1>7 DEF IInv

LEMMA ScanBeginsOK ==
  ASSUME IInv, ScanBegins
  PROVE  IInv'
PROOF
  <1> USE PeerAssumption
  <1>1. /\ pc = "qualifying" /\ at > Len(candidates)
        /\ UNCHANGED <<stage, admission, candidates, root, qualified, session>>
    BY DEF ScanBegins
  <1>2. CASE pc' = "scanning" /\ best' = 1 /\ at' = 2 /\ Len(qualified) > 0
    <2>1. TypeOK'
      BY <1>1, <1>2 DEF IInv, TypeOK, Ordered
    <2>2. SeenUpTo(Len(candidates))
      <3>1. at - 1 = Len(candidates)
        BY <1>1 DEF IInv, TypeOK, QualifyingOK
      <3> QED BY <1>1, <3>1 DEF IInv, QualifyingOK
    <2>3. SeenUpTo(Len(candidates))'
      BY <1>1, <2>2 DEF SeenUpTo
    <2>4. /\ at' <= Len(qualified') + 1 /\ best' \in 1..at' - 1
          /\ \A i \in 1..at' - 1 : i = 1
      BY <1>1, <1>2 DEF IInv, TypeOK
    <2>5. ~ Better(qualified'[1], qualified'[best'])
      <3>1. qualified'[1] \in Qualified /\ best' = 1
        BY <1>1, <1>2 DEF IInv, TypeOK
      <3>2. qualified'[1].latency \in Nat /\ qualified'[1].peer \in Nat
        BY <3>1 DEF Qualified
      <3> QED BY <3>1, <3>2 DEF Better
    <2>6. ScanningOK'
      BY <2>3, <2>4, <2>5 DEF ScanningOK
    <2>7. StagedOK' /\ QualifyingOK'
      BY <1>2 DEF StagedOK, QualifyingOK
    <2> QED BY <2>1, <2>6, <2>7 DEF IInv
  <1>3. CASE pc' = "idle" /\ at' = 1 /\ UNCHANGED best
    <2>1. TypeOK'
      BY <1>1, <1>3 DEF IInv, TypeOK, Ordered
    <2>2. StagedOK' /\ QualifyingOK' /\ ScanningOK'
      BY <1>3 DEF StagedOK, QualifyingOK, ScanningOK
    <2> QED BY <2>1, <2>2 DEF IInv
  <1> QED BY <1>2, <1>3 DEF ScanBegins

\* The choice is total and transitive, so one pass finds the best.
LEMMA ScanOK ==
  ASSUME IInv, Scan
  PROVE  IInv'
PROOF
  <1> USE PeerAssumption
  <1> DEFINE next == IF Better(qualified[at], qualified[best]) THEN at ELSE best
  <1>1. /\ pc = "scanning" /\ at \in 1..Len(qualified) /\ at' = at + 1
        /\ best' = next
        /\ UNCHANGED <<stage, pc, admission, candidates, root, qualified, session>>
    BY DEF Scan, IInv, TypeOK
  <1>2. best \in 1..at - 1 /\ Len(qualified) \in Nat
    BY <1>1 DEF IInv, TypeOK, ScanningOK
  <1>3. next \in 1..at
    BY <1>1, <1>2
  <1>4. \A i \in 1..Len(qualified) :
          qualified[i].latency \in Nat /\ qualified[i].peer \in Nat
    <2>1. \A i \in 1..Len(qualified) : qualified[i] \in Qualified
      BY DEF IInv, TypeOK
    <2> QED BY <2>1 DEF Qualified
  <1>5. ASSUME NEW i \in 1..at
        PROVE  ~ Better(qualified[i], qualified[next])
    <2>1. i \in 1..Len(qualified) /\ best \in 1..Len(qualified)
      BY <1>1, <1>2
    <2>2. i < at => ~ Better(qualified[i], qualified[best])
      BY <1>1 DEF IInv, TypeOK, ScanningOK
    <2>3. CASE Better(qualified[at], qualified[best])
      <3>1. next = at
        BY <2>3
      <3> HIDE DEF next
      <3>2. ~ Better(qualified[at], qualified[at])
        BY <1>1, <1>4 DEF Better
      <3>3. CASE i < at
        <4> DEFINE x == qualified[i]
                   y == qualified[best]
                   z == qualified[at]
        <4>1. /\ x.latency \in Nat /\ x.peer \in Nat /\ y.latency \in Nat
              /\ y.peer \in Nat /\ z.latency \in Nat /\ z.peer \in Nat
          BY <2>1, <1>1, <1>4
        <4>2. ~ Better(x, y) /\ Better(z, y)
          BY <2>2, <2>3, <3>3
        <4> HIDE DEF x, y, z
        <4>3. ~ Better(x, z)
          BY <4>1, <4>2 DEF Better
        <4> QED BY <3>1, <4>3 DEF x, z
      <3>4. i < at \/ i = at
        BY <1>1
      <3> QED BY <3>1, <3>2, <3>3, <3>4
    <2>4. CASE ~ Better(qualified[at], qualified[best])
      <3>1. next = best
        BY <2>4
      <3> HIDE DEF next
      <3> QED BY <3>1, <2>2, <2>4, <1>1
    <2> QED BY <2>3, <2>4
  <1> HIDE DEF next
  <1>6. TypeOK'
    BY <1>1, <1>3 DEF IInv, TypeOK, Ordered
  <1>7. ScanningOK'
    <2>1. SeenUpTo(Len(candidates))'
      BY <1>1 DEF IInv, ScanningOK, SeenUpTo
    <2>2. at' <= Len(qualified') + 1 /\ at' - 1 = at
      BY <1>1
    <2> QED BY <1>1, <1>3, <1>5, <2>1, <2>2 DEF ScanningOK
  <1>8. StagedOK' /\ QualifyingOK'
    BY <1>1 DEF StagedOK, QualifyingOK
  <1> QED BY <1>6, <1>7, <1>8 DEF IInv

LEMMA OpenOK ==
  ASSUME IInv, Open \/ OpenFails
  PROVE  IInv'
PROOF
  <1> USE PeerAssumption
  <1>1. /\ pc = "scanning" /\ at > Len(qualified) /\ pc' = "idle" /\ at' = 1
        /\ UNCHANGED <<stage, admission, candidates, root, selection>>
        /\ session' \in {qualified[best].peer, NoPeer}
    BY DEF Open, OpenFails, Opened
  <1>2. qualified[best] \in Qualified
    BY <1>1 DEF IInv, TypeOK, ScanningOK
  <1>3. TypeOK'
    BY <1>1, <1>2 DEF IInv, TypeOK, Ordered, Qualified
  <1>4. StagedOK' /\ QualifyingOK' /\ ScanningOK'
    BY <1>1 DEF StagedOK, QualifyingOK, ScanningOK
  <1> QED BY <1>3, <1>4 DEF IInv

LEMMA NextOK == IInv /\ [Next]_vars => IInv'
PROOF
  <1> SUFFICES ASSUME IInv, [Next]_vars PROVE IInv'
    OBVIOUS
  <1>1. CASE Asks
    BY <1>1, IdleStepOK, AdmitOK DEF Asks
  <1>2. CASE SelectBegins
    BY <1>2, SelectBeginsOK
  <1>3. CASE SessionLost
    BY <1>3, IdleStepOK
  <1>4. CASE Loops
    BY <1>4, AdmitEntryOK, EndAdmissionOK, RejectOK, QualifyOK, ScanBeginsOK,
       ScanOK, OpenOK DEF Loops
  <1>5. CASE UNCHANGED vars
    <2>1. TypeOK'
      BY <1>5 DEF vars, IInv, TypeOK, Ordered
    <2>2. StagedOK'
      <3>1. UNCHANGED <<pc, source, batch, staged, candidates, root, at>>
        BY <1>5 DEF vars
      <3>2. Members(staged)' = Members(staged) /\ Wanted' = Wanted
            /\ Members(candidates)' = Members(candidates)
        BY <3>1 DEF Members, Wanted
      <3> QED BY <3>1, <3>2 DEF IInv, StagedOK
    <2>3. QualifyingOK' /\ ScanningOK'
      BY <1>5 DEF vars, IInv, QualifyingOK, ScanningOK, SeenUpTo, Better
    <2> QED BY <2>1, <2>2, <2>3 DEF IInv
  <1> QED BY <1>1, <1>2, <1>3, <1>4, <1>5 DEF Next

LEMMA Invariant == Spec => []IInv
PROOF
  <1>1. Init => IInv
    BY InitOK
  <1>2. IInv /\ [Next]_vars => IInv'
    BY NextOK
  <1> QED BY <1>1, <1>2, PTL DEF Spec

(***************************************************************************)
(* Theorems                                                                *)
(***************************************************************************)
\* Both peer arrays stay within their size, and the candidates in the order
\* stnc_peers_add requires, whatever the root peer and the directory answer.
THEOREM TypeCorrect == Spec => []TypeOK
PROOF
  <1>1. IInv => TypeOK
    BY DEF IInv
  <1> QED BY <1>1, Invariant, PTL

\* An answer that ends: the copy is admitted only if it is whole, and refused
\* for an entry only if the answer does not fit.
LEMMA RefusedDoesNotFit ==
  ASSUME IInv, pc = "admitting", at <= Len(batch), ~ CanAdd(staged, batch[at])
  PROVE  ~ Fits
PROOF
  <1> USE PeerAssumption
  <1>1. at \in 1..Len(batch) /\ batch[at] \in Wanted
    BY DEF IInv, TypeOK, Wanted, Members
  <1>2. staged \in Seq(Peer) /\ Ordered(staged) /\ Len(staged) <= Max
    BY DEF IInv, TypeOK
  <1>3. CASE batch[at] \notin Peer
    BY <1>1, <1>3 DEF Fits
  <1>4. CASE batch[at] \in Peer
    <2>1. batch[at] \notin Members(staged) /\ Len(staged) >= Max
      BY <1>2, <1>4 DEF CanAdd
    <2>2. IsFiniteSet(Members(staged)) /\ Cardinality(Members(staged)) = Len(staged)
      BY <1>2, OrderedCardinality
    <2> DEFINE larger == Members(staged) \union {batch[at]}
    <2>3. IsFiniteSet(larger) /\ Cardinality(larger) = Len(staged) + 1
      BY <2>1, <2>2, FS_AddElement
    <2>4. larger \subseteq Wanted
      BY <1>1 DEF IInv, StagedOK
    <2>5. IsFiniteSet(Wanted)
      <3>1. candidates \in Seq(Peer) /\ Ordered(candidates)
        BY DEF IInv, TypeOK
      <3>2. IsFiniteSet(Members(candidates))
        BY <3>1, OrderedCardinality
      <3>3. IsFiniteSet(Members(batch))
        <4>1. Len(batch) \in Nat /\ batch \in [1..Len(batch) -> Entry]
          BY LenProperties DEF IInv, TypeOK
        <4>2. batch \in Surjection(1..Len(batch), Members(batch))
          BY <4>1 DEF Surjection, Members
        <4>3. IsFiniteSet(1..Len(batch))
          BY <4>1, FS_Interval
        <4> QED BY <4>2, <4>3, FS_Surjection
      <3> QED BY <3>2, <3>3, FS_Union DEF Wanted
    <2>6. Cardinality(larger) <= Cardinality(Wanted)
      BY <2>4, <2>5, FS_Subset
    <2>7. Cardinality(Wanted) \in Nat
      BY <2>5, FS_CardinalityType
    <2> HIDE DEF larger
    <2>8. Cardinality(Wanted) > Max
      BY <2>1, <2>3, <2>6, <2>7, <1>2, LenProperties
    <2> QED BY <2>8, <2>7 DEF Fits
  <1> QED BY <1>3, <1>4

LEMMA CommittedFits ==
  ASSUME IInv, pc = "admitting", at > Len(batch)
  PROVE  Members(staged) = Wanted /\ Fits
PROOF
  <1> USE PeerAssumption
  <1>1. at = Len(batch) + 1 /\ Len(batch) \in Nat
    BY DEF IInv, TypeOK, StagedOK
  <1>2. Members(batch) \subseteq Members(staged)
    <2> SUFFICES ASSUME NEW p \in Members(batch) PROVE p \in Members(staged)
      OBVIOUS
    <2>1. PICK i \in 1..Len(batch) : batch[i] = p
      BY DEF Members
    <2>2. i \in 1..at - 1
      BY <1>1
    <2> QED BY <2>1, <2>2 DEF IInv, StagedOK
  <1>3. Members(staged) = Wanted
    BY <1>2 DEF IInv, StagedOK, Wanted
  <1>4. staged \in Seq(Peer) /\ Ordered(staged) /\ Len(staged) <= Max
    BY DEF IInv, TypeOK
  <1>5. Cardinality(Wanted) <= Max
    BY <1>3, <1>4, OrderedCardinality
  <1>6. Wanted \subseteq Peer
    BY <1>3, <1>4, ElementOfSeq DEF Members
  <1> QED BY <1>3, <1>5, <1>6 DEF Fits

\* An answer is admitted whole or not at all, and the root peer loses its
\* standing exactly when its answer does not fit.
THEOREM AnswersAreWhole == Spec => AnswerIsWhole
PROOF
  <1> DEFINE Whole ==
        /\ candidates' # candidates =>
             AnswerEnds /\ Fits /\ Members(candidates') = Wanted
        /\ AnswerEnds /\ source = "root" =>
             /\ root' <=> Fits
             /\ root' => Members(candidates') = Wanted
        /\ root /\ ~root' => AnswerEnds /\ source = "root"
  <1>1. ASSUME IInv, [Next]_vars PROVE [Whole]_vars
    <2>1. CASE Refuse
      <3>1. /\ pc = "admitting" /\ candidates' = candidates /\ pc' = "idle"
            /\ root' = (root /\ source # "root")
        BY <2>1 DEF Refuse, EndAdmission
      <3>2. source = "root" => ~ Fits
        <4> SUFFICES ASSUME source = "root" PROVE ~ Fits
          OBVIOUS
        <4>1. at <= Len(batch) /\ ~ CanAdd(staged, batch[at])
          BY <2>1 DEF Refuse
        <4> QED BY <1>1, <3>1, <4>1, RefusedDoesNotFit
      <3>3. source = "root" => ~ root'
        BY <3>1
      <3>4. source # "root" => (root' <=> root)
        BY <3>1
      <3> QED BY <3>1, <3>2, <3>3, <3>4 DEF AnswerEnds
    <2>2. CASE Commit
      <3>1. /\ pc = "admitting" /\ at > Len(batch) /\ candidates' = staged
            /\ pc' = "idle" /\ root' = root
        BY <2>2 DEF Commit, EndAdmission
      <3>2. Members(staged) = Wanted /\ Fits
        BY <1>1, <3>1, CommittedFits
      <3>3. source = "root" => root
        BY <1>1, <3>1 DEF IInv, StagedOK
      <3> QED BY <3>1, <3>2, <3>3 DEF AnswerEnds
    <2>3. CASE Asks
      <3>1. candidates' = candidates /\ pc = "idle" /\ (root => root')
        BY <2>3 DEF Asks, RootUnavailable, RootWithoutDiscovery,
           DirectoryUnavailable, RootAnswers, DirectoryAnswers, AsksRoot,
           AsksDirectory, Admit
      <3> QED BY <3>1 DEF AnswerEnds
    <2>4. CASE SelectBegins \/ SessionLost
      <3>1. candidates' = candidates /\ pc = "idle" /\ root' = root
        BY <2>4 DEF SelectBegins, SessionLost
      <3> QED BY <3>1 DEF AnswerEnds
    <2>5. CASE AdmitEntry
      <3>1. candidates' = candidates /\ pc' = pc /\ root' = root
        BY <2>5 DEF AdmitEntry
      <3> QED BY <3>1 DEF AnswerEnds
    <2>6. CASE \/ Reject \/ (\E latency \in Latency : Qualify(latency))
               \/ ScanBegins \/ Scan \/ Open \/ OpenFails
      <3>1. candidates' = candidates /\ pc # "admitting" /\ root' = root
        BY <2>6 DEF Reject, Qualify, ScanBegins, Scan, Open, OpenFails, Opened
      <3> QED BY <3>1 DEF AnswerEnds
    <2>7. CASE UNCHANGED vars
      BY <2>7
    <2> QED BY <1>1, <2>1, <2>2, <2>3, <2>4, <2>5, <2>6, <2>7 DEF Next, Loops
  <1>2. IInv /\ [Next]_vars => [Whole]_vars
    BY <1>1
  <1> QED BY <1>2, Invariant, PTL DEF Spec, AnswerIsWhole

\* The session goes to the best of all candidates that qualified, and no
\* healthy candidate is left out of the choice.
THEOREM BestIsSelected == Spec => SelectedIsBest
PROOF
  <1> USE PeerAssumption
  <1> DEFINE Chosen ==
        session' # session /\ session' # NoPeer =>
          /\ \E q \in Members(qualified) :
               /\ q.peer = session'
               /\ \A other \in Members(qualified) :
                    \/ q.latency < other.latency
                    \/ q.latency = other.latency /\ q.peer <= other.peer
          /\ PeersOf(qualified) \subseteq Members(candidates)
          /\ Members(candidates) \cap Healthy \subseteq PeersOf(qualified)
  <1>1. ASSUME IInv, Open PROVE Chosen
    <2>1. /\ pc = "scanning" /\ at > Len(qualified)
          /\ session' = qualified[best].peer
      BY <1>1 DEF Open, Opened
    <2>2. /\ at = Len(qualified) + 1 /\ best \in 1..Len(qualified)
          /\ SeenUpTo(Len(candidates))
          /\ \A i \in 1..Len(qualified) : ~Better(qualified[i], qualified[best])
      <3>1. /\ at <= Len(qualified) + 1 /\ best \in 1..at - 1
            /\ SeenUpTo(Len(candidates))
            /\ \A i \in 1..at - 1 : ~Better(qualified[i], qualified[best])
        BY <1>1, <2>1 DEF IInv, ScanningOK
      <3>2. at = Len(qualified) + 1 /\ Len(qualified) \in Nat
        <4>1. Len(qualified) \in Nat /\ at \in Nat
          BY <1>1 DEF IInv, TypeOK
        <4>2. at <= Len(qualified) + 1 /\ at > Len(qualified)
          BY <2>1, <3>1
        <4> QED BY <4>1, <4>2
      <3>3. at - 1 = Len(qualified)
        BY <3>2
      <3> QED BY <3>1, <3>2, <3>3
    <2>3. \A i \in 1..Len(qualified) :
            qualified[i].latency \in Nat /\ qualified[i].peer \in Nat
      <3>1. \A i \in 1..Len(qualified) : qualified[i] \in Qualified
        BY <1>1 DEF IInv, TypeOK
      <3> QED BY <3>1 DEF Qualified
    <2>4. \A i \in 1..Len(qualified) :
            \/ qualified[best].latency < qualified[i].latency
            \/ /\ qualified[best].latency = qualified[i].latency
               /\ qualified[best].peer <= qualified[i].peer
      BY <2>2, <2>3 DEF Better
    <2>5. \E q \in Members(qualified) :
            /\ q.peer = session'
            /\ \A other \in Members(qualified) :
                 \/ q.latency < other.latency
                 \/ q.latency = other.latency /\ q.peer <= other.peer
      <3>1. qualified[best] \in Members(qualified)
        BY <2>2 DEF Members
      <3>2. \A other \in Members(qualified) :
              \/ qualified[best].latency < other.latency
              \/ /\ qualified[best].latency = other.latency
                 /\ qualified[best].peer <= other.peer
        BY <2>4 DEF Members
      <3> QED BY <2>1, <3>1, <3>2
    <2>6. PeersOf(qualified) \subseteq Members(candidates)
      BY <2>2 DEF SeenUpTo, PeersOf, Members
    <2>7. Members(candidates) \cap Healthy \subseteq PeersOf(qualified)
      <3> SUFFICES ASSUME NEW p \in Members(candidates), p \in Healthy
                   PROVE  p \in PeersOf(qualified)
        OBVIOUS
      <3>1. PICK j \in 1..Len(candidates) : candidates[j] = p
        BY DEF Members
      <3>2. PICK i \in 1..Len(qualified) : qualified[i].peer = p
        <4>1. j <= Len(candidates) /\ candidates[j] \in Healthy
          BY <3>1
        <4>2. \E i \in 1..Len(qualified) : qualified[i].peer = candidates[j]
          BY <2>2, <4>1 DEF SeenUpTo
        <4> QED BY <4>2, <3>1
      <3> QED BY <3>2 DEF PeersOf, Members
    <2> QED BY <2>5, <2>6, <2>7
  <1>2. ASSUME Next, ~Open PROVE Chosen
    <2>1. session' = session \/ session' = NoPeer
      BY <1>2 DEF Next, Asks, Loops, RootUnavailable, RootWithoutDiscovery,
         DirectoryUnavailable, RootAnswers, DirectoryAnswers, Admit,
         SelectBegins, SessionLost, AdmitEntry, Refuse, Commit, EndAdmission,
         Reject, Qualify, ScanBegins, Scan, OpenFails
    <2> QED BY <2>1
  <1>3. IInv /\ [Next]_vars => [Chosen]_vars
    BY <1>1, <1>2
  <1> QED BY <1>3, Invariant, PTL DEF Spec, SelectedIsBest
=============================================================================
