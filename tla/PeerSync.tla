------------------------------- MODULE PeerSync -------------------------------
(***************************************************************************)
(* Evidence synchronization: how Core carries the history of its selected  *)
(* peer to its Chain service.  Core holds no history.  It compares counts  *)
(* and tips, offers single blocks that extend the accepted state, and for  *)
(* a fork searches the common prefix of two histories and offers the       *)
(* peer's suffix, in one frame or staged on Chain block by block.          *)
(*                                                                         *)
(* One owner thread calls; both histories grow and reorganize meanwhile.   *)
(* A read of a peer block and the read of the Chain block after it are one *)
(* step: a change of one history commutes with the read of the other.      *)
(***************************************************************************)
EXTENDS Integers, Sequences

CONSTANTS
  Block,        \* blocks; one is its header, its parents and its body
  NoBlock,
  Histories,    \* the histories Chain services accept
  Work,         \* cumulative work of each of them
  FrameBlocks,  \* blocks that fit into one evidence frame
  MaxBlocks,    \* STNC_HISTORY_EVIDENCE_MAX_BLOCKS
  HeadersMax,   \* STNC_STNP_HEADERS_MAX
  MaxFaults     \* bound: exchanges that fail on either connection

SameBelow(g, h, i) == \A j \in 1..i : g[j] = h[j]

\* A header commits to its parent: equal blocks have equal pasts.
ASSUME HistoryAssumption ==
  /\ NoBlock \notin Block
  /\ Histories \subseteq Seq(Block) \ {<<>>}
  /\ \A g, h \in Histories :
       /\ g[1] = h[1]
       /\ \A i \in 1..Len(g) : i <= Len(h) /\ g[i] = h[i] => SameBelow(g, h, i)
  /\ Work \in [Histories -> Nat]

ASSUME LimitAssumption ==
  /\ FrameBlocks \in Nat \ {0}
  /\ MaxBlocks \in Nat \ {0}
  /\ HeadersMax \in Nat \ {0}
  /\ MaxFaults \in Nat

VARIABLES
  chain,      \* accepted history of the Chain service
  stage,      \* the suffix stage open on it
  peer,       \* history of the selected peer
  link,       \* the Chain session: up, dirty (bytes unread), or down
  session,    \* how often Core has connected to Chain
  joined,     \* the peer session is connected
  known,      \* chain_state
  told,       \* the peer's STATE
  pc,         \* where the owner thread is
  low,        \* lower end of the search, then the common prefix
  high,       \* upper end of the search
  batch,      \* header evidence of the peer
  suffix,     \* blocks collected for one frame
  offset,     \* blocks of the batch, or of the stage, that are done
  faults,     \* bound
  steady      \* neither history changed since this search began

external == <<chain, stage, peer>>
links == <<link, session, joined>>
search == <<low, high>>
transfer == <<batch, suffix, offset>>
vars == <<chain, stage, peer, link, session, joined, known, told, pc, low,
          high, batch, suffix, offset, faults, steady>>

Tip(h) == h[Len(h)]
View(h) == [available |-> TRUE, count |-> Len(h), tip |-> Tip(h)]
Cleared == [available |-> FALSE, count |-> 0, tip |-> NoBlock]
NoStage == [open |-> FALSE, session |-> 0, prefix |-> 0, blocks |-> <<>>]
Lesser(m, n) == IF m < n THEN m ELSE n

Init ==
  /\ chain \in Histories
  /\ stage = NoStage
  /\ peer \in Histories
  /\ link = "up" /\ session = 0 /\ joined = FALSE
  /\ known = View(chain)
  /\ told = Cleared
  /\ pc = "tick"
  /\ low = 0 /\ high = 0
  /\ batch = <<>> /\ suffix = <<>> /\ offset = 0
  /\ faults = MaxFaults
  /\ steady = FALSE

(***************************************************************************)
(* What Core does not do: either history moves on to one of more work.     *)
(***************************************************************************)
ChainAdvances(h) ==
  /\ Work[h] > Work[chain]
  /\ chain' = h
  /\ steady' = FALSE
  /\ UNCHANGED <<stage, peer, links, known, told, pc, search, transfer, faults>>

PeerAdvances(h) ==
  /\ Work[h] > Work[peer]
  /\ peer' = h
  /\ steady' = FALSE
  /\ UNCHANGED <<chain, stage, links, known, told, pc, search, transfer, faults>>

(***************************************************************************)
(* Exchanges.  A failed one on the peer's connection ends the peer session *)
(* in the caller; one on Chain's leaves the session down, or with the      *)
(* payload of an unexpected answer unread, and then the next call fails.   *)
(***************************************************************************)
Fault == faults > 0 /\ faults' = faults - 1

\* Chain is not reached, or answers with an error: it has not acted.
Unreached ==
  \/ Fault /\ link = "up" /\ link' \in {"up", "dirty", "down"}
  \/ link # "up" /\ link' = "down" /\ UNCHANGED faults

\* Chain has acted, and Core cannot use the answer.
AnswerLost == Fault /\ link = "up" /\ link' \in {"dirty", "down"}

Reached == link = "up" /\ UNCHANGED <<link, faults>>

Forget == told' = Cleared /\ low' = 0 /\ high' = 0
          /\ batch' = <<>> /\ suffix' = <<>> /\ offset' = 0

\* stnc_core_refresh_selected_peer, stnc_core_open_selected_peer: what the
\* comparison held is gone, and after a failure the peer's session too.
EndFailed == pc' = "tick" /\ joined' = FALSE /\ Forget
EndOk == pc' = "tick" /\ UNCHANGED joined /\ Forget

\* What Chain makes of a prefix of its own history and the blocks after it.
Offered(prefix, blocks) == SubSeq(chain, 1, prefix) \o blocks
Valid(prefix, blocks) ==
  prefix <= Len(chain) /\ Offered(prefix, blocks) \in Histories
Preferred(prefix, blocks) ==
  /\ Valid(prefix, blocks)
  /\ Work[Offered(prefix, blocks)] > Work[chain]

(***************************************************************************)
(* stnc_core_tick: the peer is asked, and Chain is, when their timers are  *)
(* due; without a Chain session only the reconnect is.                     *)
(***************************************************************************)
AskState ==
  /\ pc = "tick" /\ link # "down" /\ known.available
  /\ told' = View(peer)
  /\ joined' = TRUE
  /\ pc' = "compare"
  /\ UNCHANGED <<external, link, session, known, search, transfer, faults, steady>>

StateUnanswered ==
  /\ pc = "tick" /\ link # "down"
  /\ Fault
  /\ joined' = FALSE
  /\ UNCHANGED <<external, link, session, known, told, pc, search, transfer, steady>>

Refresh ==
  /\ pc = "tick" /\ link # "down"
  /\ \/ Reached /\ known' = View(chain)
     \/ Unreached /\ link' = "down" /\ known' = Cleared
  /\ UNCHANGED <<external, session, joined, told, pc, search, transfer, steady>>

\* Whether Chain keeps the stage of an ended session is for Chain to say.
Reconnect ==
  /\ pc = "tick" /\ link = "down"
  /\ link' = "up" /\ session' = session + 1
  /\ known' = View(chain)
  /\ stage' \in {stage, NoStage}
  /\ UNCHANGED <<chain, peer, joined, told, pc, search, transfer, faults, steady>>

ReconnectFails ==
  /\ pc = "tick" /\ link = "down"
  /\ Fault
  /\ known' = Cleared
  /\ UNCHANGED <<external, links, told, pc, search, transfer, steady>>

(***************************************************************************)
(* stnc_core_probe_selected_peer_headers                                   *)
(***************************************************************************)
StartSearch ==
  /\ batch' = <<>> /\ suffix' = <<>> /\ offset' = 0
  /\ low' = 0
  /\ high' = Lesser(told.count, known.count)
  /\ steady' = TRUE
  /\ pc' = "search"

\* Fault: only a longer history is worth a look.
CompareIgnoresTip ==
  /\ pc = "compare"
  /\ told.count <= known.count
  /\ EndOk
  /\ UNCHANGED <<external, link, session, known, faults, steady>>

CompareCurrent ==
  /\ pc = "compare"
  /\ told.count < known.count \/ (told.count = known.count /\ told.tip = known.tip)
  /\ EndOk
  /\ UNCHANGED <<external, link, session, known, faults, steady>>

CompareDiverged ==
  /\ pc = "compare"
  /\ told.count = known.count /\ told.tip # known.tip
  /\ StartSearch
  /\ UNCHANGED <<external, links, known, told, faults>>

CompareAhead ==
  /\ pc = "compare"
  /\ told.count > known.count
  /\ pc' = "headers"
  /\ UNCHANGED <<external, links, known, told, search, transfer, faults, steady>>

\* Header evidence for the blocks after the accepted ones, from the history
\* the peer has now.
GetHeaders(count) ==
  /\ pc = "headers"
  /\ count <= told.count - known.count
  /\ known.count + count <= Len(peer)
  /\ batch' = SubSeq(peer, known.count + 1, known.count + count)
  /\ offset' = 0
  /\ pc' = "blocks"
  /\ UNCHANGED <<external, links, known, told, search, suffix, faults, steady>>

GetHeadersFails ==
  /\ pc = "headers"
  /\ Fault \/ (known.count >= Len(peer) /\ UNCHANGED faults)
  /\ EndFailed
  /\ UNCHANGED <<external, link, session, known, steady>>

MoreBlocks == pc = "blocks" /\ offset < Len(batch)

\* The block of the wanted index, if it has the header shown for it.
Shown ==
  /\ known.count < Len(peer)
  /\ peer[known.count + 1] = batch[offset + 1]

BlocksDone ==
  /\ pc = "blocks" /\ offset = Len(batch)
  /\ pc' = "compare"
  /\ batch' = <<>> /\ offset' = 0
  /\ UNCHANGED <<external, links, known, told, search, suffix, faults, steady>>

BlockUnavailable ==
  /\ MoreBlocks
  /\ Fault \/ (~Shown /\ UNCHANGED faults)
  /\ EndFailed
  /\ UNCHANGED <<external, link, session, known, steady>>

\* stnc_core_submit_block_evidence: the block extends the accepted history.
BlockAccepted ==
  /\ MoreBlocks /\ Shown
  /\ Reached
  /\ Valid(Len(chain), <<batch[offset + 1]>>)
  /\ chain' = Append(chain, batch[offset + 1])
  /\ known' = View(chain')
  /\ offset' = offset + 1
  /\ steady' = FALSE
  /\ UNCHANGED <<stage, peer, session, joined, told, pc, search, batch, suffix>>

\* Any other outcome is taken as a sign of a fork.
BlockRefused ==
  /\ MoreBlocks /\ Shown
  /\ \/ Unreached /\ UNCHANGED chain
     \/ Reached /\ ~Valid(Len(chain), <<batch[offset + 1]>>) /\ UNCHANGED chain
     \/ /\ AnswerLost
        /\ Valid(Len(chain), <<batch[offset + 1]>>)
        /\ chain' = Append(chain, batch[offset + 1])
  /\ StartSearch
  /\ UNCHANGED <<stage, peer, session, joined, known, told>>

(***************************************************************************)
(* stnc_core_common_prefix                                                 *)
(***************************************************************************)
Middle == low + (high - low + 1) \div 2

Searching == pc = "search" /\ low < high
Held(h) == Middle <= Len(h)

Probe ==
  /\ Searching
  /\ Held(peer) /\ Held(chain)
  /\ Reached
  /\ IF peer[Middle] = chain[Middle]
     THEN low' = Middle /\ UNCHANGED high
     ELSE high' = Middle - 1 /\ UNCHANGED low
  /\ UNCHANGED <<external, session, joined, known, told, pc, transfer, steady>>

ProbeFails ==
  /\ Searching
  /\ \/ ~Held(peer) /\ UNCHANGED <<link, faults>>
     \/ Fault /\ UNCHANGED link
     \/ ~Held(chain) /\ Reached
     \/ Unreached
  /\ EndFailed
  /\ UNCHANGED <<external, session, known, steady>>

(***************************************************************************)
(* stnc_core_submit_peer_history                                           *)
(***************************************************************************)
SuffixCount == told.count - low
Actionable == low > 0 /\ low < told.count /\ SuffixCount <= MaxBlocks

SearchEnds ==
  /\ pc = "search" /\ low = high
  /\ Actionable
  /\ pc' = "collect"
  /\ suffix' = <<>>
  /\ UNCHANGED <<external, links, known, told, search, batch, offset, faults, steady>>

NothingActionable ==
  /\ pc = "search" /\ low = high
  /\ ~Actionable
  /\ EndFailed
  /\ UNCHANGED <<external, link, session, known, faults, steady>>

Collecting == pc = "collect" /\ Len(suffix) < SuffixCount
NextHeld(done) == low + done < Len(peer)
\* Fault: the suffix begins with the last common block.
BlockBefore(done) == peer[low + done]

NextBlock(done) == peer[low + done + 1]

Collect ==
  /\ Collecting
  /\ NextHeld(Len(suffix))
  /\ Len(suffix) < FrameBlocks
  /\ suffix' = Append(suffix, NextBlock(Len(suffix)))
  /\ UNCHANGED <<external, links, known, told, pc, search, batch, offset, faults, steady>>

\* One block too many for a frame: what was collected is given up.
CollectTooMuch ==
  /\ Collecting
  /\ NextHeld(Len(suffix))
  /\ Len(suffix) >= FrameBlocks
  /\ suffix' = <<>>
  /\ pc' = "begin"
  /\ UNCHANGED <<external, links, known, told, search, batch, offset, faults, steady>>

CollectFails ==
  /\ Collecting
  /\ Fault \/ (~NextHeld(Len(suffix)) /\ UNCHANGED faults)
  /\ EndFailed
  /\ UNCHANGED <<external, link, session, known, steady>>

\* Chain decides: it adopts a preferred history, keeps its own before one
\* that is valid, and refuses anything else.
Adopts(prefix, blocks) ==
  /\ Preferred(prefix, blocks)
  /\ chain' = Offered(prefix, blocks)
  /\ steady' = FALSE
Keeps(prefix, blocks) ==
  /\ Valid(prefix, blocks) /\ ~Preferred(prefix, blocks)
  /\ UNCHANGED <<chain, steady>>

Collected == pc = "collect" /\ Len(suffix) = SuffixCount

\* stnc_core_submit_suffix_evidence
SuffixTaken ==
  /\ Collected
  /\ Reached
  /\ \/ Adopts(low, suffix) /\ known' = View(chain')
     \/ Keeps(low, suffix) /\ UNCHANGED known
  /\ EndOk
  /\ UNCHANGED <<stage, peer, session>>

SuffixFails ==
  /\ Collected
  /\ \/ AnswerLost /\ (Adopts(low, suffix) \/ Keeps(low, suffix))
     \/ Reached /\ ~Valid(low, suffix) /\ UNCHANGED <<chain, steady>>
     \/ Unreached /\ UNCHANGED <<chain, steady>>
  /\ EndFailed
  /\ UNCHANGED <<stage, peer, session, known>>

(***************************************************************************)
(* stnc_core_submit_peer_history_staged                                    *)
(***************************************************************************)
Opens == stage' = [open |-> TRUE, session |-> session, prefix |-> low, blocks |-> <<>>]

BeginStage ==
  /\ pc = "begin"
  /\ Reached
  /\ Opens
  /\ offset' = 0
  /\ pc' = "append"
  /\ UNCHANGED <<chain, peer, session, joined, known, told, search, batch, suffix, steady>>

\* Nothing is aborted here, even when Chain did open the stage.
BeginFails ==
  /\ pc = "begin"
  /\ (AnswerLost /\ Opens) \/ (Unreached /\ UNCHANGED stage)
  /\ EndFailed
  /\ UNCHANGED <<chain, peer, session, known, steady>>

Appending == pc = "append" /\ offset < SuffixCount
Stages == stage' = [stage EXCEPT !.blocks = Append(@, NextBlock(offset))]

\* The block is asked of the peer a second time.
AppendBlock ==
  /\ Appending
  /\ NextHeld(offset)
  /\ Reached
  /\ Stages
  /\ offset' = offset + 1
  /\ UNCHANGED <<chain, peer, session, joined, known, told, pc, search, batch, suffix, steady>>

\* Fault: a failed append returns as a failed begin does.
AppendFailsOpen ==
  /\ Appending
  /\ ~NextHeld(offset)
  /\ EndFailed
  /\ UNCHANGED <<external, link, session, known, faults, steady>>

AppendFails ==
  /\ Appending
  /\ \/ ~NextHeld(offset) /\ UNCHANGED <<link, faults, stage>>
     \/ Fault /\ UNCHANGED <<link, stage>>
     \/ NextHeld(offset) /\ Unreached /\ UNCHANGED stage
     \/ NextHeld(offset) /\ AnswerLost /\ Stages
  /\ pc' = "abort"
  /\ UNCHANGED <<chain, peer, session, joined, known, told, search, transfer, steady>>

Staged == pc = "append" /\ offset = SuffixCount

CommitTaken ==
  /\ Staged
  /\ Reached
  /\ \/ Adopts(stage.prefix, stage.blocks) /\ known' = View(chain')
     \/ Keeps(stage.prefix, stage.blocks) /\ UNCHANGED known
  /\ stage' = NoStage
  /\ EndOk
  /\ UNCHANGED <<peer, session>>

CommitFails ==
  /\ Staged
  /\ \/ /\ AnswerLost
        /\ Adopts(stage.prefix, stage.blocks) \/ Keeps(stage.prefix, stage.blocks)
        /\ stage' = NoStage
     \/ /\ Reached
        /\ ~Valid(stage.prefix, stage.blocks)
        /\ stage' \in {stage, NoStage}
        /\ UNCHANGED <<chain, steady>>
     \/ Unreached /\ UNCHANGED <<stage, chain, steady>>
  /\ pc' = "abort"
  /\ UNCHANGED <<peer, session, joined, known, told, search, transfer>>

\* stnc_core_stage_abort: whatever comes of it is ignored.
AbortStage ==
  /\ pc = "abort"
  /\ \/ (Reached \/ AnswerLost) /\ stage' = NoStage
     \/ Unreached /\ link' # "up" /\ UNCHANGED stage
  /\ EndFailed
  /\ UNCHANGED <<chain, peer, session, known, steady>>

(***************************************************************************)
(* Specification                                                           *)
(***************************************************************************)
Compare == CompareCurrent \/ CompareDiverged \/ CompareAhead
Headers == (\E count \in 1..HeadersMax : GetHeaders(count)) \/ GetHeadersFails
Blocks == BlocksDone \/ BlockUnavailable \/ BlockAccepted \/ BlockRefused
Search == Probe \/ ProbeFails \/ SearchEnds \/ NothingActionable
Frame == Collect \/ CollectTooMuch \/ CollectFails \/ SuffixTaken \/ SuffixFails
Stage ==
  \/ BeginStage \/ BeginFails \/ AppendBlock \/ AppendFails
  \/ CommitTaken \/ CommitFails \/ AbortStage
Transfer == Compare \/ Headers \/ Blocks \/ Search \/ Frame \/ Stage

Next ==
  \/ \E h \in Histories : ChainAdvances(h) \/ PeerAdvances(h)
  \/ AskState \/ StateUnanswered \/ Refresh \/ Reconnect \/ ReconnectFails
  \/ Transfer

Spec == Init /\ [][Next]_vars

\* The loop runs on, and the timers of stnc_core_tick make both the peer and
\* Chain due again and again.
FairSpec ==
  /\ Spec
  /\ WF_vars(Transfer)
  /\ SF_vars(AskState)
  /\ SF_vars(Refresh)
  /\ WF_vars(Reconnect)

(***************************************************************************)
(* Properties                                                              *)
(***************************************************************************)
ViewType == [available : BOOLEAN, count : Nat, tip : Block \union {NoBlock}]
StageType == [open : BOOLEAN, session : Nat, prefix : Nat, blocks : Seq(Block)]

\* Types; and the search stays between nothing and the shorter history.
TypeOK ==
  /\ chain \in Histories /\ peer \in Histories
  /\ stage \in StageType
  /\ link \in {"up", "dirty", "down"} /\ session \in Nat /\ joined \in BOOLEAN
  /\ known \in ViewType /\ told \in ViewType
  /\ pc \in {"tick", "compare", "headers", "blocks", "search", "collect",
             "begin", "append", "abort"}
  /\ low \in Nat /\ high \in Nat /\ low <= high
  /\ batch \in Seq(Block) /\ suffix \in Seq(Block) /\ offset \in Nat
  /\ faults \in Nat
  /\ steady \in BOOLEAN

\* A stage that is open on Chain is the one Core is filling, block for block,
\* or Core has lost the session it was opened in: every way out of
\* stnc_core_submit_peer_history_staged with a working session closes it.
StageAccounted ==
  stage.open =>
    \/ pc = "append" /\ link = "up" /\ stage.session = session
         /\ stage.prefix = low /\ Len(stage.blocks) = offset
    \/ pc = "abort"
    \/ link # "up"
    \/ stage.session < session

\* Common prefix of two histories, exactly.
CommonPrefix(n) ==
  /\ n <= Len(peer) /\ n <= Len(chain)
  /\ SameBelow(peer, chain, n)
  /\ n < Lesser(told.count, known.count) => peer[n + 1] # chain[n + 1]

Offering(blocks) ==
  /\ CommonPrefix(low)
  /\ Offered(low, blocks) = SubSeq(peer, 1, told.count)

\* While neither history changes, what Core offers after a search is the
\* peer's history as the peer told it, cut at the last common block: by the
\* search of stnc_core_common_prefix, collected once for a frame or fetched a
\* second time into a stage.
OfferExact ==
  steady =>
    /\ Collected => Offering(suffix)
    /\ Staged => Offering(stage.blocks)

Ahead(h, g) == Work[h] > Work[g] /\ Len(h) >= Len(g)
Divergence == CHOOSE n \in 0..Lesser(Len(peer), Len(chain)) :
  SameBelow(peer, chain, n) /\ ~(n < Len(peer) /\ n < Len(chain) /\ peer[n + 1] = chain[n + 1])

\* Once faults are over and the histories stand still, Core's state is Chain's
\* again, and Chain has followed the peer unless the peer has no more work,
\* has fewer blocks, or forks off further back than Core transfers: a lost
\* answer, a failed transfer or a stage left behind delays it only.
Synced ==
  <>[](/\ known = View(chain)
       /\ Ahead(peer, chain) => Len(peer) - Divergence > MaxBlocks)
=============================================================================
