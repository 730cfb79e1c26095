------------------------------- MODULE Command -------------------------------
(***************************************************************************)
(* One operation at a time: the commands of stnc-core, each a process that *)
(* initializes Core, runs one command and ends with an exit code, and the  *)
(* requests of the window that reach Chain through the same services.      *)
(* What an operation has read of Chain may be out of date at the next      *)
(* exchange, every exchange may fail, and a submission may take effect     *)
(* although its answer never arrives.                                      *)
(*                                                                         *)
(* The session the exchanges use is the subject of RpcSession, the files   *)
(* and settings are those of ProfileStore and ConfigStore.                 *)
(***************************************************************************)
EXTENDS Integers, FiniteSets

CONSTANTS
  Tip,       \* tips the accepted chain may have
  Target,    \* targets of its next block
  Solutions, \* the nonces whose hash meets a target
  MaxNonce,  \* UINT64_MAX
  MaxRuns,   \* bound: operations
  MaxMoves   \* bound: how often Chain's next block changes from elsewhere

Nonce == 0..MaxNonce

ASSUME CommandAssumption ==
  /\ MaxNonce \in Nat
  /\ Cardinality(Tip) > 1
  /\ Solutions \in [Tip \X Target -> SUBSET Nonce]
  /\ MaxRuns \in Nat /\ MaxMoves \in Nat

VARIABLES
  next,      \* Chain's next block: its parent, its target, and if it has one
  mined,     \* runs whose block Chain accepted
  admitted,  \* runs whose transaction Chain admitted to its pool
  included,  \* runs whose transaction has been in an accepted block
  sent,      \* submissions Chain has not judged yet
  verdict,   \* how Chain judged the submission of this run
  heard,     \* ghost: how much of that this run has read
  file,      \* the wallet, the identity and the draft
  enabled,   \* mining_enabled as stored
  tracked,   \* the transaction whose acceptance the window waits for
  announced, \* transactions it announced as accepted
  run,       \* which operation this is
  op,        \* what it does
  pc,        \* where it is
  linked,    \* connected to Chain
  attempts,  \* nonces to try
  work,      \* template: the block to work on and its first nonce
  out,       \* what the search returned
  held,      \* keys and buffers to clear and release
  rc,        \* exit code, or result of a request
  told,      \* what the user was told
  moves,     \* bound
  lasted     \* the work was current at a moment after its search

line == <<sent, verdict, heard>>
chain == <<next, mined, admitted, included, moves, line>>
stored == <<file, enabled>>
watch == <<tracked, announced>>
mining == <<attempts, work, out, lasted>>
vars == <<next, mined, admitted, included, line, file, enabled, tracked, announced,
          run, op, pc, linked, attempts, work, out, held, rc, told, moves,
          lasted>>

Mining == {"mining mine-once", "mining scan"}
Transfers == {"transfer", "send"}
Requests == {"send", "create contract", "refresh"}
Reports == {"peers", "mining service", "help"}
Queries == {"pending", "balance", "address", "contract state", "mining status"}
Settings == {"mining disable", "mining backend", "mining cpu-limit"}
Creations == {"wallet create", "identity create", "contract draft"}
WalletReads == {"wallet show", "wallet balance"}
Statuses == {"wallet status", "identity status"}
Operations ==
  Mining \cup Transfers \cup Requests \cup Reports \cup Queries \cup Settings
    \cup Creations \cup WalletReads \cup Statuses
    \cup {"status", "mining enable", "mining check", "mining template"}

Subject(o) == CASE o \in {"identity create", "identity status"} -> "identity"
                [] o = "contract draft" -> "draft"
                [] OTHER -> "wallet"

Blocks == [parent : Tip, target : Target, open : BOOLEAN]
NoWork == [parent |-> CHOOSE t \in Tip : TRUE, target |-> CHOOSE t \in Target : TRUE,
           first |-> 0]
NoResult == [result |-> "none", nonce |-> 0, block |-> 0]

Init ==
  /\ next \in Blocks
  /\ mined = {} /\ admitted = {} /\ included = {} /\ moves = 0
  /\ sent = {} /\ verdict = "none" /\ heard = "none"
  /\ file \in [{"wallet", "identity", "draft"} -> {"absent", "valid", "damaged"}]
  /\ file["draft"] = "absent"
  /\ enabled \in BOOLEAN
  /\ tracked = 0 /\ announced = {}
  /\ run = 0 /\ op = "help" /\ pc = "exited" /\ linked = FALSE
  /\ attempts = 0 /\ work = NoWork /\ out = NoResult /\ lasted = FALSE
  /\ held = {} /\ rc = 0 /\ told = "nothing"

(***************************************************************************)
(* How an operation goes on and how it ends.  A process shuts Core down    *)
(* before it exits; a request of the window leaves Core as it is.          *)
(***************************************************************************)

Go(to, taken) ==
  /\ pc' = to
  /\ held' = held \cup taken
  /\ UNCHANGED <<run, op, linked, rc, told>>

Leave(code, text, freed) ==
  /\ pc' = "exited"
  /\ rc' = code
  /\ told' = text
  /\ held' = held \ freed
  /\ linked' = FALSE
  /\ UNCHANGED <<run, op>>

\* Core may fail to initialize, and it may initialize without Chain.
Begin ==
  /\ pc = "exited" /\ run < MaxRuns
  /\ run' = run + 1
  /\ op' \in Operations
  /\ \/ pc' = "started" /\ linked' \in BOOLEAN /\ rc' = 0 /\ told' = "nothing"
     \/ /\ op' \notin Requests
        /\ pc' = "exited" /\ linked' = FALSE
        /\ rc' = 1 /\ told' = "initialization failed"
  /\ attempts' = 0 /\ work' = NoWork /\ out' = NoResult /\ lasted' = FALSE
  /\ verdict' = "none" /\ heard' = "none"
  /\ UNCHANGED <<next, mined, admitted, included, moves, sent, stored, watch, held>>

Started(ops) == pc = "started" /\ op \in ops

(***************************************************************************)
(* Commands of at most one exchange.                                       *)
(***************************************************************************)

Report ==
  /\ Started(Reports)
  /\ Leave(0, "value", {})
  /\ UNCHANGED <<chain, stored, watch, mining>>

\* Connected and the accepted state available.
Status ==
  /\ Started({"status"})
  /\ \E known \in BOOLEAN : Leave(IF linked /\ known THEN 0 ELSE 1, "value", {})
  /\ UNCHANGED <<chain, stored, watch, mining>>

Query ==
  /\ Started(Queries)
  /\ \/ linked /\ Leave(0, "value", {})
     \/ Leave(1, "failed", {})
  /\ UNCHANGED <<chain, stored, watch, mining>>

Template ==
  /\ Started({"mining template"})
  /\ \/ linked /\ next.open /\ Go("printing", {"payload"})
     \/ Leave(1, "failed", {})
  /\ UNCHANGED <<chain, stored, watch, mining>>

PrintTemplate ==
  /\ pc = "printing"
  /\ Leave(0, "value", {"payload"})
  /\ UNCHANGED <<chain, stored, watch, mining>>

\* The tip Chain names is asked about again, as the base of work.
ReadContext ==
  /\ Started({"mining check"})
  /\ \/ /\ linked
        /\ work' = [work EXCEPT !.parent = next.parent]
        /\ Go("check base", {})
     \/ Leave(1, "failed", {}) /\ UNCHANGED work
  /\ UNCHANGED <<chain, stored, watch, attempts, out, lasted>>

CheckBase ==
  /\ pc = "check base"
  /\ \/ next.parent = work.parent /\ Leave(0, "current", {})
     \/ next.parent # work.parent /\ Leave(1, "stale", {})
     \/ Leave(1, "failed", {})
  /\ UNCHANGED <<chain, stored, watch, mining>>

(***************************************************************************)
(* Wallet, identity, draft and settings.                                   *)
(***************************************************************************)

\* A private file is created new and never replaces another; it may stay
\* behind incomplete, and a step after it may fail.
Create ==
  /\ Started(Creations)
  /\ LET f == Subject(op) IN
     \/ /\ file[f] = "absent"
        /\ file' = [file EXCEPT ![f] = "valid"]
        /\ \/ Leave(0, "created", {})
           \/ op = "wallet create" /\ Leave(1, "failed", {})
     \/ /\ file[f] = "absent"
        /\ file' = [file EXCEPT ![f] = "damaged"]
        /\ Leave(1, "failed", {})
     \/ Leave(1, "failed", {}) /\ UNCHANGED file
  /\ UNCHANGED <<chain, enabled, watch, mining>>

FileStatus ==
  /\ Started(Statuses)
  /\ Leave(IF file[Subject(op)] = "damaged" THEN 1 ELSE 0, file[Subject(op)], {})
  /\ UNCHANGED <<chain, stored, watch, mining>>

Usable == file["wallet"] = "valid"

ReadWallet ==
  /\ Started(WalletReads)
  /\ \/ Usable /\ Go("wallet read", {"key"})
     \/ Leave(1, "failed", {})
  /\ UNCHANGED <<chain, stored, watch, mining>>

ShowWallet ==
  /\ pc = "wallet read"
  /\ \/ op = "wallet show" /\ Leave(0, "value", {"key"})
     \/ op = "wallet balance" /\ linked /\ Leave(0, "value", {"key"})
     \/ op = "wallet balance" /\ Leave(1, "failed", {"key"})
  /\ UNCHANGED <<chain, stored, watch, mining>>

\* Enabling loads the wallet first and clears the key at once.
EnableMining ==
  /\ Started({"mining enable"})
  /\ \/ Usable /\ enabled' = TRUE /\ Leave(0, "enabled", {})
     \/ Leave(1, "failed", {}) /\ UNCHANGED enabled
  /\ UNCHANGED <<chain, file, watch, mining>>

Set ==
  /\ Started(Settings)
  /\ \/ /\ enabled' = (enabled /\ op # "mining disable")
        /\ Leave(0, "set", {})
     \/ Leave(1, "failed", {}) /\ UNCHANGED enabled
  /\ UNCHANGED <<chain, file, watch, mining>>
(***************************************************************************)
(* One-shot mining: a bounded search, submitted or only reported.          *)
(***************************************************************************)

\* The decimal number, or a text that is none or exceeds 64 bits.
ParseAttempts ==
  /\ Started(Mining)
  /\ \/ /\ attempts' \in Nonce \ {0}
        /\ Go(IF op = "mining mine-once" THEN "miner" ELSE "template", {})
     \/ Leave(1, "bad input", {}) /\ UNCHANGED attempts
  /\ UNCHANGED <<chain, stored, watch, work, out, lasted>>

LoadMiner ==
  /\ pc = "miner"
  /\ \/ Usable /\ Go("identity", {"key"})
     \/ Leave(1, "failed", {})
  /\ UNCHANGED <<chain, stored, watch, mining>>

\* The address is all that is kept of the key.
DeriveMiner ==
  /\ pc = "identity"
  /\ \/ /\ linked
        /\ pc' = "template" /\ held' = held \ {"key"}
        /\ UNCHANGED <<run, op, linked, rc, told>>
     \/ Leave(1, "failed", {"key"})
  /\ UNCHANGED <<chain, stored, watch, mining>>

FetchTemplate ==
  /\ pc = "template"
  /\ \/ /\ linked /\ next.open
        /\ \E n \in Nonce :
             work' = [parent |-> next.parent, target |-> next.target, first |-> n]
        /\ Go("match", {"payload"})
     \/ Leave(1, "failed", {}) /\ UNCHANGED work
  /\ UNCHANGED <<chain, stored, watch, attempts, out, lasted>>

\* An answer of Chain that names this work as its next block.
Current == next.open /\ next.parent = work.parent /\ next.target = work.target

\* Fault: work of another context is left without releasing the payload.
MatchContextKeeping ==
  /\ pc = "match"
  /\ \/ linked /\ Current /\ Go("base", {})
     \/ Leave(1, "failed", {})
  /\ UNCHANGED <<chain, stored, watch, mining>>

MatchContext ==
  /\ pc = "match"
  /\ \/ linked /\ Current /\ Go("base", {})
     \/ Leave(1, "failed", {"payload"})
  /\ UNCHANGED <<chain, stored, watch, mining>>

CheckWork ==
  /\ pc = "base"
  /\ \/ linked /\ Current /\ Go("search", {})
     \/ Leave(1, "stale or failed", {"payload"})
  /\ UNCHANGED <<chain, stored, watch, mining>>

\* The subtraction cannot wrap, the addition it stands for could.
BeyondRange == attempts - 1 > MaxNonce - work.first

Solves(n) == n \in Solutions[<<work.parent, work.target>>]

Lesser(m, n) == IF m < n THEN m ELSE n

\* Nonces in order, none behind the last of 64 bits.
Search(first, count) ==
  LET last == Lesser(first + count - 1, MaxNonce)
      hits == {n \in first..last : Solves(n)}
  IN  IF hits = {}
      THEN [result |-> "exhausted", nonce |-> 0, block |-> last]
      ELSE LET least == CHOOSE n \in hits : \A k \in hits : n <= k
           IN  [result |-> "found", nonce |-> least, block |-> least]

\* What the command makes sure of before it believes the worker.
Sound(o) ==
  IF o.result = "found" THEN o.block = o.nonce /\ Solves(o.nonce)
  ELSE o.nonce = 0 /\ o.block = work.first + attempts - 1

Work ==
  /\ pc = "search"
  /\ \/ /\ ~BeyondRange
        /\ LET o == Search(work.first, attempts) IN
             IF Sound(o)
             THEN out' = o /\ lasted' = Current /\ Go("recheck", {})
             ELSE Leave(1, "failed", {"payload"}) /\ UNCHANGED <<out, lasted>>
     \/ BeyondRange /\ Leave(1, "beyond range", {"payload"}) /\ UNCHANGED <<out, lasted>>
     \/ Leave(1, "failed", {"payload"}) /\ UNCHANGED <<out, lasted>>
  /\ UNCHANGED <<chain, stored, watch, attempts, work>>

\* Fault: only a block to be submitted is checked against Chain once more.
RecheckOnlySolutions ==
  /\ pc = "recheck"
  /\ IF out.result = "found" /\ op = "mining mine-once"
     THEN \/ linked /\ Current /\ Go("submit work", {})
          \/ Leave(1, "stale or failed", {"payload"})
     ELSE Leave(0, out.result, {"payload"})
  /\ UNCHANGED <<chain, stored, watch, mining>>

Recheck ==
  /\ pc = "recheck"
  /\ \/ /\ linked /\ Current
        /\ IF out.result = "found" /\ op = "mining mine-once"
           THEN Go("submit work", {})
           ELSE Leave(0, out.result, {"payload"})
     \/ Leave(1, "stale or failed", {"payload"})
  /\ UNCHANGED <<chain, stored, watch, mining>>

\* What is sent is Chain's to judge, also when nobody waits for it any more.
Submission == [run |-> run, op |-> op, work |-> work, block |-> out.block]

Submit(answer) ==
  /\ linked
  /\ sent' = sent \cup {Submission}
  /\ Go(answer, {})

SubmitWork ==
  /\ pc = "submit work"
  /\ \/ Submit("work answer")
     \/ Leave(1, "not accepted", {"payload"}) /\ UNCHANGED sent
  /\ UNCHANGED <<next, mined, admitted, included, moves, verdict, heard, stored, watch,
                 mining>>

Hears(answer) == verdict = answer /\ heard' = answer
HearsNothing == UNCHANGED heard

\* A refusal and an answer that is lost are told alike.
ReadWorkAnswer ==
  /\ pc = "work answer"
  /\ \/ Hears("taken") /\ Leave(0, "accepted", {"payload"})
     \/ Hears("refused") /\ Leave(1, "not accepted", {"payload"})
     \/ HearsNothing /\ Leave(1, "not accepted", {"payload"})
  /\ UNCHANGED <<next, mined, admitted, included, moves, sent, verdict, stored, watch,
                 mining>>

(***************************************************************************)
(* Transactions: a transfer by command or window, a contract by window.    *)
(***************************************************************************)

\* Amount, destination and the confirmation are judged before the wallet.
PrepareTransfer ==
  /\ Started(Transfers)
  /\ \/ Usable /\ Go("sign transfer", {"key"})
     \/ Leave(1, "failed", {})
  /\ UNCHANGED <<chain, stored, watch, mining>>

\* A fresh random nonce makes every call a transaction of its own.
SignTransfer ==
  /\ pc = "sign transfer"
  /\ \/ Go("submit transaction", {"transaction"})
     \/ Leave(1, "failed", {"key"})
  /\ UNCHANGED <<chain, stored, watch, mining>>

PrepareContract ==
  /\ Started({"create contract"})
  /\ Go("sign contract", {"contract", "transaction"})
  /\ UNCHANGED <<chain, stored, watch, mining>>

Buffers == {"key", "contract", "transaction"}

SignContract ==
  /\ pc = "sign contract"
  /\ \/ file["identity"] = "valid" /\ Go("submit transaction", {})
     \/ Leave(1, "failed before admission", Buffers)
  /\ UNCHANGED <<chain, stored, watch, mining>>

Unsubmitted == IF op = "create contract" THEN "failed before admission" ELSE "failed"

\* Fault: a request that was sent counts as taken.
LostTaken == Leave(0, "admitted", Buffers)
Lost == Leave(1, Unsubmitted, Buffers)

Rejected == Hears("refused") /\ Leave(1, "rejected", Buffers)

\* An admitted contract ends here, a transfer asks for the balance first;
\* the window tracks what was admitted under an identifier.
Follow == IF op = "transfer" THEN UNCHANGED tracked ELSE tracked' \in {tracked, run}

SubmitTransaction ==
  /\ pc = "submit transaction"
  /\ \/ Submit("transaction answer")
     \/ Lost /\ UNCHANGED sent
  /\ UNCHANGED <<next, mined, admitted, included, moves, verdict, heard, stored, watch,
                 mining>>

ReadTransactionAnswer ==
  /\ pc = "transaction answer"
  /\ \/ /\ Hears("taken")
        /\ IF op = "create contract"
           THEN Follow /\ Leave(0, "admitted", Buffers)
           ELSE UNCHANGED tracked /\ Go("balance", {})
     \/ Rejected /\ UNCHANGED tracked
     \/ HearsNothing /\ Lost /\ UNCHANGED tracked
  /\ UNCHANGED <<next, mined, admitted, included, moves, sent, verdict, stored, announced,
                 mining>>

\* The balance may be unavailable: that is no failure of the transfer.
ReadBalance ==
  /\ pc = "balance"
  /\ Follow
  /\ Leave(0, "admitted", Buffers)
  /\ UNCHANGED <<chain, stored, announced, mining>>

\* A connection of its own asks whether the transaction is in a block.
Refresh ==
  /\ Started({"refresh"})
  /\ \/ /\ tracked \in included
        /\ announced' = announced \cup {tracked}
        /\ tracked' = 0
     \/ UNCHANGED watch
  /\ Leave(0, "refreshed", {})
  /\ UNCHANGED <<chain, stored, mining>>

CloseWindow ==
  /\ pc = "exited" /\ tracked # 0
  /\ tracked' = 0
  /\ UNCHANGED <<chain, stored, announced, run, op, pc, linked, mining, held, rc, told>>

(***************************************************************************)
(* Chain from elsewhere.                                                   *)
(***************************************************************************)

Lasts == lasted' = (lasted \/ (pc = "recheck" /\ Current'))

\* Chain judges a block by its own next block; it becomes the tip.
Takes(j) ==
  IF j.op \in Mining
  THEN /\ next.open /\ next.parent = j.work.parent /\ next.target = j.work.target
       /\ j.block \in Solutions[<<j.work.parent, j.work.target>>]
       /\ mined' = mined \cup {j.run}
       /\ \E t \in Tip \ {next.parent} : next' = [next EXCEPT !.parent = t]
       /\ UNCHANGED admitted
  ELSE admitted' = admitted \cup {j.run} /\ UNCHANGED <<next, mined>>

Judge ==
  \E j \in sent :
    /\ sent' = sent \ {j}
    /\ \/ Takes(j) /\ verdict' = IF j.run = run THEN "taken" ELSE verdict
       \/ /\ verdict' = IF j.run = run THEN "refused" ELSE verdict
          /\ UNCHANGED <<next, mined, admitted>>
    /\ UNCHANGED <<included, moves, heard, stored, watch, run, op, pc, linked, attempts,
                   work, out, held, rc, told>>
    /\ Lasts

NextBlockChanges ==
  /\ moves < MaxMoves
  /\ moves' = moves + 1
  /\ next' \in Blocks \ {next}
  /\ UNCHANGED <<mined, admitted, included, line, stored, watch, run, op, pc, linked,
                 attempts, work, out, held, rc, told>>
  /\ Lasts

Include ==
  /\ \E r \in admitted \ included : included' = included \cup {r}
  /\ UNCHANGED <<next, mined, admitted, moves, line, stored, watch, run, op, pc,
                 linked, mining, held, rc, told>>

Next ==
  \/ Begin \/ Report \/ Status \/ Query \/ Template \/ PrintTemplate
  \/ ReadContext \/ CheckBase \/ Create \/ FileStatus \/ ReadWallet
  \/ ShowWallet \/ EnableMining \/ Set
  \/ ParseAttempts \/ LoadMiner \/ DeriveMiner \/ FetchTemplate \/ MatchContext
  \/ CheckWork \/ Work \/ Recheck \/ SubmitWork \/ ReadWorkAnswer
  \/ PrepareTransfer \/ SignTransfer \/ PrepareContract \/ SignContract
  \/ SubmitTransaction \/ ReadTransactionAnswer \/ ReadBalance \/ Refresh \/ CloseWindow
  \/ Judge \/ NextBlockChanges \/ Include

Spec == Init /\ [][Next]_vars

Steps == {"started", "printing", "check base", "wallet read", "miner", "identity",
          "template", "match", "base", "search", "recheck", "submit work",
          "work answer", "sign transfer", "sign contract", "submit transaction",
          "transaction answer", "balance", "exited"}

\* Every variable stays among its values: in particular one operation at a
\* time is under way, and no more files, keys or buffers exist than named.
TypeOK ==
  /\ next \in Blocks
  /\ mined \subseteq 1..run /\ admitted \subseteq 1..run /\ included \subseteq 1..run
  /\ sent \subseteq [run : 1..run, op : Operations, block : Nonce,
                      work : [parent : Tip, target : Target, first : Nonce]]
  /\ verdict \in {"none", "taken", "refused"} /\ heard \in {"none", "taken", "refused"}
  /\ file \in [{"wallet", "identity", "draft"} -> {"absent", "valid", "damaged"}]
  /\ enabled \in BOOLEAN /\ linked \in BOOLEAN /\ lasted \in BOOLEAN
  /\ tracked \in 0..run /\ announced \subseteq 1..run
  /\ run \in 0..MaxRuns /\ op \in Operations /\ pc \in Steps
  /\ attempts \in Nonce
  /\ work \in [parent : Tip, target : Target, first : Nonce]
  /\ out \in [result : {"none", "found", "exhausted"}, nonce : Nonce, block : Nonce]
  /\ held \subseteq Buffers \cup {"payload"}
  /\ rc \in {0, 1} /\ moves \in 0..MaxMoves

Exits(o) == pc = "exited" /\ op = o /\ rc = 0

\* All attempts were made, and none but a nonce that is told solves the work.
Tried ==
  LET range == work.first..(work.first + attempts - 1) IN
  /\ range \subseteq Nonce
  /\ \A n \in range : Solves(n) => out.result = "found" /\ out.nonce <= n

\* Exit code 0 means the operation is done, whatever moved on Chain while it
\* ran: a block was accepted, or the whole range was searched on work that
\* was still current after the search; a transaction is admitted; a key or a
\* draft is stored whole; the setting is stored (stnc_command_run).
ExitTrue ==
  /\ Exits("mining scan") => lasted /\ Tried
  /\ Exits("mining mine-once") =>
       Tried /\ IF told = "accepted" THEN run \in mined ELSE lasted
  /\ \A o \in Transfers \cup {"create contract"} : Exits(o) => run \in admitted
  /\ \A o \in Creations : Exits(o) => file[Subject(o)] = "valid"
  /\ \A o \in WalletReads : Exits(o) => Usable
  /\ Exits("mining enable") => enabled /\ Usable
  /\ Exits("mining disable") => ~enabled

Taken(r) == r \in admitted \cup mined
Pending(r) == \E j \in sent : j.run = r

\* A submission is told as Chain judged it, when Chain's answer was read: a
\* yes as "admitted" or "accepted", which stays true; a no as "rejected" or
\* "not accepted", and then Chain has not taken it and never will.  The window
\* waits for, and announces, no transaction Chain has not taken.  Excepted are
\* two texts that are told, untruly, of a submission whose answer was lost
\* and that Chain has taken or may still take, though OPERATOR_GUIDE.md:16-17
\* says that its outcome is unknown: "was not accepted by Chain"
\* (stnc_command.c:284) and "failed before Chain admission" (stnc_client.c:26).
\* No other text tells of a submission's end without an answer.
ToldTruth ==
  /\ pc = "exited" /\ told \in {"admitted", "accepted"} => Taken(run) /\ heard = "taken"
  /\ pc = "exited" /\ heard = "taken" => told \in {"admitted", "accepted"}
  /\ pc = "exited" /\ told = "rejected" => heard = "refused"
  /\ pc = "exited" /\ heard = "refused" => ~Taken(run) /\ ~Pending(run)
  /\ pc = "exited" /\ (Taken(run) \/ Pending(run)) /\ heard = "none" =>
       \/ told = "failed" /\ op \in Transfers
       \/ told = "not accepted" /\ op \in Mining
       \/ told = "failed before admission" /\ op = "create contract"
  /\ tracked # 0 => tracked \in admitted
  /\ announced \subseteq included

\* On every one of its ways out an operation has cleared its key and released
\* its buffers, and no private key is held while nonces are searched
\* (stnc_wallet_clear, stnc_core_mining_template_release, the done: labels).
NothingHeld ==
  /\ pc = "exited" => held = {}
  /\ pc \in {"template", "match", "base", "search", "recheck", "submit work",
             "work answer"} =>
       held \subseteq {"payload"}

=============================================================================
