---------------------------- MODULE ClientWindow ----------------------------
(***************************************************************************)
(* The desktop client: the window's thread (gui_btc.c, gui_windows.c) and  *)
(* the worker thread that owns Core, with what they share: one pending     *)
(* request, the busy flag, the snapshot the worker publishes and the       *)
(* messages it posts to the window.                                        *)
(*                                                                         *)
(* The window runs message loops inside one another: the name prompt's and *)
(* a message box's dispatch the same messages as the outer one.  The       *)
(* contract tracker walks through the shared snapshot without its lock, so *)
(* each of its reads may find the old text, the new one or a mixture while *)
(* the worker copies a snapshot over it.  The selected profile is the      *)
(* window's to change at any time (ProfileStore has the files behind it);  *)
(* the worker reads it once for the identity and once for the wallet.      *)
(***************************************************************************)
EXTENDS Naturals, Sequences

CONSTANTS
    Identities, Contracts,
    First,       \* the profile selected when the window starts
    ChainLists,  \* the contract lists Chain may answer with
    SeenMax,     \* STNC_CONTRACT_LIST_MAX: contracts the tracker remembers,
                 \* and the most entries of one list
    MaxRequests, \* bound: requests the window accepts
    Budgets,     \* bound: how many requests, selections of another profile and
                 \* answers of Chain unlike the one before a behaviour may have,
                 \* and whether it is interrupted: by the prompt, by the close of
                 \* the window and by calls of the worker that fail
    MaxBoxes,    \* bound: message boxes open at once
    NoIdentity,
    Garbled      \* any text that is no contract's, half old and half new or blank

ASSUME ClientAssumption ==
    /\ First \in Identities /\ NoIdentity \notin Identities
    /\ Garbled \notin Contracts /\ NoIdentity \notin Contracts \cup {Garbled}
    /\ SeenMax \in Nat /\ MaxBoxes \in Nat /\ MaxRequests \in Nat
    /\ Budgets \subseteq [requests : 0..MaxRequests, selects : Nat, changes : Nat,
                   interrupted : BOOLEAN]
    /\ <<>> \in ChainLists /\ ChainLists \subseteq Seq(Contracts)
    /\ \A l \in ChainLists : Len(l) <= SeenMax

Requests == 1..MaxRequests
Texts == Contracts \cup {Garbled}
NoText == NoIdentity

VARIABLES
    \* the window's thread
    window,      \* the main window exists
    prompt,      \* the name prompt's loop is running
    boxes,       \* message boxes open, one inside the other
    quit,        \* WM_QUIT waits in the queue
    exited,      \* stnc_gui_run has returned
    \* the contract tracker
    tracked,     \* its identity, NoIdentity after a reset
    seen,        \* the texts it remembers, in its array's order
    seenReady,   \* it has taken the first list
    at,          \* the entry its walk through the list is at, 0 outside a walk
    arrived,     \* the walk has counted a new contract
    look,        \* the contract counted last, until a text is recorded for it
    told,        \* ghost: contracts counted since its last reset
    missed,      \* ghost: those of them it had no room for, or recorded another text for
    again,       \* ghost: one counted before, and not missed, was counted once more
    \* shared
    posted,      \* the worker's messages in the window's queue
    stopping, ready, busy,
    pending,     \* the request for the worker, 0 for none
    snap,        \* the published snapshot
    selected,    \* the profile active.profile names
    \* the worker
    pc, running, s, display,
    \* requests and Chain
    asked,       \* requests accepted so far
    done,        \* requests executed
    selects, changes, budget

loop     == <<window, prompt, boxes, quit, exited>>
memory   == <<tracked, seen, seenReady>>
walk     == <<at, arrived, look>>
ghosts   == <<told, missed, again>>
tracker  == <<memory, walk, ghosts>>
shared   == <<posted, stopping, ready, busy, pending, snap>>
worker   == <<pc, running, s, display>>
outside  == <<changes, budget>>
windowVars == <<loop, tracker, shared, selected, selects, worker, outside, asked, done>>

Blank == [id |-> NoIdentity, wallet |-> NoIdentity, avail |-> FALSE, list |-> <<>>]
NoDisplay == [valid |-> FALSE, id |-> NoIdentity, wallet |-> NoIdentity,
              avail |-> FALSE, list |-> <<>>]

Walking == at > 0
Enabled == window /\ ~prompt /\ boxes = 0 /\ ~Walking

-----------------------------------------------------------------------------
(* The user.  A request is accepted only by a ready, idle window that is    *)
(* not closing (queue_request).                                             *)

\* Without the look at the busy flag.
QueueAnyway ==
    /\ Enabled /\ asked < budget.requests
    /\ ready /\ ~stopping
    /\ asked' = asked + 1 /\ pending' = asked + 1 /\ busy' = TRUE
    /\ UNCHANGED <<loop, tracker, posted, stopping, ready, snap, selected,
                   selects, worker, outside, done>>

QueueRequest ==
    /\ Enabled /\ asked < budget.requests
    /\ ready /\ ~busy /\ ~stopping
    /\ asked' = asked + 1 /\ pending' = asked + 1 /\ busy' = TRUE
    /\ UNCHANGED <<loop, tracker, posted, stopping, ready, snap, selected,
                   selects, worker, outside, done>>

ResetTracker ==
    /\ tracked' = NoIdentity /\ seen' = <<>> /\ seenReady' = FALSE
    /\ told' = {} /\ missed' = {} /\ UNCHANGED again

(* Use Wallet, or New Wallet when the prompt returned a good name.          *)
SelectProfile(p) ==
    /\ selects < budget.selects /\ p # selected
    /\ selected' = p /\ selects' = selects + 1
    /\ ResetTracker /\ UNCHANGED walk
    /\ posted' = posted \cup {"UPDATED"}

UseWallet(p) ==
    /\ Enabled
    /\ SelectProfile(p)
    /\ UNCHANGED <<loop, stopping, ready, busy, pending, snap, worker, outside,
                   asked, done>>

OpenPrompt ==
    /\ Enabled /\ budget.interrupted
    /\ prompt' = TRUE
    /\ UNCHANGED <<window, boxes, quit, exited, tracker, shared,
                   selected, selects, worker, outside, asked, done>>

(* OK with a name a profile can be created for, or with another, or Cancel. *)
ClosePrompt ==
    /\ prompt /\ window /\ boxes = 0 /\ ~Walking
    /\ prompt' = FALSE
    /\ \/ \E p \in Identities : SelectProfile(p)
       \/ UNCHANGED <<tracker, posted, selected, selects>>
    /\ UNCHANGED <<window, boxes, quit, exited, stopping, ready, busy,
                   pending, snap, worker, outside, asked, done>>

DismissBox ==
    /\ window /\ boxes > 0 /\ ~Walking
    /\ boxes' = boxes - 1
    /\ UNCHANGED <<window, prompt, quit, exited, tracker, shared,
                   selected, selects, worker, outside, asked, done>>

(* WM_CLOSE only asks the worker to end.                                    *)
Close ==
    /\ Enabled /\ budget.interrupted /\ ~stopping
    /\ stopping' = TRUE
    /\ UNCHANGED <<loop, tracker, posted, ready, busy, pending, snap, selected,
                   selects, worker, outside, asked, done>>

-----------------------------------------------------------------------------
(* Messages.  Any of the loops dispatches them to the window.               *)

(* stnc_contract_tracking_update, called as render() sets its texts, reads  *)
(* the shared snapshot without the lock: while the worker copies s over it  *)
(* a read finds the old value, the new one or, of a text, some of both.     *)
Copying == pc = "publish"

Found(field) == IF Copying THEN {snap[field], s[field]} ELSE {snap[field]}
Count == {Len(l) : l \in Found("list")}
Address ==
    IF Copying /\ snap.id # s.id THEN Found("id") \cup {NoIdentity} ELSE Found("id")

EntryOf(l, i) == IF i \in DOMAIN l THEN l[i] ELSE Garbled
Entry(i) ==
    LET old == EntryOf(snap.list, i)
        new == EntryOf(s.list, i)
    IN  IF Copying /\ old # new THEN {old, new, Garbled} ELSE {old}

\* stnc_contract_was_seen reads the entry once for each text it compares it with.
Remembered == {seen[k] : k \in DOMAIN seen}
WasSeen(i) == Remembered \cap Entry(i) # {}
WasNotSeen(i) == \A text \in Remembered \ {Garbled} : Entry(i) # {text}

\* Without the check for room.
RoomAlways == TRUE

Room == Len(seen) < SeenMax

Dispatch(message) == posted' = posted \ {message}

BeginWalk ==
    /\ \E avail \in Found("avail") : at' = IF avail THEN 1 ELSE 0
    /\ UNCHANGED <<arrived, look>>

Track ==
    /\ window /\ "UPDATED" \in posted /\ boxes < MaxBoxes /\ ~Walking
    /\ Dispatch("UPDATED")
    /\ \/ NoIdentity \in Found("id") /\ ResetTracker /\ UNCHANGED walk
       \/ /\ Found("id") # {NoIdentity}
          /\ tracked \in Address /\ BeginWalk /\ UNCHANGED <<memory, ghosts>>
       \/ /\ Found("id") # {NoIdentity}
          /\ \E id \in Address : id # tracked \/ id = NoIdentity
          /\ tracked' \in Address /\ seen' = <<>> /\ seenReady' = FALSE
          /\ told' = {} /\ missed' = {} /\ UNCHANGED again
          /\ BeginWalk
    /\ UNCHANGED <<loop, stopping, ready, busy, pending, snap, selected, selects, worker,
                   outside, asked, done>>

NextEntry == at' = at + 1 /\ UNCHANGED arrived

TakeFirst ==
    /\ ~seenReady
    /\ \E text \in Entry(at) : seen' = Append(seen, text)
    /\ NextEntry /\ UNCHANGED <<look, ghosts>>

PassSeen ==
    /\ seenReady /\ WasSeen(at)
    /\ NextEntry /\ UNCHANGED <<look, seen, ghosts>>

(* A new contract is counted whether there is room for it or not.  Of an    *)
(* entry that is being replaced nobody can say which contract it is.        *)
CountNew ==
    /\ seenReady /\ WasNotSeen(at)
    /\ arrived' = TRUE
    /\ IF Room THEN at' = at /\ look' \in Entry(at) ELSE at' = at + 1 /\ UNCHANGED look
    /\ LET counted == IF Entry(at) \subseteq Contracts THEN Entry(at) ELSE {}
       IN  /\ told' = told \cup counted
           /\ missed' = IF Room THEN missed ELSE missed \cup counted
           /\ again' = (again \/ counted \cap (told \ missed) # {})
    /\ UNCHANGED seen

VisitEntry ==
    /\ Walking /\ look = NoText
    /\ \E n \in Count : at <= n
    /\ TakeFirst \/ PassSeen \/ CountNew
    /\ UNCHANGED <<loop, tracked, seenReady, shared, selected, selects, worker, outside,
                   asked, done>>

\* The box before the record: its loop runs the tracker once more.
RememberAfterwards(text) == UNCHANGED seen

Remember(text) == seen' = Append(seen, text)

RecordEntry ==
    /\ Walking /\ look # NoText
    /\ \E text \in Entry(at) :
         /\ Remember(text)
         /\ missed' = IF text = look THEN missed \ {look}
                      ELSE missed \cup (({look} \cap told) \ Remembered)
    /\ NextEntry /\ look' = NoText
    /\ UNCHANGED <<loop, tracked, seenReady, told, again, shared, selected, selects, worker,
                   outside, asked, done>>

(* The first list counts as it is now; a box and the loop in it come when   *)
(* everything is recorded.                                                  *)
EndWalk ==
    /\ Walking /\ look = NoText
    /\ \E n \in Count : at > n
    /\ IF seenReady THEN UNCHANGED seen
       ELSE \E n \in Count : seen' = [k \in 1..n |-> EntryOf(seen, k)]
    /\ boxes' = IF arrived THEN boxes + 1 ELSE boxes
    /\ seenReady' = TRUE /\ at' = 0 /\ arrived' = FALSE
    /\ UNCHANGED <<window, prompt, quit, exited, tracked, look, ghosts, shared, selected,
                   selects, worker, outside, asked, done>>

(* STOPPED destroys the window if it is closing and is dropped if not.  The *)
(* boxes the window owns go with it and pass WM_QUIT on.                    *)
Stopped ==
    /\ window /\ "STOPPED" \in posted /\ ~Walking
    /\ Dispatch("STOPPED")
    /\ IF stopping THEN window' = FALSE /\ quit' = TRUE /\ boxes' = 0
                   ELSE UNCHANGED <<window, quit, boxes>>
    /\ UNCHANGED <<prompt, exited, tracker, stopping, ready, busy,
                   pending, snap, selected, selects, worker, outside, asked, done>>

(* The prompt's own loop takes WM_QUIT as its end and nobody posts another. *)
PromptTakesQuit ==
    /\ prompt /\ quit /\ boxes = 0
    /\ prompt' = FALSE /\ quit' = FALSE
    /\ UNCHANGED <<window, boxes, exited, tracker, shared, selected,
                   selects, worker, outside, asked, done>>

(* The outer loop ends and waits for the worker's thread.                   *)
Exit ==
    /\ ~prompt /\ quit /\ boxes = 0 /\ pc = "ended" /\ ~exited
    /\ exited' = TRUE
    /\ UNCHANGED <<window, prompt, boxes, quit, tracker, shared,
                   selected, selects, worker, outside, asked, done>>

-----------------------------------------------------------------------------
(* The worker (runtime in gui_btc.c).                                       *)

Post(messages) == posted' = posted \cup messages

StartCore ==
    /\ pc = "init"
    /\ \/ ready' = TRUE /\ pc' = "top" /\ Post({"UPDATED"})
       \/ /\ budget.interrupted
          /\ UNCHANGED ready /\ pc' = "ended" /\ Post({"UPDATED", "STOPPED"})
    /\ UNCHANGED <<loop, tracker, stopping, busy, pending, snap, selected,
                   selects, running, s, display, outside, asked, done>>

(* stnc_core_tick, which touches nothing of this: a failure ends the worker *)
(* (CoreRuntime has its insides).                                           *)
Tick ==
    \/ pc' = "identity"
    \/ budget.interrupted /\ pc' = "shutdown"

TakeRequest ==
    /\ pc = "top" /\ ~stopping
    /\ running' = pending /\ pending' = 0
    /\ IF pending = 0 THEN Tick ELSE pc' = "execute"
    /\ UNCHANGED <<loop, tracker, posted, stopping, ready, busy, snap, selected,
                   selects, s, display, outside, asked, done>>

(* stnc_client_execute: every operation makes the display cache invalid.    *)
Execute ==
    /\ pc = "execute"
    /\ display' = [display EXCEPT !.valid = FALSE]
    /\ done' = done \cup {running} /\ running' = 0
    /\ busy' = FALSE /\ Tick
    /\ UNCHANGED <<loop, tracker, posted, stopping, ready, pending, snap,
                   selected, selects, s, outside, asked>>

(* The read that follows once a second or after a request; the rounds of    *)
(* the loop without one change nothing here.                                *)
(* stnc_client_read: the identity is read each time, the wallet and the     *)
(* contracts only when the display cache does not serve any more.           *)
ReadIdentity ==
    /\ pc = "identity"
    /\ s' = [Blank EXCEPT !.id = selected]
    /\ pc' = "rest"
    /\ UNCHANGED <<loop, tracker, shared, selected, selects, running,
                   display, outside, asked, done>>

\* A cache that is served as long as it is of this identity.
RefreshForAnother == display.id # s.id

Refresh == ~display.valid \/ display.id # s.id

(* Chain answers with the list it has now, or does not and the list is      *)
(* empty; or the list has come and the connection is gone after it.         *)
ReadDisplay ==
    \E avail \in BOOLEAN, list \in ChainLists :
        /\ display' = [valid |-> TRUE, id |-> s.id, wallet |-> selected,
                       avail |-> avail, list |-> list]
        /\ changes' = IF <<avail, list>> = <<display.avail, display.list>>
                      THEN changes ELSE changes + 1
        /\ changes' <= budget.changes

ReadRest ==
    /\ pc = "rest"
    /\ IF Refresh THEN ReadDisplay ELSE UNCHANGED <<display, changes>>
    /\ s' = [id |-> s.id, wallet |-> display'.wallet,
             avail |-> display'.avail, list |-> display'.list]
    /\ pc' = "publish"
    /\ UNCHANGED <<loop, tracker, shared, selected, selects, running, budget,
                   asked, done>>

(* The identity's or the wallet's status cannot be read: nothing is         *)
(* published, and what the cache holds is cleared but not its name.         *)
ReadFails ==
    /\ budget.interrupted
    /\ \/ pc = "identity" /\ UNCHANGED display
       \/ /\ pc = "rest" /\ Refresh
          /\ display' = [NoDisplay EXCEPT !.valid = display.valid, !.id = display.id]
    /\ s' = Blank
    /\ pc' = "top" /\ Post({"UPDATED"})
    /\ UNCHANGED <<loop, tracker, stopping, ready, busy, pending, snap, selected,
                   selects, running, outside, asked, done>>

(* ui.snap = s under the lock: it has begun before this step.               *)
Publish ==
    /\ pc = "publish"
    /\ snap' = s /\ s' = Blank
    /\ pc' = "top" /\ Post({"UPDATED"})
    /\ UNCHANGED <<loop, tracker, stopping, ready, busy, pending, selected,
                   selects, running, display, outside, asked, done>>

(* The loop ended: Core is stopped and shut down, and the window is told.   *)
\* Without the message to the window.
EndWithoutTelling ==
    /\ pc = "shutdown" \/ (pc = "top" /\ stopping)
    /\ pc' = "ended"
    /\ UNCHANGED <<loop, tracker, shared, selected, selects, running, s,
                   display, outside, asked, done>>

End ==
    /\ pc = "shutdown" \/ (pc = "top" /\ stopping)
    /\ pc' = "ended" /\ Post({"STOPPED"})
    /\ UNCHANGED <<loop, tracker, stopping, ready, busy, pending, snap, selected,
                   selects, running, s, display, outside, asked, done>>

-----------------------------------------------------------------------------
(* Time: the display cache is ten seconds old; or Chain came or went.       *)
Expire ==
    /\ display.valid
    /\ display' = [display EXCEPT !.valid = FALSE]
    /\ UNCHANGED <<loop, tracker, shared, selected, selects, pc, running, s, outside,
                   asked, done>>

-----------------------------------------------------------------------------
WindowInit ==
    /\ window = TRUE /\ prompt = FALSE /\ boxes = 0
    /\ quit = FALSE /\ exited = FALSE
    /\ tracked = NoIdentity /\ seen = <<>> /\ seenReady = FALSE
    /\ at = 0 /\ arrived = FALSE /\ look = NoText
    /\ told = {} /\ missed = {} /\ again = FALSE
    /\ posted = {} /\ stopping = FALSE /\ ready = FALSE /\ busy = FALSE
    /\ pending = 0 /\ snap = Blank /\ selected = First
    /\ pc = "init" /\ running = 0 /\ s = Blank
    /\ display = NoDisplay
    /\ asked = 0 /\ done = {}
    /\ selects = 0 /\ changes = 0 /\ budget \in Budgets

User ==
    \/ QueueRequest \/ OpenPrompt \/ ClosePrompt \/ DismissBox \/ Close
    \/ \E p \in Identities : UseWallet(p)

Walk == VisitEntry \/ RecordEntry \/ EndWalk

Messages == Track \/ Walk \/ Stopped \/ PromptTakesQuit \/ Exit

Worker ==
    \/ StartCore \/ TakeRequest \/ Execute
    \/ ReadIdentity \/ ReadRest \/ ReadFails \/ Publish
    \/ End

WindowNext == User \/ Messages \/ Worker \/ Expire

WindowSpec == WindowInit /\ [][WindowNext]_windowVars

(* Every call of the worker returns, since its sockets time out; the window *)
(* dispatches what is posted and walks on; and ten seconds pass.  Nothing   *)
(* is asked of the user or of Chain.                                        *)
Fairness ==
    /\ WF_windowVars(Worker) /\ WF_windowVars(Expire)
    /\ WF_windowVars(Track) /\ WF_windowVars(Walk) /\ WF_windowVars(Stopped)
    /\ WF_windowVars(PromptTakesQuit) /\ WF_windowVars(Exit)

FairSpec == WindowSpec /\ Fairness

-----------------------------------------------------------------------------
Snapshots == [id : Identities \cup {NoIdentity}, wallet : Identities \cup {NoIdentity},
              avail : BOOLEAN, list : ChainLists]
Displays == [valid : BOOLEAN, id : Identities \cup {NoIdentity},
             wallet : Identities \cup {NoIdentity}, avail : BOOLEAN, list : ChainLists]

WindowTypeOK ==
    /\ {window, prompt, quit, exited, seenReady, arrived, again, stopping,
         ready, busy} \subseteq BOOLEAN
    /\ boxes \in 0..MaxBoxes /\ asked \in 0..MaxRequests
    /\ tracked \in Identities \cup {NoIdentity} /\ selected \in Identities
    /\ seen \in Seq(Texts) /\ Len(seen) <= SeenMax
    /\ at \in 0..(SeenMax + 1) /\ look \in Texts \cup {NoText}
    /\ told \subseteq Contracts /\ missed \subseteq Contracts
    /\ posted \subseteq {"UPDATED", "STOPPED"}
    /\ pending \in 0..MaxRequests /\ running \in 0..MaxRequests
    /\ done \subseteq Requests
    /\ snap \in Snapshots /\ s \in Snapshots /\ display \in Displays
    /\ pc \in {"init", "top", "execute", "identity", "rest", "publish",
               "shutdown", "ended"}
    /\ budget \in Budgets /\ selects \in 0..budget.selects /\ changes \in 0..budget.changes

(* While it follows one identity the tracker counts a contract as newly     *)
(* arrived once, whatever is published while it walks or while its message  *)
(* boxes run it again, with three exceptions that lie in the code: a        *)
(* contract it had no room to remember; one for which it recorded another   *)
(* text, because the worker replaced the entry between the look and the     *)
(* record (gui_windows.c:120 reads it for each, without the lock of         *)
(* gui_btc.c:34); and an entry it looked at while the worker was replacing  *)
(* it, which is nobody's contract.                                          *)
AnnouncedOnce == ~again

(* A request the window accepted is executed, and its buttons come back,   *)
(* unless the worker is told to end or ends: no request is overwritten by  *)
(* a later one and none is left behind.                                    *)
RequestsExecuted ==
    \A r \in Requests :
        (asked >= r) ~> (r \in done \/ stopping \/ pc = "ended")

(* So far, at any moment: an accepted request waits, runs or is done, and   *)
(* none waits or runs that was done before.                                 *)
RequestsAccounted ==
    /\ \A r \in 1..asked : r \in done \/ r = pending \/ r = running
    /\ \A r \in {pending, running} \ {0} : r \notin done

(* The window outlives Core: however the two threads come to their ends, it *)
(* is only destroyed when Core is shut down, and the program only returns   *)
(* when the window and its prompt are gone.                                 *)
WindowOutlivesCore ==
    /\ ~window => pc = "ended"
    /\ exited => ~window /\ ~prompt

(* Once the selection stays, and the worker runs and its reads do not fail *)
(* again and again, the published snapshot settles on it: identity and     *)
(* wallet of the one profile, though each was read separately and the      *)
(* wallet comes from a cache.  A cache with the identity of one profile    *)
(* and the wallet of another is served for as long as its identity is      *)
(* selected and it is not ten seconds old (stnc_client.c:25).              *)
SnapshotSettles ==
    \/ []<><<ReadFails>>_windowVars
    \/ <>[](\/ stopping \/ pc = "ended"
            \/ (snap.id = selected /\ snap.wallet = selected))

(* Closing the window while the worker runs ends the program, except when  *)
(* the name prompt's loop takes the message that would have ended it.      *)
QuitTaken == ~window /\ ~quit /\ ~exited

ClosingEnds == (stopping /\ pc # "ended") ~> (exited \/ QuitTaken)

(* The GUI test "closes cleanly": it posts WM_CLOSE and the process ends.   *)
ClosesCleanly == stopping ~> exited

=============================================================================
