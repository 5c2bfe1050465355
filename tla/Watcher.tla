------------------------------ MODULE Watcher ------------------------------
(***************************************************************************)
(* The watcher goroutine of the pipeline manager.  It keeps one active     *)
(* flag per repository, polls the active ones whenever its timer has       *)
(* fired, and starts the oldest pending run of a repository in which none  *)
(* is progressing.                                                         *)
(*                                                                         *)
(* The list and the update of advanceQueue are separate steps; the update  *)
(* carries the resource version of the list, so the API server refuses it  *)
(* if the run has changed in between.  A run is pending only once, so that *)
(* change is that it is no longer pending; an update refused for any other *)
(* reason (a changed label, say) is the fault "startOldest".               *)
(***************************************************************************)
EXTENDS TektonRuns, Sequences

CONSTANT
  NoRepo  \* no repository

ASSUME WatcherAssumption == NoRepo \notin Repos

VARIABLES
  queues,    \* Queues: which repositories are polled
  timer,     \* the watch timer: armed, fired (a tick waits), or stopped
  watchPc,   \* where the watcher is
  todo,      \* the active queues of this tick that are still to be advanced
  queue,     \* the queue whose update is under way
  oldestPR,  \* the run that update starts
  more       \* whether advanceQueue found other pending runs besides it

watchVars == <<queues, timer, watchPc, todo, queue, oldestPR, more>>

WatcherTypeOK ==
  /\ queues \in [Repos -> BOOLEAN]
  /\ timer \in {"armed", "fired", "stopped"}
  /\ watchPc \in {"select", "list", "update"}
  /\ todo \subseteq Repos
  /\ queue \in Repos \cup {NoRepo}
  /\ oldestPR \in Reqs \cup {NoReq}
  /\ more \in BOOLEAN
  /\ (watchPc = "update") => /\ queue \in todo
                             /\ oldestPR \in RunsOf(queue)

WatcherInit ==
  /\ queues = [q \in Repos |-> FALSE]
  /\ timer = "armed"
  /\ watchPc = "select"
  /\ todo = {}
  /\ queue = NoRepo
  /\ oldestPR = NoReq
  /\ more = FALSE

(* A restarted process begins with an empty map and a new timer.           *)
WatcherBoots ==
  /\ queues' = [q \in Repos |-> FALSE]
  /\ timer' = "armed"
  /\ watchPc' = "select"
  /\ todo' = {}
  /\ queue' = NoRepo
  /\ oldestPR' = NoReq
  /\ more' = FALSE

Active(qs) == {q \in Repos : qs[q]}

(* Mutant: the timer is not armed again. *)
RearmTimerNever == timer' = "stopped"

(* The end of an iteration of Run: a fresh timer if any queue is active;   *)
(* a tick that was already waiting in the old one is never received.       *)
RearmTimer == timer' = IF Active(queues') # {} THEN "armed" ELSE "stopped"

(* Mutant: a queue without remaining runs stays active. *)
QueueStaysActive(q, remaining) ==
  /\ todo' = todo \ {q}
  /\ queue' = NoRepo
  /\ oldestPR' = NoReq
  /\ more' = FALSE
  /\ UNCHANGED queues
  /\ IF todo = {q}
     THEN watchPc' = "select" /\ RearmTimer
     ELSE watchPc' = "list" /\ UNCHANGED timer

(* advanceQueue has returned for q: with 0 remaining the queue is made     *)
(* inactive.                                                               *)
QueueAdvanced(q, remaining) ==
  /\ queues' = [queues EXCEPT ![q] = remaining]
  /\ todo' = todo \ {q}
  /\ queue' = NoRepo
  /\ oldestPR' = NoReq
  /\ more' = FALSE
  /\ IF todo = {q}
     THEN watchPc' = "select" /\ RearmTimer
     ELSE watchPc' = "list" /\ UNCHANGED timer

(***************************************************************************)
(* Actions                                                                 *)
(***************************************************************************)
TimerFires ==
  /\ timer = "armed"
  /\ timer' = "fired"
  /\ UNCHANGED <<runVars, queues, watchPc, todo, queue, oldestPR, more>>

(* A repository arrives on the PendingRunRepos channel.                    *)
WatchRepo(q) ==
  /\ watchPc = "select"
  /\ queues' = [queues EXCEPT ![q] = TRUE]
  /\ RearmTimer
  /\ UNCHANGED <<runVars, watchPc, todo, queue, oldestPR, more>>

ReceiveTick ==
  /\ watchPc = "select"
  /\ timer = "fired"
  /\ timer' = "stopped"
  /\ todo' = Active(queues)
  /\ watchPc' = IF Active(queues) = {} THEN "select" ELSE "list"
  /\ UNCHANGED <<runVars, queues, queue, oldestPR, more>>

(* An error of the list returns 0 remaining runs.                          *)
ListQueue(q) ==
  /\ watchPc = "list"
  /\ q \in todo
  /\ UNCHANGED runVars
  /\ \/ /\ Progressing(q) # {} \/ Pending(q) = {}
        /\ QueueAdvanced(q, Pending(q) # {})
     \/ /\ Progressing(q) = {}
        /\ queue' = q
        /\ oldestPR' \in OldestPending(q)
        /\ more' = (Pending(q) # {oldestPR'})
        /\ watchPc' = "update"
        /\ UNCHANGED <<queues, timer, todo>>
     \/ /\ "listQueue" \in Faults
        /\ QueueAdvanced(q, FALSE)

(* Mutant: the update does not carry a resource version. *)
StartOldestUnversioned ==
  /\ watchPc = "update"
  /\ phase' = [phase EXCEPT ![oldestPR] = "progressing"]
  /\ UNCHANGED <<created, clock>>
  /\ QueueAdvanced(queue, more)

(* The update is refused if the run changed since the list.  Refused or    *)
(* not, the run no longer counts as remaining.                             *)
StartOldest ==
  /\ watchPc = "update"
  /\ \/ /\ phase[oldestPR] = "pending"
        /\ phase' = [phase EXCEPT ![oldestPR] = "progressing"]
     \/ /\ phase[oldestPR] # "pending" \/ "startOldest" \in Faults
        /\ UNCHANGED phase
  /\ UNCHANGED <<created, clock>>
  /\ QueueAdvanced(queue, more)

=============================================================================
